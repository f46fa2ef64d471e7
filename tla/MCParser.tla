------------------------------ MODULE MCParser ------------------------------
(* Small applications, in families that each vary one part of the          *)
(* declarations.                                                           *)
EXTENDS Parser, TLC

ActionSuffixes == [POSTSave |-> "Save", PUTSave |-> "Save"]

Nothing == ""   \* what GET and the hooks are mapped to, which nothing reads

(* Methods by their names: GET and hooks, and the OnXXX of two events.     *)
Named(names) ==
    [m \in names |-> CASE m = "OnA" -> "A" [] m = "OnB" -> "B" [] OTHER -> Nothing]

Type(embeds, methods) == [embeds |-> embeds, methods |-> methods]

JustIndex == [PageIndex |-> Type(<<>>, Named({Get}))]

Application(evs, types, pages, routeOf, actions) ==
    [events |-> evs, types |-> types, pages |-> pages, routeOf |-> routeOf, actions |-> actions,
     assets |-> <<>>]

------------------------------------------------------------------------------
(* Two or three events on subjects below each other, with every mix of     *)
(* subject fields but that of a user and a signal.                         *)
SubjectsBelow == {<<"a">>, <<"b">>, <<"a", "b">>}
Fields == {<<>>, <<Plain>>, <<User>>, <<"room">>, <<User, Plain>>, <<"room", Plain>>}

Event(name, subject, fields) == [name |-> name, subject |-> subject, fields |-> fields]

EventPairs ==
    {<<Event("A", s1, f1), Event("B", s2, f2)>> :
        s1 \in SubjectsBelow, s2 \in SubjectsBelow, f1 \in Fields, f2 \in Fields}

EventTriples ==
    {<<Event("A", <<"a">>, f1), Event("B", <<"b">>, f2), Event("C", s, f3)>> :
        s \in {<<"a", "b">>, <<"b", "b">>}, f1 \in Fields, f2 \in {<<>>, <<User>>, <<"room">>},
        f3 \in {<<>>, <<Plain>>, <<User>>}}

EventApplications ==
    {Application(evs, JustIndex, <<Index>>, [p \in {Index} |-> Root], <<>>) :
        evs \in EventPairs \cup EventTriples}

(* EventRoomUpdate of the documentation: for a user, in a room, by signal.  *)
UserAndSignal ==
    {Application(<<Event("RoomUpdate", <<"a">>, <<User, Plain, "room">>)>>, JustIndex, <<Index>>,
                 [p \in {Index} |-> Root], <<>>)}

------------------------------------------------------------------------------
(* A page that embeds abstract types that embed each other.                *)
Save(route) == [method |-> "POST", route |-> route]

Embedding ==
    {[PageIndex |-> p, BaseA |-> a, BaseB |-> b, BaseC |-> <<>>] :
        p \in {<<"BaseA">>, <<"BaseB", "BaseA">>, <<"BaseA", "BaseC">>, <<"BaseC", "BaseB", "BaseA">>},
        a \in {<<>>, <<"BaseB">>, <<"BaseC", "BaseB">>},
        b \in {<<>>, <<"BaseC">>}}

Embedders == {"PageIndex", "BaseA", "BaseB", "BaseC"}

EmbeddingApplication(embeds, methods) ==
    Application(<<Event("A", <<"a">>, <<>>), Event("B", <<"b">>, <<>>)>>,
                [t \in Embedders |-> Type(embeds[t], methods[t])],
                <<Index>>, [p \in {Index} |-> Root], <<>>)

RouteIn == [PageIndex |-> <<"a">>, BaseA |-> <<"b">>, BaseB |-> <<"a", "b">>, BaseC |-> <<"b", "b">>]

(* Any of the types declare GET or a hook.                                 *)
OnceApplications ==
    {EmbeddingApplication(embeds,
        [t \in Embedders |-> Named((IF t \in declaring THEN {m} ELSE {})
                                      \cup (IF t = Index /\ m # Get THEN {Get} ELSE {}))]) :
        embeds \in Embedding, declaring \in SUBSET Embedders, m \in {Get, StreamOpen}}

(* Each type declares no handler, or one of either event by either name;   *)
(* the page, one of A by one name.                                         *)
HandlerMethods == {[m \in {} |-> ""], [OnA |-> "A"], [OnA |-> "B"], [OnB |-> "A"]}

HandlerApplications ==
    {EmbeddingApplication(embeds,
        [t \in Embedders |-> IF t = Index THEN methods[t] @@ Named({Get}) ELSE methods[t]]) :
        embeds \in Embedding,
        methods \in {f \in [Embedders -> HandlerMethods] :
                       f[Index] \in {[m \in {} |-> ""], [OnA |-> "A"]}}}

(* Each type declares any of two actions of the same name but for the HTTP *)
(* method; the page, one of them at most.                                  *)
ActionApplications ==
    {EmbeddingApplication(embeds,
        [t \in Embedders |->
            [m \in declared[t] |-> IF m = "POSTSave" THEN Save(RouteIn[t])
                                   ELSE [method |-> "PUT", route |-> RouteIn[t]]]
            @@ Named(IF t = Index THEN {Get} ELSE {})]) :
        embeds \in Embedding,
        declared \in {f \in [Embedders -> SUBSET ActionNames] : f[Index] \subseteq {"POSTSave"}}}

EmbeddingApplications == OnceApplications \cup HandlerApplications \cup ActionApplications

------------------------------------------------------------------------------
(* Two pages and the index, with streams, an action of a page and one of   *)
(* the application.                                                        *)
PageRoutes == {<<"a">>, <<Var>>, <<"a", "b">>, <<"a", Var>>, <<Var, "b">>, <<Var, Var>>,
               <<"a", "">>, <<"a", Rest>>, <<"a", Var, Rest>>, <<Var, End>>, <<End>>}

RouteApplication(r1, r2, m1, m2, actions1, actions2) ==
    Application(<<Event("A", <<"a">>, <<User>>), Event("B", <<"b">>, <<>>)>>,
        [PageIndex |-> Type(<<>>, Named({Get, StreamOpen})),
         PageOne   |-> Type(<<>>, Named({Get} \cup m1) @@ actions1),
         PageTwo   |-> Type(<<>>, Named({Get} \cup m2))],
        <<Index, "PageOne", "PageTwo">>,
        [PageIndex |-> Root, PageOne |-> r1, PageTwo |-> r2],
        actions2)

StreamsOf(route) == IF Len(route) = 1 THEN {{}, {"OnA", "OnB"}} ELSE {{}, {StreamOpen}}

RouteApplications ==
    UNION {{RouteApplication(r1, r2, m1, m2, a1, a2) :
              m1 \in StreamsOf(r1), m2 \in StreamsOf(r2),
              a1 \in {[m \in {} |-> Save(r1)], [POSTSave |-> Save(r1)],
                      [POSTSave |-> Save(<<"a", "b">>)]},
              a2 \in {<<>>, <<[method |-> "POST", route |-> <<"a">>]>>,
                      <<[method |-> "POST", route |-> <<"a", Var>>]>>,
                      <<[method |-> "POST", route |-> <<"a", Rest>>]>>}} :
           r1 \in PageRoutes, r2 \in PageRoutes}

(* Two pages and the index beside static files.                            *)
AssetsApplications ==
    {[RouteApplication(r1, r2, {}, {StreamOpen}, [m \in {} |-> ""], <<>>)
        EXCEPT !.assets = prefix] :
        r1 \in PageRoutes, r2 \in PageRoutes,
        prefix \in {<<"a", "">>, <<"b", "">>, <<"a", "b", "">>}}

AllApplications ==
    EventApplications \cup EmbeddingApplications \cup RouteApplications
        \cup AssetsApplications

------------------------------------------------------------------------------
(* The router's comparison of patterns is that of the paths they match.    *)
SmallRoutes ==
    LET segments == {"a", Var}
        bodies(n) == [1..n -> segments]
    IN  UNION {bodies(n) \cup {Append(r, last) : r \in bodies(n - 1), last \in {"", Rest, End}} :
               n \in 1..3}

Covered == [route \in SmallRoutes |-> {path \in Paths : PathMatches(route, path)}]

ASSUME \A r \in SmallRoutes, q \in SmallRoutes :
          /\ Share(r, q) <=> Covered[r] \cap Covered[q] # {}
          /\ Within(r, q) <=> Covered[r] \subseteq Covered[q]
==============================================================================
