------------------------------- MODULE Parser -------------------------------
(***************************************************************************)
(* internal/parser and what becomes of its result: the passes of Parse     *)
(* over the declarations of an application, and the registration of the    *)
(* routes when the generated server starts.                                *)
(*                                                                         *)
(* An application is                                                       *)
(*   events     the event types in the order of their declaration,         *)
(*   types      the page types and the abstract ones pages embed, each with*)
(*              the types it embeds, in order, and its methods,            *)
(*   routeOf    the route of each page,                                    *)
(*   actions    the actions of App itself,                                 *)
(*   assets     the prefix static files are served under, if any.         *)
(* A method is known by its Go name: GET, a hook, the name of an action or *)
(* any other, which is an OnXXX method.  Methods map an action to its HTTP *)
(* method and route and an OnXXX method to the event it takes; two types   *)
(* may give one name different values.                                     *)
(* How the declarations are written, and the shape of signatures, is left  *)
(* out: applications are those whose single declarations are well-formed.  *)
(***************************************************************************)
EXTENDS Events, Routes

SE == INSTANCE SequencesExt   \* SetToSeq, FlattenSeq, IsInjective

InjectiveSeqs(S) == UNION {{s \in [1..n -> S] : SE!IsInjective(s)} : n \in 0..Cardinality(S)}

CONSTANTS Applications,  \* the declarations to parse
          Index,         \* PageIndex
          Suffixes,      \* the names of actions, each with what follows its HTTP method
          Values,        \* for the properties: what subject fields, users and signals may be
          MaxFields      \* the most subject fields of an event

ASSUME ApplicationsAssumption ==
    /\ \A a \in Applications : a.events \in Seq(EventType)
    /\ Values \subseteq STRING /\ MaxFields \in Nat

(* The pages are listed once each; what a type embeds is declared too.     *)
ASSUME DeclarationsAssumption == \A a \in Applications :
    /\ IsFiniteSet(DOMAIN a.types)
    /\ \A t \in DOMAIN a.types : a.types[t].embeds \in Seq(DOMAIN a.types)
    /\ a.pages \in Seq(DOMAIN a.routeOf) /\ SE!IsInjective(a.pages)
    /\ \A p \in DOMAIN a.routeOf :
          p \in DOMAIN a.types /\ \E i \in DOMAIN a.pages : a.pages[i] = p

(* The names of actions.                                                   *)
ActionNames == DOMAIN Suffixes

(* A route has a segment at least, and the index page is at "/".           *)
RouteType     == Seq(STRING) \ {<<>>}
ActionMethods == {"POST", "PUT", "PATCH", "DELETE"}
ActionType    == [method : ActionMethods, route : RouteType]

ASSUME RoutesDeclaredAssumption == \A a \in Applications :
    /\ \A p \in DOMAIN a.routeOf :
          a.routeOf[p] \in RouteType /\ (p = Index => a.routeOf[p] = Root)
    /\ a.actions \in Seq(ActionType)
    /\ \A t \in DOMAIN a.types :
          /\ IsFiniteSet(DOMAIN a.types[t].methods)
          /\ \A m \in DOMAIN a.types[t].methods \cap ActionNames :
                a.types[t].methods[m] \in ActionType

(* A prefix is of literals and ends in a slash; it is not "/".             *)
ASSUME AssetsAssumption == \A a \in Applications : a.assets = <<>> \/
    /\ a.assets \in Seq(STRING) /\ Len(a.assets) > 1
    /\ \A i \in 1..Len(a.assets) :
          IF i = Len(a.assets) THEN a.assets[i] = ""
          ELSE a.assets[i] \notin {"", Var, Rest, End}

Get         == "GET"
StreamOpen  == "StreamOpen"
StreamClose == "StreamClose"
Hooks       == {StreamOpen, StreamClose}

VARIABLES
    app,        \* the declarations
    phase,      \* the pass that runs
    unread,     \* of the pass: the events, pages or routes still to look at
    events,     \* app.Events: the events accepted, in order
    queue,      \* flattenPage: the abstract types still to look at
    visited,    \* flattenPage: those it has looked at
    owned,      \* owned[p]: the methods of page p, each with the type it is taken from
    patterns,   \* the patterns on the router
    errs        \* the errors reported

vars == <<app, phase, unread, events, queue, visited, owned, patterns, errs>>

Pages   == DOMAIN app.routeOf
Embeds(t)  == app.types[t].embeds
Methods(t) == DOMAIN app.types[t].methods

(* What flattenPage tells methods apart by: an OnXXX method by its event,  *)
(* whatever its name, and an action by its name without the HTTP method.   *)
Role(t, m) ==
    IF m \in ActionNames THEN <<"action", Suffixes[m]>>
    ELSE IF m \in Hooks \cup {Get} THEN <<"page", m>>
    ELSE <<"event", app.types[t].methods[m]>>

Init ==
    /\ app \in Applications
    /\ phase = "events"
    /\ unread = app.events
    /\ events = <<>>
    /\ queue = <<>>
    /\ visited = {}
    /\ owned = [p \in Pages |-> {p} \X Methods(p)]
    /\ patterns = {}
    /\ errs = {}

------------------------------------------------------------------------------
(* firstPassEventType for the next event type: refused if its subject is   *)
(* taken or overlaps one that is.                                          *)
ClaimEvent ==
    /\ phase = "events" /\ unread # <<>>
    /\ unread' = Tail(unread)
    /\ LET e == Head(unread)
           taken == \E i \in DOMAIN events : events[i].subject = e.subject
           overlapping == \E i \in DOMAIN events : Overlaps(e, events[i])
       IN  \/ /\ taken
              /\ errs' = errs \cup {"ErrEventSubjectDuplicate"}
              /\ UNCHANGED events
           \/ /\ ~taken /\ overlapping
              /\ errs' = errs \cup {"ErrEventSubjectOverlap"}
              /\ UNCHANGED events
           \/ /\ ~taken /\ ~overlapping
              /\ events' = Append(events, e)
              /\ UNCHANGED errs
    /\ UNCHANGED <<app, phase, queue, visited, owned, patterns>>

(* thirdPassMethods: an action declared on a page must lie under it.       *)
AttachMethods ==
    /\ phase = "events" /\ unread = <<>>
    /\ errs' = errs \cup
         {"ErrActionPathNotUnderPage" :
             p \in {p \in Pages : \E a \in Methods(p) \cap ActionNames :
                      ~UnderPage(app.routeOf[p], app.types[p].methods[a].route)}}
    /\ phase' = "flatten"
    /\ unread' = app.pages
    /\ queue' = IF app.pages = <<>> THEN <<>> ELSE Embeds(Head(app.pages))
    /\ UNCHANGED <<app, events, visited, owned, patterns>>

------------------------------------------------------------------------------
(* flattenPage takes the next abstract type from its queue.  Its methods   *)
(* go to the page unless the page has one of that role: an action that     *)
(* another type gave before is skipped, everything else is an error.  Of   *)
(* two actions of a type with one role the first declared is taken, which  *)
(* is left open here.                                                      *)

Page == Head(unread)

Plays(x, role) == Role(x[1], x[2]) = role

Missing(t) == {m \in Methods(t) : \A x \in owned[Page] : ~Plays(x, Role(t, m))}

Clashing(t) ==
    {m \in Methods(t) \ ActionNames :
        \E x \in owned[Page] : Plays(x, Role(t, m)) /\ x[1] \notin {Page, t}}

OneOfEachRole(t, ms) ==
    {c \in SUBSET ms : \A m \in ms : \E n \in c : \A k \in c :
        Role(t, k) = Role(t, m) <=> k = n}

(* Mutant: the embedded types of a type are looked at before its siblings. *)
FlattenNext_DepthFirst ==
    /\ phase = "flatten" /\ queue # <<>>
    /\ LET t == Head(queue)
       IN  IF t \in visited
           THEN /\ queue' = Tail(queue)
                /\ UNCHANGED <<visited, owned, errs>>
           ELSE /\ visited' = visited \cup {t}
                /\ queue' = Embeds(t) \o Tail(queue)
                /\ \E taken \in OneOfEachRole(t, Missing(t)) :
                      owned' = [owned EXCEPT ![Page] = @ \cup ({t} \X taken)]
                /\ errs' = errs \cup {"ErrConflictingEmbed" : m \in Clashing(t)}
    /\ UNCHANGED <<app, phase, unread, events, patterns>>

FlattenNext ==
    /\ phase = "flatten" /\ queue # <<>>
    /\ LET t == Head(queue)
       IN  IF t \in visited
           THEN /\ queue' = Tail(queue)
                /\ UNCHANGED <<visited, owned, errs>>
           ELSE /\ visited' = visited \cup {t}
                /\ queue' = Tail(queue) \o Embeds(t)
                /\ \E taken \in OneOfEachRole(t, Missing(t)) :
                      owned' = [owned EXCEPT ![Page] = @ \cup ({t} \X taken)]
                /\ errs' = errs \cup {"ErrConflictingEmbed" : m \in Clashing(t)}
    /\ UNCHANGED <<app, phase, unread, events, patterns>>

FlattenDone ==
    /\ phase = "flatten" /\ queue = <<>> /\ unread # <<>>
    /\ unread' = Tail(unread)
    /\ queue' = IF unread' = <<>> THEN <<>> ELSE Embeds(Head(unread'))
    /\ visited' = {}
    /\ UNCHANGED <<app, phase, events, owned, patterns, errs>>

------------------------------------------------------------------------------
HasMethod(p, m) == \E x \in owned[p] : x[2] = m

HasStream(p) == \E x \in owned[p] : x[2] \notin ActionNames \cup {Get}

EventsOf(p) == {i \in DOMAIN events :
                  \E x \in owned[p] : Plays(x, <<"event", events[i].name>>)}

HasAnonStream(p) ==
    /\ \E i \in EventsOf(p) : IsPrivate(events[i])
    /\ \E i \in EventsOf(p) : ~IsPrivate(events[i])

(* A page's actions, in some order.                                        *)
ActionsOf(p) ==
    LET taken == SE!SetToSeq({x \in owned[p] : x[2] \in ActionNames})
    IN  [i \in DOMAIN taken |-> app.types[taken[i][1]].methods[taken[i][2]]]

(* What validateRouteConflicts claims for a page, and all it claims.       *)
Claims(p) ==
    (IF HasMethod(p, Get) THEN <<[method |-> "GET", route |-> app.routeOf[p]]>> ELSE <<>>)
        \o ActionsOf(p)

AllClaims == SE!FlattenSeq([i \in DOMAIN app.pages |-> Claims(app.pages[i])]) \o app.actions

(* The passes between flattenPages and the routes.  The check of wildcards *)
(* against streams is made with the claims of a page.                      *)
RequireHandlers ==
    /\ phase = "flatten" /\ unread = <<>>
    /\ errs' = errs
         \cup {"ErrPageMissingGET" : p \in {p \in Pages : ~HasMethod(p, Get)}}
         \cup (IF Index \in Pages THEN {} ELSE {"ErrAppMissingPageIndex"})
         \cup {"ErrRouteWildcardStream" :
                 p \in {p \in Pages : EndsInWildcard(app.routeOf[p]) /\ HasStream(p)}}
    /\ phase' = "routes"
    /\ unread' = AllClaims
    /\ UNCHANGED <<app, events, queue, visited, owned, patterns>>

(* Mutant: each route is compared with the one before it only.             *)
ClaimRoute_LastOnly ==
    /\ phase = "routes" /\ unread # <<>>
    /\ unread' = Tail(unread)
    /\ patterns' = {Head(unread)}
    /\ errs' = IF Registrable(patterns, Head(unread)) THEN errs
               ELSE errs \cup {"ErrorRouteConflict"}
    /\ UNCHANGED <<app, phase, events, queue, visited, owned>>

(* A router that refuses a pattern does not keep it.                       *)
ClaimRoute ==
    /\ phase = "routes" /\ unread # <<>>
    /\ unread' = Tail(unread)
    /\ IF Registrable(patterns, Head(unread))
       THEN patterns' = patterns \cup {Head(unread)} /\ UNCHANGED errs
       ELSE errs' = errs \cup {"ErrorRouteConflict"} /\ UNCHANGED patterns
    /\ UNCHANGED <<app, phase, events, queue, visited, owned>>

ParseReturns ==
    /\ phase = "routes" /\ unread = <<>>
    /\ phase' = IF errs = {} THEN "accepted" ELSE "refused"
    /\ patterns' = {}
    /\ UNCHANGED <<app, unread, events, queue, visited, owned, errs>>

------------------------------------------------------------------------------
(* setupHandlers, which the generator wrote for the accepted application,  *)
(* when the server it is part of starts.                                   *)

PagePatterns(p) ==
    LET stream == IF HasStream(p)
                  THEN <<StreamPath(app.routeOf[p])>> \o
                       (IF HasAnonStream(p) THEN <<AnonStreamPath(app.routeOf[p])>> ELSE <<>>)
                  ELSE <<>>
        routes == <<PagePattern(app.routeOf[p])>> \o stream
    IN  [i \in DOMAIN routes |-> [method |-> "GET", route |-> routes[i]]]

ActionPattern(a) == [a EXCEPT !.route = Slashed(@, <<End>>)]

Registrations ==
    LET actions(p) == [i \in DOMAIN ActionsOf(p) |-> ActionPattern(ActionsOf(p)[i])]
    IN  SE!FlattenSeq([i \in DOMAIN app.pages |-> PagePatterns(app.pages[i])])
          \o [i \in DOMAIN app.actions |-> ActionPattern(app.actions[i])]
          \o SE!FlattenSeq([i \in DOMAIN app.pages |-> actions(app.pages[i])])

AssetsPattern == [method |-> "GET", route |-> app.assets]

(* Init registers the static files after these, if it is given any.  The   *)
(* router panics at the first pattern it refuses.                          *)
SetupHandlers ==
    /\ phase = "accepted"
    /\ \E assets \in {<<>>, <<AssetsPattern>>} :
         /\ app.assets = <<>> => assets = <<>>
         /\ LET all == Registrations \o assets
                refused == {i \in DOMAIN all :
                              ~Registrable({all[j] : j \in 1..(i - 1)}, all[i])}
            IN  /\ phase' = IF refused = {} THEN "serving" ELSE "panicked"
                /\ patterns' = {all[i] : i \in {i \in DOMAIN all :
                                   \A j \in refused : i < j}}
    /\ UNCHANGED <<app, unread, events, queue, visited, owned, errs>>

------------------------------------------------------------------------------
Next ==
    \/ ClaimEvent \/ AttachMethods
    \/ FlattenNext \/ FlattenDone \/ RequireHandlers
    \/ ClaimRoute \/ ParseReturns
    \/ SetupHandlers

Spec == Init /\ [][Next]_vars

------------------------------------------------------------------------------
(* What acceptance promises.                                               *)

(* The streams a page could have, whichever accepted events it handles:    *)
(* its handlers in any order, its user, its client's signals.              *)
Streams ==
    LET handlers == {[i \in DOMAIN p |-> events[p[i]]] : p \in InjectiveSeqs(DOMAIN events)}
        users == {u \in Values : IsToken(u)} \cup {Guest}
    IN  {s \in [handlers : handlers, user : users,
                signals : [Signals -> {v \in Values : IsToken(v)}]] :
            OpensFor(s.handlers, s.user)}

Dispatches ==
    {d \in Handled(events) \X UNION {[1..n -> Values] : n \in 0..MaxFields} :
        MayDispatch(d[1], d[2])}

Received(s, subject) ==
    {p \in SubscriptionOf(s.handlers, s.user, s.signals) : Matches(p, subject)}

(* The switch over all events, by which a publish is counted, takes each   *)
(* event for itself: the subjects an accepted event occupies are its own.  *)
CountedAsDispatched ==
    \A d \in Dispatches : FirstCase(events, SubjectOf(d[1], d[2])) = d[1]

(* Whatever order a page has its OnXXX methods in, an event that reaches   *)
(* its stream is taken by the case of that event and no other.             *)
HandledAsDispatched ==
    phase = "accepted" =>
        \A d \in Dispatches, s \in Streams :
            LET subject == SubjectOf(d[1], d[2])
            IN  Received(s, subject) # {} =>
                    TakenBy(s.handlers, s.user, subject) = d[1]

(* A stream is sent the events its page handles that are addressed to its  *)
(* user and carry its client's signals: these and no others.               *)
SentWhatConcernsIt ==
    phase = "accepted" =>
        \A d \in Dispatches, s \in Streams :
            Received(s, SubjectOf(d[1], d[2])) # {} <=>
                /\ d[1] \in Handled(s.handlers)
                /\ Concerns(d[1], d[2], s.user, s.signals)

(* No subject matches two patterns of one stream: over NATS, where each    *)
(* pattern is a subscription of its own, such an event would come twice.   *)
SentOnce ==
    phase = "accepted" =>
        \A d \in Dispatches, s \in Streams :
            Cardinality(Received(s, SubjectOf(d[1], d[2]))) <= 1

------------------------------------------------------------------------------
(* The abstract types page p embeds n levels down.                         *)
Level(p, n) ==
    LET level[k \in 0..n] ==
            IF k = 0 THEN {p}
            ELSE UNION {{Embeds(t)[i] : i \in DOMAIN Embeds(t)} : t \in level[k - 1]}
    IN  level[n]

Levels == 0..Cardinality(DOMAIN app.types)

(* The types Go looks for method m of page p in: those at the least depth  *)
(* that declare it.                                                        *)
Shallowest(p, m) ==
    LET depths == {n \in Levels : \E t \in Level(p, n) : m \in Methods(t)}
    IN  CHOOSE n \in depths : \A k \in depths : n <= k

Promoters(p, m) == {t \in Level(p, Shallowest(p, m)) : m \in Methods(t)}

(* An accepted page has a method for every role that it or a type it       *)
(* embeds declares one for.  The generated code calls it by its name, and  *)
(* what that reaches is what the generator has read: the type Go promotes  *)
(* the name from is the one it was taken from.  This leaves aside calls    *)
(* that do not compile, which the parser does not look for: those of an    *)
(* action that several types declare at the least depth, and of an OnXXX   *)
(* method whose name is declared there for another event.  And nothing but *)
(* actions is overridden by one embedded type in another.                  *)
TakenFromThePromoted ==
    phase = "accepted" =>
        \A p \in Pages : LET reach == UNION {Level(p, n) : n \in Levels}
                         IN
            /\ \A t \in reach : \A m \in Methods(t) :
                  \E x \in owned[p] : Plays(x, Role(t, m))
            /\ \A x \in owned[p], t \in reach :
                  Promoters(p, x[2]) = {t} /\ Plays(x, Role(t, x[2])) => x[1] = t
            /\ \A x \in owned[p], t \in reach : \A m \in Methods(t) \ ActionNames :
                  Plays(x, Role(t, m)) /\ x[1] # p => x[1] = t

(* What the router of the parser accepted as declared, that of the server  *)
(* accepts as registered: no two pages or actions are in each other's way. *)
(* What the parser does not claim may be: if the server does not start it  *)
(* is for the route of a stream or for that of the static files.  This is  *)
(* of routes of literals and {name}: one that ends in a slash, {$} or      *)
(* {name...} may match other paths when it is registered than when it is   *)
(* claimed.                                                                *)
DeclaredRoutesRegister ==
    phase \in {"serving", "panicked"} =>
        LET routes(actions) == {actions[i].route : i \in DOMAIN actions}
            declared == {app.routeOf[p] : p \in Pages \ {Index}} \cup routes(app.actions)
                            \cup UNION {routes(ActionsOf(p)) : p \in Pages}
            streams == UNION {{StreamPath(app.routeOf[p]), AnonStreamPath(app.routeOf[p])} :
                              p \in Pages}
            all == Registrations
            claimed == {i \in DOMAIN all : all[i].route \notin streams}
        IN  (\A route \in declared : route[Len(route)] \notin {"", End, Rest}) =>
                \A i, j \in claimed : i # j => ~Conflict(all[i], all[j])

(* The route of a page without what marks its end.                         *)
Opened(route) ==
    IF route \in {Root, <<End>>} \/ EndsInWildcard(route) THEN route ELSE Slashed(route, <<>>)

(* What the declared routes say of a request is what the server does: the  *)
(* page whose route matches the path best serves it, with or without a     *)
(* slash at its end; a path that is no page's own falls to the wildcard    *)
(* that matches it best with the slash, to the static files if it is under *)
(* their prefix, or to the index page, for its 404; and no stream or       *)
(* action stands in the way of a page.  A path under the prefix is given   *)
(* no slash: a page of that path is reached by the router's redirect.      *)
ReachesItsPage ==
    phase = "serving" =>
        LET declared == {[method |-> "GET", route |-> Opened(app.routeOf[p])] : p \in Pages}
                           \cup (patterns \cap {AssetsPattern})
            best(path) == LET exact == Served(declared, "GET", path)
                          IN  IF Multi(exact.route)
                              THEN Served(declared, "GET", WithSlash(path)) ELSE exact
            pattern(x) == IF x = AssetsPattern THEN x.route ELSE PagePattern(x.route)
        IN  \A path \in {p \in Paths : Len(p) < Depth /\ p[Len(p)] # ""} :
                "_$" \notin {path[i] : i \in DOMAIN path} =>
                    \A asked \in {path, WithSlash(path)} :
                        Routed(patterns, "GET", Normalised(asked, app.assets)).route =
                            pattern(best(path))
=============================================================================
