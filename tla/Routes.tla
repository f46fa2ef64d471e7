------------------------------- MODULE Routes -------------------------------
(***************************************************************************)
(* Routes as an application declares them, the patterns the generated      *)
(* server registers for them, and the router they are registered on.       *)
(*                                                                         *)
(* A route is the sequence of its segments: "/a/{x}" is <<"a", Var>>, a    *)
(* trailing slash adds an empty segment, and "/" is <<"">>.  A path is the *)
(* same with literals only.  The names of wildcards do not matter.         *)
(***************************************************************************)
EXTENDS Naturals, Sequences, FiniteSets

CONSTANTS Literals,   \* the literal segments of routes and paths
          Depth       \* the most segments of a path

Var  == "{}"      \* {name}: one segment
Rest == "{...}"   \* {name...}: all that follows
End  == "{$}"     \* the end of the path, after a slash

ASSUME RoutesAssumption ==
    /\ Depth \in Nat \ {0}
    /\ Literals \cap {"", Var, Rest, End} = {}

Root == <<"">>

------------------------------------------------------------------------------
(* net/http's ServeMux, external.  A pattern is a method and a route; one  *)
(* with a trailing slash matches everything below.                         *)

Paths == UNION {[1..n -> Literals] \cup {Append(p, "") : p \in [1..(n - 1) -> Literals]} :
                n \in 1..Depth}

IsPatternOfMux(route) ==
    \A i \in DOMAIN route : route[i] \in {Rest, End, ""} => i = Len(route)

Multi(route) == route[Len(route)] \in {Rest, ""}   \* takes all that follows

(* Segment t is no wider than segment s; some string is both.              *)
Admits(s, t) == s = t \/ (s = Var /\ t \notin {"", End, Rest})
Meet(s, t)   == Admits(s, t) \/ Admits(t, s)

(* Every path of route r is one of q.                                      *)
Within(r, q) ==
    IF Multi(q)
    THEN Len(r) >= Len(q) /\ \A i \in 1..(Len(q) - 1) : Admits(q[i], r[i])
    ELSE Len(r) = Len(q) /\ \A i \in DOMAIN q : Admits(q[i], r[i])

(* Some path is one of r and of q.                                         *)
Share(r, q) ==
    LET fixed(route) == IF Multi(route) THEN 1..(Len(route) - 1) ELSE DOMAIN route
    IN  /\ Multi(r) \/ Len(r) >= Len(q)
        /\ Multi(q) \/ Len(q) >= Len(r)
        /\ \A i \in fixed(r) \cap fixed(q) : Meet(r[i], q[i])

PathMatches(route, path) ==
    Within([i \in DOMAIN path |-> IF i = Len(path) /\ path[i] = "" THEN End ELSE path[i]],
           route)

(* Two patterns conflict if they share a path and neither is more specific.*)
Conflict(p, q) ==
    /\ p.method = q.method
    /\ Share(p.route, q.route)
    /\ Within(p.route, q.route) <=> Within(q.route, p.route)

Registrable(patterns, p) ==
    IsPatternOfMux(p.route) /\ \A q \in patterns : ~Conflict(p, q)

(* The pattern that serves a request: the most specific one that matches.  *)
NoPattern == [method |-> "", route |-> <<>>]

Served(patterns, method, path) ==
    LET matching == {p \in patterns : p.method = method /\ PathMatches(p.route, path)}
    IN  IF matching = {} THEN NoPattern
        ELSE CHOOSE p \in matching :
                \A q \in matching : Within(p.route, q.route)

(* A request whose path has no slash at its end is redirected to the one   *)
(* that has, if a pattern is for just that path and none for the first.    *)
(* Routed is the pattern that serves it then.                              *)
WithSlash(path) == IF path[Len(path)] = "" THEN path ELSE Append(path, "")

MatchesJust(p, path) ==
    p # NoPattern /\ (Multi(p.route) => path[Len(path)] = "" /\ Len(p.route) = Len(path))

Routed(patterns, method, path) ==
    LET found   == Served(patterns, method, path)
        slashed == Served(patterns, method, WithSlash(path))
    IN  IF ~MatchesJust(found, path) /\ MatchesJust(slashed, WithSlash(path))
        THEN slashed ELSE found

------------------------------------------------------------------------------
(* internal/routepattern.                                                  *)

EndsInWildcard(route) == route[Len(route)] = Rest

(* Without {$} and with a trailing slash.                                  *)
WithTrailingSlash(route) ==
    LET last == route[Len(route)]
    IN  CASE last = End -> [route EXCEPT ![Len(route)] = ""]
          [] last = ""  -> route
          [] OTHER      -> Append(route, "")

(* What setupHandlers appends to it: {$} or further segments.              *)
Slashed(route, segments) ==
    LET slashed == WithTrailingSlash(route)
    IN  SubSeq(slashed, 1, Len(slashed) - 1) \o segments

(* Where the stream of a page is, and that of its guests.                  *)
StreamPath(route)     == Slashed(route, <<"_$", End>>)
AnonStreamPath(route) == Slashed(route, <<"_$", "anon", End>>)

(* Mutant: the pattern of a page is not closed at its end.                 *)
PagePattern_Open(route) ==
    IF route = Root \/ EndsInWildcard(route) THEN route ELSE WithTrailingSlash(route)

(* The index page takes every path no other page has, for its 404.         *)
PagePattern(route) ==
    IF route = Root \/ EndsInWildcard(route) THEN route ELSE Slashed(route, <<End>>)

(* actionIsUnderPage: both routes cleaned of a trailing slash.             *)
Clean(route) ==
    IF route # Root /\ route[Len(route)] = ""
    THEN SubSeq(route, 1, Len(route) - 1) ELSE route

UnderPage(page, action) ==
    LET p == Clean(page)
        a == Clean(action)
    IN  p = Root \/ (Len(a) >= Len(p) /\ SubSeq(a, 1, Len(p)) = p)

(* ServeHTTP gives every path a slash at its end, those under the prefix   *)
(* of the static files excepted, if there is one.                          *)
Under(prefix, path) ==
    /\ prefix # <<>> /\ Len(path) >= Len(prefix)
    /\ \A i \in 1..(Len(prefix) - 1) : path[i] = prefix[i]

Normalised(path, prefix) == IF Under(prefix, path) THEN path ELSE WithSlash(path)
=============================================================================
