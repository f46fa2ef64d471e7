---------------------------- MODULE SessionManager ----------------------------
(***************************************************************************)
(* What a sessions.Manager promises to the server, wherever it keeps the   *)
(* sessions.                                                               *)
(*                                                                         *)
(* A session exists from its creation to its first close.  Whoever has     *)
(* asked to be told of its close is told once at most, at once or later,   *)
(* and only of a session that has been closed.  Whether a save may bring a *)
(* closed session back is the one thing the managers differ in.            *)
(***************************************************************************)
EXTENDS Naturals

CONSTANTS Keys,      \* the tokens under which sessions may be created
          Watches,   \* the calls of NotifyClosed
          Revives,   \* TRUE: saving a closed session brings it back
          None       \* no key

VARIABLES live,      \* the sessions there are
          closed,    \* those that have been closed, brought back or not
          watched,   \* watched[w]: the session w asks about, None before the call
          told       \* told[w]: how often the function of w has been called

vars == <<live, closed, watched, told>>

Init ==
    /\ live = {}
    /\ closed = {}
    /\ watched = [w \in Watches |-> None]
    /\ told = [w \in Watches |-> 0]

CreateSession(k) ==
    /\ k \notin live \cup closed
    /\ live' = live \cup {k}
    /\ UNCHANGED <<closed, watched, told>>

SaveSession(k) ==
    /\ Revives
    /\ k \in closed
    /\ live' = live \cup {k}
    /\ UNCHANGED <<closed, watched, told>>

(* One session or several of a user in one step.                           *)
Close(ks) ==
    /\ ks \subseteq live \cup closed
    /\ live' = live \ ks
    /\ closed' = closed \cup ks
    /\ UNCHANGED <<watched, told>>

Tell(w) == told[w] = 0 /\ told' = [told EXCEPT ![w] = 1]

(* A session that is gone may be reported in the call.                     *)
NotifyClosed(w, k) ==
    /\ watched[w] = None
    /\ k \in live \cup closed
    /\ watched' = [watched EXCEPT ![w] = k]
    /\ UNCHANGED told \/ (k \in closed \ live /\ Tell(w))
    /\ UNCHANGED <<live, closed>>

Notify(w) ==
    /\ watched[w] \in closed
    /\ Tell(w)
    /\ UNCHANGED <<live, closed, watched>>

Next ==
    \/ \E k \in Keys : CreateSession(k) \/ SaveSession(k)
    \/ \E ks \in SUBSET Keys : Close(ks)
    \/ \E w \in Watches : Notify(w) \/ \E k \in Keys : NotifyClosed(w, k)

Spec == Init /\ [][Next]_vars
===============================================================================
