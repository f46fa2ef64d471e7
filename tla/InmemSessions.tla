---------------------------- MODULE InmemSessions ----------------------------
(***************************************************************************)
(* modules/sessions/inmem: the in-memory session manager.                  *)
(*                                                                         *)
(* One mutex guards the sessions and the watchers, so that an operation's  *)
(* critical section is one step.  The functions of the watchers are called *)
(* after the mutex has been released: between the removal of a session and *)
(* the call that reports it anything can happen, and in particular the     *)
(* watcher's context may be cancelled.                                     *)
(*                                                                         *)
(* A watch is one call of NotifyClosed, with its context and its function. *)
(***************************************************************************)
EXTENDS Naturals, FiniteSets

CONSTANTS Tokens,    \* what the token generator may return
          Users,     \* the user IDs
          Data,      \* the payloads of a session
          Watches,   \* the calls of NotifyClosed
          None       \* no session, no token

Records == [user : Users, data : Data]

ASSUME NoneAssumption == None \notin Records \cup Tokens

VARIABLES
    sessions,    \* m.sessions: the record of a token, None when there is none
    issued,      \* the tokens generated so far; one is never generated twice
    watchOf,     \* watchOf[w]: the token w watches, None before the call
    registered,  \* m.watchers: the watches registered
    due,         \* watches taken out of m.watchers whose function is still to be called
    ctxDone,     \* the watches whose context has been cancelled
    calls        \* calls[w]: how often the function of w has been called

vars == <<sessions, issued, watchOf, registered, due, ctxDone, calls>>

Init ==
    /\ sessions = [t \in Tokens |-> None]
    /\ issued = {}
    /\ watchOf = [w \in Watches |-> None]
    /\ registered = {}
    /\ due = {}
    /\ ctxDone = {}
    /\ calls = [w \in Watches |-> 0]

CreateSession(t, rec) ==
    /\ t \notin issued
    /\ issued' = issued \cup {t}
    /\ sessions' = [sessions EXCEPT ![t] = rec]
    /\ UNCHANGED <<watchOf, registered, due, ctxDone, calls>>

(* Mutant: the record is written whether or not the session still exists.  *)
SaveSession_Always(t, rec) ==
    /\ t \in issued
    /\ sessions' = [sessions EXCEPT ![t] = rec]
    /\ UNCHANGED <<issued, watchOf, registered, due, ctxDone, calls>>

(* A no-op on a session that does not exist.                               *)
SaveSession(t, rec) ==
    /\ sessions[t] # None
    /\ sessions' = [sessions EXCEPT ![t] = rec]
    /\ UNCHANGED <<issued, watchOf, registered, due, ctxDone, calls>>

------------------------------------------------------------------------------
(* Mutant: a missing session is not reported.                              *)
NotifyClosed_IgnoresMissing(w, t) ==
    /\ watchOf[w] = None
    /\ watchOf' = [watchOf EXCEPT ![w] = t]
    /\ registered' = registered \cup (IF w \in ctxDone THEN {} ELSE {w})
    /\ UNCHANGED <<sessions, issued, due, ctxDone, calls>>

NotifyClosed(w, t) ==
    /\ watchOf[w] = None
    /\ watchOf' = [watchOf EXCEPT ![w] = t]
    /\ \/ /\ sessions[t] = None
          /\ calls' = [calls EXCEPT ![w] = @ + 1]
          /\ UNCHANGED registered
       \/ /\ sessions[t] # None /\ w \notin ctxDone
          /\ registered' = registered \cup {w}
          /\ UNCHANGED calls
       \/ /\ sessions[t] # None /\ w \in ctxDone
          /\ UNCHANGED <<registered, calls>>
    /\ UNCHANGED <<sessions, issued, due, ctxDone>>

Cancel(w) ==
    /\ w \notin ctxDone
    /\ ctxDone' = ctxDone \cup {w}
    /\ UNCHANGED <<sessions, issued, watchOf, registered, due, calls>>

(* Mutant: the goroutine is not started.                                   *)
Forget_NotStarted(w) == FALSE /\ UNCHANGED vars

(* The goroutine of a watch removes it once its context is done.           *)
Forget(w) ==
    /\ w \in ctxDone \cap registered
    /\ registered' = registered \ {w}
    /\ UNCHANGED <<sessions, issued, watchOf, due, ctxDone, calls>>

------------------------------------------------------------------------------
(* Mutant: the watchers stay in the map, for the next CloseSession to find.*)
CloseTokens_KeepsWatchers(ts) ==
    /\ sessions' = [t \in Tokens |-> IF t \in ts THEN None ELSE sessions[t]]
    /\ due' = due \cup {w \in registered : watchOf[w] \in ts}
    /\ UNCHANGED <<issued, watchOf, registered, ctxDone, calls>>

(* What CloseSession and CloseAllUserSessions do under the mutex.          *)
CloseTokens(ts) ==
    LET watching == {w \in registered : watchOf[w] \in ts}
    IN  /\ sessions' = [t \in Tokens |-> IF t \in ts THEN None ELSE sessions[t]]
        /\ registered' = registered \ watching
        /\ due' = due \cup watching
        /\ UNCHANGED <<issued, watchOf, ctxDone, calls>>

CloseSession(t) == CloseTokens({t})

CloseAllUserSessions(u) ==
    CloseTokens({t \in Tokens : sessions[t] # None /\ sessions[t].user = u})

(* The mutex released, the closer goes through the watches it collected.   *)
Notify(w) ==
    /\ w \in due
    /\ due' = due \ {w}
    /\ calls' = IF w \in ctxDone THEN calls ELSE [calls EXCEPT ![w] = @ + 1]
    /\ UNCHANGED <<sessions, issued, watchOf, registered, ctxDone>>

------------------------------------------------------------------------------
Next ==
    \/ \E t \in Tokens : CloseSession(t)
    \/ \E t \in Tokens, rec \in Records : CreateSession(t, rec) \/ SaveSession(t, rec)
    \/ \E u \in Users : CloseAllUserSessions(u)
    \/ \E w \in Watches : Cancel(w) \/ Forget(w) \/ Notify(w)
    \/ \E w \in Watches, t \in issued : NotifyClosed(w, t)

Spec == Init /\ [][Next]_vars

(* The goroutines of the manager and of a closer inside the loop run on.   *)
Fairness == \A w \in Watches : WF_vars(Forget(w)) /\ WF_vars(Notify(w))

FairSpec == Spec /\ Fairness

------------------------------------------------------------------------------
TypeOK ==
    /\ sessions \in [Tokens -> Records \cup {None}]
    /\ issued \subseteq Tokens
    /\ watchOf \in [Watches -> Tokens \cup {None}]
    /\ registered \subseteq Watches
    /\ due \subseteq Watches
    /\ ctxDone \subseteq Watches
    /\ calls \in [Watches -> Nat]

Gone(t) == t \in issued /\ sessions[t] = None

(* The function of a watch closes a channel, so that a second call would   *)
(* crash the process; and it is called for a session that is gone only.    *)
CalledOnceForClosed ==
    \A w \in Watches : /\ calls[w] <= 1
                       /\ calls[w] = 1 => watchOf[w] # None /\ Gone(watchOf[w])

(* However CloseSession and NotifyClosed interleave, a session that goes   *)
(* away is reported, or about to be, to every watch that still cares.      *)
NothingMissed ==
    \A w \in Watches :
        watchOf[w] # None /\ Gone(watchOf[w]) =>
            w \in due \/ w \in ctxDone \/ calls[w] = 1

(* A closed session stays closed: no save or login brings its token back.  *)
ClosedIsFinal ==
    [][\A t \in Tokens : Gone(t) => sessions'[t] = None]_vars

(* A watch whose context is done does not stay in the map.                 *)
WatchesAreReleased ==
    \A w \in Watches : w \in ctxDone ~> w \notin registered

(* The manager implements SessionManager, and never brings a session back. *)
Abstract == INSTANCE SessionManager WITH
    Keys    <- Tokens,
    Revives <- FALSE,
    live    <- {t \in Tokens : sessions[t] # None},
    closed  <- {t \in Tokens : Gone(t)},
    watched <- watchOf,
    told    <- calls

ImplementsManager == Abstract!Spec
==============================================================================
