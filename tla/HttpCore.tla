------------------------------ MODULE HttpCore ------------------------------
(***************************************************************************)
(* runtime/httpserve: the life of a server, from ListenAndServe to the     *)
(* return of it.                                                           *)
(*                                                                         *)
(* ListenAndServe runs an errgroup of a goroutine per http.Server, the     *)
(* front end and the one for metrics if there is one, and of a coordinator *)
(* that waits for the run context and then calls Shutdown.  So may the     *)
(* application, at any time and from any goroutine, before ListenAndServe  *)
(* included.  External are net/http's servers: Shutdown of one closes its  *)
(* listener, for good and also if it is not listening yet, and waits for   *)
(* the requests in progress or the end of its context.                     *)
(***************************************************************************)
EXTENDS Naturals, FiniteSets

CONSTANTS HasMetrics,   \* TRUE: a metrics server is configured
          Callers,      \* the calls of Shutdown the application makes
          Requests      \* the requests of the front end

Http        == "http"
Metrics     == "metrics"
Coordinator == "coordinator"

Servers   == {Http} \cup (IF HasMetrics THEN {Metrics} ELSE {})
Group     == Servers \cup {Coordinator}
Shutdowns == Callers \cup {Coordinator}

VARIABLES
    main,       \* where ListenAndServe is
    runCtx,     \* the run context: "none" before ListenAndServe, "live", "done"
    runCancel,  \* c.runCancel is set
    group,      \* group[g]: the goroutine g of the errgroup
    listener,   \* listener[s]: the listener of server s
    once,       \* shutdownOnce: None, the call inside it, or Done
    closes,     \* how often shutdownCh has been closed; a second time panics
    down,       \* down[c]: where the Shutdown c is
    gaveUp,     \* the Shutdowns whose context ended before the requests did
    missed,     \* the Shutdown inside shutdownOnce found runCancel unset
    active      \* the requests in progress

vars == <<main, runCtx, runCancel, group, listener, once, closes, down, gaveUp, missed, active>>

Free == "free"   \* shutdownOnce has not been entered
Done == "done"   \* shutdownOnce has been left

(* The names above are no caller's.                                        *)
CallersApart == Callers \cap {Coordinator, Free, Done} = {}

Init ==
    /\ main = "idle"
    /\ runCtx = "none"
    /\ runCancel = FALSE
    /\ group = [g \in Group |-> "none"]
    /\ listener = [s \in Servers |-> "new"]
    /\ once = Free
    /\ closes = 0
    /\ down = [c \in Shutdowns |-> "idle"]
    /\ gaveUp = {}
    /\ missed = FALSE
    /\ active = {}

------------------------------------------------------------------------------
(* ListenAndServe.                                                         *)

MakeRunContext ==
    /\ main = "idle"
    /\ main' = "starting"
    /\ runCtx' = "live"
    /\ runCancel' = TRUE
    /\ UNCHANGED <<group, listener, once, closes, down, gaveUp, missed, active>>

(* Mutant: the coordinator is no member of the group.                      *)
StartGroup_WithoutCoordinator ==
    /\ main = "starting"
    /\ main' = "waiting"
    /\ group' = [g \in Group |-> IF g = Coordinator THEN "returned" ELSE "running"]
    /\ UNCHANGED <<runCtx, runCancel, listener, once, closes, down, gaveUp, missed, active>>

StartGroup ==
    /\ main = "starting"
    /\ main' = "waiting"
    /\ group' = [g \in Group |-> "running"]
    /\ UNCHANGED <<runCtx, runCancel, listener, once, closes, down, gaveUp, missed, active>>

(* The caller's context ends, and with it the one derived from it.         *)
ParentEnds ==
    /\ runCtx = "live"
    /\ runCtx' = "done"
    /\ UNCHANGED <<main, runCancel, group, listener, once, closes, down, gaveUp, missed, active>>

Listen(s) ==
    /\ group[s] = "running" /\ listener[s] = "new"
    /\ listener' = [listener EXCEPT ![s] = "open"]
    /\ UNCHANGED <<main, runCtx, runCancel, group, once, closes, down, gaveUp, missed, active>>

(* An error of a server, be it that its address is taken, ends the group's *)
(* context.                                                                *)
ServerFails(s) ==
    /\ group[s] = "running" /\ listener[s] \in {"new", "open"}
    /\ listener' = [listener EXCEPT ![s] = "closed"]
    /\ group' = [group EXCEPT ![s] = "returned"]
    /\ runCtx' = "done"
    /\ UNCHANGED <<main, runCancel, once, closes, down, gaveUp, missed, active>>

ServerCloses(s) ==
    /\ group[s] = "running" /\ listener[s] = "closed"
    /\ group' = [group EXCEPT ![s] = "returned"]
    /\ UNCHANGED <<main, runCtx, runCancel, listener, once, closes, down, gaveUp, missed, active>>

CoordinatorReturns ==
    /\ group[Coordinator] = "running" /\ down[Coordinator] = "returned"
    /\ group' = [group EXCEPT ![Coordinator] = "returned"]
    /\ UNCHANGED <<main, runCtx, runCancel, listener, once, closes, down, gaveUp, missed, active>>

(* g.Wait ends the group's context when it returns.                        *)
ListenAndServeReturns ==
    /\ main = "waiting" /\ \A g \in Group : group[g] = "returned"
    /\ main' = "returned"
    /\ runCtx' = "done"
    /\ UNCHANGED <<runCancel, group, listener, once, closes, down, gaveUp, missed, active>>

------------------------------------------------------------------------------
(* Shutdown.                                                               *)

DownGoto(c, label) == down' = [down EXCEPT ![c] = label]

(* The application calls Shutdown; the coordinator does when the run       *)
(* context is done.                                                        *)
ShutdownCalled(c) ==
    /\ down[c] = "idle"
    /\ c = Coordinator => group[c] = "running" /\ runCtx = "done"
    /\ DownGoto(c, "once")
    /\ UNCHANGED <<main, runCtx, runCancel, group, listener, once, closes, gaveUp, missed, active>>

(* What the unsynchronised read of runCancel finds: while ListenAndServe   *)
(* is between writing it and starting its goroutines, either value.        *)
CancelRead(c) ==
    IF c # Coordinator /\ main = "starting" THEN BOOLEAN ELSE {runCancel}

(* Mutant: each call of Shutdown does what one of them should.             *)
ShutdownOnce_Always(c) ==
    /\ down[c] = "once"
    /\ once' = c
    /\ missed' = ~runCancel
    /\ runCtx' = IF runCancel THEN "done" ELSE runCtx
    /\ DownGoto(c, "channel")
    /\ UNCHANGED <<main, runCancel, group, listener, closes, gaveUp, active>>

(* shutdownOnce.Do: one call runs it, another waits until it has been run. *)
ShutdownOnce(c) ==
    /\ down[c] = "once"
    /\ \/ /\ once = Free
          /\ once' = c
          /\ \E read \in CancelRead(c) : /\ missed' = ~read
                                       /\ runCtx' = IF read THEN "done" ELSE runCtx
          /\ DownGoto(c, "channel")
       \/ /\ once = Done
          /\ DownGoto(c, "metrics")
          /\ UNCHANGED <<once, missed, runCtx>>
    /\ UNCHANGED <<main, runCancel, group, listener, closes, gaveUp, active>>

CloseShutdownCh(c) ==
    /\ down[c] = "channel"
    /\ closes' = closes + 1
    /\ once' = Done
    /\ DownGoto(c, "metrics")
    /\ UNCHANGED <<main, runCtx, runCancel, group, listener, gaveUp, missed, active>>

ShutMetrics(c) ==
    /\ down[c] = "metrics"
    /\ listener' = [s \in Servers |-> IF s = Metrics THEN "closed" ELSE listener[s]]
    /\ DownGoto(c, "http")
    /\ UNCHANGED <<main, runCtx, runCancel, group, once, closes, gaveUp, missed, active>>

ShutHttp(c) ==
    /\ down[c] = "http"
    /\ listener' = [listener EXCEPT ![Http] = "closed"]
    /\ DownGoto(c, "draining")
    /\ UNCHANGED <<main, runCtx, runCancel, group, once, closes, gaveUp, missed, active>>

Drained(c) ==
    /\ down[c] = "draining" /\ active = {}
    /\ DownGoto(c, "returned")
    /\ UNCHANGED <<main, runCtx, runCancel, group, listener, once, closes, gaveUp, missed, active>>

(* The context of c ends: the application's, or ten seconds have passed.   *)
GivesUp(c) ==
    /\ down[c] = "draining"
    /\ DownGoto(c, "returned")
    /\ gaveUp' = gaveUp \cup {c}
    /\ UNCHANGED <<main, runCtx, runCancel, group, listener, once, closes, missed, active>>

------------------------------------------------------------------------------
RequestBegins(r) ==
    /\ listener[Http] = "open" /\ r \notin active
    /\ active' = active \cup {r}
    /\ UNCHANGED <<main, runCtx, runCancel, group, listener, once, closes, down, gaveUp, missed>>

RequestEnds(r) ==
    /\ r \in active
    /\ active' = active \ {r}
    /\ UNCHANGED <<main, runCtx, runCancel, group, listener, once, closes, down, gaveUp, missed>>

------------------------------------------------------------------------------
ShutdownSteps(c) ==
    \/ ShutdownOnce(c) \/ CloseShutdownCh(c) \/ ShutMetrics(c) \/ ShutHttp(c)
    \/ Drained(c)

(* What the goroutines do of themselves.                                   *)
Goroutines ==
    \/ StartGroup \/ CoordinatorReturns \/ ListenAndServeReturns
    \/ ShutdownCalled(Coordinator)
    \/ \E s \in Servers : ServerCloses(s)

Life ==
    \/ Goroutines \/ MakeRunContext \/ ParentEnds
    \/ \E s \in Servers : Listen(s) \/ ServerFails(s)
    \/ \E c \in Callers : ShutdownCalled(c)
    \/ \E c \in Shutdowns : ShutdownSteps(c) \/ GivesUp(c)

Next == Life \/ \E r \in Requests : RequestBegins(r) \/ RequestEnds(r)

Spec == Init /\ [][Next]_vars

------------------------------------------------------------------------------
(* When ListenAndServe returns the server is down as a whole, whatever     *)
(* brought it down: no server listens, those who wait for the shutdown     *)
(* channel have been told, once, the contexts of requests have ended, and  *)
(* no request is in progress unless the coordinator ran out of time.       *)
StopsWhole ==
    /\ closes <= 1
    /\ main = "returned" =>
          /\ \A s \in Servers : listener[s] = "closed"
          /\ closes = 1
          /\ runCtx = "done"
          /\ active # {} => Coordinator \in gaveUp

(* The end of the caller's context, a failing server and a Shutdown that   *)
(* comes after ListenAndServe has made the run context each end it.        *)
ServingEnds ==
    /\ main = "waiting" /\ runCtx = "done" ~> main = "returned"
    /\ closes = 1 /\ ~missed ~> main = "returned"
=============================================================================
