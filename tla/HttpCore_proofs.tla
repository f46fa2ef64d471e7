--------------------------- MODULE HttpCore_proofs ---------------------------
(* Proofs about HttpCore: for any number of callers of Shutdown and of     *)
(* requests, with a metrics server or without.                             *)
EXTENDS HttpCore, TLAPS

TypeOK ==
    /\ main \in {"idle", "starting", "waiting", "returned"}
    /\ runCtx \in {"none", "live", "done"}
    /\ runCancel \in BOOLEAN
    /\ group \in [Group -> {"none", "running", "returned"}]
    /\ listener \in [Servers -> {"new", "open", "closed"}]
    /\ once \in Shutdowns \cup {Free, Done}
    /\ closes \in Nat
    /\ down \in [Shutdowns -> {"idle", "once", "channel", "metrics", "http", "draining", "returned"}]
    /\ gaveUp \in SUBSET Shutdowns
    /\ active \in SUBSET Requests

(* The channel is closed by the call inside shutdownOnce, and who is past  *)
(* it finds the channel closed.                                            *)
OnceInv ==
    /\ closes = IF once = Done THEN 1 ELSE 0
    /\ once \in Shutdowns => down[once] = "channel"
    /\ \A c \in Shutdowns :
          /\ down[c] = "channel" => once = c
          /\ down[c] \in {"metrics", "http", "draining", "returned"} => once = Done

(* Who waits for requests has closed the listener they come by, so that    *)
(* there will be no others.                                                *)
DrainInv ==
    \A c \in Shutdowns :
        /\ down[c] \in {"draining", "returned"} => listener[Http] = "closed"
        /\ down[c] = "returned" => active = {} \/ c \in gaveUp

(* What the return of a goroutine tells.                                   *)
GroupInv ==
    /\ main \in {"idle", "starting"} => \A g \in Group : group[g] = "none"
    /\ main = "returned" => runCtx = "done" /\ \A g \in Group : group[g] = "returned"
    /\ \A s \in Servers : group[s] = "returned" => listener[s] = "closed"
    /\ group[Coordinator] = "returned" => down[Coordinator] = "returned"

IInv == TypeOK /\ OnceInv /\ DrainInv /\ GroupInv

LEMMA InitIInv == ASSUME CallersApart, Init PROVE IInv
  BY DEF CallersApart, Init, IInv, TypeOK, OnceInv, DrainInv, GroupInv, Shutdowns, Group,
         Servers, Free, Done, Coordinator, Http, Metrics

LEMMA StepIInv ==
    ASSUME CallersApart, IInv, [Next]_vars
    PROVE  IInv'
<1>. USE DEF IInv, TypeOK, OnceInv, DrainInv, GroupInv
<1>0. /\ Free # Done /\ Free \notin Shutdowns /\ Done \notin Shutdowns
      /\ Coordinator \in Shutdowns /\ Callers \subseteq Shutdowns
      /\ Coordinator \in Group /\ Servers \subseteq Group /\ Coordinator \notin Servers
      /\ Http \in Servers /\ Http # Metrics
  BY DEF CallersApart, Shutdowns, Group, Servers, Free, Done, Coordinator, Http, Metrics
<1>1. CASE MakeRunContext
  BY <1>0, <1>1 DEF MakeRunContext
<1>2. CASE StartGroup
  BY <1>0, <1>2 DEF StartGroup
<1>3. CASE ParentEnds
  BY <1>0, <1>3 DEF ParentEnds
<1>4. ASSUME NEW s \in Servers, Listen(s) PROVE IInv'
  BY <1>0, <1>4 DEF Listen
<1>5. ASSUME NEW s \in Servers, ServerFails(s) PROVE IInv'
  BY <1>0, <1>5 DEF ServerFails
<1>6. ASSUME NEW s \in Servers, ServerCloses(s) PROVE IInv'
  BY <1>0, <1>6 DEF ServerCloses
<1>7. CASE CoordinatorReturns
  BY <1>0, <1>7 DEF CoordinatorReturns
<1>8. CASE ListenAndServeReturns
  BY <1>0, <1>8 DEF ListenAndServeReturns
<1>9. ASSUME NEW c \in Shutdowns, ShutdownCalled(c) PROVE IInv'
  BY <1>0, <1>9 DEF ShutdownCalled, DownGoto
<1>10. ASSUME NEW c \in Shutdowns, ShutdownOnce(c) PROVE IInv'
  <2>1. runCtx' \in {runCtx, "done"}
    BY <1>10 DEF ShutdownOnce
  <2>. QED  BY <1>0, <1>10, <2>1 DEF ShutdownOnce, DownGoto
<1>11. ASSUME NEW c \in Shutdowns, CloseShutdownCh(c) PROVE IInv'
  BY <1>0, <1>11 DEF CloseShutdownCh, DownGoto
<1>12. ASSUME NEW c \in Shutdowns, ShutMetrics(c) PROVE IInv'
  BY <1>0, <1>12 DEF ShutMetrics, DownGoto
<1>13. ASSUME NEW c \in Shutdowns, ShutHttp(c) PROVE IInv'
  BY <1>0, <1>13 DEF ShutHttp, DownGoto
<1>14. ASSUME NEW c \in Shutdowns, Drained(c) \/ GivesUp(c) PROVE IInv'
  BY <1>0, <1>14 DEF Drained, GivesUp, DownGoto
<1>15. ASSUME NEW r \in Requests, RequestBegins(r) \/ RequestEnds(r) PROVE IInv'
  BY <1>0, <1>15 DEF RequestBegins, RequestEnds
<1>16. CASE UNCHANGED vars
  BY <1>16 DEF vars
<1>. QED
  BY <1>0, <1>1, <1>2, <1>3, <1>4, <1>5, <1>6, <1>7, <1>8, <1>9, <1>10, <1>11, <1>12, <1>13,
     <1>14, <1>15, <1>16 DEF Next, Life, Goroutines, ShutdownSteps

LEMMA IInvStopsWhole == ASSUME CallersApart, IInv PROVE StopsWhole
  BY DEF IInv, TypeOK, OnceInv, DrainInv, GroupInv, StopsWhole, Group, Shutdowns, Servers

(* However many calls of Shutdown there are, from before ListenAndServe to *)
(* after its return, and whatever ends it: shutdownCh is closed once, and  *)
(* ListenAndServe returns only when the server is down as a whole.         *)
THEOREM StopsWholeHolds ==
    ASSUME CallersApart
    PROVE  Spec => []StopsWhole
<1>1. Init => IInv
  BY InitIInv
<1>2. IInv /\ [Next]_vars => IInv'
  BY StepIInv
<1>3. IInv => StopsWhole
  BY IInvStopsWhole
<1>. QED  BY <1>1, <1>2, <1>3, PTL DEF Spec
=============================================================================
