---------------------------- MODULE Stream_proofs ----------------------------
(* Proofs about Stream: for any streams, tokens, users, messages, subjects *)
(* and capacity, whether or not messages get lost and watches fail.        *)
EXTENDS Stream, TLAPS

------------------------------------------------------------------------------
(* The inductive invariant.                                                *)

(* Where the two goroutines of a stream are, what has become of its        *)
(* subscription, and who closes it: the handler, when StreamOpen fails, or *)
(* the watcher, when the stream has ended.                                 *)
PhaseInv(s) ==
    /\ pc[s] \in {"new", "admitted"} => state[s] = "none" /\ topics[s] = {}
    /\ pc[s] \in {"new", "admitted", "subscribed"} => s \notin head
    /\ pc[s] = "opening" => s \in head
    /\ pc[s] \in {"subscribed", "opening", "opened", "watching"} => state[s] = "open"
    /\ pc[s] = "failing" => state[s] = "closing"
    /\ pc[s] = "returned" => s \in ctxDone
    /\ pc[s] \in {"loop", "handling"} => wpc[s] # "none"
    /\ wpc[s] # "none" => pc[s] \in {"loop", "handling", "returned"}
    /\ wpc[s] = "select" => state[s] = "open"
    /\ wpc[s] = "closing" => state[s] = "closing"
    /\ wpc[s] \in {"closing", "hook", "done"} => Ended(s)

(* A session's user ID is a token of a subject, or there is no session.    *)
UserInv(s) ==
    /\ user[s] = Guest \/ IsToken(user[s])
    /\ user[s] # Guest => key[s] \in issued

(* Everything on its way to a handler was published to a subject the       *)
(* stream asked for, and it asked for those of its user.                   *)
Asked(s, m) == \E t \in topics[s] : Matches(t, SubjectOf[m])

OwnInv(s) ==
    /\ topics[s] \in {{}, EvSubj(user[s])}
    /\ \A m \in Msgs : <<m, s>> \in owed => Asked(s, m)
    /\ \A i \in DOMAIN buffer[s] : Asked(s, buffer[s][i])
    /\ current[s] # None => Asked(s, current[s])

StreamInv == \A s \in Streams : PhaseInv(s) /\ UserInv(s) /\ OwnInv(s)

IInv == TypeOK /\ StreamInv

LEMMA InitIInv == ASSUME Init PROVE IInv
<1>. USE MsgsAssumption DEF Init
<1>1. TypeOK
  <2>1. <<>> \in Seq(Msgs) /\ Len(<<>>) = 0
    OBVIOUS
  <2>2. SM!TypeOK
    BY DEF SM!Init, SM!TypeOK
  <2>3. buffer \in [Streams -> Seq(Msgs)] /\ \A s \in Streams : Len(buffer[s]) <= Capacity
    BY <2>1 DEF B!Init
  <2>4. /\ topics \in [Streams -> {EvSubj(u) : u \in Users \cup {Guest}} \cup {{}}]
        /\ state \in [Streams -> {"none", "open", "closing", "closed"}]
        /\ owed \subseteq Msgs \X Streams
    BY DEF B!Init
  <2>. QED  BY <2>2, <2>3, <2>4 DEF TypeOK
<1>2. ASSUME NEW s \in Streams PROVE PhaseInv(s) /\ UserInv(s) /\ OwnInv(s)
  BY DEF B!Init, SM!Init, PhaseInv, UserInv, OwnInv
<1>. QED  BY <1>1, <1>2 DEF IInv, StreamInv

------------------------------------------------------------------------------
(* What a step may do to a buffer.                                         *)
LEMMA AppendLemma ==
    ASSUME NEW q \in Seq(Msgs), NEW m \in Msgs
    PROVE  /\ Append(q, m) \in Seq(Msgs)
           /\ Len(Append(q, m)) = Len(q) + 1
           /\ \A i \in DOMAIN Append(q, m) :
                 Append(q, m)[i] = m \/ (i \in DOMAIN q /\ Append(q, m)[i] = q[i])
  OBVIOUS

LEMMA TailLemma ==
    ASSUME NEW q \in Seq(Msgs), q # <<>>
    PROVE  /\ Head(q) \in Msgs /\ Head(q) = q[1] /\ 1 \in DOMAIN q
           /\ Tail(q) \in Seq(Msgs)
           /\ Len(Tail(q)) <= Len(q) /\ Len(q) \in Nat
           /\ \A i \in DOMAIN Tail(q) : i + 1 \in DOMAIN q /\ Tail(q)[i] = q[i + 1]
  OBVIOUS

(* The manager's steps keep its types.                                     *)
LEMMA ManagerTypes ==
    ASSUME SM!TypeOK, NEW s \in Streams,
           \/ \E t \in Tokens : SM!NotifyClosed(s, t)
           \/ SM!Notify(s)
           \/ \E t \in Tokens, rec \in SM!Records : SM!CreateSession(t, rec)
           \/ \E t \in Tokens : SM!CloseSession(t)
    PROVE  SM!TypeOK'
<1>. USE DEF SM!TypeOK
<1>1. ASSUME NEW t \in Tokens, SM!NotifyClosed(s, t) PROVE SM!TypeOK'
  <2>1. calls' \in [Streams -> Nat]
    BY <1>1 DEF SM!NotifyClosed
  <2>. QED  BY <1>1, <2>1 DEF SM!NotifyClosed
<1>2. CASE SM!Notify(s)
  <2>1. calls' \in [Streams -> Nat]
    BY <1>2 DEF SM!Notify
  <2>. QED  BY <1>2, <2>1 DEF SM!Notify
<1>3. ASSUME NEW t \in Tokens, NEW rec \in SM!Records, SM!CreateSession(t, rec) PROVE SM!TypeOK'
  BY <1>3 DEF SM!CreateSession
<1>4. ASSUME NEW t \in Tokens, SM!CloseSession(t) PROVE SM!TypeOK'
  BY <1>4 DEF SM!CloseSession, SM!CloseTokens
<1>. QED  BY <1>1, <1>2, <1>3, <1>4

------------------------------------------------------------------------------
(* One lemma for each group of steps.                                      *)

LEMMA HandlerStep ==
    ASSUME IInv, NEW s \in Streams,
           SubscribeFails(s)
           \/ SendHead(s)
           \/ StreamOpen(s)
           \/ StreamOpenFails(s)
           \/ Abandon(s)
           \/ WatchSession(s)
           \/ WatchSessionFails(s)
           \/ StartWatcher(s)
           \/ Subscribe(s)
           \/ NextMessage(s)
           \/ Handled(s)
           \/ LoopEnds(s)
    PROVE  IInv'
<1>. USE MsgsAssumption DEF IInv, StreamInv, vars, broker, manager, handler
<1>1. CASE SubscribeFails(s)
  <2>1. TypeOK'
    BY <1>1 DEF SubscribeFails, Return, Goto, TypeOK, SM!TypeOK
  <2>2. ASSUME NEW o \in Streams PROVE PhaseInv(o)'
    BY <1>1 DEF SubscribeFails, Return, Goto, TypeOK, SM!TypeOK, PhaseInv, Ended
  <2>3. ASSUME NEW o \in Streams PROVE UserInv(o)'
    BY <1>1 DEF SubscribeFails, Return, Goto, TypeOK, SM!TypeOK, UserInv
  <2>4. ASSUME NEW o \in Streams PROVE OwnInv(o)'
    BY <1>1 DEF SubscribeFails, Return, Goto, TypeOK, OwnInv, Asked
  <2>. QED  BY <2>1, <2>2, <2>3, <2>4
<1>2. CASE SendHead(s)
  <2>1. TypeOK'
    BY <1>2 DEF SendHead, Goto, TypeOK, SM!TypeOK
  <2>2. ASSUME NEW o \in Streams PROVE PhaseInv(o)'
    BY <1>2 DEF SendHead, Goto, TypeOK, SM!TypeOK, PhaseInv, Ended
  <2>3. ASSUME NEW o \in Streams PROVE UserInv(o)'
    BY <1>2 DEF SendHead, Goto, TypeOK, SM!TypeOK, UserInv
  <2>4. ASSUME NEW o \in Streams PROVE OwnInv(o)'
    BY <1>2 DEF SendHead, Goto, TypeOK, OwnInv, Asked
  <2>. QED  BY <2>1, <2>2, <2>3, <2>4
<1>3. CASE StreamOpen(s)
  <2>1. TypeOK'
    BY <1>3 DEF StreamOpen, Goto, TypeOK, SM!TypeOK, PhaseInv
  <2>2. ASSUME NEW o \in Streams PROVE PhaseInv(o)'
    BY <1>3 DEF StreamOpen, Goto, TypeOK, SM!TypeOK, PhaseInv, Ended
  <2>3. ASSUME NEW o \in Streams PROVE UserInv(o)'
    BY <1>3 DEF StreamOpen, Goto, TypeOK, SM!TypeOK, UserInv
  <2>4. ASSUME NEW o \in Streams PROVE OwnInv(o)'
    BY <1>3 DEF StreamOpen, Goto, TypeOK, OwnInv, Asked
  <2>. QED  BY <2>1, <2>2, <2>3, <2>4
<1>4. CASE StreamOpenFails(s)
  <2>1. TypeOK'
    BY <1>4 DEF StreamOpenFails, Goto, B!CloseBegin, TypeOK, SM!TypeOK
  <2>2. ASSUME NEW o \in Streams PROVE PhaseInv(o)'
    BY <1>4 DEF StreamOpenFails, Goto, B!CloseBegin, TypeOK, SM!TypeOK, PhaseInv, Ended
  <2>3. ASSUME NEW o \in Streams PROVE UserInv(o)'
    BY <1>4 DEF StreamOpenFails, Goto, B!CloseBegin, TypeOK, SM!TypeOK, UserInv
  <2>4. ASSUME NEW o \in Streams PROVE OwnInv(o)'
    BY <1>4 DEF StreamOpenFails, Goto, B!CloseBegin, TypeOK, OwnInv, Asked
  <2>. QED  BY <2>1, <2>2, <2>3, <2>4
<1>5. CASE Abandon(s)
  <2>1. TypeOK'
    BY <1>5 DEF Abandon, Return, Goto, B!CloseEnd, TypeOK, SM!TypeOK
  <2>2. ASSUME NEW o \in Streams PROVE PhaseInv(o)'
    BY <1>5 DEF Abandon, Return, Goto, B!CloseEnd, TypeOK, SM!TypeOK, PhaseInv, Ended
  <2>3. ASSUME NEW o \in Streams PROVE UserInv(o)'
    BY <1>5 DEF Abandon, Return, Goto, B!CloseEnd, TypeOK, SM!TypeOK, UserInv
  <2>4. ASSUME NEW o \in Streams PROVE OwnInv(o)'
    BY <1>5 DEF Abandon, Return, Goto, B!CloseEnd, TypeOK, OwnInv, Asked
  <2>. QED  BY <2>1, <2>2, <2>3, <2>4
<1>6. CASE WatchSession(s)
  <2>1. TypeOK'
    <3>1. SM!TypeOK'
      <4>1. CASE user[s] = Guest
        BY <1>6, <4>1 DEF WatchSession, TypeOK, SM!TypeOK
      <4>2. CASE user[s] # Guest
        BY <1>6, <4>2, ManagerTypes DEF WatchSession, TypeOK, SM!TypeOK, UserInv
      <4>. QED  BY <4>1, <4>2
    <3>. QED  BY <1>6, <3>1 DEF WatchSession, Goto, TypeOK
  <2>2. ASSUME NEW o \in Streams PROVE PhaseInv(o)'
    BY <1>6 DEF WatchSession, Goto, SM!NotifyClosed, TypeOK, SM!TypeOK, PhaseInv, Ended
  <2>3. ASSUME NEW o \in Streams PROVE UserInv(o)'
    BY <1>6 DEF WatchSession, Goto, SM!NotifyClosed, TypeOK, SM!TypeOK, UserInv
  <2>4. ASSUME NEW o \in Streams PROVE OwnInv(o)'
    BY <1>6 DEF WatchSession, Goto, SM!NotifyClosed, TypeOK, OwnInv, Asked
  <2>. QED  BY <2>1, <2>2, <2>3, <2>4
<1>7. CASE WatchSessionFails(s)
  <2>1. TypeOK'
    BY <1>7 DEF WatchSessionFails, Return, Goto, TypeOK, SM!TypeOK
  <2>2. ASSUME NEW o \in Streams PROVE PhaseInv(o)'
    BY <1>7 DEF WatchSessionFails, Return, Goto, TypeOK, SM!TypeOK, PhaseInv, Ended
  <2>3. ASSUME NEW o \in Streams PROVE UserInv(o)'
    BY <1>7 DEF WatchSessionFails, Return, Goto, TypeOK, SM!TypeOK, UserInv
  <2>4. ASSUME NEW o \in Streams PROVE OwnInv(o)'
    BY <1>7 DEF WatchSessionFails, Return, Goto, TypeOK, OwnInv, Asked
  <2>. QED  BY <2>1, <2>2, <2>3, <2>4
<1>8. CASE StartWatcher(s)
  <2>1. TypeOK'
    BY <1>8 DEF StartWatcher, Goto, WatcherGoto, TypeOK, SM!TypeOK
  <2>2. ASSUME NEW o \in Streams PROVE PhaseInv(o)'
    BY <1>8 DEF StartWatcher, Goto, WatcherGoto, TypeOK, SM!TypeOK, PhaseInv, Ended
  <2>3. ASSUME NEW o \in Streams PROVE UserInv(o)'
    BY <1>8 DEF StartWatcher, Goto, WatcherGoto, TypeOK, SM!TypeOK, UserInv
  <2>4. ASSUME NEW o \in Streams PROVE OwnInv(o)'
    BY <1>8 DEF StartWatcher, Goto, WatcherGoto, TypeOK, OwnInv, Asked
  <2>. QED  BY <2>1, <2>2, <2>3, <2>4
<1>9. CASE Subscribe(s)
  <2>1. TypeOK'
    BY <1>9 DEF Subscribe, Goto, B!Subscribe, TypeOK, SM!TypeOK
  <2>2. ASSUME NEW o \in Streams PROVE PhaseInv(o)'
    BY <1>9 DEF Subscribe, Goto, B!Subscribe, TypeOK, SM!TypeOK, PhaseInv, Ended
  <2>3. ASSUME NEW o \in Streams PROVE UserInv(o)'
    BY <1>9 DEF Subscribe, Goto, B!Subscribe, TypeOK, SM!TypeOK, UserInv
  <2>4. ASSUME NEW o \in Streams PROVE OwnInv(o)'
    BY <1>9 DEF Subscribe, Goto, B!Subscribe, TypeOK, OwnInv, Asked
  <2>. QED  BY <2>1, <2>2, <2>3, <2>4
<1>10. CASE NextMessage(s)
  <2>. DEFINE q == buffer[s]
  <2>0. q \in Seq(Msgs) /\ q # <<>> /\ buffer' = [buffer EXCEPT ![s] = Tail(q)]
    BY <1>10 DEF NextMessage, Goto, B!Receive, TypeOK
  <2>5. Head(q) \in Msgs /\ Head(q) = q[1] /\ 1 \in DOMAIN q /\ Tail(q) \in Seq(Msgs)
    BY <2>0, TailLemma
  <2>1. TypeOK'
    <3>1. \A o \in Streams : Len(buffer'[o]) <= Capacity
      BY <2>0, TailLemma DEF TypeOK
    <3>2. buffer' \in [Streams -> Seq(Msgs)] /\ current' \in [Streams -> Msgs \cup {None}]
      BY <1>10, <2>0, <2>5 DEF NextMessage, TypeOK
    <3>3. SM!TypeOK'
      BY <1>10 DEF NextMessage, TypeOK, SM!TypeOK
    <3>. QED  BY <1>10, <3>1, <3>2, <3>3 DEF NextMessage, Goto, B!Receive, TypeOK
  <2>2. ASSUME NEW o \in Streams PROVE PhaseInv(o)'
    BY <1>10 DEF NextMessage, Goto, B!Receive, TypeOK, SM!TypeOK, PhaseInv, Ended
  <2>3. ASSUME NEW o \in Streams PROVE UserInv(o)'
    BY <1>10 DEF NextMessage, Goto, B!Receive, TypeOK, SM!TypeOK, UserInv
  <2>4. ASSUME NEW o \in Streams PROVE OwnInv(o)'
    <3>1. CASE o = s
      <4>1. \A i \in DOMAIN buffer'[s] : Asked(s, buffer'[s][i])
        BY <2>0, TailLemma DEF OwnInv, TypeOK
      <4>2. Asked(s, current'[s])
        BY <1>10, <2>0, <2>5 DEF NextMessage, OwnInv, TypeOK
      <4>. QED  BY <1>10, <3>1, <4>1, <4>2 DEF NextMessage, B!Receive, OwnInv, Asked
    <3>2. CASE o # s
      BY <1>10, <2>0, <3>2 DEF NextMessage, B!Receive, OwnInv, Asked, TypeOK
    <3>. QED  BY <3>1, <3>2
  <2>. QED  BY <2>1, <2>2, <2>3, <2>4
<1>11. CASE Handled(s)
  <2>1. TypeOK'
    BY <1>11 DEF Handled, Goto, TypeOK, SM!TypeOK
  <2>2. ASSUME NEW o \in Streams PROVE PhaseInv(o)'
    BY <1>11 DEF Handled, Goto, TypeOK, SM!TypeOK, PhaseInv, Ended
  <2>3. ASSUME NEW o \in Streams PROVE UserInv(o)'
    BY <1>11 DEF Handled, Goto, TypeOK, SM!TypeOK, UserInv
  <2>4. ASSUME NEW o \in Streams PROVE OwnInv(o)'
    BY <1>11 DEF Handled, Goto, TypeOK, OwnInv, Asked
  <2>. QED  BY <2>1, <2>2, <2>3, <2>4
<1>12. CASE LoopEnds(s)
  <2>1. TypeOK'
    BY <1>12 DEF LoopEnds, Return, Goto, TypeOK, SM!TypeOK
  <2>2. ASSUME NEW o \in Streams PROVE PhaseInv(o)'
    BY <1>12 DEF LoopEnds, Return, Goto, TypeOK, SM!TypeOK, PhaseInv, Ended
  <2>3. ASSUME NEW o \in Streams PROVE UserInv(o)'
    BY <1>12 DEF LoopEnds, Return, Goto, TypeOK, SM!TypeOK, UserInv
  <2>4. ASSUME NEW o \in Streams PROVE OwnInv(o)'
    BY <1>12 DEF LoopEnds, Return, Goto, TypeOK, OwnInv, Asked
  <2>. QED  BY <2>1, <2>2, <2>3, <2>4
<1>. QED  BY <1>1, <1>2, <1>3, <1>4, <1>5, <1>6, <1>7, <1>8, <1>9, <1>10, <1>11, <1>12

LEMMA WatcherStep ==
    ASSUME IInv, NEW s \in Streams,
           WatcherWakes(s)
           \/ WatcherCloses(s)
           \/ StreamClose(s)
    PROVE  IInv'
<1>. USE MsgsAssumption DEF IInv, StreamInv, vars, broker, manager, handler
<1>1. CASE WatcherWakes(s)
  <2>1. TypeOK'
    BY <1>1 DEF WatcherWakes, WatcherGoto, B!CloseBegin, TypeOK, SM!TypeOK
  <2>2. ASSUME NEW o \in Streams PROVE PhaseInv(o)'
    BY <1>1 DEF WatcherWakes, WatcherGoto, B!CloseBegin, TypeOK, SM!TypeOK, PhaseInv, Ended
  <2>3. ASSUME NEW o \in Streams PROVE UserInv(o)'
    BY <1>1 DEF WatcherWakes, WatcherGoto, B!CloseBegin, TypeOK, SM!TypeOK, UserInv
  <2>4. ASSUME NEW o \in Streams PROVE OwnInv(o)'
    BY <1>1 DEF WatcherWakes, WatcherGoto, B!CloseBegin, TypeOK, OwnInv, Asked
  <2>. QED  BY <2>1, <2>2, <2>3, <2>4
<1>2. CASE WatcherCloses(s)
  <2>1. TypeOK'
    BY <1>2 DEF WatcherCloses, WatcherGoto, B!CloseEnd, TypeOK, SM!TypeOK
  <2>2. ASSUME NEW o \in Streams PROVE PhaseInv(o)'
    BY <1>2 DEF WatcherCloses, WatcherGoto, B!CloseEnd, TypeOK, SM!TypeOK, PhaseInv, Ended
  <2>3. ASSUME NEW o \in Streams PROVE UserInv(o)'
    BY <1>2 DEF WatcherCloses, WatcherGoto, B!CloseEnd, TypeOK, SM!TypeOK, UserInv
  <2>4. ASSUME NEW o \in Streams PROVE OwnInv(o)'
    BY <1>2 DEF WatcherCloses, WatcherGoto, B!CloseEnd, TypeOK, OwnInv, Asked
  <2>. QED  BY <2>1, <2>2, <2>3, <2>4
<1>3. CASE StreamClose(s)
  <2>1. TypeOK'
    BY <1>3 DEF StreamClose, WatcherGoto, TypeOK, SM!TypeOK
  <2>2. ASSUME NEW o \in Streams PROVE PhaseInv(o)'
    BY <1>3 DEF StreamClose, WatcherGoto, TypeOK, SM!TypeOK, PhaseInv, Ended
  <2>3. ASSUME NEW o \in Streams PROVE UserInv(o)'
    BY <1>3 DEF StreamClose, WatcherGoto, TypeOK, SM!TypeOK, UserInv
  <2>4. ASSUME NEW o \in Streams PROVE OwnInv(o)'
    BY <1>3 DEF StreamClose, WatcherGoto, TypeOK, OwnInv, Asked
  <2>. QED  BY <2>1, <2>2, <2>3, <2>4
<1>. QED  BY <1>1, <1>2, <1>3

LEMMA AroundStep ==
    ASSUME IInv, NEW s \in Streams,
           RequestRefused(s) \/ Watch(s) \/ ClientLeaves(s)
    PROVE  IInv'
<1>. USE MsgsAssumption DEF IInv, StreamInv, vars, broker, manager, handler
<1>1. CASE RequestRefused(s)
  <2>1. TypeOK'
    BY <1>1 DEF RequestRefused, Return, Goto, TypeOK, SM!TypeOK
  <2>2. ASSUME NEW o \in Streams PROVE PhaseInv(o)'
    BY <1>1 DEF RequestRefused, Return, Goto, TypeOK, SM!TypeOK, PhaseInv, Ended
  <2>3. ASSUME NEW o \in Streams PROVE UserInv(o)'
    BY <1>1 DEF RequestRefused, Return, Goto, TypeOK, SM!TypeOK, UserInv
  <2>4. ASSUME NEW o \in Streams PROVE OwnInv(o)'
    BY <1>1 DEF RequestRefused, Return, Goto, TypeOK, OwnInv, Asked
  <2>. QED  BY <2>1, <2>2, <2>3, <2>4
<1>2. CASE Watch(s) /\ SM!Notify(s)
  <2>1. TypeOK'
    BY <1>2, ManagerTypes DEF Watch, TypeOK
  <2>2. ASSUME NEW o \in Streams PROVE PhaseInv(o)'
    BY <1>2 DEF Watch, SM!Notify, TypeOK, SM!TypeOK, PhaseInv, Ended
  <2>3. ASSUME NEW o \in Streams PROVE UserInv(o)'
    BY <1>2 DEF Watch, SM!Notify, TypeOK, SM!TypeOK, UserInv
  <2>4. ASSUME NEW o \in Streams PROVE OwnInv(o)'
    BY <1>2 DEF Watch, SM!Notify, TypeOK, OwnInv, Asked
  <2>. QED  BY <2>1, <2>2, <2>3, <2>4
<1>3. CASE Watch(s) /\ SM!Forget(s)
  <2>1. TypeOK'
    BY <1>3 DEF Watch, SM!Forget, TypeOK, SM!TypeOK
  <2>2. ASSUME NEW o \in Streams PROVE PhaseInv(o)'
    BY <1>3 DEF Watch, SM!Forget, TypeOK, SM!TypeOK, PhaseInv, Ended
  <2>3. ASSUME NEW o \in Streams PROVE UserInv(o)'
    BY <1>3 DEF Watch, SM!Forget, TypeOK, SM!TypeOK, UserInv
  <2>4. ASSUME NEW o \in Streams PROVE OwnInv(o)'
    BY <1>3 DEF Watch, SM!Forget, TypeOK, OwnInv, Asked
  <2>. QED  BY <2>1, <2>2, <2>3, <2>4
<1>4. CASE ClientLeaves(s)
  <2>1. TypeOK'
    BY <1>4 DEF ClientLeaves, SM!Cancel, TypeOK, SM!TypeOK
  <2>2. ASSUME NEW o \in Streams PROVE PhaseInv(o)'
    BY <1>4 DEF ClientLeaves, SM!Cancel, TypeOK, SM!TypeOK, PhaseInv, Ended
  <2>3. ASSUME NEW o \in Streams PROVE UserInv(o)'
    BY <1>4 DEF ClientLeaves, SM!Cancel, TypeOK, SM!TypeOK, UserInv
  <2>4. ASSUME NEW o \in Streams PROVE OwnInv(o)'
    BY <1>4 DEF ClientLeaves, SM!Cancel, TypeOK, OwnInv, Asked
  <2>. QED  BY <2>1, <2>2, <2>3, <2>4
<1>. QED  BY <1>1, <1>2, <1>3, <1>4 DEF Watch

LEMMA ShutdownStep == ASSUME IInv, Shutdown PROVE IInv'
<1>. USE DEF IInv, StreamInv, broker, manager, handler, Shutdown
<1>1. TypeOK'
  BY DEF TypeOK, SM!TypeOK
<1>2. ASSUME NEW s \in Streams PROVE PhaseInv(s)' /\ UserInv(s)' /\ OwnInv(s)'
  BY DEF PhaseInv, Ended, UserInv, OwnInv, Asked
<1>. QED  BY <1>1, <1>2

LEMMA RequestStep ==
    ASSUME IInv, NEW s \in Streams, NEW route \in {"user", "anon"},
           NEW t \in issued \cup {None}, Request(s, route, t)
    PROVE  IInv'
<1>. USE MsgsAssumption DEF IInv, StreamInv, vars, broker, manager, handler
<1>1. \/ /\ Return(s)
         /\ UNCHANGED <<user, key, sessions, issued, watchOf, registered, due, calls>>
      \/ \E u \in Users \cup {Guest} :
            /\ u = Guest \/ (IsToken(u) /\ t \in issued)
            /\ Goto(s, "admitted")
            /\ user' = [user EXCEPT ![s] = u]
            /\ key' = [key EXCEPT ![s] = IF u = Guest THEN None ELSE t]
            /\ UNCHANGED manager
  <2>1. SessionUser(t) \in Users \cup {Guest} /\ (SessionUser(t) # Guest => t \in issued)
    BY DEF SessionUser, TypeOK, SM!TypeOK, SM!Records
  <2>. QED
    BY <2>1 DEF Request, Admitted, UserRouteAdmits, AnonRouteAdmits
<1>2. pc[s] = "new" /\ UNCHANGED <<broker, wpc, current, head, opened, shutdown>>
  BY DEF Request
<1>3. CASE Return(s) /\ UNCHANGED <<user, key, sessions, issued, watchOf, registered, due, calls>>
  <2>1. TypeOK'
    BY <1>2, <1>3 DEF Return, Goto, TypeOK, SM!TypeOK
  <2>2. ASSUME NEW o \in Streams PROVE PhaseInv(o)'
    BY <1>2, <1>3 DEF Return, Goto, TypeOK, SM!TypeOK, PhaseInv, Ended
  <2>3. ASSUME NEW o \in Streams PROVE UserInv(o)' /\ OwnInv(o)'
    BY <1>2, <1>3 DEF UserInv, OwnInv, Asked
  <2>. QED  BY <2>1, <2>2, <2>3
<1>4. ASSUME NEW u \in Users \cup {Guest},
             u = Guest \/ (IsToken(u) /\ t \in issued),
             Goto(s, "admitted"),
             user' = [user EXCEPT ![s] = u],
             key' = [key EXCEPT ![s] = IF u = Guest THEN None ELSE t],
             UNCHANGED manager
      PROVE  IInv'
  <2>1. TypeOK'
    BY <1>2, <1>4 DEF Goto, TypeOK, SM!TypeOK
  <2>2. ASSUME NEW o \in Streams PROVE PhaseInv(o)'
    BY <1>2, <1>4 DEF Goto, TypeOK, SM!TypeOK, PhaseInv, Ended
  <2>3. ASSUME NEW o \in Streams PROVE UserInv(o)'
    BY <1>2, <1>4 DEF UserInv, TypeOK
  <2>4. ASSUME NEW o \in Streams PROVE OwnInv(o)'
    BY <1>2, <1>4 DEF PhaseInv, OwnInv, Asked, TypeOK
  <2>. QED  BY <2>1, <2>2, <2>3, <2>4
<1>. QED  BY <1>1, <1>3, <1>4

LEMMA SessionsStep ==
    ASSUME IInv, NEW t \in Tokens, Sessions(t)
    PROVE  IInv'
<1>. USE MsgsAssumption DEF IInv, StreamInv, vars, broker, manager, handler
<1>1. issued \subseteq issued' /\ UNCHANGED <<watchOf, ctxDone, calls>>
      /\ UNCHANGED <<broker, handler, wpc, shutdown>>
  BY DEF Sessions, SM!CreateSession, SM!CloseSession, SM!CloseTokens
<1>2. SM!TypeOK'
  <2>1. ASSUME NEW rec \in SM!Records, SM!CreateSession(t, rec) PROVE SM!TypeOK'
    BY <2>1 DEF SM!CreateSession, TypeOK, SM!TypeOK
  <2>2. CASE SM!CloseSession(t)
    BY <2>2 DEF SM!CloseSession, SM!CloseTokens, TypeOK, SM!TypeOK
  <2>. QED  BY <2>1, <2>2 DEF Sessions
<1>3. TypeOK'
  BY <1>1, <1>2 DEF TypeOK
<1>4. ASSUME NEW o \in Streams PROVE PhaseInv(o)' /\ UserInv(o)' /\ OwnInv(o)'
  BY <1>1 DEF PhaseInv, Ended, UserInv, OwnInv, Asked
<1>. QED  BY <1>3, <1>4

(* The broker's rules for subjects are those of Subjects.                  *)
LEMMA SameMatches ==
    ASSUME NEW pattern, NEW subject
    PROVE  B!Matches(pattern, subject) = Matches(pattern, subject)
  BY DEF B!Matches, Matches, B!IsPattern, IsPattern, B!AnySuffix, AnySuffix,
         B!AnyToken, AnyToken

LEMMA DispatchStep ==
    ASSUME IInv, NEW m \in Msgs, Dispatch(m)
    PROVE  IInv'
<1>. USE MsgsAssumption DEF IInv, StreamInv, vars, broker, manager, handler
<1>1. PICK reached \in SUBSET B!Receivers(m) : owed' = owed \cup {<<m, s>> : s \in reached}
  BY DEF Dispatch, B!Publish
<1>2. UNCHANGED <<topics, state, buffer, manager, handler, wpc, shutdown>>
  BY DEF Dispatch, B!Publish
<1>3. reached \subseteq Streams /\ \A s \in reached : Asked(s, m)
  BY <1>1, SameMatches DEF B!Receivers, Asked
<1>4. TypeOK'
  <2>1. owed' \subseteq Msgs \X Streams
    BY <1>1, <1>3 DEF TypeOK
  <2>. QED  BY <1>2, <2>1 DEF TypeOK, SM!TypeOK
<1>5. ASSUME NEW o \in Streams PROVE PhaseInv(o)' /\ UserInv(o)'
  BY <1>2 DEF PhaseInv, Ended, UserInv
<1>6. ASSUME NEW o \in Streams PROVE OwnInv(o)'
  <2>1. ASSUME NEW n \in Msgs, <<n, o>> \in owed' PROVE Asked(o, n)
    BY <1>1, <1>3, <2>1 DEF OwnInv
  <2>. QED  BY <1>2, <2>1 DEF OwnInv, Asked
<1>. QED  BY <1>4, <1>5, <1>6

LEMMA DeliverStep ==
    ASSUME IInv, NEW m \in Msgs, NEW s \in Streams, Deliver(m, s)
    PROVE  IInv'
<1>. USE MsgsAssumption DEF IInv, StreamInv, vars, broker, manager, handler
<1>1. /\ <<m, s>> \in owed /\ owed' = owed \ {<<m, s>>}
      /\ UNCHANGED <<topics, state, manager, handler, wpc, shutdown>>
  BY DEF Deliver, B!Offer, B!Lose
<1>2. \/ UNCHANGED buffer
      \/ Len(buffer[s]) < Capacity /\ buffer' = [buffer EXCEPT ![s] = Append(buffer[s], m)]
  BY DEF Deliver, B!Offer, B!Lose
<1>3. buffer[s] \in Seq(Msgs) /\ Asked(s, m)
  BY <1>1 DEF TypeOK, OwnInv
<1>4. /\ buffer' \in [Streams -> Seq(Msgs)]
      /\ \A o \in Streams : Len(buffer'[o]) <= Capacity
  <2>1. CASE UNCHANGED buffer
    BY <2>1 DEF TypeOK
  <2>2. CASE Len(buffer[s]) < Capacity /\ buffer' = [buffer EXCEPT ![s] = Append(buffer[s], m)]
    <3>1. Append(buffer[s], m) \in Seq(Msgs) /\ Len(Append(buffer[s], m)) <= Capacity
      <4>1. Len(buffer[s]) \in Nat
        BY <1>3
      <4>. QED  BY <1>3, <2>2, <4>1, AppendLemma
    <3>. QED  BY <2>2, <3>1 DEF TypeOK
  <2>. QED  BY <1>2, <2>1, <2>2
<1>5. TypeOK'
  BY <1>1, <1>4 DEF TypeOK, SM!TypeOK
<1>6. ASSUME NEW o \in Streams PROVE PhaseInv(o)' /\ UserInv(o)'
  BY <1>1 DEF PhaseInv, Ended, UserInv
<1>7. ASSUME NEW o \in Streams PROVE OwnInv(o)'
  <2>1. \A i \in DOMAIN buffer'[o] : Asked(o, buffer'[o][i])
    <3>1. CASE o = s /\ buffer' = [buffer EXCEPT ![s] = Append(buffer[s], m)]
      <4>1. buffer'[o] = Append(buffer[s], m) /\ \A i \in DOMAIN buffer[s] : Asked(s, buffer[s][i])
        BY <3>1 DEF OwnInv, TypeOK
      <4>. QED  BY <1>3, <3>1, <4>1, AppendLemma
    <3>2. CASE buffer'[o] = buffer[o]
      BY <3>2 DEF OwnInv
    <3>. QED  BY <1>2, <3>1, <3>2 DEF TypeOK
  <2>. QED  BY <1>1, <2>1 DEF OwnInv, Asked
<1>. QED  BY <1>5, <1>6, <1>7

LEMMA StepIInv == ASSUME IInv, [Next]_vars PROVE IInv'
<1>1. CASE UNCHANGED vars
  BY <1>1 DEF vars, broker, manager, handler, IInv, StreamInv, TypeOK, SM!TypeOK, PhaseInv,
              Ended, UserInv, OwnInv, Asked
<1>2. ASSUME NEW s \in Streams, Handler(s) PROVE IInv'
  BY <1>2, HandlerStep DEF Handler
<1>3. ASSUME NEW s \in Streams, Watcher(s) PROVE IInv'
  BY <1>3, WatcherStep DEF Watcher
<1>4. ASSUME NEW s \in Streams, RequestRefused(s) \/ Watch(s) \/ ClientLeaves(s) PROVE IInv'
  BY <1>4, AroundStep
<1>5. CASE Shutdown
  BY <1>5, ShutdownStep
<1>. QED
  BY <1>1, <1>2, <1>3, <1>4, <1>5, RequestStep, SessionsStep, DispatchStep, DeliverStep DEF Next

LEMMA Invariance == Spec => []IInv
<1>. QED  BY InitIInv, StepIInv, PTL DEF Spec

------------------------------------------------------------------------------
(* The variables stay in their types; no buffer exceeds its capacity.      *)
THEOREM TypeCorrect == Spec => []TypeOK
<1>1. IInv => TypeOK
  BY DEF IInv
<1>. QED  BY <1>1, Invariance, PTL

(* A client that has read the response head may dispatch: the stream       *)
(* misses nothing from then on, until something ends it.                   *)
THEOREM SubscribedSinceHeadHolds == Spec => []SubscribedSinceHead
<1>1. IInv => SubscribedSinceHead
  BY DEF IInv, StreamInv, TypeOK, PhaseInv, Ended, SubscribedSinceHead
<1>. QED  BY <1>1, Invariance, PTL

(* No subject a stream may ask for has a wildcard in it, so that it        *)
(* matches itself only.                                                    *)
LEMMA EvSubjExact ==
    ASSUME NEW u, u = Guest \/ IsToken(u), NEW t \in EvSubj(u), NEW subject,
           Matches(t, subject)
    PROVE  subject = t
<1>1. t = Broadcast \/ (u # Guest /\ t = Notice(u))
  BY DEF EvSubj
<1>2. ~IsPattern(t)
  <2>1. CASE t = Broadcast
    BY <2>1 DEF IsPattern, Broadcast, AnyToken, AnySuffix
  <2>2. CASE u # Guest /\ t = Notice(u)
    <3>1. DOMAIN t = {1, 2} /\ t[1] = "notice" /\ t[2] = u
      BY <2>2 DEF Notice
    <3>2. u # AnyToken /\ u # AnySuffix
      BY <2>2 DEF IsToken
    <3>. QED  BY <3>1, <3>2 DEF IsPattern, AnyToken, AnySuffix
  <2>. QED  BY <1>1, <2>1, <2>2
<1>. QED  BY <1>2 DEF Matches

(* What is addressed to one user reaches nobody else: neither the buffer   *)
(* of another stream nor its handler, whatever IDs the sessions name.      *)
THEOREM AddressedOnlyHolds == Spec => []AddressedOnly
<1>1. ASSUME IInv PROVE AddressedOnly
  <2>. SUFFICES ASSUME NEW s \in Streams, NEW m \in Msgs,
                       current[s] = m \/ \E i \in DOMAIN buffer[s] : buffer[s][i] = m
                PROVE  SubjectOf[m] \in {Broadcast} \cup {Notice(u) : u \in {user[s]} \ {Guest}}
    BY DEF AddressedOnly
  <2>1. Asked(s, m)
    BY <1>1, MsgsAssumption DEF IInv, StreamInv, OwnInv
  <2>2. PICK t \in EvSubj(user[s]) : Matches(t, SubjectOf[m])
    BY <1>1, <2>1 DEF IInv, StreamInv, OwnInv, Asked
  <2>3. SubjectOf[m] = t
    BY <1>1, <2>2, EvSubjExact DEF IInv, StreamInv, UserInv
  <2>. QED  BY <2>3 DEF EvSubj
<1>. QED  BY <1>1, Invariance, PTL

------------------------------------------------------------------------------
(* A stream uses the two modules it is composed of as they may be used:    *)
(* each of its steps is a step of theirs or leaves them alone.             *)
LEMMA BrokerStep == ASSUME IInv, [Next]_vars PROVE [B!Next]_(B!vars)
<1>. USE DEF B!Next, B!vars, broker
<1>1. ASSUME NEW s \in Streams, Handler(s) PROVE [B!Next]_(B!vars)
  <2>1. CASE Subscribe(s)
    <3>1. EvSubj(user[s]) \in {EvSubj(u) : u \in Users \cup {Guest}}
      BY DEF IInv, TypeOK
    <3>. QED  BY <2>1, <3>1 DEF Subscribe
  <2>2. CASE StreamOpenFails(s) \/ Abandon(s) \/ NextMessage(s)
    BY <2>2 DEF StreamOpenFails, Abandon, NextMessage
  <2>3. CASE \/ SubscribeFails(s) \/ SendHead(s) \/ StreamOpen(s) \/ WatchSession(s)
             \/ WatchSessionFails(s) \/ StartWatcher(s) \/ Handled(s) \/ LoopEnds(s)
    BY <2>3 DEF SubscribeFails, SendHead, StreamOpen, WatchSession, WatchSessionFails,
                StartWatcher, Handled, LoopEnds
  <2>. QED  BY <1>1, <2>1, <2>2, <2>3 DEF Handler
<1>2. ASSUME NEW s \in Streams, Watcher(s) PROVE [B!Next]_(B!vars)
  BY <1>2 DEF Watcher, WatcherWakes, WatcherCloses, StreamClose
<1>3. ASSUME NEW m \in Msgs, Dispatch(m) PROVE B!Next
  BY <1>3 DEF Dispatch
<1>4. ASSUME NEW m \in Msgs, NEW s \in Streams, Deliver(m, s) PROVE B!Next
  BY <1>4 DEF Deliver
<1>5. ASSUME NEW s \in Streams, RequestRefused(s) \/ Watch(s) \/ ClientLeaves(s)
      PROVE  UNCHANGED B!vars
  BY <1>5 DEF RequestRefused, Watch, ClientLeaves
<1>6. ASSUME NEW s \in Streams, NEW route, NEW t, Request(s, route, t) PROVE UNCHANGED B!vars
  BY <1>6 DEF Request
<1>7. ASSUME NEW t \in Tokens, Sessions(t) PROVE UNCHANGED B!vars
  BY <1>7 DEF Sessions
<1>8. CASE Shutdown \/ UNCHANGED vars
  BY <1>8 DEF Shutdown, vars
<1>. QED  BY <1>1, <1>2, <1>3, <1>4, <1>5, <1>6, <1>7, <1>8 DEF Next

LEMMA ManagerStep == ASSUME IInv, [Next]_vars PROVE [SM!Next]_(SM!vars)
<1>. USE DEF SM!Next, SM!vars, manager
<1>1. ASSUME NEW s \in Streams, Handler(s) PROVE [SM!Next]_(SM!vars)
  <2>1. CASE WatchSession(s)
    BY <2>1 DEF WatchSession, IInv, StreamInv, UserInv
  <2>2. CASE SubscribeFails(s) \/ Abandon(s) \/ WatchSessionFails(s) \/ LoopEnds(s)
    BY <2>2 DEF SubscribeFails, Abandon, WatchSessionFails, LoopEnds, Return, SM!Cancel
  <2>3. CASE \/ Subscribe(s) \/ SendHead(s) \/ StreamOpen(s) \/ StreamOpenFails(s)
             \/ StartWatcher(s) \/ NextMessage(s) \/ Handled(s)
    BY <2>3 DEF Subscribe, SendHead, StreamOpen, StreamOpenFails, StartWatcher, NextMessage,
                Handled
  <2>. QED  BY <1>1, <2>1, <2>2, <2>3 DEF Handler
<1>2. ASSUME NEW s \in Streams, Watcher(s) PROVE UNCHANGED SM!vars
  BY <1>2 DEF Watcher, WatcherWakes, WatcherCloses, StreamClose
<1>3. ASSUME NEW s \in Streams, RequestRefused(s) \/ Watch(s) \/ ClientLeaves(s)
      PROVE  [SM!Next]_(SM!vars)
  BY <1>3 DEF RequestRefused, Return, SM!Cancel, Watch, ClientLeaves
<1>4. ASSUME NEW s \in Streams, NEW route, NEW t, Request(s, route, t)
      PROVE  [SM!Next]_(SM!vars)
  BY <1>4 DEF Request, Return, SM!Cancel
<1>5. ASSUME NEW t \in Tokens, Sessions(t) PROVE SM!Next
  BY <1>5 DEF Sessions
<1>6. CASE Shutdown \/ (\E m \in Msgs : Dispatch(m) \/ \E s \in Streams : Deliver(m, s))
  BY <1>6 DEF Shutdown, Dispatch, Deliver
<1>7. CASE UNCHANGED vars
  BY <1>7 DEF vars
<1>. QED  BY <1>1, <1>2, <1>3, <1>4, <1>5, <1>6, <1>7 DEF Next

(* However streams, users and the server interleave, the broker below them *)
(* is used as its contract has it: no subscription is made or closed twice.*)
THEOREM UsesBroker == Spec => B!Spec
<1>1. Init => B!Init
  BY DEF Init
<1>. QED  BY <1>1, Invariance, BrokerStep, PTL DEF Spec, B!Spec

(* The manager too: a stream asks once, about a session that was created.  *)
THEOREM UsesManager == Spec => SM!Spec
<1>1. Init => SM!Init
  BY DEF Init
<1>. QED  BY <1>1, Invariance, ManagerStep, PTL DEF Spec, SM!Spec

------------------------------------------------------------------------------
(* Behind StreamClose there is a closed subscription, and by the contract  *)
(* nothing is owed to one.                                                 *)
QuietInv ==
    \A s \in Streams :
        /\ wpc[s] \in {"hook", "done"} => state[s] = "closed"
        /\ state[s] = "closed" => owed \cap B!OwedTo(s) = {}

(* Closed is closed: no step of the contract reopens a subscription, owes  *)
(* it something or grows its buffer.                                       *)
LEMMA ClosedForGood ==
    ASSUME IInv, [B!Next]_(B!vars), NEW s \in Streams,
           state[s] = "closed" => owed \cap B!OwedTo(s) = {}
    PROVE  /\ state'[s] = "closed" => owed' \cap B!OwedTo(s) = {}
           /\ state[s] = "closed" =>
                 state'[s] = "closed" /\ Len(buffer'[s]) <= Len(buffer[s])
<1>. USE DEF IInv, TypeOK, B!OwedTo
<1>1. ASSUME NEW r \in Streams, NEW ts, B!Subscribe(r, ts) PROVE state[s] = "closed" <=> state'[s] = "closed"
  BY <1>1 DEF B!Subscribe
<1>2. CASE \E r \in Streams, ts \in {EvSubj(u) : u \in Users \cup {Guest}} : B!Subscribe(r, ts)
  BY <1>1, <1>2 DEF B!Subscribe
<1>3. ASSUME NEW r \in Streams, B!Receive(r)
      PROVE  UNCHANGED <<state, owed>> /\ Len(buffer'[s]) <= Len(buffer[s])
  BY <1>3, TailLemma DEF B!Receive
<1>4. ASSUME NEW r \in Streams, B!CloseBegin(r) \/ B!CloseEnd(r)
      PROVE  /\ owed' \subseteq owed /\ UNCHANGED buffer
             /\ state[s] = "closed" => state'[s] = "closed"
             /\ state'[s] = "closed" /\ state[s] # "closed" => owed' \cap B!OwedTo(s) = {}
  BY <1>4 DEF B!CloseBegin, B!CloseEnd
<1>5. ASSUME NEW m \in Msgs, B!Publish(m)
      PROVE  /\ UNCHANGED <<state, buffer>>
             /\ state[s] = "closed" => owed' \cap B!OwedTo(s) = owed \cap B!OwedTo(s)
  BY <1>5 DEF B!Publish, B!Receivers
<1>6. ASSUME NEW m \in Msgs, NEW r \in Streams, B!Offer(m, r) \/ B!Lose(m, r)
      PROVE  /\ UNCHANGED state /\ owed' \subseteq owed /\ <<m, r>> \in owed
             /\ r # s => buffer'[s] = buffer[s]
             /\ r = s => state[s] # "closed"
  BY <1>6 DEF B!Offer, B!Lose
<1>7. Len(buffer[s]) \in Nat
  OBVIOUS
<1>8. CASE UNCHANGED B!vars
  BY <1>7, <1>8 DEF B!vars
<1>9. CASE \E r \in Streams : B!Receive(r)
  BY <1>3, <1>9
<1>10. CASE \E r \in Streams : B!CloseBegin(r) \/ B!CloseEnd(r)
  BY <1>4, <1>7, <1>10
<1>11. CASE \E m \in Msgs : B!Publish(m)
  BY <1>5, <1>7, <1>11
<1>12. CASE \E m \in Msgs, r \in Streams : B!Offer(m, r) \/ B!Lose(m, r)
  <2>1. PICK m \in Msgs, r \in Streams : B!Offer(m, r) \/ B!Lose(m, r)
    BY <1>12
  <2>2. r # s \/ state[s] # "closed"
    BY <1>6, <2>1
  <2>3. UNCHANGED state /\ owed' \subseteq owed /\ (r # s => buffer'[s] = buffer[s])
    BY <1>6, <2>1
  <2>. QED  BY <1>7, <2>2, <2>3
<1>. QED
  BY <1>2, <1>8, <1>9, <1>10, <1>11, <1>12 DEF B!Next

LEMMA QuietInvariance == Spec => []QuietInv
<1>1. Init => QuietInv
  BY DEF Init, B!Init, QuietInv
<1>2. ASSUME IInv, QuietInv, [Next]_vars PROVE QuietInv'
  <2>1. SUFFICES ASSUME NEW s \in Streams
                 PROVE  wpc'[s] \in {"hook", "done"} => state'[s] = "closed"
    BY <1>2, BrokerStep, ClosedForGood DEF QuietInv, B!OwedTo
  <2>2. state[s] = "closed" => state'[s] = "closed"
    BY <1>2, BrokerStep, ClosedForGood DEF QuietInv
  <2>3. ASSUME NEW r \in Streams, Watcher(r)
        PROVE  wpc'[s] \in {"hook", "done"} =>
                   wpc[s] \in {"hook", "done"} \/ state'[s] = "closed"
    BY <1>2, <2>3 DEF Watcher, WatcherWakes, WatcherCloses, StreamClose, WatcherGoto,
                      B!CloseEnd, IInv, TypeOK
  <2>4. CASE wpc'[s] \notin {"hook", "done"} \/ wpc'[s] = wpc[s]
    BY <1>2, <2>2, <2>4 DEF QuietInv
  <2>5. ASSUME NEW r \in Streams, Handler(r)
        PROVE  wpc'[s] \notin {"hook", "done"} \/ wpc'[s] = wpc[s]
    BY <1>2, <2>5 DEF Handler, Subscribe, SubscribeFails, SendHead, StreamOpen, StreamOpenFails,
                      Abandon, WatchSession, WatchSessionFails, StartWatcher, NextMessage,
                      Handled, LoopEnds, WatcherGoto, IInv, TypeOK
  <2>6. CASE \E r \in Streams : Watcher(r)
    BY <1>2, <2>2, <2>3, <2>6 DEF QuietInv
  <2>7. ASSUME ~\E r \in Streams : Handler(r) \/ Watcher(r) PROVE wpc' = wpc
    BY <1>2, <2>7 DEF Next, Request, RequestRefused, Watch, ClientLeaves, Sessions, Dispatch,
                      Deliver, Shutdown, vars
  <2>. QED  BY <2>4, <2>5, <2>6, <2>7
<1>. QED  BY <1>1, <1>2, Invariance, PTL DEF Spec

(* When StreamClose runs the stream gets no more events, though OnXXX may  *)
(* still be handling what was buffered: no broker's goroutine comes late.  *)
THEOREM QuietAfterCloseHolds == Spec => QuietAfterClose
<1>. DEFINE A == \A s \in Streams :
                    wpc[s] \in {"hook", "done"} => Len(buffer'[s]) <= Len(buffer[s])
<1>1. ASSUME IInv, QuietInv, [Next]_vars PROVE A
  BY <1>1, BrokerStep, ClosedForGood DEF QuietInv
<1>. HIDE DEF A
<1>2. Spec => [][A]_vars
  BY <1>1, Invariance, QuietInvariance, PTL DEF Spec
<1>. QED  BY <1>2 DEF QuietAfterClose, A

------------------------------------------------------------------------------
SP == INSTANCE InmemSessions_proofs WITH Watches <- Streams

(* What holds of the manager whatever its clients do holds below streams.  *)
LEMMA ManagerInvariance == Spec => []SP!IInv
<1>1. None \notin SP!Records \cup Tokens
  BY SessionsAssumption DEF SM!Records, SP!Records
<1>2. SM!Init => SP!IInv
  BY <1>1, SP!InitIInv DEF SM!Init, SP!Init
<1>3. SP!IInv /\ [SM!Next]_(SM!vars) => SP!IInv'
  <2>1. [SM!Next]_(SM!vars) => [SP!Next]_(SP!vars)
    BY DEF SM!Next, SP!Next, SM!vars, SP!vars, SM!Records, SP!Records,
           SM!CloseSession, SP!CloseSession, SM!CloseTokens, SP!CloseTokens,
           SM!CreateSession, SP!CreateSession, SM!SaveSession, SP!SaveSession,
           SM!CloseAllUserSessions, SP!CloseAllUserSessions, SM!Cancel, SP!Cancel,
           SM!Forget, SP!Forget, SM!Notify, SP!Notify, SM!NotifyClosed, SP!NotifyClosed
  <2>. QED  BY <1>1, <2>1, SP!NextIInv
<1>. QED  BY <1>2, <1>3, UsesManager, PTL DEF SM!Spec

(* What a stream gives NotifyClosed closes a channel: it is called once at *)
(* most, and only when the session of the stream is gone.                  *)
THEOREM ClosedOnce == Spec => []SM!CalledOnceForClosed
<1>1. None \notin SP!Records \cup Tokens
  BY SessionsAssumption DEF SM!Records, SP!Records
<1>2. SP!IInv => SM!CalledOnceForClosed
  <2>1. SP!IInv => SP!CalledOnceForClosed
    BY <1>1, SP!IInvCalledOnce
  <2>. QED
    BY <2>1 DEF SM!CalledOnceForClosed, SP!CalledOnceForClosed, SM!Gone, SP!Gone
<1>. QED  BY <1>2, ManagerInvariance, PTL

------------------------------------------------------------------------------
(* What StreamOpen has set up is behind the handshake, and past NotifyClosed*)
(* the watcher that will take it down gets started.                        *)
OpenedInv ==
    \A s \in opened :
        /\ pc[s] \in {"opened", "watching", "loop", "handling", "returned"}
        /\ pc[s] = "returned" => wpc[s] # "none"

(* A stream that has got past NotifyClosed watches the session it is of.   *)
WatchedInv ==
    \A s \in Streams :
        user[s] # Guest /\ (pc[s] = "watching" \/ wpc[s] # "none") => watchOf[s] = key[s]

(* What the steps of one stream leave of the others.                       *)
LEMMA OthersStay ==
    ASSUME IInv, NEW s \in Streams, NEW r \in Streams, r # s,
           \/ Handler(s) \/ Watcher(s) \/ RequestRefused(s)
           \/ \E route, t : Request(s, route, t)
    PROVE  /\ pc'[r] = pc[r] /\ wpc'[r] = wpc[r] /\ user'[r] = user[r] /\ key'[r] = key[r]
           /\ r \in opened' <=> r \in opened
           /\ watchOf'[r] = watchOf[r]
  BY DEF Handler, Watcher, RequestRefused, Request, Subscribe, SubscribeFails, SendHead,
         StreamOpen, StreamOpenFails, Abandon, WatchSession, WatchSessionFails, StartWatcher,
         NextMessage, Handled, LoopEnds, WatcherWakes, WatcherCloses, StreamClose, Goto,
         WatcherGoto, Return, manager, handler, SM!NotifyClosed, IInv, TypeOK, SM!TypeOK

(* Nobody else moves the goroutines of a stream.                           *)
LEMMA AroundStays ==
    ASSUME IInv,
           \/ \E s \in Streams : Watch(s) \/ ClientLeaves(s)
           \/ \E t \in Tokens : Sessions(t)
           \/ \E m \in Msgs : Dispatch(m) \/ \E s \in Streams : Deliver(m, s)
           \/ Shutdown \/ UNCHANGED vars
    PROVE  UNCHANGED <<pc, wpc, user, key, opened, watchOf>>
  BY DEF Watch, ClientLeaves, Sessions, Dispatch, Deliver, Shutdown, vars, handler, manager,
         SM!Notify, SM!Forget, SM!Cancel, SM!CreateSession, SM!CloseSession, SM!CloseTokens

LEMMA OpenedStep ==
    ASSUME ~NotifyMayFail, IInv, OpenedInv, [Next]_vars
    PROVE  OpenedInv'
<1>1. ASSUME NEW s \in Streams, Handler(s) \/ Watcher(s), s \in opened'
      PROVE  /\ pc'[s] \in {"opened", "watching", "loop", "handling", "returned"}
             /\ pc'[s] = "returned" => wpc'[s] # "none"
  <2>. USE DEF Goto, WatcherGoto, Return, handler, IInv, TypeOK, StreamInv, PhaseInv, OpenedInv
  <2>1. CASE Watcher(s)
    BY <1>1, <2>1 DEF Watcher, WatcherWakes, WatcherCloses, StreamClose
  <2>2. CASE \/ Subscribe(s) \/ SubscribeFails(s) \/ SendHead(s) \/ StreamOpen(s)
             \/ StreamOpenFails(s) \/ Abandon(s)
    BY <1>1, <2>2 DEF Subscribe, SubscribeFails, SendHead, StreamOpen, StreamOpenFails, Abandon
  <2>3. CASE \/ WatchSession(s) \/ StartWatcher(s) \/ NextMessage(s) \/ Handled(s)
             \/ LoopEnds(s)
    BY <1>1, <2>3 DEF WatchSession, StartWatcher, NextMessage, Handled, LoopEnds
  <2>4. ~WatchSessionFails(s)
    BY DEF WatchSessionFails
  <2>. QED  BY <1>1, <2>1, <2>2, <2>3, <2>4 DEF Handler
<1>2. ASSUME NEW s \in Streams, RequestRefused(s) \/ \E route, t : Request(s, route, t)
      PROVE  s \notin opened'
  BY <1>2 DEF RequestRefused, Request, OpenedInv
<1>3. ASSUME NEW s \in Streams,
             \/ Handler(s) \/ Watcher(s) \/ RequestRefused(s)
             \/ \E route, t : Request(s, route, t)
      PROVE  OpenedInv'
  <2>1. opened' \subseteq Streams
    BY StepIInv DEF IInv, TypeOK
  <2>2. ASSUME NEW r \in opened'
        PROVE  /\ pc'[r] \in {"opened", "watching", "loop", "handling", "returned"}
               /\ pc'[r] = "returned" => wpc'[r] # "none"
    <3>1. CASE r = s
      BY <1>1, <1>2, <1>3, <2>2, <3>1
    <3>2. CASE r # s
      BY <1>3, <2>1, <2>2, <3>2, OthersStay DEF OpenedInv
    <3>. QED  BY <3>1, <3>2
  <2>. QED  BY <2>2 DEF OpenedInv
<1>4. ASSUME UNCHANGED <<pc, wpc, user, key, opened, watchOf>> PROVE OpenedInv'
  BY <1>4 DEF OpenedInv
<1>. QED  BY <1>3, <1>4, AroundStays DEF Next

(* With a session manager that does not fail, such as the one in memory,   *)
(* no stream returns from an opened StreamOpen without a StreamClose to    *)
(* come.  A run shows that the hypothesis is needed.                       *)
THEOREM StreamCloseFollowsOpenHolds ==
    ASSUME ~NotifyMayFail PROVE Spec => []StreamCloseFollowsOpen
<1>1. Init => OpenedInv
  BY DEF Init, OpenedInv
<1>2. OpenedInv => StreamCloseFollowsOpen
  BY DEF OpenedInv, StreamCloseFollowsOpen
<1>. QED  BY <1>1, <1>2, Invariance, OpenedStep, PTL DEF Spec

------------------------------------------------------------------------------
LEMMA WatchedStep == ASSUME IInv, WatchedInv, [Next]_vars PROVE WatchedInv'
<1>. DEFINE Watched(s) ==
        user[s] # Guest /\ (pc[s] = "watching" \/ wpc[s] # "none") => watchOf[s] = key[s]
<1>1. ASSUME NEW s \in Streams, Handler(s) \/ Watcher(s) PROVE Watched(s)'
  <2>. USE DEF Goto, WatcherGoto, Return, handler, manager, IInv, TypeOK, SM!TypeOK,
               StreamInv, PhaseInv, WatchedInv
  <2>1. CASE Watcher(s)
    BY <1>1, <2>1 DEF Watcher, WatcherWakes, WatcherCloses, StreamClose
  <2>2. CASE \/ Subscribe(s) \/ SubscribeFails(s) \/ SendHead(s) \/ StreamOpen(s)
             \/ StreamOpenFails(s) \/ Abandon(s) \/ WatchSessionFails(s)
    BY <1>1, <2>2 DEF Subscribe, SubscribeFails, SendHead, StreamOpen, StreamOpenFails,
                      Abandon, WatchSessionFails
  <2>3. CASE WatchSession(s)
    BY <1>1, <2>3 DEF WatchSession, SM!NotifyClosed
  <2>4. CASE StartWatcher(s) \/ NextMessage(s) \/ Handled(s) \/ LoopEnds(s)
    BY <1>1, <2>4 DEF StartWatcher, NextMessage, Handled, LoopEnds
  <2>. QED  BY <1>1, <2>1, <2>2, <2>3, <2>4 DEF Handler
<1>2. ASSUME NEW s \in Streams, RequestRefused(s) \/ \E route, t : Request(s, route, t)
      PROVE  Watched(s)'
  BY <1>2 DEF RequestRefused, Request, Goto, Return, IInv, TypeOK, StreamInv, PhaseInv
<1>3. ASSUME NEW s \in Streams,
             \/ Handler(s) \/ Watcher(s) \/ RequestRefused(s)
             \/ \E route, t : Request(s, route, t)
      PROVE  WatchedInv'
  <2>1. ASSUME NEW r \in Streams PROVE Watched(r)'
    <3>1. CASE r = s
      BY <1>1, <1>2, <1>3, <3>1
    <3>2. CASE r # s
      BY <1>3, <3>2, OthersStay DEF WatchedInv
    <3>. QED  BY <3>1, <3>2
  <2>. QED  BY <2>1 DEF WatchedInv
<1>4. ASSUME UNCHANGED <<pc, wpc, user, key, opened, watchOf>> PROVE WatchedInv'
  BY <1>4 DEF WatchedInv
<1>. QED  BY <1>3, <1>4, AroundStays DEF Next

(* The session of a stream that ends, wherever the close falls between the *)
(* handshake and the watcher, has woken the watcher or somebody is about   *)
(* to: of EndedStreamReturns what is not liveness.                         *)
EndReachesWatcher ==
    \A s \in Streams :
        wpc[s] = "select" /\ SessionGone(s) => Ended(s) \/ s \in due

THEOREM EndReachesWatcherHolds == Spec => []EndReachesWatcher
<1>1. Init => WatchedInv
  BY DEF Init, WatchedInv
<1>2. IInv /\ WatchedInv /\ SP!IInv => EndReachesWatcher
  <2>. SUFFICES ASSUME IInv, WatchedInv, SP!IInv, NEW s \in Streams,
                       wpc[s] = "select", SessionGone(s)
                PROVE  Ended(s) \/ s \in due
    BY DEF EndReachesWatcher
  <2>1. None \notin SP!Records \cup Tokens
    BY SessionsAssumption DEF SM!Records, SP!Records
  <2>2. SP!NothingMissed
    BY <2>1, SP!IInvNothingMissed
  <2>3. watchOf[s] = key[s] /\ SM!Gone(key[s])
    BY DEF WatchedInv, SessionGone
  <2>4. watchOf[s] \in Tokens
    BY <2>3 DEF SM!Gone, IInv, TypeOK, SM!TypeOK
  <2>5. watchOf[s] # None /\ SP!Gone(watchOf[s])
    BY <2>3, <2>4, SessionsAssumption DEF SM!Gone, SP!Gone
  <2>6. s \in due \/ s \in ctxDone \/ calls[s] = 1
    BY <2>2, <2>5 DEF SP!NothingMissed
  <2>. QED  BY <2>6 DEF Ended
<1>. QED  BY <1>1, <1>2, Invariance, WatchedStep, ManagerInvariance, PTL DEF Spec
=============================================================================
