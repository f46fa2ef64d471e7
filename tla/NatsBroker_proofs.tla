-------------------------- MODULE NatsBroker_proofs --------------------------
(* Proofs about NatsBroker: for any subscriptions, subjects, messages and  *)
(* connections, and channels of any capacity.                              *)
EXTENDS NatsBroker, FiniteSetTheorems, SequenceTheorems, TLAPS

LEMMA CommandLemma ==
    ASSUME NEW command \in Commands
    PROVE  /\ command.op \in {"sub", "unsub"} => command.of \in NatsSubs
           /\ command.op = "pub" => command.of \in Msgs
  BY DEF Commands, Sub, Unsub, Pub

(* A sequence after a send and after a receive.                            *)
LEMMA AppendLemma ==
    ASSUME NEW S, NEW q \in Seq(S), NEW x \in S
    PROVE  Append(q, x) \in Seq(S) /\ Len(Append(q, x)) = Len(q) + 1
  OBVIOUS

LEMMA TailLemma ==
    ASSUME NEW S, NEW q \in Seq(S), q # <<>>
    PROVE  Head(q) \in S /\ Tail(q) \in Seq(S) /\ Len(Tail(q)) = Len(q) - 1 /\ Len(q) \in Nat
  OBVIOUS

------------------------------------------------------------------------------
(* The inductive invariant.                                                *)

(* The callbacks of s that the WaitGroup counts.                           *)
Counted(s) == {t \in Topics : <<s, t>> \in passed}

CountInv ==
    \A s \in Subs : IsFiniteSet(Counted(s)) /\ inflight[s] = Cardinality(Counted(s))

(* How far Subscribe and closeAll of a subscription are tells what there   *)
(* is of it.                                                               *)
LifeInv ==
    \A s \in Subs :
        /\ chan[s] = "nil" <=> spc[s] = "new"
        /\ chan[s] = "closed" <=> cpc[s] = "closed"
        /\ spc[s] \in {"new", "loop"} => cpc[s] = "no"
        /\ cpc[s] = "closed" => Counted(s) = {}
        /\ \A t \in Topics : <<s, t>> \in live => spc[s] # "new" /\ cpc[s] \in {"no", "unsub"}

(* A callback has been started with a message, of a subscription there is. *)
CallbackInv ==
    \A n \in NatsSubs :
        /\ n \in passed => callback[n] # None
        /\ callback[n] # None => spc[n[1]] # "new"

IInv == TypeOK /\ CountInv /\ LifeInv /\ CallbackInv

LEMMA InitIInv == ASSUME Init PROVE IInv
<1>1. TypeOK
  BY ChanBufferAssumption DEF Init, TypeOK
<1>2. \A s \in Subs : Counted(s) = {}
  BY DEF Init, Counted
<1>3. CountInv
  BY <1>2, FS_EmptySet DEF Init, CountInv
<1>4. LifeInv /\ CallbackInv
  BY <1>2 DEF Init, LifeInv, CallbackInv
<1>. QED  BY <1>1, <1>3, <1>4 DEF IInv

(* Whatever leaves the callbacks alone leaves their count alone.           *)
LEMMA CountLemma ==
    ASSUME IInv, UNCHANGED <<passed, inflight>>
    PROVE  CountInv' /\ \A s \in Subs : Counted(s)' = Counted(s)
  BY DEF IInv, CountInv, Counted

------------------------------------------------------------------------------
(* Subscribe and Close.                                                    *)

LEMMA SubscribeStep ==
    ASSUME IInv, NEW s \in Subs,
           \/ SubscribeRun(s) \/ SubscribeFail(s)
           \/ \E ts \in TopicSets : SubscribeCall(s, ts)
    PROVE  IInv'
<1>. USE DEF cbvars, library, network
<1>1. CountInv' /\ \A p \in Subs : Counted(p)' = Counted(p)
  BY CountLemma
     DEF SubscribeRun, SubscribeReturn, SubscribeOne, SubscribeFail, SubscribeCall
<1>2. ASSUME NEW ts \in TopicSets, SubscribeCall(s, ts) PROVE IInv'
  <2>1. ts \in SUBSET Topics
    BY DEF Topics
  <2>2. TypeOK'
    BY <1>2, <2>1 DEF SubscribeCall, IInv, TypeOK
  <2>3. LifeInv' /\ CallbackInv'
    BY <1>1, <1>2 DEF SubscribeCall, IInv, TypeOK, LifeInv, CallbackInv, NatsSubs
  <2>. QED  BY <1>1, <2>2, <2>3 DEF IInv
<1>3. ASSUME NEW t \in Topics, SubscribeOne(s, t) PROVE IInv'
  <2>1. <<s, t>> \in NatsSubs
    BY DEF NatsSubs
  <2>2. Sub(<<s, t>>) \in Commands
    BY <2>1 DEF Commands
  <2>3. out' \in [Conns -> Seq(Commands)]
    BY <1>3, <2>2, AppendLemma DEF SubscribeOne, Send, IInv, TypeOK
  <2>4. TypeOK'
    BY <1>3, <2>1, <2>3 DEF SubscribeOne, IInv, TypeOK
  <2>5. LifeInv' /\ CallbackInv'
    BY <1>1, <1>3 DEF SubscribeOne, IInv, TypeOK, LifeInv, CallbackInv, NatsSubs
  <2>. QED  BY <1>1, <2>4, <2>5 DEF IInv
<1>4. CASE SubscribeReturn(s) \/ SubscribeFail(s)
  <2>1. TypeOK'
    <3>1. CASE SubscribeReturn(s)
      BY <3>1 DEF SubscribeReturn, IInv, TypeOK
    <3>2. CASE SubscribeFail(s)
      BY <3>2 DEF SubscribeFail, IInv, TypeOK
    <3>. QED  BY <1>4, <3>1, <3>2
  <2>2. LifeInv' /\ CallbackInv'
    BY <1>1, <1>4
    DEF SubscribeReturn, SubscribeFail, IInv, TypeOK, LifeInv, CallbackInv, NatsSubs
  <2>. QED  BY <1>1, <2>1, <2>2 DEF IInv
<1>. QED  BY <1>2, <1>3, <1>4 DEF SubscribeRun

LEMMA CloseStep ==
    ASSUME IInv, NEW s \in Subs, Close(s) \/ CloseRun(s)
    PROVE  IInv'
<1>. USE DEF cbvars, library, network, svars
<1>1. CountInv' /\ \A p \in Subs : Counted(p)' = Counted(p)
  BY CountLemma DEF Close, CloseRun, CloseWait, CloseChan, CloseUnsubscribe
<1>2. ASSUME NEW t \in Topics, CloseUnsubscribe(s, t) PROVE IInv'
  <2>1. <<s, t>> \in NatsSubs
    BY DEF NatsSubs
  <2>2. Unsub(<<s, t>>) \in Commands
    BY <2>1 DEF Commands
  <2>3. out' \in [Conns -> Seq(Commands)]
    BY <1>2, <2>2, AppendLemma DEF CloseUnsubscribe, Send, IInv, TypeOK
  <2>4. TypeOK'
    BY <1>2, <2>1, <2>3 DEF CloseUnsubscribe, IInv, TypeOK
  <2>5. LifeInv' /\ CallbackInv'
    BY <1>1, <1>2 DEF CloseUnsubscribe, IInv, TypeOK, LifeInv, CallbackInv, NatsSubs
  <2>. QED  BY <1>1, <2>4, <2>5 DEF IInv
<1>3. CASE Close(s) \/ CloseWait(s)
  <2>1. TypeOK'
    BY <1>3 DEF Close, CloseWait, IInv, TypeOK
  <2>2. LifeInv' /\ CallbackInv'
    <3>1. CASE Close(s)
      BY <1>1, <3>1 DEF Close, IInv, TypeOK, LifeInv, CallbackInv, NatsSubs
    <3>2. CASE CloseWait(s)
      BY <1>1, <3>2 DEF CloseWait, IInv, TypeOK, LifeInv, CallbackInv, NatsSubs
    <3>. QED  BY <1>3, <3>1, <3>2
  <2>. QED  BY <1>1, <2>1, <2>2 DEF IInv
<1>4. CASE CloseChan(s)
  <2>1. Counted(s) = {}
    BY <1>4, FS_EmptySet DEF CloseChan, IInv, CountInv
  <2>2. TypeOK'
    BY <1>4 DEF CloseChan, IInv, TypeOK
  <2>3. LifeInv' /\ CallbackInv'
    BY <1>1, <1>4, <2>1 DEF CloseChan, IInv, TypeOK, LifeInv, CallbackInv, NatsSubs
  <2>. QED  BY <1>1, <2>2, <2>3 DEF IInv
<1>. QED  BY <1>2, <1>3, <1>4 DEF CloseRun

------------------------------------------------------------------------------
(* The callbacks.                                                          *)

LEMMA CallbackStep ==
    ASSUME IInv, NEW s \in Subs, NEW t \in Topics, CallbackRun(s, t)
    PROVE  IInv'
<1>. USE DEF library, network, svars
<1>. DEFINE n == <<s, t>>
<1>0. n \in NatsSubs
  BY DEF NatsSubs
<1>1. CASE CallbackStart(s, t)
  <2>1. CountInv' /\ \A p \in Subs : Counted(p)' = Counted(p)
    BY <1>1, CountLemma DEF CallbackStart
  <2>2. pending[n] \in Seq(Msgs) /\ pending[n] # <<>> /\ n \in live
    BY <1>0, <1>1 DEF CallbackStart, IInv, TypeOK
  <2>3. Head(pending[n]) \in Msgs /\ Tail(pending[n]) \in Seq(Msgs)
    BY <2>2, TailLemma
  <2>4. TypeOK'
    BY <1>0, <1>1, <2>3 DEF CallbackStart, IInv, TypeOK
  <2>5. spc[s] # "new"
    BY <2>2 DEF IInv, LifeInv
  <2>6. LifeInv' /\ CallbackInv'
    BY <1>0, <1>1, <2>1, <2>5 DEF CallbackStart, IInv, TypeOK, LifeInv, CallbackInv, NatsSubs
  <2>. QED  BY <2>1, <2>4, <2>6 DEF IInv
<1>2. CASE CallbackRegister(s, t) /\ cpc[s] # "no"
  <2>1. CountInv' /\ \A p \in Subs : Counted(p)' = Counted(p)
    BY <1>2, CountLemma DEF CallbackRegister
  <2>2. TypeOK'
    BY <1>0, <1>2 DEF CallbackRegister, IInv, TypeOK
  <2>3. callback' = [callback EXCEPT ![n] = None] /\ UNCHANGED <<passed, chan, spc, cpc, live>>
    BY <1>2 DEF CallbackRegister
  <2>4. LifeInv'
    BY <2>1, <2>3 DEF IInv, LifeInv
  <2>5. n \notin passed
    BY <1>2 DEF CallbackRegister
  <2>6. CallbackInv'
    BY <2>3, <2>5 DEF IInv, TypeOK, CallbackInv
  <2>. QED  BY <2>1, <2>2, <2>4, <2>6 DEF IInv
<1>3. CASE CallbackRegister(s, t) /\ cpc[s] = "no"
  <2>1. /\ passed' = passed \cup {n} /\ n \notin passed
        /\ inflight' = [inflight EXCEPT ![s] = @ + 1]
        /\ UNCHANGED <<callback, chan, buffer, topics, todo, spc, cpc, live, pending, out,
                       server, audience>>
    BY <1>3 DEF CallbackRegister
  <2>2. TypeOK'
    <3>1. buffer' = buffer
      BY <1>3 DEF CallbackRegister
    <3>2. inflight \in [Subs -> Nat] /\ inflight' = [inflight EXCEPT ![s] = inflight[s] + 1]
      BY <2>1 DEF IInv, TypeOK
    <3>3. inflight[s] + 1 \in Nat
      BY <3>2
    <3>4. inflight' \in [Subs -> Nat]
      BY <3>2, <3>3
    <3>5. passed' \subseteq NatsSubs
      BY <1>0, <2>1 DEF IInv, TypeOK
    <3>. QED  BY <2>1, <3>1, <3>4, <3>5 DEF IInv, TypeOK
  <2>3. ASSUME NEW p \in Subs
        PROVE  Counted(p)' = IF p = s THEN Counted(p) \cup {t} ELSE Counted(p)
    BY <2>1 DEF Counted
  <2>4. t \notin Counted(s)
    BY <2>1 DEF Counted
  <2>5. ASSUME NEW p \in Subs
        PROVE  IsFiniteSet(Counted(p)') /\ inflight'[p] = Cardinality(Counted(p)')
    <3>1. CASE p = s
      <4>1. Counted(s)' = Counted(s) \cup {t}
        BY <2>3
      <4>2. IsFiniteSet(Counted(s)) /\ inflight[s] = Cardinality(Counted(s))
        BY DEF IInv, CountInv
      <4>3. IsFiniteSet(Counted(s) \cup {t})
            /\ Cardinality(Counted(s) \cup {t}) = Cardinality(Counted(s)) + 1
        BY <2>4, <4>2, FS_AddElement
      <4>4. inflight'[s] = inflight[s] + 1
        BY <2>1 DEF IInv, TypeOK
      <4>. QED  BY <3>1, <4>1, <4>2, <4>3, <4>4
    <3>2. CASE p # s
      BY <2>1, <2>3, <3>2 DEF IInv, TypeOK, CountInv
    <3>. QED  BY <3>1, <3>2
  <2>6. CountInv'
    BY <2>5 DEF CountInv
  <2>7. LifeInv'
    BY <1>3, <2>1, <2>3 DEF IInv, TypeOK, LifeInv
  <2>8. CallbackInv'
    BY <1>3, <2>1 DEF CallbackRegister, IInv, TypeOK, CallbackInv
  <2>. QED  BY <2>2, <2>6, <2>7, <2>8 DEF IInv
<1>4. CASE CallbackSend(s, t)
  <2>1. /\ passed' = passed \ {n} /\ n \in passed
        /\ inflight' = [inflight EXCEPT ![s] = @ - 1]
        /\ callback' = [callback EXCEPT ![n] = None]
        /\ UNCHANGED <<chan, topics, todo, spc, cpc, live, pending, out, server, audience>>
    BY <1>4 DEF CallbackSend
  <2>2. callback[n] \in Msgs
    BY <1>0, <2>1 DEF IInv, TypeOK, CallbackInv
  <2>3. buffer' \in [Subs -> Seq(Msgs)] /\ \A p \in Subs : Len(buffer'[p]) <= ChanBuffer
    <3>1. CASE Len(buffer[s]) < ChanBuffer
      <4>1. buffer' = [buffer EXCEPT ![s] = Append(@, callback[n])]
        BY <1>4, <3>1 DEF CallbackSend
      <4>2. buffer[s] \in Seq(Msgs) /\ Len(buffer[s]) \in Nat
        BY DEF IInv, TypeOK
      <4>3. Append(buffer[s], callback[n]) \in Seq(Msgs)
            /\ Len(Append(buffer[s], callback[n])) = Len(buffer[s]) + 1
        BY <2>2, <4>2, AppendLemma
      <4>. QED  BY <3>1, <4>1, <4>2, <4>3, ChanBufferAssumption DEF IInv, TypeOK
    <3>2. CASE ~(Len(buffer[s]) < ChanBuffer)
      BY <1>4, <3>2 DEF CallbackSend, IInv, TypeOK
    <3>. QED  BY <3>1, <3>2
  <2>4. ASSUME NEW p \in Subs
        PROVE  Counted(p)' = IF p = s THEN Counted(p) \ {t} ELSE Counted(p)
    BY <2>1 DEF Counted
  <2>5. t \in Counted(s)
    BY <2>1 DEF Counted
  <2>6. ASSUME NEW p \in Subs
        PROVE  /\ IsFiniteSet(Counted(p)') /\ inflight'[p] = Cardinality(Counted(p)')
               /\ inflight'[p] \in Nat
    <3>1. CASE p = s
      <4>1. Counted(s)' = Counted(s) \ {t}
        BY <2>4
      <4>2. IsFiniteSet(Counted(s)) /\ inflight[s] = Cardinality(Counted(s))
        BY DEF IInv, CountInv
      <4>3. IsFiniteSet(Counted(s) \ {t})
            /\ Cardinality(Counted(s) \ {t}) = Cardinality(Counted(s)) - 1
        BY <2>5, <4>2, FS_RemoveElement
      <4>4. inflight'[s] = inflight[s] - 1
        BY <2>1 DEF IInv, TypeOK
      <4>5. Cardinality(Counted(s) \ {t}) \in Nat
        BY <4>3, FS_CardinalityType
      <4>. QED  BY <3>1, <4>1, <4>2, <4>3, <4>4, <4>5
    <3>2. CASE p # s
      BY <2>1, <2>4, <3>2 DEF IInv, TypeOK, CountInv
    <3>. QED  BY <3>1, <3>2
  <2>7. inflight' \in [Subs -> Nat]
    BY <2>1, <2>6 DEF IInv, TypeOK
  <2>8. TypeOK'
    BY <1>0, <2>1, <2>3, <2>7 DEF IInv, TypeOK
  <2>9. CountInv'
    BY <2>6 DEF CountInv
  <2>10. LifeInv'
    BY <2>1, <2>4 DEF IInv, TypeOK, LifeInv
  <2>11. CallbackInv'
    BY <2>1 DEF IInv, TypeOK, CallbackInv
  <2>. QED  BY <2>8, <2>9, <2>10, <2>11 DEF IInv
<1>. QED  BY <1>1, <1>2, <1>3, <1>4 DEF CallbackRun

------------------------------------------------------------------------------
(* The network, and who reads the channel.                                 *)

LEMMA ReceiveStep ==
    ASSUME IInv, NEW s \in Subs, Receive(s)
    PROVE  IInv'
<1>. USE DEF cbvars, library, network, svars
<1>1. CountInv' /\ \A p \in Subs : Counted(p)' = Counted(p)
  BY CountLemma DEF Receive
<1>2. buffer[s] \in Seq(Msgs) /\ buffer[s] # <<>> /\ Len(buffer[s]) <= ChanBuffer
  BY DEF Receive, IInv, TypeOK
<1>3. Tail(buffer[s]) \in Seq(Msgs) /\ Len(Tail(buffer[s])) <= ChanBuffer
  BY <1>2, TailLemma, ChanBufferAssumption
<1>4. TypeOK'
  BY <1>3 DEF Receive, IInv, TypeOK
<1>5. LifeInv' /\ CallbackInv'
  BY <1>1 DEF Receive, IInv, LifeInv, CallbackInv
<1>. QED  BY <1>1, <1>4, <1>5 DEF IInv

LEMMA NetworkStep ==
    ASSUME IInv, NEW c \in Conns, ServerTakes(c) \/ \E m \in Msgs : Publish(c, m)
    PROVE  IInv'
<1>1. UNCHANGED <<chan, buffer, topics, todo, spc, cpc, callback, passed, inflight, live>>
  BY DEF ServerTakes, Publish, svars, cbvars, library
<1>2. CountInv' /\ \A p \in Subs : Counted(p)' = Counted(p)
  BY <1>1, CountLemma
<1>3. LifeInv' /\ CallbackInv'
  BY <1>1, <1>2 DEF IInv, LifeInv, CallbackInv
<1>4. ASSUME NEW m \in Msgs, Publish(c, m) PROVE TypeOK'
  <2>1. Pub(m) \in Commands
    BY DEF Commands
  <2>2. out' \in [Conns -> Seq(Commands)]
    BY <1>4, <2>1, AppendLemma DEF Publish, Send, IInv, TypeOK
  <2>3. audience' \in [Msgs -> SUBSET Subs] /\ UNCHANGED <<pending, server>>
    BY <1>4 DEF Publish, library, IInv, TypeOK
  <2>. QED  BY <1>1, <2>2, <2>3 DEF IInv, TypeOK
<1>5. CASE ServerTakes(c)
  <2>1. PICK command \in Commands : command = Head(out[c])
    BY <1>5, TailLemma DEF ServerTakes, IInv, TypeOK
  <2>2. out' \in [Conns -> Seq(Commands)]
    BY <1>5, TailLemma DEF ServerTakes, IInv, TypeOK
  <2>3. \/ command.op = "sub" /\ server' = server \cup {command.of} /\ UNCHANGED pending
        \/ command.op = "unsub" /\ server' = server \ {command.of} /\ UNCHANGED pending
        \/ /\ command.op = "pub" /\ UNCHANGED server
           /\ pending' = [x \in NatsSubs |->
                 IF x \in server \cap live /\ Matches(x[2], SubjectOf[command.of])
                 THEN Append(pending[x], command.of)
                 ELSE pending[x]]
    BY <1>5, <2>1 DEF ServerTakes
  <2>4. server' \subseteq NatsSubs
    BY <2>3, CommandLemma DEF IInv, TypeOK
  <2>5. pending' \in [NatsSubs -> Seq(Msgs)]
    <3>1. CASE UNCHANGED pending
      BY <3>1 DEF IInv, TypeOK
    <3>2. CASE command.op = "pub"
      <4>1. command.of \in Msgs
        BY <3>2, CommandLemma
      <4>2. \A x \in NatsSubs : pending[x] \in Seq(Msgs)
                                /\ Append(pending[x], command.of) \in Seq(Msgs)
        BY <4>1, AppendLemma DEF IInv, TypeOK
      <4>. QED  BY <2>3, <3>2, <4>2
    <3>. QED  BY <2>3, <3>1, <3>2
  <2>6. UNCHANGED audience
    BY <1>5 DEF ServerTakes
  <2>7. audience' \in [Msgs -> SUBSET Subs]
    BY <2>6 DEF IInv, TypeOK
  <2>8. TypeOK'
    BY <1>1, <2>2, <2>4, <2>5, <2>7 DEF IInv, TypeOK
  <2>. QED  BY <1>2, <1>3, <2>8 DEF IInv
<1>. QED  BY <1>2, <1>3, <1>4, <1>5 DEF IInv

LEMMA StepIInv == ASSUME IInv, [Next]_vars PROVE IInv'
<1>1. CASE UNCHANGED vars
  <2>1. CountInv' /\ \A p \in Subs : Counted(p)' = Counted(p)
    BY <1>1, CountLemma DEF vars, cbvars
  <2>2. TypeOK'
    BY <1>1 DEF vars, svars, library, cbvars, network, IInv, TypeOK
  <2>3. LifeInv' /\ CallbackInv'
    BY <1>1, <2>1 DEF vars, svars, library, cbvars, IInv, LifeInv, CallbackInv
  <2>. QED  BY <2>1, <2>2, <2>3 DEF IInv
<1>2. CASE Next
  BY <1>2, SubscribeStep, CloseStep, CallbackStep, ReceiveStep, NetworkStep DEF Next
<1>. QED  BY <1>1, <1>2

------------------------------------------------------------------------------
(* Every step keeps the broker's, the library's and the network's state in *)
(* its type; of the channel that includes its capacity.                    *)
THEOREM TypeCorrect == Spec => []TypeOK
<1>1. Init => IInv
  BY InitIInv
<1>2. IInv /\ [Next]_vars => IInv'
  BY StepIInv
<1>3. IInv => TypeOK
  BY DEF IInv
<1>. QED  BY <1>1, <1>2, <1>3, PTL DEF Spec

(* However late the library starts its callbacks, none of them sends on a  *)
(* channel that closeAll has closed.                                       *)
THEOREM NoSendOnClosedHolds == Spec => []NoSendOnClosed
<1>1. Init => IInv
  BY InitIInv
<1>2. IInv /\ [Next]_vars => IInv'
  BY StepIInv
<1>3. ASSUME IInv, NEW n \in passed PROVE chan[n[1]] = "open"
  <2>1. PICK s \in Subs, t \in Topics : n = <<s, t>>
    BY <1>3 DEF IInv, TypeOK, NatsSubs
  <2>2. n \in NatsSubs /\ n[1] = s
    BY <2>1 DEF NatsSubs
  <2>3. t \in Counted(s)
    BY <1>3, <2>1 DEF Counted
  <2>4. spc[s] # "new" /\ cpc[s] # "closed"
    BY <1>3, <2>2, <2>3 DEF IInv, CallbackInv, LifeInv
  <2>5. chan[s] \in {"nil", "open", "closed"} /\ chan[s] # "nil" /\ chan[s] # "closed"
    BY <1>3, <2>4 DEF IInv, TypeOK, LifeInv
  <2>. QED  BY <2>2, <2>5
<1>4. IInv => NoSendOnClosed
  BY <1>3 DEF NoSendOnClosed
<1>. QED  BY <1>1, <1>2, <1>4, PTL DEF Spec

(* A Close, and a Subscribe that fails halfway, leave none of the NATS     *)
(* subscriptions that were made.                                           *)
THEOREM NothingLeftOpenHolds == Spec => []NothingLeftOpen
<1>1. Init => IInv
  BY InitIInv
<1>2. IInv /\ [Next]_vars => IInv'
  BY StepIInv
<1>3. IInv => NothingLeftOpen
  BY DEF IInv, LifeInv, NothingLeftOpen
<1>. QED  BY <1>1, <1>2, <1>3, PTL DEF Spec

(* The rule of sync.WaitGroup: nothing is added to it while it may be      *)
(* waited for.                                                             *)
THEOREM NoAddDuringWaitHolds == Spec => NoAddDuringWait
<1>1. Init => IInv
  BY InitIInv
<1>2. IInv /\ [Next]_vars => IInv'
  BY StepIInv
<1>. DEFINE A == \A s \in Subs : cpc[s] = "wait" => inflight'[s] <= inflight[s]
<1>3. IInv /\ [Next]_vars => A
  <2>. SUFFICES ASSUME IInv, [Next]_vars, NEW s \in Subs, cpc[s] = "wait"
                PROVE  inflight'[s] <= inflight[s]
    OBVIOUS
  <2>1. inflight \in [Subs -> Nat] /\ inflight[s] \in Nat
    BY DEF IInv, TypeOK
  <2>2. CASE UNCHANGED inflight
    BY <2>1, <2>2
  <2>3. ASSUME NEW p \in Subs, NEW t \in Topics, CallbackRegister(p, t)
        PROVE  inflight'[s] <= inflight[s]
    <3>1. CASE cpc[p] = "no"
      <4>1. s # p /\ inflight' = [inflight EXCEPT ![p] = @ + 1]
        BY <2>3, <3>1 DEF CallbackRegister
      <4>. QED  BY <2>1, <4>1
    <3>2. CASE cpc[p] # "no"
      <4>1. UNCHANGED inflight
        BY <2>3, <3>2 DEF CallbackRegister
      <4>. QED  BY <2>1, <4>1
    <3>. QED  BY <3>1, <3>2
  <2>4. ASSUME NEW p \in Subs, NEW t \in Topics, CallbackSend(p, t)
        PROVE  inflight'[s] <= inflight[s]
    <3>1. inflight' = [inflight EXCEPT ![p] = @ - 1]
      BY <2>4 DEF CallbackSend
    <3>. QED  BY <2>1, <3>1
  <2>5. ASSUME NEW p \in Subs,
               \/ SubscribeRun(p) \/ SubscribeFail(p) \/ Close(p) \/ CloseRun(p) \/ Receive(p)
               \/ \E ts \in TopicSets : SubscribeCall(p, ts)
               \/ \E t \in Topics : CallbackStart(p, t)
        PROVE  UNCHANGED inflight
    BY <2>5
    DEF SubscribeRun, SubscribeReturn, SubscribeOne, SubscribeFail, SubscribeCall, Close,
        CloseRun, CloseWait, CloseChan, CloseUnsubscribe, Receive, CallbackStart, cbvars
  <2>6. ASSUME NEW c \in Conns, ServerTakes(c) \/ \E m \in Msgs : Publish(c, m)
        PROVE  UNCHANGED inflight
    BY <2>6 DEF ServerTakes, Publish, cbvars
  <2>7. CASE UNCHANGED vars
    BY <2>1, <2>7 DEF vars, cbvars
  <2>. QED  BY <2>2, <2>3, <2>4, <2>5, <2>6, <2>7 DEF Next, CallbackRun
<1>. HIDE DEF A
<1>4. Spec => [][A]_vars
  BY <1>1, <1>2, <1>3, PTL DEF Spec
<1>. QED  BY <1>4 DEF NoAddDuringWait, A

------------------------------------------------------------------------------
(* The broker implements Broker, if no message matches two subjects of one *)
(* subscription: each of them is a NATS subscription, with a copy of the   *)
(* message of its own.  So it is of a page whose events are addressed once *)
(* (SentOnceHolds of Parser_proofs).  It is not of an event with a user and*)
(* a signal field, which the parser accepts: its two subjects may both     *)
(* match a message, and NATS then delivers that twice.                     *)
SubjectsApart ==
    \A ts \in TopicSets : \A t, u \in ts : \A m \in Msgs :
        Matches(t, SubjectOf[m]) /\ Matches(u, SubjectOf[m]) => t = u

(* A NATS subscription has a message, wherever in the library.             *)
Carries(n, m) == callback[n] = m \/ \E i \in DOMAIN pending[n] : pending[n][i] = m

(* A message is still to be sent to the server, once.                      *)
Says(queues, m) == \E c \in Conns : \E i \in DOMAIN queues[c] : queues[c][i] = Pub(m)

SaidOnce(queues) ==
    \A c, d \in Conns : \A i \in DOMAIN queues[c], j \in DOMAIN queues[d] : \A m \in Msgs :
        queues[c][i] = Pub(m) /\ queues[d][j] = Pub(m) => c = d /\ i = j

NoRepeat(q) == \A i, j \in DOMAIN q : q[i] = q[j] => i = j

(* A message is at one place at most on its way to a subscription.         *)
OnceInv ==
    /\ SaidOnce(out)
    /\ \A m \in Msgs : Says(out, m) => \A n \in NatsSubs : ~Carries(n, m)
    /\ \A n \in NatsSubs : /\ NoRepeat(pending[n])
                           /\ \A i \in DOMAIN pending[n] : pending[n][i] # callback[n]
    /\ \A s \in Subs : \A t, u \in Topics : \A m \in Msgs :
          Carries(<<s, t>>, m) /\ Carries(<<s, u>>, m) => t = u

(* The NATS subscriptions are to subjects that were asked for.             *)
TopicsInv ==
    \A s \in Subs : /\ todo[s] \subseteq topics[s]
                    /\ \A t \in Topics : <<s, t>> \in live => t \in topics[s]

RefInv == IInv /\ OnceInv /\ TopicsInv

LEMMA CommandsDiffer ==
    ASSUME NEW n, NEW m
    PROVE  Sub(n) # Pub(m) /\ Unsub(n) # Pub(m)
<1>1. Sub(n).op # Pub(m).op /\ Unsub(n).op # Pub(m).op
  BY DEF Sub, Unsub, Pub
<1>. QED  BY <1>1

LEMMA SamePub == ASSUME NEW m, NEW l, Pub(m) = Pub(l) PROVE m = l
<1>1. Pub(m).of = Pub(l).of
  OBVIOUS
<1>. QED  BY <1>1 DEF Pub

(* What a queue of commands says after a command more, and one less.       *)
Plus(queues, c, x) == [queues EXCEPT ![c] = Append(queues[c], x)]
Less(queues, c)    == [queues EXCEPT ![c] = Tail(queues[c])]

LEMMA SaysAppend ==
    ASSUME NEW queues \in [Conns -> Seq(Commands)], NEW c \in Conns, NEW x \in Commands,
           SaidOnce(queues), \A m \in Msgs : x = Pub(m) => ~Says(queues, m)
    PROVE  /\ SaidOnce(Plus(queues, c, x))
           /\ \A m \in Msgs : Says(Plus(queues, c, x), m) => Says(queues, m) \/ x = Pub(m)
<1>. DEFINE next == Plus(queues, c, x)
<1>1. \A d \in Conns : d # c => next[d] = queues[d]
  BY DEF Plus
<1>2. /\ queues[c] \in Seq(Commands) /\ Len(queues[c]) \in Nat
      /\ next[c] = Append(queues[c], x)
      /\ DOMAIN next[c] = 1..(Len(queues[c]) + 1)
      /\ \A i \in DOMAIN next[c] :
            \/ i \in DOMAIN queues[c] /\ next[c][i] = queues[c][i]
            \/ i = Len(queues[c]) + 1 /\ next[c][i] = x
  BY DEF Plus
<1>. HIDE DEF next
<1>3. ASSUME NEW d \in Conns, NEW i \in DOMAIN next[d]
      PROVE  \/ i \in DOMAIN queues[d] /\ next[d][i] = queues[d][i]
             \/ d = c /\ i = Len(queues[c]) + 1 /\ next[d][i] = x
  BY <1>1, <1>2
<1>4. \A m \in Msgs : Says(next, m) => Says(queues, m) \/ x = Pub(m)
  BY <1>3 DEF Says
<1>5. ASSUME NEW d \in Conns, NEW e \in Conns, NEW i \in DOMAIN next[d], NEW j \in DOMAIN next[e],
             NEW m \in Msgs, next[d][i] = Pub(m), next[e][j] = Pub(m)
      PROVE  d = e /\ i = j
  <2>1. CASE x = Pub(m)
    <3>1. ~Says(queues, m)
      BY <2>1
    <3>2. ~(i \in DOMAIN queues[d] /\ next[d][i] = queues[d][i])
      BY <1>5, <3>1 DEF Says
    <3>3. ~(j \in DOMAIN queues[e] /\ next[e][j] = queues[e][j])
      BY <1>5, <3>1 DEF Says
    <3>. QED  BY <1>3, <3>2, <3>3
  <2>2. CASE x # Pub(m)
    BY <1>3, <1>5, <2>2 DEF SaidOnce
  <2>. QED  BY <2>1, <2>2
<1>6. SaidOnce(next)
  BY <1>5 DEF SaidOnce
<1>. QED  BY <1>4, <1>6 DEF next

LEMMA SaysTail ==
    ASSUME NEW queues \in [Conns -> Seq(Commands)], NEW c \in Conns, queues[c] # <<>>,
           SaidOnce(queues)
    PROVE  /\ SaidOnce(Less(queues, c))
           /\ \A m \in Msgs : Says(Less(queues, c), m) => Says(queues, m)
           /\ \A m \in Msgs : Head(queues[c]) = Pub(m) =>
                                 Says(queues, m) /\ ~Says(Less(queues, c), m)
<1>. DEFINE next == Less(queues, c)
<1>1. \A d \in Conns : d # c => next[d] = queues[d]
  BY DEF Less
<1>2. /\ queues[c] \in Seq(Commands) /\ next[c] = Tail(queues[c])
      /\ 1 \in DOMAIN queues[c] /\ Head(queues[c]) = queues[c][1]
      /\ \A i \in DOMAIN next[c] : /\ i \in Nat /\ i # 0 /\ i + 1 \in DOMAIN queues[c]
                                   /\ next[c][i] = queues[c][i + 1]
  BY DEF Less
<1>. HIDE DEF next
<1>3. ASSUME NEW m \in Msgs, Says(next, m) PROVE Says(queues, m)
  <2>1. PICK d \in Conns : \E i \in DOMAIN next[d] : next[d][i] = Pub(m)
    BY <1>3 DEF Says
  <2>2. PICK i \in DOMAIN next[d] : next[d][i] = Pub(m)
    BY <2>1
  <2>3. CASE d = c
    <3>1. i + 1 \in DOMAIN queues[c] /\ queues[c][i + 1] = Pub(m)
      BY <1>2, <2>2, <2>3
    <3>. QED  BY <3>1 DEF Says
  <2>4. CASE d # c
    BY <1>1, <2>2, <2>4 DEF Says
  <2>. QED  BY <2>3, <2>4
<1>4. SaidOnce(next)
  <2>. SUFFICES ASSUME NEW d \in Conns, NEW e \in Conns,
                       NEW i \in DOMAIN next[d], NEW j \in DOMAIN next[e],
                       NEW m \in Msgs, next[d][i] = Pub(m), next[e][j] = Pub(m)
                PROVE  d = e /\ i = j
    BY DEF SaidOnce
  <2>1. CASE d = c /\ e = c
    <3>1. PICK k, l : k = i + 1 /\ l = j + 1
      OBVIOUS
    <3>2. /\ k \in DOMAIN queues[c] /\ queues[c][k] = Pub(m) /\ i \in Nat
          /\ l \in DOMAIN queues[c] /\ queues[c][l] = Pub(m) /\ j \in Nat
      BY <1>2, <2>1, <3>1
    <3>3. k = l
      BY <3>2 DEF SaidOnce
    <3>. QED  BY <2>1, <3>1, <3>2, <3>3
  <2>2. CASE d # c /\ e # c
    BY <1>1, <2>2 DEF SaidOnce
  <2>3. CASE d = c /\ e # c
    <3>1. PICK k : k = i + 1
      OBVIOUS
    <3>2. /\ k \in DOMAIN queues[c] /\ queues[c][k] = Pub(m)
          /\ j \in DOMAIN queues[e] /\ queues[e][j] = Pub(m)
      BY <1>1, <1>2, <2>3, <3>1
    <3>. QED  BY <2>3, <3>2 DEF SaidOnce
  <2>4. CASE d # c /\ e = c
    <3>1. PICK l : l = j + 1
      OBVIOUS
    <3>2. /\ l \in DOMAIN queues[c] /\ queues[c][l] = Pub(m)
          /\ i \in DOMAIN queues[d] /\ queues[d][i] = Pub(m)
      BY <1>1, <1>2, <2>4, <3>1
    <3>. QED  BY <2>4, <3>2 DEF SaidOnce
  <2>. QED  BY <2>1, <2>2, <2>3, <2>4
<1>5. ASSUME NEW m \in Msgs, queues[c][1] = Pub(m) PROVE Says(queues, m) /\ ~Says(next, m)
  <2>1. Says(queues, m)
    BY <1>2, <1>5 DEF Says
  <2>2. ASSUME NEW d \in Conns, NEW i \in DOMAIN next[d], next[d][i] = Pub(m) PROVE FALSE
    <3>1. CASE d = c
      <4>1. i + 1 = 1 /\ i \in Nat /\ i # 0
        <5>1. /\ i + 1 \in DOMAIN queues[c] /\ queues[c][i + 1] = Pub(m)
              /\ i \in Nat /\ i # 0
          BY <1>2, <2>2, <3>1
        <5>2. PICK k : k = i + 1
          OBVIOUS
        <5>3. k = 1
          BY <1>2, <1>5, <5>1, <5>2 DEF SaidOnce
        <5>. QED  BY <5>1, <5>2, <5>3
      <4>. QED  BY <4>1
    <3>2. CASE d # c
      <4>1. i \in DOMAIN queues[d] /\ queues[d][i] = Pub(m)
        BY <1>1, <2>2, <3>2
      <4>. QED  BY <1>2, <1>5, <3>2, <4>1 DEF SaidOnce
    <3>. QED  BY <3>1, <3>2
  <2>. QED  BY <2>1, <2>2 DEF Says
<1>. QED  BY <1>2, <1>3, <1>4, <1>5 DEF next

(* Steps after which everything is where it was.                           *)
LEMMA OnceFrame ==
    ASSUME RefInv, UNCHANGED <<out, pending, callback, live>>,
           \A s \in Subs : todo'[s] \subseteq topics'[s] /\ topics[s] \subseteq topics'[s]
    PROVE  OnceInv' /\ TopicsInv'
<1>1. \A n, m : Carries(n, m)' <=> Carries(n, m)
  BY DEF Carries
<1>2. OnceInv'
  BY <1>1 DEF RefInv, OnceInv
<1>3. TopicsInv'
  BY DEF RefInv, TopicsInv
<1>. QED  BY <1>2, <1>3

(* Steps after which less is on its way.                                   *)
LEMMA OnceLess ==
    ASSUME RefInv, SaidOnce(out'), \A m \in Msgs : Says(out', m) => Says(out, m),
           \A n \in NatsSubs : /\ NoRepeat(pending'[n])
                               /\ \A i \in DOMAIN pending'[n] : pending'[n][i] # callback'[n],
           \A n \in NatsSubs, m \in Msgs : Carries(n, m)' => Carries(n, m)
    PROVE  OnceInv'
<1>1. \A m \in Msgs : Says(out', m) => \A n \in NatsSubs : ~Carries(n, m)'
  BY DEF RefInv, OnceInv
<1>2. ASSUME NEW s \in Subs, NEW t \in Topics, NEW u \in Topics, NEW m \in Msgs,
             Carries(<<s, t>>, m)', Carries(<<s, u>>, m)'
      PROVE  t = u
  <2>1. <<s, t>> \in NatsSubs /\ <<s, u>> \in NatsSubs
    BY DEF NatsSubs
  <2>2. Carries(<<s, t>>, m) /\ Carries(<<s, u>>, m)
    BY <1>2, <2>1
  <2>. QED  BY <2>2 DEF RefInv, OnceInv
<1>. QED  BY <1>1, <1>2 DEF OnceInv

LEMMA SubscribeOnce ==
    ASSUME RefInv, NEW s \in Subs,
           \/ \E ts \in TopicSets : SubscribeCall(s, ts)
           \/ SubscribeRun(s)
           \/ SubscribeFail(s)
    PROVE  OnceInv' /\ TopicsInv'
<1>. USE DEF svars, cbvars, library, network
<1>1. ASSUME NEW ts \in TopicSets, SubscribeCall(s, ts) PROVE OnceInv' /\ TopicsInv'
  <2>1. /\ UNCHANGED <<out, pending, callback, live>>
        /\ topics' = [topics EXCEPT ![s] = ts] /\ todo' = [todo EXCEPT ![s] = ts]
    BY <1>1 DEF SubscribeCall
  <2>2. \A t \in Topics : <<s, t>> \notin live
    BY <1>1 DEF SubscribeCall, RefInv, IInv, LifeInv
  <2>3. \A r \in Subs : r # s => topics'[r] = topics[r] /\ todo'[r] = todo[r]
    BY <2>1 DEF RefInv, IInv, TypeOK
  <2>4. topics'[s] = ts /\ todo'[s] = ts
    BY <2>1 DEF RefInv, IInv, TypeOK
  <2>5. TopicsInv'
    BY <2>1, <2>2, <2>3, <2>4 DEF RefInv, TopicsInv
  <2>6. \A n, m : Carries(n, m)' <=> Carries(n, m)
    BY <2>1 DEF Carries
  <2>7. OnceInv'
    BY <2>1, <2>6 DEF RefInv, OnceInv
  <2>. QED  BY <2>5, <2>7
<1>2. ASSUME NEW t \in Topics, SubscribeOne(s, t) PROVE OnceInv' /\ TopicsInv'
  <2>1. /\ out' = [out EXCEPT ![Local] = Append(out[Local], Sub(<<s, t>>))]
        /\ UNCHANGED <<pending, callback, topics>>
        /\ live' = live \cup {<<s, t>>} /\ t \in todo[s]
        /\ todo' = [todo EXCEPT ![s] = todo[s] \ {t}]
    BY <1>2 DEF SubscribeOne, Send
  <2>2. Sub(<<s, t>>) \in Commands
    BY DEF Commands, NatsSubs
  <2>3. SaidOnce(out') /\ \A m \in Msgs : Says(out', m) => Says(out, m)
    <3>. DEFINE x == Sub(<<s, t>>)
    <3>1. \A m \in Msgs : x # Pub(m)
      BY CommandsDiffer
    <3>2. out \in [Conns -> Seq(Commands)] /\ SaidOnce(out)
      BY DEF RefInv, IInv, TypeOK, OnceInv
    <3>3. x \in Commands /\ out' = Plus(out, Local, x)
      BY <2>1, <2>2 DEF Plus
    <3>4. \A m \in Msgs : x = Pub(m) => ~Says(out, m)
      BY <3>1
    <3>. HIDE DEF x
    <3>5. SaidOnce(out') /\ \A m \in Msgs : Says(out', m) => Says(out, m) \/ x = Pub(m)
      BY <3>2, <3>3, <3>4, SaysAppend, ConnsAssumption
    <3>. QED  BY <3>1, <3>5
  <2>4. \A n, m : Carries(n, m)' <=> Carries(n, m)
    BY <2>1 DEF Carries
  <2>5. OnceInv'
    BY <2>1, <2>3, <2>4, OnceLess DEF RefInv, OnceInv
  <2>6. TopicsInv'
    BY <2>1 DEF RefInv, TopicsInv, IInv, TypeOK
  <2>. QED  BY <2>5, <2>6
<1>3. CASE SubscribeReturn(s) \/ SubscribeFail(s)
  <2>1. UNCHANGED <<out, pending, callback, live, topics, todo>>
    BY <1>3 DEF SubscribeReturn, SubscribeFail
  <2>. QED  BY <2>1, OnceFrame DEF RefInv, TopicsInv
<1>. QED  BY <1>1, <1>2, <1>3 DEF SubscribeRun

LEMMA CloseOnce ==
    ASSUME RefInv, NEW s \in Subs, Close(s) \/ CloseRun(s) \/ Receive(s)
    PROVE  OnceInv' /\ TopicsInv'
<1>. USE DEF svars, cbvars, library, network
<1>1. CASE Close(s) \/ CloseWait(s) \/ CloseChan(s) \/ Receive(s)
  <2>1. UNCHANGED <<out, pending, callback, live, topics, todo>>
    BY <1>1 DEF Close, CloseWait, CloseChan, Receive
  <2>. QED  BY <2>1, OnceFrame DEF RefInv, TopicsInv
<1>2. ASSUME NEW t \in Topics, CloseUnsubscribe(s, t) PROVE OnceInv' /\ TopicsInv'
  <2>1. /\ out' = [out EXCEPT ![Local] = Append(out[Local], Unsub(<<s, t>>))]
        /\ pending' = [pending EXCEPT ![<<s, t>>] = <<>>]
        /\ UNCHANGED <<callback, topics, todo>>
        /\ live' = live \ {<<s, t>>}
    BY <1>2 DEF CloseUnsubscribe, Send
  <2>2. Unsub(<<s, t>>) \in Commands
    BY DEF Commands, NatsSubs
  <2>3. SaidOnce(out') /\ \A m \in Msgs : Says(out', m) => Says(out, m)
    <3>. DEFINE x == Unsub(<<s, t>>)
    <3>1. \A m \in Msgs : x # Pub(m)
      BY CommandsDiffer
    <3>2. out \in [Conns -> Seq(Commands)] /\ SaidOnce(out)
      BY DEF RefInv, IInv, TypeOK, OnceInv
    <3>3. x \in Commands /\ out' = Plus(out, Local, x)
      BY <2>1, <2>2 DEF Plus
    <3>4. \A m \in Msgs : x = Pub(m) => ~Says(out, m)
      BY <3>1
    <3>. HIDE DEF x
    <3>5. SaidOnce(out') /\ \A m \in Msgs : Says(out', m) => Says(out, m) \/ x = Pub(m)
      BY <3>2, <3>3, <3>4, SaysAppend, ConnsAssumption
    <3>. QED  BY <3>1, <3>5
  <2>4. \A n \in NatsSubs : pending'[n] = pending[n] \/ pending'[n] = <<>>
    BY <2>1 DEF RefInv, IInv, TypeOK
  <2>5. \A n \in NatsSubs, m \in Msgs : Carries(n, m)' => Carries(n, m)
    BY <2>1, <2>4 DEF Carries
  <2>6. \A n \in NatsSubs : /\ NoRepeat(pending'[n])
                            /\ \A i \in DOMAIN pending'[n] : pending'[n][i] # callback'[n]
    BY <2>1, <2>4 DEF RefInv, OnceInv, NoRepeat
  <2>7. OnceInv'
    BY <2>3, <2>5, <2>6, OnceLess
  <2>8. TopicsInv'
    BY <2>1 DEF RefInv, TopicsInv
  <2>. QED  BY <2>7, <2>8
<1>. QED  BY <1>1, <1>2 DEF CloseRun

LEMMA CallbackOnce ==
    ASSUME RefInv, NEW s \in Subs, NEW t \in Topics, CallbackRun(s, t)
    PROVE  OnceInv' /\ TopicsInv'
<1>. USE DEF svars, cbvars, library, network
<1>. DEFINE n == <<s, t>>
<1>0. n \in NatsSubs
  BY DEF NatsSubs
<1>1. UNCHANGED <<out, live, topics, todo>>
  BY DEF CallbackRun, CallbackStart, CallbackRegister, CallbackSend
<1>2. TopicsInv'
  BY <1>1 DEF RefInv, TopicsInv
<1>3. CASE CallbackStart(s, t)
  <2>. DEFINE q == pending[n]
  <2>1. /\ q \in Seq(Msgs) /\ q # <<>> /\ callback[n] = None
        /\ callback' = [callback EXCEPT ![n] = Head(q)]
        /\ pending' = [pending EXCEPT ![n] = Tail(q)]
    BY <1>0, <1>3 DEF CallbackStart, RefInv, IInv, TypeOK
  <2>2. /\ callback'[n] = Head(q) /\ pending'[n] = Tail(q)
        /\ \A k \in NatsSubs : k # n => callback'[k] = callback[k] /\ pending'[k] = pending[k]
    BY <1>0, <2>1 DEF RefInv, IInv, TypeOK
  <2>3. /\ 1 \in DOMAIN q /\ Head(q) = q[1]
        /\ \A i \in DOMAIN Tail(q) : /\ i \in Nat /\ i # 0 /\ i + 1 \in DOMAIN q
                                     /\ Tail(q)[i] = q[i + 1]
    BY <2>1
  <2>4. NoRepeat(q)
    BY <1>0 DEF RefInv, OnceInv
  <2>5. NoRepeat(Tail(q)) /\ \A i \in DOMAIN Tail(q) : Tail(q)[i] # Head(q)
    <3>1. ASSUME NEW i \in DOMAIN Tail(q), NEW j \in DOMAIN Tail(q), Tail(q)[i] = Tail(q)[j]
          PROVE  i = j
      <4>1. i + 1 = j + 1 /\ i \in Nat /\ j \in Nat
        BY <2>3, <2>4, <3>1 DEF NoRepeat
      <4>. QED  BY <4>1
    <3>2. ASSUME NEW i \in DOMAIN Tail(q), Tail(q)[i] = Head(q) PROVE FALSE
      <4>1. i + 1 = 1 /\ i \in Nat /\ i # 0
        <5>1. i + 1 \in DOMAIN q /\ q[i + 1] = q[1] /\ i \in Nat /\ i # 0
          BY <2>3, <3>2
        <5>. QED  BY <2>3, <2>4, <5>1 DEF NoRepeat
      <4>. QED  BY <4>1
    <3>. QED  BY <3>1, <3>2 DEF NoRepeat
  <2>6. \A k \in NatsSubs : /\ NoRepeat(pending'[k])
                            /\ \A i \in DOMAIN pending'[k] : pending'[k][i] # callback'[k]
    BY <2>2, <2>5 DEF RefInv, OnceInv
  <2>7. ASSUME NEW k \in NatsSubs, NEW m \in Msgs, Carries(k, m)' PROVE Carries(k, m)
    <3>1. CASE k = n
      <4>1. CASE callback'[k] = m
        <5>1. 1 \in DOMAIN pending[k] /\ pending[k][1] = m
          BY <2>2, <2>3, <3>1, <4>1
        <5>. QED  BY <5>1 DEF Carries
      <4>2. ASSUME NEW i \in DOMAIN pending'[k], pending'[k][i] = m PROVE Carries(k, m)
        <5>1. i + 1 \in DOMAIN pending[k] /\ pending[k][i + 1] = m
          BY <2>2, <2>3, <3>1, <4>2
        <5>. QED  BY <5>1 DEF Carries
      <4>. QED  BY <2>7, <4>1, <4>2 DEF Carries
    <3>2. CASE k # n
      BY <2>2, <2>7, <3>2 DEF Carries
    <3>. QED  BY <3>1, <3>2
  <2>. QED  BY <1>1, <1>2, <2>6, <2>7, OnceLess DEF RefInv, OnceInv
<1>4. CASE CallbackRegister(s, t) \/ CallbackSend(s, t)
  <2>1. UNCHANGED pending /\ \A k \in NatsSubs : callback'[k] = callback[k] \/ callback'[k] = None
    BY <1>4 DEF CallbackRegister, CallbackSend, RefInv, IInv, TypeOK
  <2>2. \A k \in NatsSubs : \A i \in DOMAIN pending[k] : pending[k][i] \in Msgs
    BY DEF RefInv, IInv, TypeOK
  <2>3. \A k \in NatsSubs : /\ NoRepeat(pending'[k])
                            /\ \A i \in DOMAIN pending'[k] : pending'[k][i] # callback'[k]
    BY <2>1, <2>2, NoneAssumption DEF RefInv, OnceInv
  <2>4. \A k \in NatsSubs, m \in Msgs : Carries(k, m)' => Carries(k, m)
    BY <2>1, NoneAssumption DEF Carries
  <2>. QED  BY <1>1, <1>2, <2>3, <2>4, OnceLess DEF RefInv, OnceInv
<1>. QED  BY <1>3, <1>4 DEF CallbackRun

LEMMA PublishOnce ==
    ASSUME RefInv, NEW c \in Conns, NEW m \in Msgs, Publish(c, m)
    PROVE  OnceInv' /\ TopicsInv'
<1>1. /\ out' = [out EXCEPT ![c] = Append(out[c], Pub(m))]
      /\ UNCHANGED <<pending, callback, live, topics, todo>>
      /\ ~InFlight(m)
  BY DEF Publish, Send, svars, cbvars, library
<1>2. ~Says(out, m) /\ \A n \in NatsSubs : ~Carries(n, m)
  BY <1>1 DEF InFlight, Says, Carries
<1>3. SaidOnce(out') /\ \A l \in Msgs : Says(out', l) => Says(out, l) \/ l = m
  <2>1. \A l \in Msgs : Pub(m) = Pub(l) => l = m /\ ~Says(out, l)
    BY <1>2, SamePub
  <2>2. Pub(m) \in Commands /\ out \in [Conns -> Seq(Commands)] /\ SaidOnce(out)
    BY DEF Commands, RefInv, IInv, TypeOK, OnceInv
  <2>3. SaidOnce(out') /\ \A l \in Msgs : Says(out', l) => Says(out, l) \/ Pub(m) = Pub(l)
    <3>. DEFINE x == Pub(m)
    <3>1. /\ x \in Commands /\ out' = Plus(out, c, x)
          /\ \A l \in Msgs : x = Pub(l) => ~Says(out, l)
      BY <1>1, <2>1, <2>2 DEF Plus
    <3>. HIDE DEF x
    <3>2. SaidOnce(out') /\ \A l \in Msgs : Says(out', l) => Says(out, l) \/ x = Pub(l)
      BY <2>2, <3>1, SaysAppend
    <3>. QED  BY <3>2 DEF x
  <2>. QED  BY <2>1, <2>3
<1>4. \A n, l : Carries(n, l)' <=> Carries(n, l)
  BY <1>1 DEF Carries
<1>5. OnceInv'
  BY <1>1, <1>2, <1>3, <1>4 DEF RefInv, OnceInv
<1>6. TopicsInv'
  BY <1>1 DEF RefInv, TopicsInv
<1>. QED  BY <1>5, <1>6

(* The server's copies of a message go to subscriptions that had none.     *)
LEMMA PubCommand ==
    ASSUME NEW command \in Commands, command.op = "pub"
    PROVE  command.of \in Msgs /\ command = Pub(command.of)
<1>1. command \notin {Sub(n) : n \in NatsSubs} \cup {Unsub(n) : n \in NatsSubs}
  BY DEF Sub, Unsub
<1>2. PICK m \in Msgs : command = Pub(m)
  BY <1>1 DEF Commands
<1>. QED  BY <1>2 DEF Pub

Reached(n, m) == n \in server \cap live /\ Matches(n[2], SubjectOf[m])

LEMMA ServerOnce ==
    ASSUME SubjectsApart, RefInv, NEW c \in Conns, ServerTakes(c)
    PROVE  OnceInv' /\ TopicsInv'
<1>. DEFINE command == Head(out[c])
<1>1. /\ out \in [Conns -> Seq(Commands)] /\ out[c] # <<>> /\ command \in Commands
      /\ out' = Less(out, c)
      /\ UNCHANGED <<callback, live, topics, todo>>
  BY DEF ServerTakes, Less, RefInv, IInv, TypeOK, svars, cbvars
<1>2. SaidOnce(out)
  BY DEF RefInv, OnceInv
<1>3. /\ SaidOnce(out')
      /\ \A l \in Msgs : Says(out', l) => Says(out, l)
      /\ \A l \in Msgs : command = Pub(l) => Says(out, l) /\ ~Says(out', l)
  BY <1>1, <1>2, SaysTail
<1>4. TopicsInv'
  BY <1>1 DEF RefInv, TopicsInv
<1>5. CASE UNCHANGED pending
  <2>1. \A n, l : Carries(n, l)' <=> Carries(n, l)
    BY <1>1, <1>5 DEF Carries
  <2>2. \A n \in NatsSubs : /\ NoRepeat(pending'[n])
                            /\ \A i \in DOMAIN pending'[n] : pending'[n][i] # callback'[n]
    BY <1>1, <1>5 DEF RefInv, OnceInv
  <2>. QED  BY <1>3, <1>4, <2>1, <2>2, OnceLess
<1>6. CASE command.op = "pub"
  <2>. DEFINE m == command.of
  <2>1. m \in Msgs /\ command = Pub(m)
    BY <1>1, <1>6, PubCommand
  <2>2. Says(out, m) /\ ~Says(out', m) /\ \A n \in NatsSubs : ~Carries(n, m)
    BY <1>3, <2>1 DEF RefInv, OnceInv
  <2>3. pending' = [n \in NatsSubs |->
                      IF Reached(n, m) THEN Append(pending[n], m) ELSE pending[n]]
    BY <1>6 DEF ServerTakes, Reached
  <2>. HIDE DEF m, command
  <2>4. ASSUME NEW n \in NatsSubs
        PROVE  /\ NoRepeat(pending'[n])
               /\ \A i \in DOMAIN pending'[n] : pending'[n][i] # callback'[n]
               /\ \A l \in Msgs : Carries(n, l)' => Carries(n, l) \/ (l = m /\ Reached(n, m))
    <3>. DEFINE q == pending[n]
    <3>1. /\ q \in Seq(Msgs) /\ Len(q) \in Nat /\ NoRepeat(q)
          /\ \A i \in DOMAIN q : q[i] # m /\ q[i] # callback[n]
          /\ callback[n] # m /\ callback'[n] = callback[n]
      BY <1>1, <2>1, <2>2 DEF RefInv, IInv, TypeOK, OnceInv, Carries
    <3>2. CASE ~Reached(n, m)
      BY <2>3, <3>1, <3>2 DEF Carries
    <3>3. CASE Reached(n, m)
      <4>1. /\ pending'[n] = Append(q, m)
            /\ \A i \in DOMAIN pending'[n] :
                  \/ i \in DOMAIN q /\ pending'[n][i] = q[i]
                  \/ i = Len(q) + 1 /\ pending'[n][i] = m
        BY <2>1, <2>3, <3>1, <3>3
      <4>2. NoRepeat(pending'[n])
        BY <3>1, <4>1 DEF NoRepeat
      <4>. QED  BY <3>1, <3>3, <4>1, <4>2 DEF Carries
    <3>. QED  BY <3>2, <3>3
  <2>5. ASSUME NEW l \in Msgs, Says(out', l), NEW n \in NatsSubs PROVE ~Carries(n, l)'
    <3>1. l # m /\ Says(out, l)
      BY <1>3, <2>2, <2>5
    <3>. QED  BY <2>4, <3>1 DEF RefInv, OnceInv
  <2>6. ASSUME NEW s \in Subs, NEW t \in Topics, NEW u \in Topics, NEW l \in Msgs,
               Carries(<<s, t>>, l)', Carries(<<s, u>>, l)'
        PROVE  t = u
    <3>1. <<s, t>> \in NatsSubs /\ <<s, u>> \in NatsSubs
      BY DEF NatsSubs
    <3>2. CASE l = m
      <4>1. Reached(<<s, t>>, m) /\ Reached(<<s, u>>, m)
        BY <2>2, <2>4, <2>6, <3>1, <3>2
      <4>2. /\ t \in topics[s] /\ u \in topics[s]
            /\ Matches(t, SubjectOf[m]) /\ Matches(u, SubjectOf[m])
        BY <4>1 DEF Reached, RefInv, TopicsInv
      <4>3. topics[s] \in TopicSets
        BY <4>2 DEF RefInv, IInv, TypeOK
      <4>. QED  BY <2>1, <4>2, <4>3 DEF SubjectsApart
    <3>3. CASE l # m
      <4>1. Carries(<<s, t>>, l) /\ Carries(<<s, u>>, l)
        BY <2>4, <2>6, <3>1, <3>3
      <4>. QED  BY <4>1 DEF RefInv, OnceInv
    <3>. QED  BY <3>2, <3>3
  <2>7. OnceInv'
    BY <1>3, <2>4, <2>5, <2>6 DEF OnceInv
  <2>. QED  BY <1>4, <2>7
<1>. QED  BY <1>5, <1>6 DEF ServerTakes

LEMMA RefInvariance == ASSUME SubjectsApart PROVE Spec => []RefInv
<1>1. Init => RefInv
  <2>. SUFFICES ASSUME Init PROVE RefInv
    OBVIOUS
  <2>1. \A m \in Msgs : ~Says(out, m)
    BY DEF Init, Says
  <2>2. SaidOnce(out)
    BY DEF Init, SaidOnce
  <2>3. \A n \in NatsSubs, m \in Msgs : ~Carries(n, m)
    BY NoneAssumption DEF Init, Carries
  <2>4. \A s \in Subs, t \in Topics : <<s, t>> \in NatsSubs
    BY DEF NatsSubs
  <2>5. \A n \in NatsSubs : DOMAIN pending[n] = {}
    BY DEF Init
  <2>6. OnceInv
    BY <2>1, <2>2, <2>3, <2>4, <2>5 DEF OnceInv, NoRepeat
  <2>7. TopicsInv
    BY DEF Init, TopicsInv
  <2>. QED  BY <2>6, <2>7, InitIInv DEF RefInv
<1>2. RefInv /\ [Next]_vars => RefInv'
  <2>. SUFFICES ASSUME RefInv, [Next]_vars PROVE RefInv'
    OBVIOUS
  <2>1. IInv'
    BY StepIInv DEF RefInv
  <2>2. CASE UNCHANGED vars
    <3>1. UNCHANGED <<out, pending, callback, live, topics, todo>>
      BY <2>2 DEF vars, svars, cbvars, library, network
    <3>. QED  BY <2>1, <3>1, OnceFrame DEF RefInv, TopicsInv
  <2>. QED
    BY <2>1, <2>2, SubscribeOnce, CloseOnce, CallbackOnce, PublishOnce, ServerOnce
       DEF Next, RefInv
<1>. QED  BY <1>1, <1>2, PTL DEF Spec

------------------------------------------------------------------------------
(* What the contract sees of a step.                                       *)
LEMMA OwedPairs ==
    /\ owedBar \subseteq Msgs \X Subs /\ owedBar' \subseteq Msgs \X Subs
    /\ \A m \in Msgs, s \in Subs : <<m, s>> \in owedBar <=> Holds(s, m)
    /\ \A m \in Msgs, s \in Subs : <<m, s>> \in owedBar' <=> Holds(s, m)'
  BY DEF owedBar

(* What is owed depends on what each NATS subscription has.                *)
HoldsBy(s, t, m) == \/ <<s, t>> \in passed /\ callback[<<s, t>>] = m
                    \/ cpc[s] = "no" /\ Carries(<<s, t>>, m)

LEMMA HoldsSplit ==
    ASSUME NEW s, NEW m
    PROVE  /\ Holds(s, m) <=> \E t \in Topics : HoldsBy(s, t, m)
           /\ Holds(s, m)' <=> \E t \in Topics : HoldsBy(s, t, m)'
  BY DEF Holds, HoldsBy, Carries

LEMMA SameOwed ==
    ASSUME \A s \in Subs, m \in Msgs : Holds(s, m)' <=> Holds(s, m)
    PROVE  UNCHANGED owedBar
  BY DEF owedBar

LEMMA SameState == ASSUME UNCHANGED <<chan, cpc>> PROVE UNCHANGED stateBar
  BY DEF stateBar

LEMMA SameHolds ==
    ASSUME UNCHANGED <<callback, passed, pending, cpc>>
    PROVE  UNCHANGED owedBar /\ \A s \in Subs, m \in Msgs : Holds(s, m)' <=> Holds(s, m)
<1>1. \A s \in Subs, m \in Msgs : Holds(s, m)' <=> Holds(s, m)
  BY DEF Holds
<1>. QED  BY <1>1, SameOwed

LEMMA SameAbstractMatches ==
    ASSUME NEW pattern, NEW subject
    PROVE  Abstract!Matches(pattern, subject) = Matches(pattern, subject)
  BY DEF Abstract!Matches, Matches, Abstract!IsPattern, IsPattern, Abstract!AnySuffix,
         AnySuffix, Abstract!AnyToken, AnyToken

(* Subscribe takes effect when its channel is made.                        *)
LEMMA SubscribeRefines ==
    ASSUME RefInv, NEW s \in Subs
    PROVE  /\ \A ts \in TopicSets : SubscribeCall(s, ts) => Abstract!Next
           /\ SubscribeRun(s) => UNCHANGED Abstract!vars
<1>. USE DEF svars, cbvars, library, network
<1>1. ASSUME NEW ts \in TopicSets, SubscribeCall(s, ts) PROVE Abstract!Next
  <2>1. /\ chan[s] = "nil" /\ cpc[s] = "no"
        /\ chan' = [chan EXCEPT ![s] = "open"] /\ topics' = [topics EXCEPT ![s] = ts]
        /\ UNCHANGED <<buffer, cpc, callback, passed, pending>>
    BY <1>1 DEF SubscribeCall, RefInv, IInv, LifeInv
  <2>2. chan'[s] = "open" /\ \A r \in Subs : r # s => chan'[r] = chan[r]
    BY <2>1 DEF RefInv, IInv, TypeOK
  <2>3. stateBar[s] = "none"
    BY <2>1 DEF stateBar
  <2>4. stateBar' = [stateBar EXCEPT ![s] = "open"]
    BY <2>1, <2>2 DEF stateBar
  <2>5. Abstract!Subscribe(s, ts)
    BY <2>1, <2>3, <2>4, SameHolds DEF Abstract!Subscribe
  <2>. QED  BY <2>5 DEF Abstract!Next
<1>2. ASSUME SubscribeRun(s) PROVE UNCHANGED Abstract!vars
  <2>1. UNCHANGED <<chan, topics, buffer, cpc, callback, passed, pending>>
    BY <1>2 DEF SubscribeRun, SubscribeReturn, SubscribeOne
  <2>. QED  BY <2>1, SameHolds, SameState DEF Abstract!vars
<1>. QED  BY <1>1, <1>2

(* A close begins with the flag, which forgets all that no callback is     *)
(* sending, and ends with the channel.                                     *)
LEMMA CloseRefines ==
    ASSUME RefInv, NEW s \in Subs
    PROVE  /\ SubscribeFail(s) \/ Close(s) => Abstract!Next
           /\ CloseRun(s) => Abstract!Next \/ UNCHANGED Abstract!vars
<1>. USE DEF svars, cbvars, library, network
<1>1. ASSUME SubscribeFail(s) \/ Close(s) PROVE Abstract!Next
  <2>1. /\ spc[s] # "new" /\ cpc[s] = "no" /\ cpc' = [cpc EXCEPT ![s] = "unsub"]
        /\ UNCHANGED <<chan, buffer, topics, callback, passed, pending>>
    BY <1>1 DEF SubscribeFail, Close, RefInv, IInv, LifeInv
  <2>2. chan[s] = "open"
    BY <2>1 DEF RefInv, IInv, LifeInv, TypeOK
  <2>3. cpc'[s] = "unsub" /\ \A r \in Subs : r # s => cpc'[r] = cpc[r]
    BY <2>1 DEF RefInv, IInv, TypeOK
  <2>4. stateBar[s] = "open" /\ stateBar' = [stateBar EXCEPT ![s] = "closing"]
    BY <2>1, <2>2, <2>3 DEF stateBar
  <2>5. ASSUME NEW r \in Subs, NEW m \in Msgs
        PROVE  /\ Holds(r, m)' => Holds(r, m)
               /\ r # s => (Holds(r, m) => Holds(r, m)')
    BY <2>1, <2>3 DEF Holds
  <2>. DEFINE forgotten == (owedBar \cap Abstract!OwedTo(s)) \ owedBar'
  <2>6. owedBar' = owedBar \ forgotten
    <3>1. ASSUME NEW o \in owedBar' PROVE o \in owedBar
      <4>1. PICK m \in Msgs, r \in Subs : o = <<m, r>>
        BY OwedPairs
      <4>2. Holds(r, m)' => Holds(r, m)
        BY <2>5, Zenon
      <4>. QED  BY <4>1, <4>2, OwedPairs
    <3>2. ASSUME NEW o \in owedBar, o \notin Abstract!OwedTo(s) PROVE o \in owedBar'
      <4>1. PICK m \in Msgs, r \in Subs : o = <<m, r>>
        BY OwedPairs
      <4>2. r # s
        BY <3>2, <4>1 DEF Abstract!OwedTo
      <4>3. Holds(r, m)
        BY <3>2, <4>1, OwedPairs
      <4>4. r # s => (Holds(r, m) => Holds(r, m)')
        BY <2>5, Zenon
      <4>. QED  BY <4>1, <4>2, <4>3, <4>4, OwedPairs
    <3>. QED  BY <3>1, <3>2
  <2>7. forgotten \in SUBSET (owedBar \cap Abstract!OwedTo(s))
    OBVIOUS
  <2>8. Abstract!CloseBegin(s)
    BY <2>1, <2>4, <2>6, <2>7 DEF Abstract!CloseBegin
  <2>. QED  BY <2>8 DEF Abstract!Next
<1>2. ASSUME NEW t \in Topics, CloseUnsubscribe(s, t) PROVE UNCHANGED Abstract!vars
  <2>1. /\ cpc[s] = "unsub" /\ pending' = [pending EXCEPT ![<<s, t>>] = <<>>]
        /\ UNCHANGED <<chan, buffer, topics, cpc, callback, passed>>
    BY <1>2 DEF CloseUnsubscribe
  <2>2. \A r \in Subs, u \in Topics : r # s => pending'[<<r, u>>] = pending[<<r, u>>]
    BY <2>1 DEF RefInv, IInv, TypeOK, NatsSubs
  <2>3. ASSUME NEW r \in Subs, NEW m \in Msgs, NEW u \in Topics
        PROVE  HoldsBy(r, u, m)' <=> HoldsBy(r, u, m)
    <3>1. CASE r = s
      BY <2>1, <3>1 DEF HoldsBy
    <3>2. CASE r # s
      BY <2>1, <2>2, <3>2 DEF HoldsBy, Carries
    <3>. QED  BY <3>1, <3>2
  <2>4. \A r \in Subs, m \in Msgs : Holds(r, m)' <=> Holds(r, m)
    BY <2>3, HoldsSplit
  <2>. QED  BY <2>1, <2>4, SameOwed, SameState DEF Abstract!vars
<1>3. ASSUME CloseWait(s) PROVE UNCHANGED Abstract!vars
  <2>1. /\ cpc[s] = "unsub" /\ cpc' = [cpc EXCEPT ![s] = "wait"]
        /\ UNCHANGED <<chan, buffer, topics, callback, passed, pending>>
    BY <1>3 DEF CloseWait
  <2>2. cpc'[s] = "wait" /\ \A r \in Subs : r # s => cpc'[r] = cpc[r]
    BY <2>1 DEF RefInv, IInv, TypeOK
  <2>3. UNCHANGED stateBar
    BY <2>1, <2>2 DEF stateBar
  <2>4. \A r \in Subs, m \in Msgs : Holds(r, m)' <=> Holds(r, m)
    BY <2>1, <2>2 DEF Holds
  <2>. QED  BY <2>1, <2>3, <2>4, SameOwed DEF Abstract!vars
<1>4. ASSUME CloseChan(s) PROVE Abstract!Next
  <2>1. /\ cpc[s] = "wait" /\ inflight[s] = 0
        /\ cpc' = [cpc EXCEPT ![s] = "closed"] /\ chan' = [chan EXCEPT ![s] = "closed"]
        /\ UNCHANGED <<buffer, topics, callback, passed, pending>>
    BY <1>4 DEF CloseChan
  <2>2. chan[s] = "open"
    BY <2>1 DEF RefInv, IInv, LifeInv, TypeOK
  <2>3. /\ cpc'[s] = "closed" /\ \A r \in Subs : r # s => cpc'[r] = cpc[r]
        /\ chan'[s] = "closed" /\ \A r \in Subs : r # s => chan'[r] = chan[r]
    BY <2>1 DEF RefInv, IInv, TypeOK
  <2>4. stateBar[s] = "closing" /\ stateBar' = [stateBar EXCEPT ![s] = "closed"]
    BY <2>1, <2>2, <2>3 DEF stateBar
  <2>5. Counted(s) = {}
    BY <2>1, FS_EmptySet DEF RefInv, IInv, CountInv
  <2>6. \A m \in Msgs : ~Holds(s, m) /\ ~Holds(s, m)'
    BY <2>1, <2>3, <2>5 DEF Holds, Counted
  <2>7. \A r \in Subs, m \in Msgs : r # s => (Holds(r, m)' <=> Holds(r, m))
    BY <2>1, <2>3 DEF Holds
  <2>8. owedBar' = owedBar \ Abstract!OwedTo(s)
    BY <2>6, <2>7, OwedPairs DEF Abstract!OwedTo
  <2>9. Abstract!CloseEnd(s)
    BY <2>1, <2>4, <2>8 DEF Abstract!CloseEnd
  <2>. QED  BY <2>9 DEF Abstract!Next
<1>. QED  BY <1>1, <1>2, <1>3, <1>4 DEF CloseRun

(* A callback takes what it serves out of the queue and, unless the flag   *)
(* turned it away, is what the subscription is owed until it has offered   *)
(* it.                                                                     *)
LEMMA CallbackRefines ==
    ASSUME RefInv, NEW s \in Subs, NEW t \in Topics
    PROVE  /\ CallbackStart(s, t) \/ CallbackRegister(s, t) => UNCHANGED Abstract!vars
           /\ CallbackSend(s, t) => Abstract!Next
<1>. USE DEF svars, cbvars, library, network
<1>. DEFINE n == <<s, t>>
<1>0. n \in NatsSubs /\ \A r \in Subs, u \in Topics : <<r, u>> \in NatsSubs
  BY DEF NatsSubs
<1>1. ASSUME CallbackStart(s, t) PROVE UNCHANGED Abstract!vars
  <2>. DEFINE q == pending[n]
  <2>1. /\ q \in Seq(Msgs) /\ q # <<>> /\ callback[n] = None
        /\ callback' = [callback EXCEPT ![n] = Head(q)]
        /\ pending' = [pending EXCEPT ![n] = Tail(q)]
        /\ UNCHANGED <<chan, buffer, topics, cpc, passed>>
    BY <1>0, <1>1 DEF CallbackStart, RefInv, IInv, TypeOK
  <2>2. n \notin passed
    BY <1>0, <2>1 DEF RefInv, IInv, CallbackInv
  <2>3. /\ callback'[n] = Head(q) /\ pending'[n] = Tail(q)
        /\ \A k \in NatsSubs : k # n => callback'[k] = callback[k] /\ pending'[k] = pending[k]
    BY <1>0, <2>1 DEF RefInv, IInv, TypeOK
  <2>4. \A m \in Msgs : Carries(n, m)' <=> Carries(n, m)
    <3>1. ASSUME NEW m \in Msgs, Carries(n, m) PROVE Carries(n, m)'
      <4>1. PICK i \in DOMAIN q : q[i] = m
        BY <2>1, <3>1, NoneAssumption DEF Carries
      <4>2. CASE i = 1
        BY <2>1, <2>3, <4>1, <4>2 DEF Carries
      <4>3. CASE i # 1
        <5>1. PICK j : j = i - 1
          OBVIOUS
        <5>2. j \in DOMAIN Tail(q) /\ Tail(q)[j] = m
          BY <2>1, <4>1, <4>3, <5>1
        <5>. QED  BY <2>3, <5>2 DEF Carries
      <4>. QED  BY <4>2, <4>3
    <3>2. ASSUME NEW m \in Msgs, Carries(n, m)' PROVE Carries(n, m)
      <4>1. CASE Head(q) = m
        <5>1. 1 \in DOMAIN q /\ q[1] = m
          BY <2>1, <4>1
        <5>. QED  BY <5>1 DEF Carries
      <4>2. ASSUME NEW i \in DOMAIN Tail(q), Tail(q)[i] = m PROVE Carries(n, m)
        <5>1. i + 1 \in DOMAIN q /\ q[i + 1] = m
          BY <2>1, <4>2
        <5>. QED  BY <5>1 DEF Carries
      <4>. QED  BY <2>3, <3>2, <4>1, <4>2 DEF Carries
    <3>. QED  BY <3>1, <3>2
  <2>5. ASSUME NEW r \in Subs, NEW m \in Msgs, NEW u \in Topics
        PROVE  HoldsBy(r, u, m)' <=> HoldsBy(r, u, m)
    <3>1. CASE <<r, u>> = n
      <4>1. Carries(<<r, u>>, m)' <=> Carries(<<r, u>>, m)
        BY <2>4, <3>1
      <4>. QED  BY <2>1, <2>2, <3>1, <4>1 DEF HoldsBy
    <3>2. CASE <<r, u>> # n
      BY <1>0, <2>1, <2>3, <3>2 DEF HoldsBy, Carries
    <3>. QED  BY <3>1, <3>2
  <2>6. \A r \in Subs, m \in Msgs : Holds(r, m)' <=> Holds(r, m)
    BY <2>5, HoldsSplit
  <2>. QED  BY <2>1, <2>6, SameOwed, SameState DEF Abstract!vars
<1>2. ASSUME CallbackRegister(s, t) PROVE UNCHANGED Abstract!vars
  <2>1. /\ callback[n] # None /\ n \notin passed
        /\ UNCHANGED <<chan, buffer, topics, cpc, pending>>
    BY <1>2 DEF CallbackRegister
  <2>2. CASE cpc[s] # "no"
    <3>1. callback' = [callback EXCEPT ![n] = None] /\ UNCHANGED passed
      BY <1>2, <2>2 DEF CallbackRegister
    <3>2. \A r \in Subs, u \in Topics :
             <<r, u>> # n => callback'[<<r, u>>] = callback[<<r, u>>]
      BY <1>0, <3>1 DEF RefInv, IInv, TypeOK
    <3>3. \A r \in Subs, m \in Msgs : Holds(r, m)' <=> Holds(r, m)
      BY <2>1, <2>2, <3>1, <3>2 DEF Holds
    <3>. QED  BY <2>1, <3>3, SameOwed, SameState DEF Abstract!vars
  <2>3. CASE cpc[s] = "no"
    <3>1. passed' = passed \cup {n} /\ UNCHANGED callback
      BY <1>2, <2>3 DEF CallbackRegister
    <3>2. \A r \in Subs, m \in Msgs : Holds(r, m)' <=> Holds(r, m)
      BY <2>1, <2>3, <3>1 DEF Holds
    <3>. QED  BY <2>1, <3>2, SameOwed, SameState DEF Abstract!vars
  <2>. QED  BY <2>2, <2>3
<1>3. ASSUME CallbackSend(s, t) PROVE Abstract!Next
  <2>0. PICK m \in Msgs : m = callback[n]
    BY <1>0, <1>3 DEF CallbackSend, RefInv, IInv, TypeOK, CallbackInv
  <2>1. /\ n \in passed /\ passed' = passed \ {n}
        /\ callback' = [callback EXCEPT ![n] = None]
        /\ buffer' = IF Len(buffer[s]) < ChanBuffer
                     THEN [buffer EXCEPT ![s] = Append(buffer[s], m)] ELSE buffer
        /\ UNCHANGED <<chan, topics, cpc, pending>>
    BY <1>3, <2>0 DEF CallbackSend
  <2>2. m # None
    BY NoneAssumption
  <2>3. callback'[n] = None /\ \A k \in NatsSubs : k # n => callback'[k] = callback[k]
    BY <1>0, <2>1 DEF RefInv, IInv, TypeOK
  <2>4. Holds(s, m)
    BY <2>0, <2>1 DEF Holds
  <2>5. ~Holds(s, m)'
    <3>1. \A u \in Topics : u # t => ~Carries(<<s, u>>, m)
      BY <2>0 DEF RefInv, OnceInv, Carries
    <3>2. \A i \in DOMAIN pending[n] : pending[n][i] # m
      BY <1>0, <2>0 DEF RefInv, OnceInv
    <3>3. ASSUME NEW u \in Topics PROVE ~HoldsBy(s, u, m)'
      <4>1. CASE u = t
        BY <2>1, <2>2, <2>3, <3>2, <4>1 DEF HoldsBy, Carries
      <4>2. CASE u # t
        <5>1. <<s, u>> \in NatsSubs /\ <<s, u>> # n
          BY <1>0, <4>2
        <5>2. callback'[<<s, u>>] = callback[<<s, u>>] /\ callback[<<s, u>>] # m
          BY <2>3, <3>1, <4>2, <5>1 DEF Carries
        <5>3. \A i \in DOMAIN pending[<<s, u>>] : pending[<<s, u>>][i] # m
          BY <3>1, <4>2 DEF Carries
        <5>. QED  BY <2>1, <5>2, <5>3 DEF HoldsBy, Carries
      <4>. QED  BY <4>1, <4>2
    <3>. QED  BY <3>3, HoldsSplit
  <2>6. ASSUME NEW r \in Subs, NEW l \in Msgs, r # s \/ l # m
        PROVE  Holds(r, l)' <=> Holds(r, l)
    <3>1. \A u \in Topics :
             /\ callback'[<<r, u>>] = l <=> callback[<<r, u>>] = l
             /\ (<<r, u>> \in passed' /\ callback'[<<r, u>>] = l) <=>
                   (<<r, u>> \in passed /\ callback[<<r, u>>] = l)
      BY <1>0, <2>0, <2>1, <2>3, <2>6, NoneAssumption
    <3>. QED  BY <2>1, <3>1 DEF Holds
  <2>7. owedBar' = owedBar \ {<<m, s>>}
    <3>1. <<m, s>> \notin owedBar'
      BY <2>5, OwedPairs
    <3>2. ASSUME NEW l \in Msgs, NEW r \in Subs, <<l, r>> # <<m, s>>
          PROVE  <<l, r>> \in owedBar' <=> <<l, r>> \in owedBar
      <4>1. Holds(r, l)' <=> Holds(r, l)
        BY <2>6, <3>2
      <4>. QED  BY <4>1, OwedPairs
    <3>3. owedBar \subseteq Msgs \X Subs /\ owedBar' \subseteq Msgs \X Subs
      BY OwedPairs
    <3>. QED  BY <3>1, <3>2, <3>3
  <2>8. <<m, s>> \in owedBar
    BY <2>4, OwedPairs
  <2>9. Abstract!Offer(m, s)
    BY <2>1, <2>7, <2>8, SameState DEF Abstract!Offer
  <2>. QED  BY <2>9 DEF Abstract!Next
<1>. QED  BY <1>1, <1>2, <1>3

(* A message is owed when the server routes it, to those it reaches.       *)
LEMMA NetworkRefines ==
    ASSUME RefInv, NEW c \in Conns
    PROVE  /\ \A m \in Msgs : Publish(c, m) => UNCHANGED Abstract!vars
           /\ ServerTakes(c) => Abstract!Next \/ UNCHANGED Abstract!vars
<1>. USE DEF svars, cbvars, library, network
<1>1. ASSUME NEW m \in Msgs, Publish(c, m) PROVE UNCHANGED Abstract!vars
  <2>1. UNCHANGED <<chan, topics, buffer, cpc, callback, passed, pending>>
    BY <1>1 DEF Publish
  <2>. QED  BY <2>1, SameHolds, SameState DEF Abstract!vars
<1>2. ASSUME ServerTakes(c), UNCHANGED pending PROVE UNCHANGED Abstract!vars
  <2>1. UNCHANGED <<chan, topics, buffer, cpc, callback, passed, pending>>
    BY <1>2 DEF ServerTakes
  <2>. QED  BY <2>1, SameHolds, SameState DEF Abstract!vars
<1>3. ASSUME ServerTakes(c), Head(out[c]).op = "pub" PROVE Abstract!Next
  <2>. DEFINE command == Head(out[c])
              m == command.of
              reached == {r \in Subs : cpc[r] = "no" /\ \E t \in Topics : Reached(<<r, t>>, m)}
  <2>1. /\ out \in [Conns -> Seq(Commands)] /\ out[c] # <<>> /\ command \in Commands
        /\ UNCHANGED <<chan, buffer, topics, cpc, callback, passed>>
    BY <1>3 DEF ServerTakes, RefInv, IInv, TypeOK
  <2>2. m \in Msgs /\ command = Pub(m)
    BY <1>3, <2>1, PubCommand
  <2>3. pending' = [n \in NatsSubs |->
                      IF Reached(n, m) THEN Append(pending[n], m) ELSE pending[n]]
    BY <1>3 DEF ServerTakes, Reached
  <2>4. \A n \in NatsSubs : ~Carries(n, m)
    <3>1. 1 \in DOMAIN out[c] /\ out[c][1] = Pub(m)
      BY <2>1, <2>2
    <3>2. Says(out, m)
      BY <3>1 DEF Says
    <3>. QED  BY <2>2, <3>2 DEF RefInv, OnceInv
  <2>5. \A s \in Subs : ~Holds(s, m)
    <3>1. \A s \in Subs, t \in Topics : <<s, t>> \in NatsSubs
      BY DEF NatsSubs
    <3>. QED  BY <2>4, <3>1 DEF Holds, Carries
  <2>. HIDE DEF m, command
  <2>6. ASSUME NEW s \in Subs, NEW l \in Msgs
        PROVE  Holds(s, l)' <=> Holds(s, l) \/ (l = m /\ s \in reached)
    <3>1. ASSUME NEW t \in Topics
          PROVE  (\E i \in DOMAIN pending'[<<s, t>>] : pending'[<<s, t>>][i] = l) <=>
                    \/ \E i \in DOMAIN pending[<<s, t>>] : pending[<<s, t>>][i] = l
                    \/ l = m /\ Reached(<<s, t>>, m)
      <4>. DEFINE q == pending[<<s, t>>]
      <4>1. <<s, t>> \in NatsSubs /\ q \in Seq(Msgs) /\ Len(q) \in Nat
        BY DEF NatsSubs, RefInv, IInv, TypeOK
      <4>2. pending'[<<s, t>>] = IF Reached(<<s, t>>, m) THEN Append(q, m) ELSE q
        BY <2>3, <4>1
      <4>3. /\ \A i \in DOMAIN Append(q, m) :
                  \/ i \in DOMAIN q /\ Append(q, m)[i] = q[i]
                  \/ i = Len(q) + 1 /\ Append(q, m)[i] = m
            /\ \A i \in DOMAIN q : i \in DOMAIN Append(q, m) /\ Append(q, m)[i] = q[i]
            /\ Len(q) + 1 \in DOMAIN Append(q, m) /\ Append(q, m)[Len(q) + 1] = m
        BY <2>2, <4>1
      <4>4. CASE Reached(<<s, t>>, m)
        <5>. DEFINE k == Len(q) + 1
        <5>1. k \in DOMAIN Append(q, m) /\ Append(q, m)[k] = m
          BY <4>3
        <5>. HIDE DEF k
        <5>. QED  BY <4>2, <4>3, <4>4, <5>1
      <4>5. CASE ~Reached(<<s, t>>, m)
        BY <4>2, <4>5
      <4>. QED  BY <4>4, <4>5
    <3>. QED  BY <2>1, <3>1 DEF Holds
  <2>7. reached \subseteq Abstract!Receivers(m)
    <3>1. ASSUME NEW r \in reached PROVE r \in Abstract!Receivers(m)
      <4>1. PICK t \in Topics : Reached(<<r, t>>, m)
        OBVIOUS
      <4>2. /\ <<r, t>> \in live /\ t \in topics[r] /\ Matches(t, SubjectOf[m])
            /\ cpc[r] = "no"
        BY <4>1 DEF Reached, RefInv, TopicsInv
      <4>3. chan[r] = "open"
        BY <4>2 DEF RefInv, IInv, LifeInv, TypeOK
      <4>4. stateBar[r] = "open"
        BY <4>2, <4>3 DEF stateBar
      <4>. QED  BY <4>2, <4>4, SameAbstractMatches DEF Abstract!Receivers
    <3>. QED  BY <3>1
  <2>. HIDE DEF reached
  <2>8. reached \subseteq Subs
    BY DEF reached
  <2>9. owedBar' = owedBar \cup {<<m, s>> : s \in reached}
    <3>1. ASSUME NEW o \in owedBar' PROVE o \in owedBar \cup {<<m, s>> : s \in reached}
      <4>1. PICK l \in Msgs, r \in Subs : o = <<l, r>>
        BY OwedPairs
      <4>. QED  BY <2>6, <4>1, OwedPairs
    <3>2. ASSUME NEW o \in owedBar PROVE o \in owedBar'
      <4>1. PICK l \in Msgs, r \in Subs : o = <<l, r>>
        BY OwedPairs
      <4>. QED  BY <2>6, <4>1, OwedPairs
    <3>3. \A s \in reached : <<m, s>> \in owedBar'
      BY <2>2, <2>6, <2>8, OwedPairs
    <3>. QED  BY <3>1, <3>2, <3>3
  <2>10. \A s \in Subs : <<m, s>> \notin owedBar
    BY <2>2, <2>5, OwedPairs DEF m, command
  <2>11. Abstract!Publish(m)
    BY <2>1, <2>7, <2>9, <2>10, SameState DEF Abstract!Publish
  <2>. QED  BY <2>2, <2>11 DEF Abstract!Next
<1>. QED  BY <1>1, <1>2, <1>3 DEF ServerTakes

LEMMA StepRefines == ASSUME RefInv, [Next]_vars PROVE [Abstract!Next]_(Abstract!vars)
<1>. USE DEF svars, cbvars, library, network
<1>1. ASSUME NEW s \in Subs, Receive(s) PROVE Abstract!Next
  <2>1. UNCHANGED <<chan, topics, cpc, callback, passed, pending>>
    BY <1>1 DEF Receive
  <2>2. Abstract!Receive(s)
    BY <1>1, <2>1, SameHolds, SameState DEF Receive, Abstract!Receive
  <2>. QED  BY <2>2 DEF Abstract!Next
<1>2. CASE UNCHANGED vars
  BY <1>2, SameHolds, SameState DEF vars, Abstract!vars
<1>. QED
  BY <1>1, <1>2, SubscribeRefines, CloseRefines, CallbackRefines, NetworkRefines
     DEF Next, CallbackRun

(* Write buffers, queues and callbacks that outlive their subscription do  *)
(* what the contract says: a message is owed once to each open subscription*)
(* it reaches, offered once, and nothing to a subscription that has been   *)
(* closed.                                                                 *)
THEOREM BrokerImplemented == ASSUME SubjectsApart PROVE Spec => ImplementsBroker
<1>1. Init => Abstract!Init
  <2>. SUFFICES ASSUME Init PROVE Abstract!Init
    OBVIOUS
  <2>1. stateBar = [s \in Subs |-> "none"]
    BY DEF Init, stateBar
  <2>2. \A s \in Subs, t \in Topics : <<s, t>> \in NatsSubs
    BY DEF NatsSubs
  <2>3. ASSUME NEW s \in Subs, NEW m \in Msgs PROVE ~Holds(s, m)
    <3>1. \A t \in Topics : callback[<<s, t>>] = None /\ pending[<<s, t>>] = <<>>
      BY <2>2 DEF Init
    <3>2. \A t \in Topics : ~HoldsBy(s, t, m)
      BY <3>1, NoneAssumption DEF Init, HoldsBy, Carries
    <3>. QED  BY <3>2, HoldsSplit
  <2>4. owedBar = {}
    BY <2>3, OwedPairs
  <2>. QED  BY <2>1, <2>4 DEF Init, Abstract!Init
<1>2. RefInv /\ [Next]_vars => [Abstract!Next]_(Abstract!vars)
  BY StepRefines
<1>. QED  BY <1>1, <1>2, RefInvariance, PTL DEF Spec, ImplementsBroker, Abstract!Spec

(* "Delivery is at-most-once": a subscription is not sent a message of     *)
(* which it has another copy on the way, where no message matches two of   *)
(* its subjects.                                                           *)
THEOREM DeliveredOnceHolds == ASSUME SubjectsApart PROVE Spec => DeliveredOnce
<1>. DEFINE A == \A s \in Subs, m \in Msgs :
                    buffer'[s] = Append(buffer[s], m) => ~Holds(s, m)'
<1>1. RefInv /\ [Next]_vars => A
  <2>. SUFFICES ASSUME RefInv, [Next]_vars, NEW s \in Subs, NEW m \in Msgs,
                       buffer'[s] = Append(buffer[s], m)
                PROVE  ~Holds(s, m)'
    OBVIOUS
  <2>1. /\ buffer[s] \in Seq(Msgs) /\ Len(buffer[s]) \in Nat
        /\ Len(Append(buffer[s], m)) = Len(buffer[s]) + 1
    BY DEF RefInv, IInv, TypeOK
  <2>2. buffer'[s] # buffer[s]
    <3>. SUFFICES ASSUME buffer'[s] = buffer[s] PROVE FALSE
      OBVIOUS
    <3>1. Len(buffer[s]) = Len(buffer[s]) + 1
      BY <2>1
    <3>. QED  BY <2>1, <3>1
  <2>3. ~\E r \in Subs : Receive(r)
    <3>. SUFFICES ASSUME NEW r \in Subs, Receive(r) PROVE FALSE
      OBVIOUS
    <3>1. r = s
      BY <2>2 DEF Receive, RefInv, IInv, TypeOK
    <3>2. buffer[s] # <<>> /\ buffer'[s] = Tail(buffer[s])
      BY <3>1 DEF Receive, RefInv, IInv, TypeOK
    <3>3. Len(Tail(buffer[s])) = Len(buffer[s]) - 1
      BY <2>1, <3>2
    <3>. QED  BY <2>1, <3>2, <3>3
  <2>4. PICK r \in Subs, t \in Topics : CallbackSend(r, t)
    BY <2>2, <2>3
    DEF Next, vars, svars, cbvars, library, network, SubscribeRun, SubscribeReturn,
        SubscribeOne, SubscribeFail, SubscribeCall, Close, CloseRun, CloseWait, CloseChan,
        CloseUnsubscribe, CallbackRun, CallbackStart, CallbackRegister, ServerTakes, Publish
  <2>. DEFINE n == <<s, t>>
  <2>5. r = s
    BY <2>2, <2>4 DEF CallbackSend, RefInv, IInv, TypeOK
  <2>6. /\ n \in NatsSubs /\ callback' = [callback EXCEPT ![n] = None]
        /\ buffer'[s] = Append(buffer[s], callback[n])
        /\ UNCHANGED pending
    BY <2>2, <2>4, <2>5 DEF CallbackSend, NatsSubs, library, RefInv, IInv, TypeOK
  <2>7. callback[n] = m
    <3>1. /\ Append(buffer[s], m)[Len(buffer[s]) + 1] = m
          /\ Append(buffer[s], callback[n])[Len(buffer[s]) + 1] = callback[n]
      BY <2>1
    <3>. QED  BY <2>6, <3>1
  <2>8. ASSUME NEW u \in Topics PROVE ~Carries(<<s, u>>, m)'
    <3>1. <<s, u>> \in NatsSubs
      BY DEF NatsSubs
    <3>2. CASE u = t
      <4>1. callback'[n] = None /\ \A i \in DOMAIN pending[n] : pending[n][i] # m
        BY <2>6, <2>7 DEF RefInv, IInv, TypeOK, OnceInv
      <4>. QED  BY <2>6, <3>2, <4>1, NoneAssumption DEF Carries
    <3>3. CASE u # t
      <4>1. callback'[<<s, u>>] = callback[<<s, u>>]
        BY <2>6, <3>1, <3>3 DEF RefInv, IInv, TypeOK
      <4>2. Carries(n, m) /\ (Carries(<<s, u>>, m)' => Carries(<<s, u>>, m))
        BY <2>6, <2>7, <4>1 DEF Carries
      <4>. QED  BY <3>3, <4>2 DEF RefInv, OnceInv
    <3>. QED  BY <3>2, <3>3
  <2>. QED  BY <2>8 DEF Holds, Carries
<1>. HIDE DEF A
<1>2. Spec => [][A]_vars
  BY <1>1, RefInvariance, PTL DEF Spec
<1>. QED  BY <1>2 DEF DeliveredOnce, A

------------------------------------------------------------------------------
(* What is published over the connection of the subscriptions reaches them:*)
(* SUB goes out before PUB on that connection, and UNSUB only once closing *)
(* is set.  Over another connection the two race, as a run shows.          *)

(* SUB of a NATS subscription is among the commands to send, or among those*)
(* ahead of the i-th.                                                      *)
ToSend(q, n)    == \E j \in DOMAIN q : q[j] = Sub(n)
Ahead(q, n, i)  == \E j \in DOMAIN q : j < i /\ q[j] = Sub(n)

(* Only the connection of the subscriptions sends SUB and UNSUB, and UNSUB *)
(* only for a subscription that is being closed.                           *)
SendersInv ==
    /\ \A c \in Conns \ {Local} : \A i \in DOMAIN out[c] : out[c][i].op = "pub"
    /\ \A i \in DOMAIN out[Local] : \A s \in Subs, t \in Topics :
          out[Local][i] = Unsub(<<s, t>>) => cpc[s] # "no"

(* While a subscription is not closed, what the library has of it the      *)
(* server has or will be sent, and Subscribe has left out no subject.      *)
KnownInv ==
    \A s \in Subs : cpc[s] = "no" =>
        /\ \A t \in Topics :
              <<s, t>> \in live => <<s, t>> \in server \/ ToSend(out[Local], <<s, t>>)
        /\ spc[s] # "new" => \A t \in topics[s] : t \in todo[s] \/ <<s, t>> \in live
        /\ spc[s] = "done" => todo[s] = {}

(* Each message to send finds, for each subscription it was published      *)
(* after, a matching NATS subscription that the server has or will get     *)
(* first.                                                                  *)
Finds(i, s, m) ==
    \E t \in topics[s] : /\ t \in Topics /\ Matches(t, SubjectOf[m]) /\ <<s, t>> \in live
                         /\ <<s, t>> \in server \/ Ahead(out[Local], <<s, t>>, i)

AheadInv ==
    \A i \in DOMAIN out[Local] : \A m \in Msgs : out[Local][i] = Pub(m) =>
        \A s \in audience[m] : cpc[s] = "no" => Finds(i, s, m)

ReachInv == IInv /\ SendersInv /\ KnownInv /\ AheadInv

LEMMA InitReachInv == ASSUME Init PROVE ReachInv
<1>1. \A c \in Conns : DOMAIN out[c] = {}
  BY DEF Init
<1>2. SendersInv /\ AheadInv
  BY <1>1, ConnsAssumption DEF SendersInv, AheadInv
<1>3. KnownInv
  BY DEF Init, KnownInv
<1>. QED  BY <1>2, <1>3, InitIInv DEF ReachInv

(* Commands of different kinds and of different subscriptions differ.      *)
LEMMA SameUnsub ==
    ASSUME NEW n, NEW k
    PROVE  /\ Unsub(n) = Unsub(k) => n = k
           /\ Sub(n) = Sub(k) => n = k
           /\ Sub(n) # Unsub(k)
<1>1. /\ Unsub(n) = Unsub(k) => Unsub(n).of = Unsub(k).of
      /\ Sub(n) = Sub(k) => Sub(n).of = Sub(k).of
      /\ Sub(n) = Unsub(k) => Sub(n).op = Unsub(k).op
  OBVIOUS
<1>. QED  BY <1>1 DEF Sub, Unsub

(* The queue of the connection after a command more.                       *)
LEMMA QueueAppend ==
    ASSUME ReachInv, NEW x \in Commands, out'[Local] = Append(out[Local], x)
    PROVE  /\ DOMAIN out'[Local] = DOMAIN out[Local] \cup {Len(out[Local]) + 1}
           /\ \A i \in DOMAIN out[Local] : out'[Local][i] = out[Local][i]
           /\ out'[Local][Len(out[Local]) + 1] = x
           /\ \A n : ToSend(out'[Local], n) <=> ToSend(out[Local], n) \/ x = Sub(n)
           /\ \A n : ToSend(out[Local], n) => Ahead(out'[Local], n, Len(out[Local]) + 1)
           /\ \A n, i : Ahead(out[Local], n, i) => Ahead(out'[Local], n, i)
<1>. DEFINE q == out[Local]  r == out'[Local]  k == Len(q) + 1
<1>1. q \in Seq(Commands) /\ Len(q) \in Nat /\ r = Append(q, x)
  BY ConnsAssumption DEF ReachInv, IInv, TypeOK
<1>. HIDE DEF q, r
<1>2. /\ DOMAIN r = DOMAIN q \cup {k}
      /\ \A i \in DOMAIN q : r[i] = q[i] /\ i < k
      /\ r[k] = x
  BY <1>1
<1>. HIDE DEF k
<1>3. \A n : ToSend(r, n) <=> ToSend(q, n) \/ x = Sub(n)
  BY <1>2 DEF ToSend
<1>4. \A n : ToSend(q, n) => Ahead(r, n, k)
  BY <1>2 DEF ToSend, Ahead
<1>5. \A n, i : Ahead(q, n, i) => Ahead(r, n, i)
  BY <1>2 DEF Ahead
<1>. QED  BY <1>2, <1>3, <1>4, <1>5 DEF q, r, k

(* And after the first has been sent.                                      *)
LEMMA QueueTail ==
    ASSUME ReachInv, out[Local] # <<>>, out'[Local] = Tail(out[Local])
    PROVE  /\ 1 \in DOMAIN out[Local] /\ Head(out[Local]) = out[Local][1]
           /\ out[Local][1] \in Commands
           /\ \A i \in DOMAIN out'[Local] :
                 i + 1 \in DOMAIN out[Local] /\ out'[Local][i] = out[Local][i + 1]
           /\ \A n : ToSend(out[Local], n) => out[Local][1] = Sub(n) \/ ToSend(out'[Local], n)
           /\ \A n : \A i \in DOMAIN out'[Local] :
                 Ahead(out[Local], n, i + 1) =>
                    out[Local][1] = Sub(n) \/ Ahead(out'[Local], n, i)
<1>. DEFINE q == out[Local]  r == out'[Local]
<1>1. q \in Seq(Commands) /\ q # <<>> /\ r = Tail(q)
  BY ConnsAssumption DEF ReachInv, IInv, TypeOK
<1>. HIDE DEF q, r
<1>2. Len(q) \in Nat /\ r \in Seq(Commands) /\ Len(r) = Len(q) - 1
  BY <1>1, TailLemma
<1>3. /\ 1 \in DOMAIN q /\ Head(q) = q[1] /\ q[1] \in Commands
      /\ \A i \in DOMAIN r : i \in Nat /\ i + 1 \in DOMAIN q /\ r[i] = q[i + 1]
  BY <1>1, <1>2
<1>4. ASSUME NEW j \in DOMAIN q, j # 1
      PROVE  \E k \in DOMAIN r : k + 1 = j /\ r[k] = q[j]
  <2>1. PICK k : k = j - 1
    OBVIOUS
  <2>2. k \in DOMAIN r /\ k + 1 = j /\ r[k] = q[j]
    BY <1>1, <1>2, <1>4, <2>1
  <2>. QED  BY <2>2
<1>5. \A n : ToSend(q, n) => q[1] = Sub(n) \/ ToSend(r, n)
  BY <1>4 DEF ToSend
<1>6. ASSUME NEW n, NEW i \in DOMAIN r, Ahead(q, n, i + 1), q[1] # Sub(n) PROVE Ahead(r, n, i)
  <2>1. PICK j \in DOMAIN q : j < i + 1 /\ q[j] = Sub(n)
    BY <1>6 DEF Ahead
  <2>2. j # 1
    BY <1>6, <2>1
  <2>3. PICK k \in DOMAIN r : k + 1 = j /\ r[k] = q[j]
    BY <1>4, <2>2
  <2>4. k < i
    BY <1>3, <2>1, <2>3
  <2>. QED  BY <2>1, <2>3, <2>4 DEF Ahead
<1>. QED  BY <1>3, <1>5, <1>6 DEF q, r

(* Steps that leave the network and the subjects alone.                    *)
LEMMA ReachFrame ==
    ASSUME ReachInv, UNCHANGED <<out, server, audience, live, topics, todo>>,
           \A s \in Subs : cpc'[s] = "no" => /\ cpc[s] = "no"
                                             /\ spc'[s] # "new" => spc[s] # "new"
                                             /\ spc'[s] = "done" => todo[s] = {}
    PROVE  SendersInv' /\ KnownInv' /\ AheadInv'
<1>1. SendersInv'
  BY DEF ReachInv, SendersInv
<1>2. KnownInv'
  BY DEF ReachInv, KnownInv
<1>3. ASSUME NEW i \in DOMAIN out[Local], NEW m \in Msgs, out[Local][i] = Pub(m),
             NEW s \in audience[m], cpc'[s] = "no"
      PROVE  Finds(i, s, m)'
  <2>1. s \in Subs
    BY DEF ReachInv, IInv, TypeOK
  <2>. QED  BY <1>3, <2>1 DEF ReachInv, AheadInv, Finds
<1>4. AheadInv'
  BY <1>3 DEF AheadInv, Finds
<1>. QED  BY <1>1, <1>2, <1>4

LEMMA LocalStepReach ==
    ASSUME ReachInv, NEW s \in Subs,
           \/ SubscribeReturn(s) \/ SubscribeFail(s) \/ Close(s) \/ CloseWait(s) \/ CloseChan(s)
           \/ Receive(s) \/ \E t \in Topics : CallbackRun(s, t)
    PROVE  SendersInv' /\ KnownInv' /\ AheadInv'
<1>. USE DEF svars, cbvars, library, network
<1>1. UNCHANGED <<out, server, audience, live, topics, todo>>
  BY DEF SubscribeReturn, SubscribeFail, Close, CloseWait, CloseChan, Receive, CallbackRun,
         CallbackStart, CallbackRegister, CallbackSend
<1>2. ASSUME NEW r \in Subs, cpc'[r] = "no"
      PROVE  /\ cpc[r] = "no"
             /\ spc'[r] # "new" => spc[r] # "new"
             /\ spc'[r] = "done" => todo[r] = {}
  <2>1. CASE SubscribeReturn(s)
    BY <1>2, <2>1 DEF SubscribeReturn, ReachInv, IInv, TypeOK, KnownInv
  <2>2. CASE SubscribeFail(s)
    BY <1>2, <2>2 DEF SubscribeFail, ReachInv, IInv, TypeOK, KnownInv
  <2>3. CASE Close(s) \/ CloseWait(s) \/ CloseChan(s)
    BY <1>2, <2>3 DEF Close, CloseWait, CloseChan, ReachInv, IInv, TypeOK, KnownInv
  <2>4. CASE Receive(s) \/ \E t \in Topics : CallbackRun(s, t)
    <3>1. UNCHANGED <<cpc, spc>>
      BY <2>4 DEF Receive, CallbackRun, CallbackStart, CallbackRegister, CallbackSend
    <3>. QED  BY <1>2, <3>1 DEF ReachInv, KnownInv
  <2>. QED  BY <2>1, <2>2, <2>3, <2>4
<1>. QED  BY <1>1, <1>2, ReachFrame

LEMMA SubscribeCallReach ==
    ASSUME ReachInv, NEW s \in Subs, NEW ts \in TopicSets, SubscribeCall(s, ts)
    PROVE  SendersInv' /\ KnownInv' /\ AheadInv'
<1>1. /\ UNCHANGED <<out, server, audience, live, cpc>> /\ spc[s] = "new"
      /\ topics' = [topics EXCEPT ![s] = ts] /\ todo' = [todo EXCEPT ![s] = ts]
      /\ spc' = [spc EXCEPT ![s] = "loop"]
  BY DEF SubscribeCall, cbvars, library, network
<1>2. /\ topics'[s] = ts /\ todo'[s] = ts /\ spc'[s] = "loop"
      /\ \A r \in Subs : r # s => topics'[r] = topics[r] /\ todo'[r] = todo[r] /\ spc'[r] = spc[r]
  BY <1>1 DEF ReachInv, IInv, TypeOK
<1>3. \A t \in Topics : <<s, t>> \notin live
  BY <1>1 DEF ReachInv, IInv, LifeInv
<1>4. SendersInv'
  BY <1>1 DEF ReachInv, SendersInv
<1>5. KnownInv'
  BY <1>1, <1>2 DEF ReachInv, KnownInv
<1>6. ASSUME NEW i \in DOMAIN out[Local], NEW m \in Msgs, out[Local][i] = Pub(m),
             NEW r \in audience[m], cpc[r] = "no"
      PROVE  Finds(i, r, m)'
  <2>1. r \in Subs /\ Finds(i, r, m)
    BY <1>6 DEF ReachInv, AheadInv, IInv, TypeOK
  <2>2. r # s
    BY <1>3, <2>1 DEF Finds
  <2>. QED  BY <1>1, <1>2, <2>1, <2>2 DEF Finds
<1>7. AheadInv'
  BY <1>1, <1>6 DEF AheadInv
<1>. QED  BY <1>4, <1>5, <1>7

(* A command more of the connection of the subscriptions.                  *)
LEMMA SendersAppend ==
    ASSUME ReachInv, NEW x \in Commands, Send(Local, x),
           \A s \in Subs : cpc[s] # "no" => cpc'[s] # "no",
           \A s \in Subs, t \in Topics : x = Unsub(<<s, t>>) => cpc'[s] # "no"
    PROVE  SendersInv' /\ out'[Local] = Append(out[Local], x)
<1>1. /\ out'[Local] = Append(out[Local], x)
      /\ \A c \in Conns : c # Local => out'[c] = out[c]
  BY ConnsAssumption DEF Send, ReachInv, IInv, TypeOK
<1>. DEFINE q == out[Local]  r == out'[Local]
<1>2. /\ DOMAIN r = DOMAIN q \cup {Len(q) + 1}
      /\ \A i \in DOMAIN q : r[i] = q[i]
      /\ r[Len(q) + 1] = x
  BY <1>1, QueueAppend
<1>. HIDE DEF q, r
<1>3. ASSUME NEW i \in DOMAIN r, NEW s \in Subs, NEW t \in Topics, r[i] = Unsub(<<s, t>>)
      PROVE  cpc'[s] # "no"
  BY <1>2, <1>3 DEF q, ReachInv, SendersInv
<1>. QED  BY <1>1, <1>3 DEF r, ReachInv, SendersInv

LEMMA SubscribeOneReach ==
    ASSUME ReachInv, NEW s \in Subs, NEW t \in Topics, SubscribeOne(s, t)
    PROVE  SendersInv' /\ KnownInv' /\ AheadInv'
<1>. DEFINE n == <<s, t>>  x == Sub(n)  q == out[Local]  r == out'[Local]
<1>1. /\ UNCHANGED <<server, audience, topics, spc, cpc>> /\ live' = live \cup {n}
      /\ todo' = [todo EXCEPT ![s] = todo[s] \ {t}] /\ t \in todo[s] /\ spc[s] = "loop"
      /\ Send(Local, x)
  BY DEF SubscribeOne, cbvars
<1>2. x \in Commands
  BY DEF Commands, NatsSubs
<1>3. SendersInv' /\ r = Append(q, x)
  BY <1>1, <1>2, SendersAppend, SameUnsub
<1>4. /\ DOMAIN r = DOMAIN q \cup {Len(q) + 1} /\ \A i \in DOMAIN q : r[i] = q[i]
      /\ r[Len(q) + 1] = x
      /\ \A k : ToSend(r, k) <=> ToSend(q, k) \/ x = Sub(k)
      /\ \A k, i : Ahead(q, k, i) => Ahead(r, k, i)
  BY <1>2, <1>3, QueueAppend
<1>5. \A m : x # Pub(m)
  BY CommandsDiffer
<1>6. /\ todo'[s] = todo[s] \ {t}
      /\ \A p \in Subs : p # s => todo'[p] = todo[p]
  BY <1>1 DEF ReachInv, IInv, TypeOK
<1>7. KnownInv'
  <2>. SUFFICES ASSUME NEW p \in Subs, cpc[p] = "no"
                PROVE  /\ \A u \in Topics :
                             <<p, u>> \in live' => <<p, u>> \in server \/ ToSend(r, <<p, u>>)
                       /\ spc[p] # "new" =>
                             \A u \in topics[p] : u \in todo'[p] \/ <<p, u>> \in live'
                       /\ spc[p] = "done" => todo'[p] = {}
    BY <1>1 DEF KnownInv
  <2>1. ASSUME NEW u \in Topics, <<p, u>> \in live'
        PROVE  <<p, u>> \in server \/ ToSend(r, <<p, u>>)
    <3>1. CASE <<p, u>> = n
      BY <1>4, <3>1
    <3>2. CASE <<p, u>> # n
      BY <1>1, <1>4, <2>1, <3>2 DEF ReachInv, KnownInv
    <3>. QED  BY <3>1, <3>2
  <2>2. ASSUME NEW u \in topics[p], spc[p] # "new" PROVE u \in todo'[p] \/ <<p, u>> \in live'
    BY <1>1, <1>6, <2>2 DEF ReachInv, KnownInv
  <2>3. spc[p] = "done" => todo'[p] = {}
    BY <1>1, <1>6 DEF ReachInv, KnownInv
  <2>. QED  BY <2>1, <2>2, <2>3
<1>8. ASSUME NEW i \in DOMAIN r, NEW m \in Msgs, r[i] = Pub(m), NEW p \in audience[m],
             cpc[p] = "no"
      PROVE  Finds(i, p, m)'
  <2>1. i \in DOMAIN q /\ q[i] = Pub(m)
    BY <1>4, <1>5, <1>8
  <2>2. Finds(i, p, m)
    BY <1>8, <2>1 DEF ReachInv, AheadInv
  <2>. QED  BY <1>1, <1>4, <2>2 DEF Finds, Ahead
<1>9. AheadInv'
  BY <1>1, <1>8 DEF AheadInv, Finds
<1>. QED  BY <1>3, <1>7, <1>9

LEMMA CloseUnsubscribeReach ==
    ASSUME ReachInv, NEW s \in Subs, NEW t \in Topics, CloseUnsubscribe(s, t)
    PROVE  SendersInv' /\ KnownInv' /\ AheadInv'
<1>. DEFINE n == <<s, t>>  x == Unsub(n)  q == out[Local]  r == out'[Local]
<1>1. /\ UNCHANGED <<server, audience, topics, todo, spc, cpc>> /\ live' = live \ {n}
      /\ cpc[s] = "unsub" /\ Send(Local, x)
  BY DEF CloseUnsubscribe, cbvars, svars
<1>2. x \in Commands
  BY DEF Commands, NatsSubs
<1>3. ASSUME NEW p \in Subs, NEW u \in Topics, x = Unsub(<<p, u>>) PROVE cpc'[p] # "no"
  <2>1. n = <<p, u>>
    BY <1>3, SameUnsub
  <2>. QED  BY <1>1, <2>1
<1>4. SendersInv' /\ r = Append(q, x)
  BY <1>1, <1>2, <1>3, SendersAppend
<1>5. /\ DOMAIN r = DOMAIN q \cup {Len(q) + 1} /\ \A i \in DOMAIN q : r[i] = q[i]
      /\ r[Len(q) + 1] = x
      /\ \A k : ToSend(q, k) => ToSend(r, k)
      /\ \A k, i : Ahead(q, k, i) => Ahead(r, k, i)
  BY <1>2, <1>4, QueueAppend
<1>6. \A m : x # Pub(m)
  BY CommandsDiffer
<1>7. ASSUME NEW p \in Subs, cpc[p] = "no" PROVE \A u : <<p, u>> \in live => <<p, u>> \in live'
  BY <1>1, <1>7
<1>8. KnownInv'
  <2>. SUFFICES ASSUME NEW p \in Subs, cpc[p] = "no"
                PROVE  /\ \A u \in Topics :
                             <<p, u>> \in live' => <<p, u>> \in server \/ ToSend(r, <<p, u>>)
                       /\ spc[p] # "new" =>
                             \A u \in topics[p] : u \in todo[p] \/ <<p, u>> \in live'
                       /\ spc[p] = "done" => todo[p] = {}
    BY <1>1 DEF KnownInv
  <2>1. \A u : <<p, u>> \in live' <=> <<p, u>> \in live
    BY <1>1, <1>7
  <2>. QED  BY <1>5, <2>1 DEF ReachInv, KnownInv
<1>9. ASSUME NEW i \in DOMAIN r, NEW m \in Msgs, r[i] = Pub(m), NEW p \in audience[m],
             cpc[p] = "no"
      PROVE  Finds(i, p, m)'
  <2>1. i \in DOMAIN q /\ q[i] = Pub(m)
    BY <1>5, <1>6, <1>9
  <2>2. Finds(i, p, m) /\ p \in Subs
    BY <1>9, <2>1 DEF ReachInv, AheadInv, IInv, TypeOK
  <2>. QED  BY <1>1, <1>5, <1>7, <1>9, <2>2 DEF Finds, Ahead
<1>10. AheadInv'
  BY <1>1, <1>9 DEF AheadInv, Finds
<1>. QED  BY <1>4, <1>8, <1>10

(* A message is published once Subscribe has returned: all the subjects are*)
(* with the library, and their SUBs are sent or ahead in the queue.        *)
LEMMA PublishReach ==
    ASSUME ReachInv, NEW c \in Conns, NEW m \in Msgs, Publish(c, m)
    PROVE  SendersInv' /\ KnownInv' /\ AheadInv'
<1>. DEFINE x == Pub(m)  q == out[Local]  r == out'[Local]
<1>1. /\ UNCHANGED <<server, live, topics, todo, spc, cpc>> /\ ~InFlight(m) /\ Send(c, x)
      /\ audience'[m] = {s \in Subs : spc[s] = "done" /\ cpc[s] = "no" /\ Wants(s, m)}
      /\ \A l \in Msgs : l # m => audience'[l] = audience[l]
  BY DEF Publish, cbvars, svars, library, ReachInv, IInv, TypeOK
<1>2. x \in Commands /\ x.op = "pub"
  BY DEF Commands, Pub
<1>3. \A s, t : x # Unsub(<<s, t>>) /\ x # Sub(<<s, t>>)
  BY CommandsDiffer
<1>4. \A i \in DOMAIN q : q[i] # Pub(m)
  BY <1>1, ConnsAssumption DEF InFlight
<1>5. CASE c # Local
  <2>1. /\ r = q /\ out'[c] = Append(out[c], x) /\ out[c] \in Seq(Commands)
        /\ \A d \in Conns : d # c => out'[d] = out[d]
    BY <1>1, <1>5, ConnsAssumption DEF Send, ReachInv, IInv, TypeOK
  <2>2. \A i \in DOMAIN out'[c] : (i \in DOMAIN out[c] /\ out'[c][i] = out[c][i]) \/ out'[c][i] = x
    BY <2>1
  <2>3. \A i \in DOMAIN out'[c] : out'[c][i].op = "pub"
    BY <1>2, <1>5, <2>2 DEF ReachInv, SendersInv
  <2>4. SendersInv'
    BY <1>1, <2>1, <2>3 DEF ReachInv, SendersInv
  <2>5. KnownInv'
    BY <1>1, <2>1 DEF ReachInv, KnownInv
  <2>6. ASSUME NEW i \in DOMAIN q, NEW l \in Msgs, q[i] = Pub(l), NEW s \in audience'[l],
               cpc[s] = "no"
        PROVE  Finds(i, s, l)'
    BY <1>1, <1>4, <2>1, <2>6 DEF ReachInv, AheadInv, Finds
  <2>7. AheadInv'
    BY <1>1, <2>1, <2>6 DEF AheadInv, Finds
  <2>. QED  BY <2>4, <2>5, <2>7
<1>6. CASE c = Local
  <2>1. SendersInv' /\ r = Append(q, x)
    BY <1>1, <1>2, <1>3, <1>6, SendersAppend
  <2>2. /\ DOMAIN r = DOMAIN q \cup {Len(q) + 1} /\ \A i \in DOMAIN q : r[i] = q[i]
        /\ r[Len(q) + 1] = x
        /\ \A k : ToSend(q, k) => ToSend(r, k)
        /\ \A k : ToSend(q, k) => Ahead(r, k, Len(q) + 1)
        /\ \A k, i : Ahead(q, k, i) => Ahead(r, k, i)
    BY <1>2, <2>1, QueueAppend
  <2>3. KnownInv'
    BY <1>1, <2>2 DEF ReachInv, KnownInv
  <2>4. ASSUME NEW i \in DOMAIN r, NEW l \in Msgs, r[i] = Pub(l), NEW s \in audience'[l],
               cpc[s] = "no"
        PROVE  Finds(i, s, l)'
    <3>1. CASE l # m
      <4>1. i \in DOMAIN q /\ q[i] = Pub(l) /\ s \in audience[l]
        BY <1>1, <2>2, <2>4, <3>1, SamePub
      <4>2. Finds(i, s, l)
        BY <2>4, <4>1 DEF ReachInv, AheadInv
      <4>. QED  BY <1>1, <2>2, <4>2 DEF Finds
    <3>2. CASE l = m
      <4>1. i = Len(q) + 1
        BY <1>4, <2>2, <2>4, <3>2
      <4>2. s \in Subs /\ spc[s] = "done" /\ Wants(s, m)
        BY <1>1, <2>4, <3>2
      <4>3. PICK t \in topics[s] : Matches(t, SubjectOf[m])
        BY <4>2 DEF Wants
      <4>4. t \in Topics
        BY <4>2, <4>3 DEF ReachInv, IInv, TypeOK, Topics
      <4>5. <<s, t>> \in live
        BY <2>4, <4>2, <4>3 DEF ReachInv, KnownInv
      <4>6. <<s, t>> \in server \/ ToSend(q, <<s, t>>)
        BY <2>4, <4>2, <4>4, <4>5 DEF ReachInv, KnownInv
      <4>7. <<s, t>> \in server \/ Ahead(r, <<s, t>>, i)
        BY <2>2, <4>1, <4>6
      <4>. QED  BY <1>1, <3>2, <4>3, <4>4, <4>5, <4>7 DEF Finds
    <3>. QED  BY <3>1, <3>2
  <2>5. AheadInv'
    BY <1>1, <2>4 DEF AheadInv, Finds
  <2>. QED  BY <2>1, <2>3, <2>5
<1>. QED  BY <1>5, <1>6

(* What the server does with the command it takes.                         *)
LEMMA Taken ==
    ASSUME ReachInv, NEW c \in Conns, ServerTakes(c)
    PROVE  /\ out[c] # <<>> /\ Head(out[c]) \in Commands
           /\ out'[c] = Tail(out[c]) /\ \A d \in Conns : d # c => out'[d] = out[d]
           /\ UNCHANGED <<live, audience, topics, todo, spc, cpc>>
           /\ \A n \in NatsSubs : Head(out[c]) = Sub(n) => server' = server \cup {n}
           /\ \A n \in NatsSubs : Head(out[c]) = Unsub(n) => server' = server \ {n}
           /\ \A m \in Msgs : Head(out[c]) = Pub(m) =>
                 /\ server' = server
                 /\ pending' = [x \in NatsSubs |->
                       IF x \in server \cap live /\ Matches(x[2], SubjectOf[m])
                       THEN Append(pending[x], m) ELSE pending[x]]
<1>1. /\ out[c] # <<>> /\ out' = [out EXCEPT ![c] = Tail(out[c])]
      /\ UNCHANGED <<live, audience, topics, todo, spc, cpc>>
  BY DEF ServerTakes, svars
<1>2. out \in [Conns -> Seq(Commands)]
  BY DEF ReachInv, IInv, TypeOK
<1>3. Head(out[c]) \in Commands
  BY <1>1, <1>2, TailLemma
<1>4. out'[c] = Tail(out[c]) /\ \A d \in Conns : d # c => out'[d] = out[d]
  BY <1>1, <1>2
<1>5. ASSUME NEW n \in NatsSubs, Head(out[c]) = Sub(n) PROVE server' = server \cup {n}
  <2>1. Head(out[c]).op = "sub" /\ Head(out[c]).of = n
    BY <1>5 DEF Sub
  <2>. QED  BY <2>1 DEF ServerTakes
<1>6. ASSUME NEW n \in NatsSubs, Head(out[c]) = Unsub(n) PROVE server' = server \ {n}
  <2>1. Head(out[c]).op = "unsub" /\ Head(out[c]).of = n
    BY <1>6 DEF Unsub
  <2>. QED  BY <2>1 DEF ServerTakes
<1>7. ASSUME NEW m \in Msgs, Head(out[c]) = Pub(m)
      PROVE  /\ server' = server
             /\ pending' = [x \in NatsSubs |->
                   IF x \in server \cap live /\ Matches(x[2], SubjectOf[m])
                   THEN Append(pending[x], m) ELSE pending[x]]
  <2>1. Head(out[c]).op = "pub" /\ Head(out[c]).of = m
    BY <1>7 DEF Pub
  <2>. QED  BY <2>1 DEF ServerTakes
<1>. QED  BY <1>1, <1>3, <1>4, <1>5, <1>6, <1>7

LEMMA ServerTakesReach ==
    ASSUME ReachInv, NEW c \in Conns, ServerTakes(c)
    PROVE  SendersInv' /\ KnownInv' /\ AheadInv'
<1>1. /\ UNCHANGED <<live, audience, topics, todo, spc, cpc>> /\ out[c] # <<>>
      /\ out'[c] = Tail(out[c]) /\ \A d \in Conns : d # c => out'[d] = out[d]
      /\ Head(out[c]) \in Commands /\ out[c] \in Seq(Commands)
  BY Taken DEF ReachInv, IInv, TypeOK
<1>2. CASE c # Local
  <2>1. Head(out[c]) = out[c][1] /\ 1 \in DOMAIN out[c]
    BY <1>1
  <2>2. Head(out[c]).op = "pub"
    BY <1>2, <2>1 DEF ReachInv, SendersInv
  <2>3. \E m \in Msgs : Head(out[c]) = Pub(m)
    BY <1>1, <2>2 DEF Commands, Sub, Unsub, Pub
  <2>4. server' = server /\ out'[Local] = out[Local]
    BY <1>1, <1>2, <2>3, Taken, ConnsAssumption
  <2>5. \A i \in DOMAIN out'[c] : i + 1 \in DOMAIN out[c] /\ out'[c][i] = out[c][i + 1]
    BY <1>1
  <2>6. \A i \in DOMAIN out'[c] : out'[c][i].op = "pub"
    BY <1>2, <2>5 DEF ReachInv, SendersInv
  <2>7. SendersInv'
    BY <1>1, <2>4, <2>6 DEF ReachInv, SendersInv
  <2>8. KnownInv'
    BY <1>1, <2>4 DEF ReachInv, KnownInv
  <2>9. AheadInv'
    BY <1>1, <2>4 DEF ReachInv, AheadInv, Finds
  <2>. QED  BY <2>7, <2>8, <2>9
<1>3. CASE c = Local
  <2>. DEFINE q == out[Local]  r == out'[Local]
  <2>1. /\ 1 \in DOMAIN q /\ Head(q) = q[1] /\ q[1] \in Commands
        /\ \A i \in DOMAIN r : i + 1 \in DOMAIN q /\ r[i] = q[i + 1]
        /\ \A n : ToSend(q, n) => q[1] = Sub(n) \/ ToSend(r, n)
        /\ \A n : \A i \in DOMAIN r : Ahead(q, n, i + 1) => q[1] = Sub(n) \/ Ahead(r, n, i)
    BY <1>1, <1>3, QueueTail
  <2>2. ASSUME NEW s \in Subs, NEW t \in Topics, cpc[s] = "no"
        PROVE  /\ <<s, t>> \in server => <<s, t>> \in server'
               /\ q[1] = Sub(<<s, t>>) => <<s, t>> \in server'
    <3>1. <<s, t>> \in NatsSubs
      BY DEF NatsSubs
    <3>2. q[1] = Sub(<<s, t>>) => <<s, t>> \in server'
      BY <1>3, <2>1, <3>1, Taken
    <3>3. CASE \E n \in NatsSubs : q[1] = Sub(n)
      <4>1. server \subseteq server'
        BY <1>3, <2>1, <3>3, Taken
      <4>. QED  BY <3>2, <4>1
    <3>4. CASE \E n \in NatsSubs : q[1] = Unsub(n)
      <4>1. PICK n \in NatsSubs : q[1] = Unsub(n)
        BY <3>4
      <4>2. PICK p \in Subs, u \in Topics : n = <<p, u>>
        BY DEF NatsSubs
      <4>3. cpc[p] # "no"
        BY <2>1, <4>1, <4>2 DEF ReachInv, SendersInv
      <4>4. <<s, t>> # n
        BY <2>2, <4>2, <4>3
      <4>5. server' = server \ {n}
        BY <1>3, <2>1, <4>1, Taken
      <4>. QED  BY <3>2, <4>4, <4>5
    <3>5. CASE \E m \in Msgs : q[1] = Pub(m)
      <4>1. server' = server
        BY <1>3, <2>1, <3>5, Taken
      <4>. QED  BY <3>2, <4>1
    <3>. QED  BY <2>1, <3>3, <3>4, <3>5 DEF Commands
  <2>3. SendersInv'
    BY <1>1, <1>3, <2>1 DEF ReachInv, SendersInv
  <2>4. KnownInv'
    BY <1>1, <2>1, <2>2 DEF ReachInv, KnownInv
  <2>5. ASSUME NEW i \in DOMAIN r, NEW m \in Msgs, r[i] = Pub(m), NEW s \in audience[m],
               cpc[s] = "no"
        PROVE  Finds(i, s, m)'
    <3>1. i + 1 \in DOMAIN q /\ q[i + 1] = Pub(m) /\ s \in Subs
      BY <2>1, <2>5 DEF ReachInv, IInv, TypeOK
    <3>2. Finds(i + 1, s, m)
      BY <2>5, <3>1 DEF ReachInv, AheadInv
    <3>3. PICK t \in topics[s] : /\ t \in Topics /\ Matches(t, SubjectOf[m]) /\ <<s, t>> \in live
                                 /\ <<s, t>> \in server \/ Ahead(q, <<s, t>>, i + 1)
      BY <3>2 DEF Finds
    <3>4. <<s, t>> \in server' \/ Ahead(r, <<s, t>>, i)
      BY <2>1, <2>2, <2>5, <3>1, <3>3
    <3>. QED  BY <1>1, <3>3, <3>4 DEF Finds, Ahead
  <2>6. AheadInv'
    BY <1>1, <2>5 DEF AheadInv, Finds
  <2>. QED  BY <2>3, <2>4, <2>6
<1>. QED  BY <1>2, <1>3

LEMMA ReachStep == ASSUME ReachInv, [Next]_vars PROVE ReachInv'
<1>1. IInv'
  BY StepIInv DEF ReachInv
<1>2. CASE UNCHANGED vars
  <2>1. UNCHANGED <<out, server, audience, live, topics, todo, spc, cpc>>
    BY <1>2 DEF vars, svars, library, network
  <2>2. SendersInv' /\ KnownInv' /\ AheadInv'
    BY <2>1, ReachFrame DEF ReachInv, KnownInv
  <2>. QED  BY <1>1, <2>2 DEF ReachInv
<1>3. ASSUME NEW s \in Subs, SubscribeRun(s) \/ CloseRun(s)
      PROVE  SendersInv' /\ KnownInv' /\ AheadInv'
  BY <1>3, LocalStepReach, SubscribeOneReach, CloseUnsubscribeReach DEF SubscribeRun, CloseRun
<1>4. CASE Next
  <2>1. SendersInv' /\ KnownInv' /\ AheadInv'
    BY <1>3, <1>4, LocalStepReach, SubscribeCallReach, PublishReach, ServerTakesReach DEF Next
  <2>. QED  BY <1>1, <2>1 DEF ReachInv
<1>. QED  BY <1>2, <1>4

(* Only the server shortens a queue.                                       *)
LEMMA WhoTakes ==
    ASSUME ReachInv, [Next]_vars, out[Local] # <<>>, out'[Local] = Tail(out[Local])
    PROVE  ServerTakes(Local)
<1>1. /\ out \in [Conns -> Seq(Commands)] /\ out[Local] \in Seq(Commands)
      /\ Len(out[Local]) \in Nat
  BY ConnsAssumption DEF ReachInv, IInv, TypeOK
<1>2. Len(out'[Local]) = Len(out[Local]) - 1
  BY <1>1
<1>3. out'[Local] # out[Local]
  <2>. SUFFICES ASSUME out'[Local] = out[Local] PROVE FALSE
    OBVIOUS
  <2>1. Len(out'[Local]) = Len(out[Local])
    OBVIOUS
  <2>. QED  BY <1>1, <1>2, <2>1
<1>4. ASSUME NEW c \in Conns, NEW x \in Commands, Send(c, x) PROVE FALSE
  <2>1. CASE c = Local
    <3>1. out'[Local] = Append(out[Local], x)
      BY <1>1, <1>4, <2>1 DEF Send
    <3>2. Len(out'[Local]) = Len(out[Local]) + 1
      <4>1. Len(Append(out[Local], x)) = Len(out[Local]) + 1
        BY <1>1, AppendLemma
      <4>. QED  BY <3>1, <4>1
    <3>. QED  BY <1>1, <1>2, <3>2
  <2>2. CASE c # Local
    BY <1>1, <1>3, <1>4, <2>2, ConnsAssumption DEF Send
  <2>. QED  BY <2>1, <2>2
<1>5. out' # out
  BY <1>3
<1>6. CASE UNCHANGED vars
  BY <1>5, <1>6 DEF vars, network
<1>7. ASSUME NEW s \in Subs,
             \/ SubscribeRun(s) \/ SubscribeFail(s) \/ Close(s) \/ CloseRun(s) \/ Receive(s)
             \/ \E ts \in TopicSets : SubscribeCall(s, ts)
             \/ \E t \in Topics : CallbackRun(s, t)
      PROVE  FALSE
  <2>1. ~\E t \in Topics : SubscribeOne(s, t) \/ CloseUnsubscribe(s, t)
    <3>1. \A t \in Topics : Sub(<<s, t>>) \in Commands /\ Unsub(<<s, t>>) \in Commands
      BY DEF Commands, NatsSubs
    <3>. QED  BY <1>4, <3>1, ConnsAssumption DEF SubscribeOne, CloseUnsubscribe
  <2>. QED  BY <1>5, <1>7, <2>1
       DEF SubscribeRun, SubscribeReturn, SubscribeFail, SubscribeCall, Close, CloseRun,
           CloseWait, CloseChan, Receive, CallbackRun, CallbackStart, CallbackRegister,
           CallbackSend, network
<1>8. \A c \in Conns, m \in Msgs : ~Publish(c, m)
  <2>1. \A m \in Msgs : Pub(m) \in Commands
    BY DEF Commands
  <2>. QED  BY <1>4, <2>1 DEF Publish
<1>9. ASSUME NEW c \in Conns, c # Local PROVE ~ServerTakes(c)
  BY <1>1, <1>3, <1>9, ConnsAssumption DEF ServerTakes
<1>. QED  BY <1>6, <1>7, <1>8, <1>9 DEF Next

(* What reaches the server over the connection of the subscriptions reaches*)
(* those that had been made when it was published.                         *)
ReachesOver(c) ==
    \A m \in Msgs :
        (out[c] # <<>> /\ Head(out[c]) = Pub(m) /\ out'[c] = Tail(out[c])) =>
            \A s \in audience[m] :
                cpc[s] # "no" \/ \E t \in Topics :
                    Len(pending'[<<s, t>>]) > Len(pending[<<s, t>>])

LEMMA ReachesLocal == ASSUME ReachInv, [Next]_vars PROVE ReachesOver(Local)
<1>. SUFFICES ASSUME NEW m \in Msgs, out[Local] # <<>>, Head(out[Local]) = Pub(m),
                     out'[Local] = Tail(out[Local]), NEW s \in audience[m], cpc[s] = "no"
              PROVE  \E t \in Topics : Len(pending'[<<s, t>>]) > Len(pending[<<s, t>>])
  BY DEF ReachesOver
<1>1. ServerTakes(Local)
  BY WhoTakes
<1>2. 1 \in DOMAIN out[Local] /\ out[Local][1] = Pub(m)
  BY QueueTail
<1>3. Finds(1, s, m)
  BY <1>2 DEF ReachInv, AheadInv
<1>4. \A n : ~Ahead(out[Local], n, 1)
  <2>1. \A j \in DOMAIN out[Local] : ~(j < 1)
    BY ConnsAssumption DEF ReachInv, IInv, TypeOK
  <2>. QED  BY <2>1 DEF Ahead
<1>5. PICK t \in topics[s] : /\ t \in Topics /\ Matches(t, SubjectOf[m])
                             /\ <<s, t>> \in live /\ <<s, t>> \in server
  BY <1>3, <1>4 DEF Finds
<1>6. <<s, t>> \in NatsSubs /\ <<s, t>>[2] = t
  BY <1>5 DEF ReachInv, IInv, TypeOK
<1>7. pending'[<<s, t>>] = Append(pending[<<s, t>>], m)
  <2>1. pending' = [x \in NatsSubs |->
           IF x \in server \cap live /\ Matches(x[2], SubjectOf[m])
           THEN Append(pending[x], m) ELSE pending[x]]
    BY <1>1, Taken, ConnsAssumption
  <2>. QED  BY <1>5, <1>6, <2>1
<1>8. pending[<<s, t>>] \in Seq(Msgs) /\ Len(pending[<<s, t>>]) \in Nat
  BY <1>6 DEF ReachInv, IInv, TypeOK
<1>9. Len(pending'[<<s, t>>]) = Len(pending[<<s, t>>]) + 1
  BY <1>7, <1>8, AppendLemma
<1>. QED  BY <1>5, <1>8, <1>9

(* What is published over the connection the subscriptions are made on     *)
(* reaches every subscription that had been made before and is not closed, *)
(* whatever the other processes do on theirs.                              *)
THEOREM ReachesWithinTheProcess == Spec => [][ReachesOver(Local)]_vars
<1>1. Init => ReachInv
  BY InitReachInv
<1>2. ReachInv /\ [Next]_vars => ReachInv'
  BY ReachStep
<1>3. ReachInv /\ [Next]_vars => ReachesOver(Local)
  BY ReachesLocal
<1>. QED  BY <1>1, <1>2, <1>3, PTL DEF Spec

(* Where one process is all there is, what is published after Subscribe has*)
(* returned reaches the subscription.  The run with a second connection    *)
(* shows that the hypothesis is needed.                                    *)
THEOREM ReachesTheSubscribedHolds ==
    ASSUME Conns = {Local} PROVE Spec => ReachesTheSubscribed
<1>1. ReachesOver(Local) =>
        \A c \in Conns, m \in Msgs :
           (out[c] # <<>> /\ Head(out[c]) = Pub(m) /\ out'[c] = Tail(out[c])) =>
              \A s \in audience[m] :
                  cpc[s] # "no" \/ \E t \in Topics :
                      Len(pending'[<<s, t>>]) > Len(pending[<<s, t>>])
  BY DEF ReachesOver
<1>. QED  BY <1>1, ReachesWithinTheProcess, PTL DEF ReachesTheSubscribed
=============================================================================
