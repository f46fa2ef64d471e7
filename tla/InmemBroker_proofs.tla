------------------------- MODULE InmemBroker_proofs -------------------------
(* Proofs about InmemBroker: for any number of subscriptions, publishers   *)
(* and closers, any subjects and any capacity.                             *)
EXTENDS InmemBroker, FiniteSetTheorems, TLAPS

------------------------------------------------------------------------------
(* Lemmas on the operators of the model.                                   *)

(* The orders in which a finite set can be iterated are sequences over it. *)
LEMMA SetToSeqsType ==
    ASSUME NEW S, IsFiniteSet(S), NEW q \in SetToSeqs(S)
    PROVE  q \in Seq(S)
<1>1. Cardinality(S) \in Nat
  BY FS_CardinalityType
<1>2. q \in [1..Cardinality(S) -> S]
  BY DEF SetToSeqs
<1>. QED  BY <1>1, <1>2

LEMMA ConcatElements ==
    ASSUME NEW S, NEW T, NEW d \in Seq(S), NEW w \in Seq(T)
    PROVE  /\ d \o w \in Seq(S \cup T)
           /\ \A i \in DOMAIN (d \o w) : (d \o w)[i] \in S \cup T
<1>1. d \in Seq(S \cup T) /\ w \in Seq(S \cup T)
  OBVIOUS
<1>2. d \o w \in Seq(S \cup T)
  BY <1>1
<1>. QED  BY <1>2

(* A slice of matches holds subscriptions from the tables, nothing else.   *)
LEMMA MatchSlicesType ==
    ASSUME TypeOK, NEW subject, NEW m \in MatchSlices(subject)
    PROVE  /\ m \in Seq(Subs)
           /\ \A i \in DOMAIN m : m[i] \in Holders(subs, subject) \cup ViaPattern(subject)
<1>. DEFINE D == Holders(subs, subject)
            W == ViaPattern(subject) \ D
<1>1. D \subseteq Subs /\ W \subseteq Subs
  BY DEF TypeOK, Holders, ViaPattern
<1>2. IsFiniteSet(D) /\ IsFiniteSet(W)
  BY <1>1, SubsAssumption, FS_Subset
<1>3. PICK d \in SetToSeqs(D), w \in SetToSeqs(W) : m = d \o w
  BY DEF MatchSlices
<1>4. d \in Seq(D) /\ w \in Seq(W)
  BY <1>2, SetToSeqsType
<1>5. /\ m \in Seq(D \cup W)
      /\ \A i \in DOMAIN m : m[i] \in D \cup W
  BY <1>3, <1>4, ConcatElements
<1>6. m \in Seq(Subs)
  BY <1>1, <1>5
<1>. QED  BY <1>5, <1>6

(* The subjects of a table after Subscribe and after Close.                *)
LEMMA LinkDomain ==
    ASSUME NEW table, NEW ts, NEW s
    PROVE  DOMAIN Link(table, ts, s) = DOMAIN table \cup ts
BY DEF Link

LEMMA UnlinkDomain ==
    ASSUME NEW table, NEW ts, NEW s
    PROVE  DOMAIN Unlink(table, ts, s) \subseteq DOMAIN table
BY DEF Unlink

(* What a table holds for a subject after each of them.                    *)
LEMMA LinkHolders ==
    ASSUME NEW table, NEW ts, NEW s, NEW t
    PROVE  Holders(Link(table, ts, s), t) =
               IF t \in ts THEN Holders(table, t) \cup {s} ELSE Holders(table, t)
<1>1. DOMAIN Link(table, ts, s) = DOMAIN table \cup ts
  BY LinkDomain
<1>2. CASE t \in DOMAIN table \cup ts
  <2>1. Link(table, ts, s)[t] = Holders(table, t) \cup (IF t \in ts THEN {s} ELSE {})
    BY <1>2 DEF Link
  <2>. QED  BY <1>1, <1>2, <2>1 DEF Holders
<1>3. CASE t \notin DOMAIN table \cup ts
  BY <1>1, <1>3 DEF Holders
<1>. QED  BY <1>1, <1>2, <1>3

LEMMA UnlinkHolders ==
    ASSUME NEW table, NEW ts, NEW s, NEW t
    PROVE  Holders(Unlink(table, ts, s), t) =
               IF t \in ts THEN Holders(table, t) \ {s} ELSE Holders(table, t)
<1>. DEFINE D == {u \in DOMAIN table : ~(u \in ts /\ table[u] \subseteq {s})}
<1>1. DOMAIN Unlink(table, ts, s) = D
  BY DEF Unlink
<1>2. CASE t \in D
  <2>1. Unlink(table, ts, s)[t] = IF t \in ts THEN table[t] \ {s} ELSE table[t]
    BY <1>2 DEF Unlink
  <2>. QED  BY <1>1, <1>2, <2>1 DEF Holders
<1>3. CASE t \notin D
  <2>1. Holders(Unlink(table, ts, s), t) = {}
    BY <1>1, <1>3 DEF Holders
  <2>2. t \notin DOMAIN table \/ (t \in ts /\ table[t] \subseteq {s})
    BY <1>3
  <2>. QED  BY <1>1, <2>1, <2>2 DEF Holders
<1>. QED  BY <1>1, <1>2, <1>3

(* No subject is left with an empty inner map.                             *)
NoEmptyMap(table) == \A t \in DOMAIN table : table[t] # {}

LEMMA LinkNoEmptyMap ==
    ASSUME NEW table, NEW ts, NEW s, NoEmptyMap(table)
    PROVE  NoEmptyMap(Link(table, ts, s))
BY DEF NoEmptyMap, Link, Holders

LEMMA UnlinkNoEmptyMap ==
    ASSUME NEW table, NEW ts, NEW s, NoEmptyMap(table)
    PROVE  NoEmptyMap(Unlink(table, ts, s))
BY DEF NoEmptyMap, Unlink

------------------------------------------------------------------------------
(* Type correctness.                                                       *)

LEMMA TopicsOf ==
    ASSUME TypeOK, NEW s \in Subs
    PROVE  topics[s] \subseteq Topics
BY DEF TypeOK, Topics

(* Every step keeps the variables in their types, the channels within their*)
(* capacity among them.                                                    *)
THEOREM TypeCorrect == Spec => []TypeOK
<1>1. Init => TypeOK
  BY ChanBufferAssumption DEF Init, TypeOK
<1>2. TypeOK /\ [Next]_vars => TypeOK'
  <2>. SUFFICES ASSUME TypeOK, [Next]_vars PROVE TypeOK'
    OBVIOUS
  <2>. USE DEF TypeOK, Announce, tables, lock, svars, pvars, cvars
  <2>1. ASSUME NEW s \in Subs, NEW ts \in TopicSets, SubscribeLock(s, ts) PROVE TypeOK'
    BY <2>1 DEF SubscribeLock
  <2>2. ASSUME NEW s \in Subs, SubscribeLink(s) PROVE TypeOK'
    <3>1. /\ Literals(topics[s]) \subseteq Literals(Topics)
          /\ Patterns(topics[s]) \subseteq Patterns(Topics)
      BY TopicsOf DEF Literals, Patterns
    <3>2. DOMAIN subs' \subseteq Literals(Topics) /\ DOMAIN wildcards' \subseteq Patterns(Topics)
      <4>1. /\ subs' = Link(subs, Literals(topics[s]), s)
            /\ wildcards' = Link(wildcards, Patterns(topics[s]), s)
        BY <2>2 DEF SubscribeLink
      <4>2. /\ DOMAIN subs' = DOMAIN subs \cup Literals(topics[s])
            /\ DOMAIN wildcards' = DOMAIN wildcards \cup Patterns(topics[s])
        BY <4>1, LinkDomain
      <4>. QED  BY <3>1, <4>2
    <3>3. /\ \A t \in DOMAIN subs' : subs'[t] \subseteq Subs
          /\ \A t \in DOMAIN wildcards' : wildcards'[t] \subseteq Subs
      BY <2>2 DEF SubscribeLink, Link, Holders
    <3>. QED  BY <2>2, <3>2, <3>3 DEF SubscribeLink
  <2>3. ASSUME NEW s \in Subs, Receive(s) PROVE TypeOK'
    <3>1. /\ Tail(buffer[s]) \in Seq(Msgs)
          /\ Len(Tail(buffer[s])) <= ChanBuffer
      BY <2>3, ChanBufferAssumption DEF Receive
    <3>. QED  BY <2>3, <3>1 DEF Receive
  <2>4. ASSUME NEW p \in Publishers, NEW subject \in Published, PublishCall(p, subject)
        PROVE  TypeOK'
    <3>1. [from |-> p, subject |-> subject] \in Msgs
      BY DEF Msgs
    <3>. QED  BY <2>4, <3>1 DEF PublishCall
  <2>5. ASSUME NEW p \in Publishers, PublishCollect(p) PROVE TypeOK'
    <3>1. PICK m \in MatchSlices(msg[p].subject) : matched' = [matched EXCEPT ![p] = m]
      BY <2>5 DEF PublishCollect
    <3>2. m \in Seq(Subs)
      BY MatchSlicesType
    <3>. QED  BY <2>5, <3>1, <3>2 DEF PublishCollect
  <2>6. ASSUME NEW p \in Publishers, PublishSend(p) PROVE TypeOK'
    <3>1. matched[p] \in Seq(Subs) /\ Head(matched[p]) \in Subs /\ Tail(matched[p]) \in Seq(Subs)
      BY <2>6 DEF PublishSend
    <3>2. msg[p] \in Msgs
      BY <2>6 DEF PublishSend
    <3>3. buffer' \in [Subs -> Seq(Msgs)] /\ \A s \in Subs : Len(buffer'[s]) <= ChanBuffer
      BY <2>6, <3>1, <3>2, ChanBufferAssumption DEF PublishSend
    <3>. QED  BY <2>6, <3>1, <3>3 DEF PublishSend
  <2>7. ASSUME NEW p \in Publishers, PublishReturn(p) PROVE TypeOK'
    BY <2>7 DEF PublishReturn
  <2>8. ASSUME NEW c \in Closers, NEW s \in Subs, CloseFirst(c, s) PROVE TypeOK'
    BY <2>8 DEF CloseFirst
  <2>9. ASSUME NEW c \in Closers, CloseLock(c) PROVE TypeOK'
    BY <2>9 DEF CloseLock
  <2>10. ASSUME NEW c \in Closers, CloseUnlink(c) PROVE TypeOK'
    <3>1. DOMAIN subs' \subseteq Literals(Topics) /\ DOMAIN wildcards' \subseteq Patterns(Topics)
      BY <2>10, UnlinkDomain DEF CloseUnlink
    <3>2. /\ \A t \in DOMAIN subs' : subs'[t] \subseteq Subs
          /\ \A t \in DOMAIN wildcards' : wildcards'[t] \subseteq Subs
      BY <2>10 DEF CloseUnlink, Unlink
    <3>. QED  BY <2>10, <3>1, <3>2 DEF CloseUnlink
  <2>11. ASSUME NEW c \in Closers, CloseChan(c) PROVE TypeOK'
    BY <2>11 DEF CloseChan
  <2>12. CASE UNCHANGED vars
    BY <2>12 DEF vars
  <2>. QED
    BY <2>1, <2>2, <2>3, <2>4, <2>5, <2>6, <2>7, <2>8, <2>9, <2>10, <2>11, <2>12
       DEF Next, Subscribe, PublishRun, CloseRun
<1>. QED  BY <1>1, <1>2, PTL DEF Spec

------------------------------------------------------------------------------
(* The inductive invariant.                                                *)

(* The life of a channel: made by Subscribe, closed by the one Close that  *)
(* found the flag unset.                                                   *)
ChanInv ==
    \A s \in Subs :
        /\ spc[s] = "new" => chan[s] = "nil"
        /\ spc[s] # "done" => ~closed[s]
        /\ spc[s] # "new" /\ ~closed[s] => chan[s] = "open"
        /\ closed[s] /\ closeMu[s] = None => chan[s] = "closed"

(* closeMu is held from setting the flag to closing the channel, by the    *)
(* closer that works on the subscription and by no other.                  *)
MutexInv ==
    /\ \A c \in Closers :
          cpc[c] # "idle" => target[c] \in Subs /\ closeMu[target[c]] = c
    /\ \A s \in Subs :
          closeMu[s] # None => /\ cpc[closeMu[s]] # "idle"
                               /\ target[closeMu[s]] = s
                               /\ closed[s]
                               /\ spc[s] = "done"
                               /\ chan[s] = "open"

(* The table a subject belongs to holds the linked subscriptions that asked*)
(* for it, and there are no empty inner maps.                              *)
TableOf(t) == IF IsPattern(t) THEN wildcards ELSE subs

HoldersInv ==
    \A t \in Topics :
        Holders(TableOf(t), t) = {s \in Subs : Linked(s) /\ t \in topics[s]}

TablesInv == NoEmptyMap(subs) /\ NoEmptyMap(wildcards) /\ HoldersInv

(* A publisher has matches only while it holds the lock for reading, and   *)
(* none of them leaves the tables meanwhile.                               *)
LockInv ==
    \A p \in Publishers : matched[p] # <<>> => ppc[p] = "send" /\ p \in readers

MatchedInv ==
    \A p \in Publishers : \A i \in DOMAIN matched[p] : Linked(matched[p][i])

IInv == TypeOK /\ ChanInv /\ MutexInv /\ TablesInv /\ LockInv /\ MatchedInv

(* What a step that leaves the tables and the linked subscriptions alone   *)
(* preserves.                                                              *)
LEMMA TablesFrame ==
    ASSUME TablesInv, UNCHANGED <<subs, wildcards, topics>>,
           \A s \in Subs : Linked(s)' <=> Linked(s)
    PROVE  TablesInv'
<1>1. \A t : TableOf(t)' = TableOf(t)
  BY DEF TableOf
<1>2. \A t \in Topics : {s \in Subs : Linked(s)' /\ t \in topics'[s]}
                          = {s \in Subs : Linked(s) /\ t \in topics[s]}
  OBVIOUS
<1>3. HoldersInv'
  BY <1>1, <1>2, Zenon DEF TablesInv, HoldersInv, Holders
<1>. QED  BY <1>3 DEF TablesInv, NoEmptyMap

LEMMA MatchedFrame ==
    ASSUME TypeOK, MatchedInv, UNCHANGED matched,
           \A s \in Subs : Linked(s)' <=> Linked(s)
    PROVE  MatchedInv'
<1>1. \A p \in Publishers : \A i \in DOMAIN matched[p] : matched[p][i] \in Subs
  BY DEF TypeOK
<1>. QED  BY <1>1 DEF MatchedInv

(* What a publish may collect is linked.                                   *)
LEMMA CollectedLinked ==
    ASSUME TypeOK, HoldersInv, NEW subject,
           NEW s \in Holders(subs, subject) \cup ViaPattern(subject)
    PROVE  Linked(s)
<1>1. PICK t \in Topics : s \in Holders(TableOf(t), t)
  <2>1. CASE s \in Holders(subs, subject)
    <3>1. subject \in DOMAIN subs
      BY <2>1 DEF Holders
    <3>2. subject \in Topics /\ ~IsPattern(subject)
      BY <3>1 DEF TypeOK, Literals
    <3>. QED  BY <2>1, <3>2 DEF TableOf
  <2>2. CASE s \in ViaPattern(subject)
    <3>1. PICK t \in DOMAIN wildcards : s \in wildcards[t]
      BY <2>2 DEF ViaPattern
    <3>2. t \in Topics /\ IsPattern(t)
      BY DEF TypeOK, Patterns
    <3>. QED  BY <3>1, <3>2 DEF TableOf, Holders
  <2>. QED  BY <2>1, <2>2
<1>. QED  BY <1>1 DEF HoldersInv

(* Nobody has matches left when the last reader has let go of the lock.    *)
LEMMA NoMatchesWithoutReaders ==
    ASSUME LockInv, LastReaderLeft
    PROVE  \A p \in Publishers : matched[p] = <<>>
BY DEF LockInv, LastReaderLeft

(* After Subscribe the tables hold the new subscription too.               *)
LEMMA SubscribeTables ==
    ASSUME IInv, NEW s \in Subs, SubscribeLink(s),
           \A r \in Subs : Linked(r)' <=> Linked(r) \/ r = s
    PROVE  TablesInv'
<1>1. /\ subs' = Link(subs, Literals(topics[s]), s)
      /\ wildcards' = Link(wildcards, Patterns(topics[s]), s)
      /\ topics' = topics
  BY DEF SubscribeLink
<1>2. NoEmptyMap(subs') /\ NoEmptyMap(wildcards')
  BY <1>1, LinkNoEmptyMap DEF IInv, TablesInv
<1>3. ASSUME NEW t \in Topics
      PROVE  Holders(TableOf(t)', t) = {r \in Subs : Linked(r)' /\ t \in topics'[r]}
  <2>1. Holders(TableOf(t), t) = {r \in Subs : Linked(r) /\ t \in topics[r]}
    BY DEF IInv, TablesInv, HoldersInv
  <2>2. Holders(TableOf(t)', t) = IF t \in topics[s] THEN Holders(TableOf(t), t) \cup {s}
                                                   ELSE Holders(TableOf(t), t)
    BY <1>1, LinkHolders DEF TableOf, Literals, Patterns
  <2>. QED  BY <1>1, <2>1, <2>2
<1>. QED  BY <1>2, <1>3 DEF TablesInv, HoldersInv, NoEmptyMap

(* After the critical section of Close they hold it no more.               *)
LEMMA CloseTables ==
    ASSUME IInv, NEW c \in Closers, CloseUnlink(c), target[c] \in Subs,
           \A r \in Subs : Linked(r)' <=> Linked(r) /\ r # target[c]
    PROVE  TablesInv'
<1>. DEFINE s == target[c]
<1>1. /\ subs' = Unlink(subs, Literals(topics[s]), s)
      /\ wildcards' = Unlink(wildcards, Patterns(topics[s]), s)
      /\ topics' = topics
  BY DEF CloseUnlink, svars
<1>2. NoEmptyMap(subs') /\ NoEmptyMap(wildcards')
  BY <1>1, UnlinkNoEmptyMap DEF IInv, TablesInv
<1>3. ASSUME NEW t \in Topics
      PROVE  Holders(TableOf(t)', t) = {r \in Subs : Linked(r)' /\ t \in topics'[r]}
  <2>1. Holders(TableOf(t), t) = {r \in Subs : Linked(r) /\ t \in topics[r]}
    BY DEF IInv, TablesInv, HoldersInv
  <2>2. Holders(TableOf(t)', t) = IF t \in topics[s] THEN Holders(TableOf(t), t) \ {s}
                                                   ELSE Holders(TableOf(t), t)
    BY <1>1, UnlinkHolders DEF TableOf, Literals, Patterns
  <2>. QED  BY <1>1, <2>1, <2>2
<1>. QED  BY <1>2, <1>3 DEF TablesInv, HoldersInv, NoEmptyMap

LEMMA InitIInv == Init => IInv
<1>. SUFFICES ASSUME Init PROVE IInv
  OBVIOUS
<1>1. TypeOK
  BY ChanBufferAssumption DEF Init, TypeOK
<1>2. ChanInv /\ MutexInv
  BY DEF Init, ChanInv, MutexInv
<1>3. TablesInv
  BY DEF Init, TablesInv, NoEmptyMap, HoldersInv, Holders, TableOf, Linked
<1>4. LockInv /\ MatchedInv
  BY DEF Init, LockInv, MatchedInv
<1>. QED  BY <1>1, <1>2, <1>3, <1>4 DEF IInv

LEMMA NextIInv ==
    ASSUME IInv, TypeOK', [Next]_vars
    PROVE  IInv'
<1>. USE DEF IInv
<1>. USE NoneAssumption DEF tables, lock, svars, pvars, cvars, Announce
<1>1. ASSUME NEW s \in Subs, NEW ts \in TopicSets, SubscribeLock(s, ts) PROVE IInv'
  <2>1. ChanInv' /\ MutexInv'
    BY <1>1 DEF SubscribeLock, ChanInv, MutexInv, TypeOK
  <2>2. \A r \in Subs : Linked(r)' <=> Linked(r)
    BY <1>1 DEF SubscribeLock, Linked, TypeOK
  <2>3. TablesInv'
    <3>1. \A t : TableOf(t)' = TableOf(t)
      BY <1>1 DEF SubscribeLock, TableOf
    <3>2. ~Linked(s)
      BY <1>1 DEF SubscribeLock, Linked
    <3>3. \A r \in Subs : r # s => topics'[r] = topics[r]
      BY <1>1 DEF SubscribeLock, TypeOK
    <3>4. \A t \in Topics : {r \in Subs : Linked(r)' /\ t \in topics'[r]}
                            = {r \in Subs : Linked(r) /\ t \in topics[r]}
      BY <2>2, <3>2, <3>3
    <3>5. HoldersInv'
      BY <3>1, <3>4, Zenon DEF TablesInv, HoldersInv, Holders
    <3>. QED  BY <1>1, <3>5 DEF SubscribeLock, TablesInv, NoEmptyMap
  <2>4. LockInv'
    BY <1>1 DEF SubscribeLock, LockInv
  <2>5. MatchedInv'
    BY <1>1, <2>2, MatchedFrame DEF SubscribeLock
  <2>. QED  BY <2>1, <2>3, <2>4, <2>5
<1>2. ASSUME NEW s \in Subs, SubscribeLink(s) PROVE IInv'
  <2>1. ChanInv' /\ MutexInv'
    BY <1>2 DEF SubscribeLink, ChanInv, MutexInv, TypeOK
  <2>2. \A r \in Subs : Linked(r)' <=> Linked(r) \/ r = s
    <3>1. ~closed[s] /\ chan[s] = "open"
      BY <1>2 DEF SubscribeLink, ChanInv
    <3>2. ASSUME NEW c \in Closers, target[c] = s, cpc[c] = "close" PROVE FALSE
      <4>1. closeMu[s] = c /\ c # None
        BY <3>2 DEF MutexInv
      <4>. QED  BY <3>1, <4>1 DEF MutexInv
    <3>. QED  BY <1>2, <3>1, <3>2 DEF SubscribeLink, Linked, TypeOK
  <2>3. TablesInv'
    BY <1>2, <2>2, SubscribeTables
  <2>4. LockInv'
    BY <1>2 DEF SubscribeLink, LockInv
  <2>5. MatchedInv'
    BY <1>2, NoMatchesWithoutReaders DEF SubscribeLink, MatchedInv
  <2>. QED  BY <2>1, <2>3, <2>4, <2>5
<1>3. ASSUME NEW s \in Subs, Receive(s) PROVE IInv'
  <2>1. \A r \in Subs : Linked(r)' <=> Linked(r)
    BY <1>3 DEF Receive, Linked
  <2>2. ChanInv' /\ MutexInv' /\ LockInv'
    BY <1>3 DEF Receive, ChanInv, MutexInv, LockInv
  <2>. QED  BY <1>3, <2>1, <2>2, TablesFrame, MatchedFrame DEF Receive
<1>4. ASSUME NEW p \in Publishers, NEW subject \in Published, PublishCall(p, subject)
      PROVE  IInv'
  <2>1. \A r \in Subs : Linked(r)' <=> Linked(r)
    BY <1>4 DEF PublishCall, Linked
  <2>2. ChanInv' /\ MutexInv'
    BY <1>4 DEF PublishCall, ChanInv, MutexInv
  <2>3. LockInv'
    BY <1>4 DEF PublishCall, LockInv, TypeOK
  <2>. QED  BY <1>4, <2>1, <2>2, <2>3, TablesFrame, MatchedFrame DEF PublishCall
<1>5. ASSUME NEW p \in Publishers, PublishCollect(p) PROVE IInv'
  <2>1. \A r \in Subs : Linked(r)' <=> Linked(r)
    BY <1>5 DEF PublishCollect, Linked
  <2>2. ChanInv' /\ MutexInv'
    BY <1>5 DEF PublishCollect, ChanInv, MutexInv
  <2>3. LockInv'
    BY <1>5 DEF PublishCollect, LockInv, TypeOK
  <2>4. MatchedInv'
    <3>1. PICK m \in MatchSlices(msg[p].subject) : matched' = [matched EXCEPT ![p] = m]
      BY <1>5 DEF PublishCollect
    <3>2. \A i \in DOMAIN m : m[i] \in Subs /\ Linked(m[i])
      BY MatchSlicesType, CollectedLinked DEF TablesInv
    <3>3. \A q \in Publishers : \A i \in DOMAIN matched[q] : matched[q][i] \in Subs
      BY DEF TypeOK
    <3>4. ASSUME NEW q \in Publishers, NEW i \in DOMAIN matched'[q]
          PROVE  Linked(matched[q][i])'
      <4>1. CASE q = p
        BY <2>1, <3>1, <3>2, <4>1 DEF TypeOK
      <4>2. CASE q # p
        BY <2>1, <3>1, <3>3, <4>2 DEF TypeOK, MatchedInv
      <4>. QED  BY <4>1, <4>2
    <3>. QED  BY <3>4 DEF MatchedInv
  <2>. QED  BY <1>5, <2>1, <2>2, <2>3, <2>4, TablesFrame DEF PublishCollect
<1>6. ASSUME NEW p \in Publishers, PublishSend(p) PROVE IInv'
  <2>1. \A r \in Subs : Linked(r)' <=> Linked(r)
    BY <1>6 DEF PublishSend, Linked
  <2>2. ChanInv' /\ MutexInv'
    BY <1>6 DEF PublishSend, ChanInv, MutexInv
  <2>3. LockInv'
    BY <1>6 DEF PublishSend, LockInv, TypeOK
  <2>4. MatchedInv'
    <3>1. matched' = [matched EXCEPT ![p] = Tail(matched[p])]
      BY <1>6 DEF PublishSend
    <3>2. \A q \in Publishers : \A i \in DOMAIN matched[q] : matched[q][i] \in Subs
      BY DEF TypeOK
    <3>3. ASSUME NEW q \in Publishers, NEW i \in DOMAIN matched'[q]
          PROVE  Linked(matched[q][i])'
      <4>1. CASE q = p
        <5>1. matched[p] \in Seq(Subs) /\ matched[p] # <<>>
          BY <1>6 DEF PublishSend, TypeOK
        <5>2. matched'[q] = Tail(matched[p])
          BY <3>1, <4>1 DEF TypeOK
        <5>3. i + 1 \in DOMAIN matched[p] /\ matched'[q][i] = matched[p][i + 1]
          BY <5>1, <5>2
        <5>. QED  BY <2>1, <3>2, <5>3 DEF MatchedInv
      <4>2. CASE q # p
        BY <2>1, <3>1, <3>2, <4>2 DEF TypeOK, MatchedInv
      <4>. QED  BY <4>1, <4>2
    <3>. QED  BY <3>3 DEF MatchedInv
  <2>. QED  BY <1>6, <2>1, <2>2, <2>3, <2>4, TablesFrame DEF PublishSend
<1>7. ASSUME NEW p \in Publishers, PublishReturn(p) PROVE IInv'
  <2>1. \A r \in Subs : Linked(r)' <=> Linked(r)
    BY <1>7 DEF PublishReturn, Linked
  <2>2. ChanInv' /\ MutexInv'
    BY <1>7 DEF PublishReturn, ChanInv, MutexInv
  <2>3. LockInv'
    BY <1>7 DEF PublishReturn, LockInv, TypeOK
  <2>. QED  BY <1>7, <2>1, <2>2, <2>3, TablesFrame, MatchedFrame DEF PublishReturn
<1>8. ASSUME NEW c \in Closers, NEW s \in Subs, CloseFirst(c, s) PROVE IInv'
  <2>1. \A r \in Subs : Linked(r)' <=> Linked(r)
    <3>1. ASSUME NEW r \in Subs, NEW k \in Closers
          PROVE  (target'[k] = r /\ cpc'[k] = "close") <=> (target[k] = r /\ cpc[k] = "close")
      BY <1>8 DEF CloseFirst, TypeOK
    <3>. QED  BY <1>8, <3>1 DEF CloseFirst, Linked
  <2>2. ChanInv'
    BY <1>8 DEF CloseFirst, ChanInv, TypeOK
  <2>3. MutexInv'
    BY <1>8 DEF CloseFirst, ChanInv, MutexInv, TypeOK
  <2>4. LockInv'
    BY <1>8 DEF CloseFirst, LockInv
  <2>. QED  BY <1>8, <2>1, <2>2, <2>3, <2>4, TablesFrame, MatchedFrame DEF CloseFirst
<1>9. ASSUME NEW c \in Closers, CloseLock(c) PROVE IInv'
  <2>1. \A r \in Subs : Linked(r)' <=> Linked(r)
    BY <1>9 DEF CloseLock, Linked, TypeOK
  <2>2. ChanInv' /\ LockInv'
    BY <1>9 DEF CloseLock, ChanInv, LockInv
  <2>3. MutexInv'
    BY <1>9 DEF CloseLock, MutexInv, TypeOK
  <2>. QED  BY <1>9, <2>1, <2>2, <2>3, TablesFrame, MatchedFrame DEF CloseLock
<1>10. ASSUME NEW c \in Closers, CloseUnlink(c) PROVE IInv'
  <2>1. target[c] \in Subs /\ closeMu[target[c]] = c
    BY <1>10 DEF CloseUnlink, MutexInv
  <2>2. \A r \in Subs : Linked(r)' <=> Linked(r) /\ r # target[c]
    <3>1. cpc' = [cpc EXCEPT ![c] = "close"] /\ UNCHANGED <<spc, chan, target>>
      BY <1>10 DEF CloseUnlink
    <3>2. cpc'[c] = "close" /\ \A k \in Closers : k # c => cpc'[k] = cpc[k]
      BY <3>1 DEF TypeOK
    <3>3. cpc[c] # "close"
      BY <1>10 DEF CloseUnlink
    <3>. QED  BY <3>1, <3>2, <3>3 DEF Linked
  <2>3. ChanInv' /\ LockInv'
    BY <1>10 DEF CloseUnlink, ChanInv, LockInv
  <2>4. MutexInv'
    BY <1>10 DEF CloseUnlink, MutexInv, TypeOK
  <2>5. TablesInv'
    BY <1>10, <2>1, <2>2, CloseTables
  <2>6. MatchedInv'
    BY <1>10, NoMatchesWithoutReaders DEF CloseUnlink, MatchedInv
  <2>. QED  BY <2>3, <2>4, <2>5, <2>6
<1>11. ASSUME NEW c \in Closers, CloseChan(c) PROVE IInv'
  <2>1. PICK s \in Subs : target[c] = s /\ closeMu[s] = c
    BY <1>11 DEF CloseChan, MutexInv
  <2>2. \A r \in Subs : Linked(r)' <=> Linked(r)
    <3>1. ~Linked(s) /\ ~Linked(s)'
      BY <1>11, <2>1 DEF CloseChan, Linked, TypeOK
    <3>2. ASSUME NEW r \in Subs, r # s
          PROVE  Linked(r)' <=> Linked(r)
      <4>1. chan'[r] = chan[r] /\ spc'[r] = spc[r]
        BY <1>11, <2>1, <3>2 DEF CloseChan, TypeOK
      <4>2. ASSUME NEW k \in Closers
            PROVE  (target'[k] = r /\ cpc'[k] = "close") <=> (target[k] = r /\ cpc[k] = "close")
        BY <1>11, <2>1, <3>2 DEF CloseChan, TypeOK
      <4>. QED  BY <4>1, <4>2 DEF Linked
    <3>. QED  BY <3>1, <3>2
  <2>3. ChanInv'
    BY <1>11, <2>1 DEF CloseChan, ChanInv, MutexInv, TypeOK
  <2>4. MutexInv'
    BY <1>11, <2>1 DEF CloseChan, MutexInv, TypeOK
  <2>5. LockInv'
    BY <1>11 DEF CloseChan, LockInv
  <2>. QED  BY <1>11, <2>2, <2>3, <2>4, <2>5, TablesFrame, MatchedFrame DEF CloseChan
<1>12. CASE UNCHANGED vars
  <2>1. \A r \in Subs : Linked(r)' <=> Linked(r)
    BY <1>12 DEF vars, Linked
  <2>2. ChanInv' /\ MutexInv' /\ LockInv'
    BY <1>12 DEF vars, ChanInv, MutexInv, LockInv
  <2>. QED  BY <1>12, <2>1, <2>2, TablesFrame, MatchedFrame DEF vars
<1>. QED
  BY <1>1, <1>2, <1>3, <1>4, <1>5, <1>6, <1>7, <1>8, <1>9, <1>10, <1>11, <1>12
     DEF Next, Subscribe, PublishRun, CloseRun

LEMMA Invariance == Spec => []IInv
<1>1. IInv /\ TypeOK' /\ [Next]_vars => IInv'
  BY NextIInv
<1>. QED  BY InitIInv, <1>1, TypeCorrect, PTL DEF Spec

------------------------------------------------------------------------------
(* What the invariant shows.                                               *)

(* A publisher never sends on a closed channel, however Subscribe, Close   *)
(* and other publishers run between its matches and its last send.         *)
THEOREM NoSendOnClosedHolds == Spec => []NoSendOnClosed
<1>1. IInv => NoSendOnClosed
  BY DEF IInv, MatchedInv, NoSendOnClosed, Linked
<1>. QED  BY <1>1, Invariance, PTL

(* The tables hold what is subscribed and nothing else, no matter how many *)
(* subscriptions have come and gone.                                       *)
THEOREM TablesExactHolds == Spec => []TablesExact
<1>1. ASSUME IInv, NEW t \in Topics,
             NEW holders, holders = {s \in Subs : Linked(s) /\ t \in topics[s]}
      PROVE  IF holders = {}
             THEN t \notin DOMAIN subs \cup DOMAIN wildcards
             ELSE Holders(IF IsPattern(t) THEN wildcards ELSE subs, t) = holders
  <2>1. Holders(TableOf(t), t) = holders
    BY <1>1 DEF IInv, TablesInv, HoldersInv
  <2>2. CASE holders = {}
    <3>1. t \notin DOMAIN TableOf(t)
      BY <1>1, <2>1, <2>2 DEF IInv, TablesInv, NoEmptyMap, Holders, TableOf
    <3>2. ~IsPattern(t) => t \notin DOMAIN wildcards
      BY <1>1 DEF IInv, TypeOK, Patterns
    <3>3. IsPattern(t) => t \notin DOMAIN subs
      BY <1>1 DEF IInv, TypeOK, Literals
    <3>. QED  BY <2>2, <3>1, <3>2, <3>3 DEF TableOf
  <2>. QED  BY <2>1, <2>2 DEF TableOf
<1>2. IInv => TablesExact
  BY <1>1 DEF TablesExact
<1>. QED  BY <1>2, Invariance, PTL

(* Whoever finds a subscription's flag set and gets its closeMu finds the  *)
(* channel closed.                                                         *)
THEOREM CloseIsFinalHolds == Spec => []CloseIsFinal
<1>1. IInv => CloseIsFinal
  BY DEF IInv, ChanInv, CloseIsFinal
<1>. QED  BY <1>1, Invariance, PTL
------------------------------------------------------------------------------
(* The broker implements Broker.  Needed of the steps, besides IInv: that a*)
(* publish has no subscription twice among its matches, whose messages the *)
(* matches are for, and what a subscription may have asked for.            *)
OnceInv ==
    \A p \in Publishers : \A i, j \in DOMAIN matched[p] :
        matched[p][i] = matched[p][j] => i = j

FromInv == \A p \in Publishers : ppc[p] # "idle" => msg[p].from = p

AskedInv == \A s \in Subs : spc[s] # "new" => topics[s] \in TopicSets

RefInv == IInv /\ OnceInv /\ FromInv /\ AskedInv

(* q has each element of S in it, once.                                    *)
Lists(q, S) ==
    /\ q \in Seq(S)
    /\ \A x \in S : \E i \in DOMAIN q : q[i] = x
    /\ \A i, j \in DOMAIN q : q[i] = q[j] => i = j

LEMMA SetToSeqsExact ==
    ASSUME NEW S, IsFiniteSet(S), NEW q \in SetToSeqs(S)
    PROVE  Lists(q, S)
<1>. DEFINE D == 1..Cardinality(S)
<1>1. Cardinality(S) \in Nat
  BY FS_CardinalityType
<1>2. q \in [D -> S] /\ \A i, j \in D : i # j => q[i] # q[j]
  BY DEF SetToSeqs
<1>3. q \in Injection(D, S)
  BY <1>2 DEF Injection, IsInjective
<1>4. Cardinality(D) = Cardinality(S)
  BY <1>1, FS_Interval
<1>5. q \in Surjection(D, S)
  BY <1>3, <1>4, FS_Injection
<1>6. q \in Seq(S)
  BY SetToSeqsType
<1>. QED  BY <1>2, <1>5, <1>6 DEF Surjection, Lists

LEMMA ConcatExact ==
    ASSUME NEW S, NEW T, S \cap T = {}, NEW d, NEW w, Lists(d, S), Lists(w, T)
    PROVE  Lists(d \o w, S \cup T)
<1>. DEFINE c == d \o w
<1>0. d \in Seq(S) /\ w \in Seq(T)
  BY DEF Lists
<1>1. Len(d) \in Nat /\ Len(w) \in Nat /\ DOMAIN c = 1..(Len(d) + Len(w))
  BY <1>0
<1>2. \A i \in DOMAIN d : i \in DOMAIN c /\ c[i] = d[i] /\ d[i] \in S
  BY <1>0
<1>3. \A i \in DOMAIN w : i + Len(d) \in DOMAIN c /\ c[i + Len(d)] = w[i] /\ w[i] \in T
  BY <1>0
<1>4. \A i \in DOMAIN c : \/ i \in DOMAIN d /\ c[i] = d[i]
                          \/ i - Len(d) \in DOMAIN w /\ c[i] = w[i - Len(d)]
  BY <1>0
<1>5. ASSUME NEW x \in S \cup T PROVE \E i \in DOMAIN c : c[i] = x
  <2>1. CASE x \in S
    BY <1>2, <2>1 DEF Lists
  <2>2. CASE x \in T
    <3>1. PICK i \in DOMAIN w : w[i] = x
      BY <2>2 DEF Lists
    <3>. QED  BY <1>3, <3>1
  <2>. QED  BY <2>1, <2>2
<1>6. ASSUME NEW i \in DOMAIN c, NEW j \in DOMAIN c, c[i] = c[j] PROVE i = j
  <2>1. i \in Int /\ j \in Int
    BY <1>1
  <2>2. CASE i \in DOMAIN d /\ c[i] = d[i]
    <3>1. c[j] \in S
      BY <1>2, <1>6, <2>2
    <3>2. ~(j - Len(d) \in DOMAIN w /\ c[j] = w[j - Len(d)])
      BY <1>3, <3>1
    <3>. QED  BY <1>4, <1>6, <2>2, <3>2 DEF Lists
  <2>3. CASE i - Len(d) \in DOMAIN w /\ c[i] = w[i - Len(d)]
    <3>1. c[j] \in T
      BY <1>3, <1>6, <2>3
    <3>2. ~(j \in DOMAIN d /\ c[j] = d[j])
      BY <1>2, <3>1
    <3>3. i - Len(d) = j - Len(d)
      BY <1>4, <1>6, <2>3, <3>2 DEF Lists
    <3>. QED  BY <1>1, <2>1, <3>3
  <2>. QED  BY <1>4, <2>2, <2>3
<1>7. c \in Seq(S \cup T)
  BY <1>0, ConcatElements
<1>. QED  BY <1>5, <1>6, <1>7 DEF Lists

(* A publish collects, each once, the subscriptions in the tables that     *)
(* asked for a subject matching its own, and no others.                    *)
LEMMA MatchSlicesExact ==
    ASSUME TypeOK, HoldersInv, NEW subject, NEW m \in MatchSlices(subject)
    PROVE  /\ {m[i] : i \in DOMAIN m} =
                  {s \in Subs : Linked(s) /\ \E t \in topics[s] : Matches(t, subject)}
           /\ \A i, j \in DOMAIN m : m[i] = m[j] => i = j
<1>. DEFINE D == Holders(subs, subject)
            W == ViaPattern(subject) \ D
<1>1. D \subseteq Subs /\ W \subseteq Subs
  BY DEF TypeOK, Holders, ViaPattern
<1>2. IsFiniteSet(D) /\ IsFiniteSet(W)
  BY <1>1, SubsAssumption, FS_Subset
<1>3. PICK d \in SetToSeqs(D), w \in SetToSeqs(W) : m = d \o w
  BY DEF MatchSlices
<1>4. Lists(d, D) /\ Lists(w, W)
  BY <1>2, SetToSeqsExact
<1>5. Lists(m, D \cup W)
  BY <1>3, <1>4, ConcatExact
<1>6. /\ \A x \in D \cup W : \E i \in DOMAIN m : m[i] = x
      /\ \A i, j \in DOMAIN m : m[i] = m[j] => i = j
  BY <1>5 DEF Lists
<1>7. \A i \in DOMAIN m : m[i] \in D \cup W
  BY <1>5 DEF Lists
<1>8. \A s \in D \cup W : s \in Subs /\ Linked(s)
  BY <1>1, CollectedLinked
<1>9. ASSUME NEW s \in Subs, Linked(s)
      PROVE  s \in D \cup W <=> \E t \in topics[s] : Matches(t, subject)
  <2>0. topics[s] \subseteq Topics
    BY TopicsOf
  <2>1. \A t \in Topics : s \in Holders(TableOf(t), t) <=> t \in topics[s]
    BY <1>9 DEF HoldersInv
  <2>2. ASSUME s \in D PROVE \E t \in topics[s] : Matches(t, subject)
    <3>1. subject \in DOMAIN subs
      BY <2>2 DEF Holders
    <3>2. subject \in Topics /\ ~IsPattern(subject)
      BY <3>1 DEF TypeOK, Literals
    <3>3. subject \in topics[s]
      BY <2>1, <2>2, <3>2 DEF TableOf
    <3>. QED  BY <3>2, <3>3 DEF Matches
  <2>3. ASSUME s \in W PROVE \E t \in topics[s] : Matches(t, subject)
    <3>1. PICK t \in DOMAIN wildcards : Matches(t, subject) /\ s \in wildcards[t]
      BY <2>3 DEF ViaPattern
    <3>2. t \in Topics /\ IsPattern(t)
      BY DEF TypeOK, Patterns
    <3>3. t \in topics[s]
      BY <2>1, <3>1, <3>2 DEF TableOf, Holders
    <3>. QED  BY <3>1, <3>3
  <2>4. ASSUME NEW t \in topics[s], Matches(t, subject) PROVE s \in D \cup W
    <3>1. s \in Holders(TableOf(t), t)
      BY <2>0, <2>1
    <3>2. CASE ~IsPattern(t)
      <4>1. t = subject
        BY <2>4, <3>2 DEF Matches
      <4>. QED  BY <3>1, <3>2, <4>1 DEF TableOf
    <3>3. CASE IsPattern(t)
      <4>1. t \in DOMAIN wildcards /\ s \in wildcards[t]
        BY <3>1, <3>3 DEF TableOf, Holders
      <4>2. s \in ViaPattern(subject)
        BY <2>4, <4>1 DEF ViaPattern
      <4>. QED  BY <4>2
    <3>. QED  BY <3>2, <3>3
  <2>. QED  BY <2>2, <2>3, <2>4
<1>10. \A s \in D \cup W : \E t \in topics[s] : Matches(t, subject)
  BY <1>8, <1>9
<1>11. {m[i] : i \in DOMAIN m} = D \cup W
  BY <1>6, <1>7
<1>. HIDE DEF D, W
<1>. QED  BY <1>6, <1>8, <1>9, <1>10, <1>11

(* The strengthening is inductive.                                         *)
LEMMA NextRef ==
    ASSUME RefInv, [Next]_vars
    PROVE  OnceInv' /\ FromInv' /\ AskedInv'
<1>. USE DEF RefInv, IInv, tables, lock, svars, pvars, cvars
<1>1. ASSUME NEW s \in Subs, NEW ts \in TopicSets, SubscribeLock(s, ts)
      PROVE  OnceInv' /\ FromInv' /\ AskedInv'
  BY <1>1 DEF SubscribeLock, OnceInv, FromInv, AskedInv, TypeOK
<1>2. ASSUME NEW s \in Subs, SubscribeLink(s) PROVE OnceInv' /\ FromInv' /\ AskedInv'
  BY <1>2 DEF SubscribeLink, OnceInv, FromInv, AskedInv, TypeOK
<1>3. ASSUME NEW p \in Publishers, NEW subject \in Published, PublishCall(p, subject)
      PROVE  OnceInv' /\ FromInv' /\ AskedInv'
  BY <1>3 DEF PublishCall, OnceInv, FromInv, AskedInv, TypeOK
<1>4. ASSUME NEW p \in Publishers, PublishCollect(p) PROVE OnceInv' /\ FromInv' /\ AskedInv'
  <2>1. PICK m \in MatchSlices(msg[p].subject) : matched' = [matched EXCEPT ![p] = m]
    BY <1>4 DEF PublishCollect
  <2>2. \A i, j \in DOMAIN m : m[i] = m[j] => i = j
    BY MatchSlicesExact DEF TablesInv
  <2>3. OnceInv'
    BY <2>1, <2>2 DEF OnceInv, TypeOK
  <2>. QED  BY <1>4, <2>3 DEF PublishCollect, FromInv, AskedInv, TypeOK
<1>5. ASSUME NEW p \in Publishers, PublishSend(p) PROVE OnceInv' /\ FromInv' /\ AskedInv'
  <2>1. /\ matched[p] \in Seq(Subs) /\ matched[p] # <<>>
        /\ matched' = [matched EXCEPT ![p] = Tail(matched[p])]
    BY <1>5 DEF PublishSend, TypeOK
  <2>2. ASSUME NEW i \in DOMAIN Tail(matched[p]), NEW j \in DOMAIN Tail(matched[p]),
               Tail(matched[p])[i] = Tail(matched[p])[j]
        PROVE  i = j
    <3>1. /\ i + 1 \in DOMAIN matched[p] /\ Tail(matched[p])[i] = matched[p][i + 1]
          /\ j + 1 \in DOMAIN matched[p] /\ Tail(matched[p])[j] = matched[p][j + 1]
          /\ i \in Int /\ j \in Int
      BY <2>1
    <3>2. i + 1 = j + 1
      BY <2>2, <3>1 DEF OnceInv
    <3>. QED  BY <3>1, <3>2
  <2>3. OnceInv'
    BY <2>1, <2>2 DEF OnceInv, TypeOK
  <2>. QED  BY <1>5, <2>3 DEF PublishSend, FromInv, AskedInv
<1>6. ASSUME NEW p \in Publishers, PublishReturn(p) PROVE OnceInv' /\ FromInv' /\ AskedInv'
  BY <1>6 DEF PublishReturn, OnceInv, FromInv, AskedInv, TypeOK
<1>7. ASSUME NEW s \in Subs, Receive(s) PROVE OnceInv' /\ FromInv' /\ AskedInv'
  BY <1>7 DEF Receive, OnceInv, FromInv, AskedInv
<1>8. ASSUME NEW c \in Closers, CloseRun(c) \/ \E s \in Subs : CloseFirst(c, s)
      PROVE  OnceInv' /\ FromInv' /\ AskedInv'
  BY <1>8 DEF CloseRun, CloseFirst, CloseLock, CloseUnlink, CloseChan, OnceInv, FromInv, AskedInv
<1>9. CASE UNCHANGED vars
  BY <1>9 DEF vars, OnceInv, FromInv, AskedInv
<1>. QED
  BY <1>1, <1>2, <1>3, <1>4, <1>5, <1>6, <1>7, <1>8, <1>9 DEF Next, Subscribe, PublishRun

LEMMA RefInvariance == Spec => []RefInv
<1>1. Init => OnceInv /\ FromInv /\ AskedInv
  BY DEF Init, OnceInv, FromInv, AskedInv
<1>2. IInv /\ OnceInv /\ FromInv /\ AskedInv /\ [Next]_vars => (OnceInv /\ FromInv /\ AskedInv)'
  BY NextRef DEF RefInv
<1>. QED  BY <1>1, <1>2, Invariance, PTL DEF Spec, RefInv

------------------------------------------------------------------------------
(* The abstract variables, read off the concrete ones.                     *)
Owed(sent, left) == UNION {{<<sent[p], left[p][i]>> : i \in DOMAIN left[p]} : p \in Publishers}

LEMMA OwedPairs ==
    ASSUME NEW sent, NEW left
    PROVE  /\ \A o \in Owed(sent, left) : \E p \in Publishers : \E i \in DOMAIN left[p] :
                 o = <<sent[p], left[p][i]>>
           /\ \A p \in Publishers : \A i \in DOMAIN left[p] :
                 <<sent[p], left[p][i]>> \in Owed(sent, left)
  BY DEF Owed

LEMMA OwedBars == owedBar = Owed(msg, matched) /\ owedBar' = Owed(msg', matched')
  BY DEF owedBar, Owed

(* A step that none of them sees.                                          *)
LEMMA BarFrame ==
    ASSUME UNCHANGED <<topics, spc, chan>>, \A s \in Subs : Linked(s)' <=> Linked(s)
    PROVE  UNCHANGED <<stateBar, topicsBar>>
  BY DEF stateBar, topicsBar

(* Publishing leaves what is linked alone, and so does a step of a closer  *)
(* that neither enters nor leaves "close".                                 *)
LEMMA LinkedFrame ==
    ASSUME UNCHANGED <<spc, chan, cvars>>, NEW s \in Subs
    PROVE  Linked(s)' <=> Linked(s)
  BY DEF cvars, Linked

LEMMA SameAbstractMatches ==
    ASSUME NEW pattern, NEW subject
    PROVE  Abstract!Matches(pattern, subject) = Matches(pattern, subject)
  BY DEF Abstract!Matches, Matches, Abstract!IsPattern, IsPattern, Abstract!AnySuffix,
         AnySuffix, Abstract!AnyToken, AnyToken

(* Subscribe takes effect when it has linked the subscription.             *)
LEMMA SubscribeRefines ==
    ASSUME RefInv, NEW s \in Subs
    PROVE  /\ \A ts \in TopicSets : SubscribeLock(s, ts) => UNCHANGED Abstract!vars
           /\ SubscribeLink(s) => Abstract!Next
<1>. USE DEF RefInv, IInv, tables, lock, svars, pvars, cvars
<1>1. ASSUME NEW ts \in TopicSets, SubscribeLock(s, ts) PROVE UNCHANGED Abstract!vars
  <2>1. /\ \A r \in Subs : spc'[r] = "done" <=> spc[r] = "done"
        /\ \A r \in Subs : spc[r] = "done" => topics'[r] = topics[r] /\ chan'[r] = chan[r]
        /\ UNCHANGED <<cpc, target, buffer, msg, matched>>
    BY <1>1 DEF SubscribeLock, TypeOK
  <2>2. \A r \in Subs : Linked(r)' <=> Linked(r)
    BY <2>1 DEF Linked
  <2>3. stateBar' = stateBar /\ topicsBar' = topicsBar
    BY <2>1, <2>2 DEF stateBar, topicsBar
  <2>. QED  BY <2>1, <2>3, OwedBars DEF Abstract!vars
<1>2. ASSUME SubscribeLink(s) PROVE Abstract!Subscribe(s, topics[s]) /\ topics[s] \in TopicSets
  <2>1. /\ spc[s] = "link" /\ chan[s] = "open" /\ ~closed[s]
        /\ spc' = [spc EXCEPT ![s] = "done"]
        /\ UNCHANGED <<chan, topics, cpc, target, buffer, msg, matched>>
    BY <1>2 DEF SubscribeLink, ChanInv
  <2>2. \A c \in Closers : ~(target[c] = s /\ cpc[c] = "close")
    BY <2>1, NoneAssumption DEF MutexInv
  <2>3. /\ spc'[s] = "done" /\ spc[s] # "done"
        /\ \A r \in Subs : r # s => spc'[r] = spc[r]
    BY <2>1 DEF TypeOK
  <2>4. Linked(s)' /\ \A r \in Subs : r # s => (Linked(r)' <=> Linked(r))
    BY <2>1, <2>2, <2>3 DEF Linked
  <2>5. stateBar[s] = "none"
    BY <2>3 DEF stateBar
  <2>6. stateBar' = [stateBar EXCEPT ![s] = "open"]
    BY <2>1, <2>3, <2>4 DEF stateBar
  <2>7. topicsBar' = [topicsBar EXCEPT ![s] = topics[s]]
    BY <2>1, <2>3 DEF topicsBar
  <2>8. topics[s] \in TopicSets
    BY <2>1 DEF AskedInv
  <2>. QED  BY <2>1, <2>5, <2>6, <2>7, <2>8, OwedBars DEF Abstract!Subscribe
<1>. QED  BY <1>1, <1>2 DEF Abstract!Next

(* Publish takes effect when it collects its matches: they are those of the*)
(* contract, and each of its sends serves one.                             *)
LEMMA PublishRefines ==
    ASSUME RefInv, NEW p \in Publishers
    PROVE  /\ \A subject \in Published : PublishCall(p, subject) => UNCHANGED Abstract!vars
           /\ PublishCollect(p) => Abstract!Next
           /\ PublishSend(p) => Abstract!Next
           /\ PublishReturn(p) => UNCHANGED Abstract!vars
<1>. USE DEF RefInv, IInv, tables, lock, svars, pvars
<1>. DEFINE m == msg[p]
<1>1. ASSUME matched[p] = <<>>, UNCHANGED matched,
             \A q \in Publishers : q # p => msg'[q] = msg[q]
      PROVE  UNCHANGED owedBar
  <2>1. Owed(msg', matched') = Owed(msg, matched)
    BY <1>1 DEF Owed
  <2>. QED  BY <2>1, OwedBars
<1>2. ASSUME NEW subject \in Published, PublishCall(p, subject) PROVE UNCHANGED Abstract!vars
  <2>1. matched[p] = <<>> /\ UNCHANGED matched /\ \A q \in Publishers : q # p => msg'[q] = msg[q]
    BY <1>2 DEF PublishCall, LockInv, TypeOK
  <2>2. UNCHANGED <<stateBar, topicsBar>>
    BY <1>2, BarFrame, LinkedFrame DEF PublishCall
  <2>. QED  BY <1>1, <1>2, <2>1, <2>2 DEF PublishCall, Abstract!vars
<1>3. ASSUME PublishReturn(p) PROVE UNCHANGED Abstract!vars
  <2>1. matched[p] = <<>> /\ UNCHANGED matched /\ \A q \in Publishers : q # p => msg'[q] = msg[q]
    BY <1>3 DEF PublishReturn, TypeOK
  <2>2. UNCHANGED <<stateBar, topicsBar>>
    BY <1>3, BarFrame, LinkedFrame DEF PublishReturn
  <2>. QED  BY <1>1, <1>3, <2>1, <2>2 DEF PublishReturn, Abstract!vars
<1>4. ASSUME PublishCollect(p) PROVE m \in Msgs /\ Abstract!Publish(m)
  <2>1. PICK slice \in MatchSlices(m.subject) : matched' = [matched EXCEPT ![p] = slice]
    BY <1>4 DEF PublishCollect
  <2>2. m \in Msgs /\ m.from = p /\ matched[p] = <<>> /\ UNCHANGED <<msg, buffer>>
    BY <1>4 DEF PublishCollect, LockInv, FromInv, TypeOK
  <2>3. UNCHANGED <<stateBar, topicsBar>>
    BY <1>4, BarFrame, LinkedFrame DEF PublishCollect
  <2>. DEFINE reached == {slice[i] : i \in DOMAIN slice}
  <2>4. reached = Abstract!Receivers(m)
    <3>1. reached = {s \in Subs : Linked(s) /\ \E t \in topics[s] : Matches(t, m.subject)}
      BY MatchSlicesExact DEF TablesInv
    <3>2. \A s \in Subs : /\ stateBar[s] = "open" <=> Linked(s)
                          /\ Linked(s) => topicsBar[s] = topics[s]
      BY DEF stateBar, topicsBar, Linked
    <3>3. [n \in Msgs |-> n.subject][m] = m.subject
      BY <2>2
    <3>. QED
      BY <3>1, <3>2, <3>3, SameAbstractMatches DEF Abstract!Receivers
  <2>5. owedBar' = owedBar \cup {<<m, s>> : s \in reached}
    <3>1. matched'[p] = slice /\ \A q \in Publishers : q # p => matched'[q] = matched[q]
      BY <2>1 DEF TypeOK
    <3>2. Owed(msg, matched') = Owed(msg, matched) \cup {<<m, s>> : s \in reached}
      BY <2>2, <3>1 DEF Owed
    <3>. QED  BY <2>2, <3>2, OwedBars
  <2>6. ASSUME NEW s \in Subs PROVE <<m, s>> \notin owedBar
    <3>1. ASSUME NEW q \in Publishers, NEW i \in DOMAIN matched[q],
                 <<m, s>> = <<msg[q], matched[q][i]>>
          PROVE  FALSE
      <4>1. q # p
        BY <2>2
      <4>2. ppc[q] = "send"
        BY DEF LockInv, TypeOK
      <4>3. msg[q].from = q
        BY <4>2 DEF FromInv
      <4>. QED  BY <2>2, <3>1, <4>1, <4>3
    <3>. QED  BY <3>1, OwedPairs, OwedBars
  <2>. HIDE DEF reached
  <2>7. reached \in SUBSET Abstract!Receivers(m)
    BY <2>4
  <2>. QED  BY <2>2, <2>3, <2>4, <2>5, <2>6, <2>7 DEF Abstract!Publish
<1>5. ASSUME PublishSend(p) PROVE \E s \in Subs : m \in Msgs /\ Abstract!Offer(m, s)
  <2>. DEFINE s == Head(matched[p])
  <2>1. /\ matched[p] \in Seq(Subs) /\ matched[p] # <<>> /\ s \in Subs
        /\ matched' = [matched EXCEPT ![p] = Tail(matched[p])]
        /\ m \in Msgs /\ m.from = p /\ UNCHANGED msg
        /\ buffer' = IF Len(buffer[s]) < ChanBuffer
                     THEN [buffer EXCEPT ![s] = Append(buffer[s], m)]
                     ELSE buffer
    BY <1>5 DEF PublishSend, FromInv, TypeOK
  <2>2. UNCHANGED <<stateBar, topicsBar>>
    BY <1>5, BarFrame, LinkedFrame DEF PublishSend
  <2>3. /\ 1 \in DOMAIN matched[p] /\ s = matched[p][1]
        /\ \A i \in DOMAIN Tail(matched[p]) : /\ i + 1 \in DOMAIN matched[p]
                                              /\ Tail(matched[p])[i] = matched[p][i + 1]
                                              /\ i + 1 # 1
        /\ \A i \in DOMAIN matched[p] : i # 1 => /\ i - 1 \in DOMAIN Tail(matched[p])
                                                 /\ Tail(matched[p])[i - 1] = matched[p][i]
    BY <2>1
  <2>4. <<m, s>> \in owedBar
    BY <2>3, OwedPairs, OwedBars
  <2>5. owedBar' = owedBar \ {<<m, s>>}
    <3>1. matched'[p] = Tail(matched[p]) /\ \A q \in Publishers : q # p => matched'[q] = matched[q]
      BY <2>1 DEF TypeOK
    <3>2. ASSUME NEW o \in Owed(msg, matched') PROVE o \in Owed(msg, matched) \ {<<m, s>>}
      <4>0. PICK q \in Publishers : \E i \in DOMAIN matched'[q] : o = <<msg[q], matched'[q][i]>>
        BY OwedPairs
      <4>1. PICK i \in DOMAIN matched'[q] : o = <<msg[q], matched'[q][i]>>
        BY <4>0
      <4>2. CASE q = p
        <5>1. /\ i + 1 \in DOMAIN matched[p] /\ matched'[q][i] = matched[p][i + 1]
              /\ matched[p][i + 1] # s
          <6>1. i \in DOMAIN Tail(matched[p]) /\ matched'[q][i] = Tail(matched[p])[i]
            BY <3>1, <4>2
          <6>2. /\ i + 1 \in DOMAIN matched[p] /\ i + 1 # 1
                /\ Tail(matched[p])[i] = matched[p][i + 1]
            BY <2>3, <6>1
          <6>3. matched[p][i + 1] # matched[p][1]
            BY <2>3, <6>2 DEF OnceInv
          <6>. QED  BY <2>3, <6>1, <6>2, <6>3
        <5>2. o = <<m, matched[p][i + 1]>>
          BY <4>1, <4>2, <5>1
        <5>. QED  BY <5>1, <5>2, OwedPairs
      <4>3. CASE q # p
        <5>1. matched'[q] = matched[q] /\ i \in DOMAIN matched[q]
          BY <3>1, <4>1, <4>3
        <5>2. ppc[q] = "send"
          BY <5>1 DEF LockInv, TypeOK
        <5>3. msg[q].from = q
          BY <5>2 DEF FromInv
        <5>. QED  BY <2>1, <4>1, <4>3, <5>1, <5>3, OwedPairs
      <4>. QED  BY <4>2, <4>3
    <3>3. ASSUME NEW o \in Owed(msg, matched), o # <<m, s>> PROVE o \in Owed(msg, matched')
      <4>0. PICK q \in Publishers : \E i \in DOMAIN matched[q] : o = <<msg[q], matched[q][i]>>
        BY OwedPairs
      <4>1. PICK i \in DOMAIN matched[q] : o = <<msg[q], matched[q][i]>>
        BY <4>0
      <4>2. CASE q = p
        <5>1. i # 1
          BY <2>3, <3>3, <4>1, <4>2
        <5>2. i - 1 \in DOMAIN matched'[p] /\ matched'[p][i - 1] = matched[p][i]
          BY <2>3, <3>1, <4>1, <4>2, <5>1
        <5>. QED  BY <4>1, <4>2, <5>2, OwedPairs
      <4>3. CASE q # p
        BY <3>1, <4>1, <4>3, OwedPairs
      <4>. QED  BY <4>2, <4>3
    <3>. QED  BY <2>1, <3>2, <3>3, OwedBars
  <2>. HIDE DEF s
  <2>. QED  BY <2>1, <2>2, <2>4, <2>5 DEF Abstract!Offer
<1>. QED  BY <1>2, <1>3, <1>4, <1>5 DEF Abstract!Next

(* Close begins when it leaves the tables and ends with the channel.       *)
LEMMA CloseRefines ==
    ASSUME RefInv, NEW c \in Closers
    PROVE  /\ \A s \in Subs : CloseFirst(c, s) => UNCHANGED Abstract!vars
           /\ CloseLock(c) => UNCHANGED Abstract!vars
           /\ CloseUnlink(c) => Abstract!Next
           /\ CloseChan(c) => Abstract!Next
<1>. USE DEF RefInv, IInv, tables, lock, svars, pvars, cvars
<1>1. ASSUME \/ \E s \in Subs : CloseFirst(c, s)
             \/ CloseLock(c)
      PROVE  UNCHANGED Abstract!vars
  <2>1. UNCHANGED <<topics, spc, chan, buffer, msg, matched>>
    BY <1>1 DEF CloseFirst, CloseLock
  <2>2. \A r \in Subs, k \in Closers :
            (target'[k] = r /\ cpc'[k] = "close") <=> (target[k] = r /\ cpc[k] = "close")
    BY <1>1 DEF CloseFirst, CloseLock, TypeOK
  <2>3. \A r \in Subs : Linked(r)' <=> Linked(r)
    BY <2>1, <2>2 DEF Linked
  <2>. QED  BY <2>1, <2>3, BarFrame, OwedBars DEF Abstract!vars
<1>2. ASSUME CloseUnlink(c) PROVE \E s \in Subs : Abstract!CloseBegin(s)
  <2>1. PICK s \in Subs : target[c] = s /\ closeMu[s] = c /\ spc[s] = "done" /\ chan[s] = "open"
    BY <1>2, NoneAssumption DEF CloseUnlink, MutexInv
  <2>2. cpc[c] # "close" /\ cpc'[c] = "close" /\ (\A k \in Closers : k # c => cpc'[k] = cpc[k])
        /\ UNCHANGED <<topics, spc, chan, target, buffer, msg, matched>>
    BY <1>2 DEF CloseUnlink, TypeOK
  <2>3. Linked(s)
    <3>1. ASSUME NEW k \in Closers, target[k] = s, cpc[k] = "close" PROVE FALSE
      BY <2>1, <2>2, <3>1 DEF MutexInv
    <3>. QED  BY <2>1, <3>1 DEF Linked
  <2>4. ~Linked(s)' /\ \A r \in Subs : r # s => (Linked(r)' <=> Linked(r))
    BY <2>1, <2>2 DEF Linked
  <2>5. stateBar[s] = "open" /\ stateBar' = [stateBar EXCEPT ![s] = "closing"]
    BY <2>1, <2>2, <2>3, <2>4 DEF stateBar
  <2>6. UNCHANGED <<topicsBar, owedBar, buffer>>
    BY <2>2, OwedBars DEF topicsBar
  <2>7. \E forgotten \in SUBSET (owedBar \cap Abstract!OwedTo(s)) : owedBar' = owedBar \ forgotten
    <3>1. owedBar' = owedBar \ {}
      BY <2>6
    <3>. QED  BY <3>1
  <2>. QED  BY <2>5, <2>6, <2>7 DEF Abstract!CloseBegin
<1>3. ASSUME CloseChan(c) PROVE \E s \in Subs : Abstract!CloseEnd(s)
  <2>1. PICK s \in Subs : /\ target[c] = s /\ closeMu[s] = c
                          /\ spc[s] = "done" /\ chan[s] = "open" /\ cpc[c] = "close"
    BY <1>3, NoneAssumption DEF CloseChan, MutexInv
  <2>2. /\ chan'[s] = "closed" /\ \A r \in Subs : r # s => chan'[r] = chan[r]
        /\ UNCHANGED <<topics, spc, buffer, msg, matched>>
    BY <1>3, <2>1 DEF CloseChan, TypeOK
  <2>3. \A r \in Subs, k \in Closers : r # s =>
            ((target'[k] = r /\ cpc'[k] = "close") <=> (target[k] = r /\ cpc[k] = "close"))
    BY <1>3, <2>1 DEF CloseChan, TypeOK
  <2>4. ~Linked(s) /\ ~Linked(s)' /\ \A r \in Subs : r # s => (Linked(r)' <=> Linked(r))
    BY <2>1, <2>2, <2>3 DEF Linked
  <2>5. stateBar[s] = "closing" /\ stateBar' = [stateBar EXCEPT ![s] = "closed"]
    BY <2>1, <2>2, <2>4 DEF stateBar
  <2>6. UNCHANGED <<topicsBar, owedBar, buffer>>
    BY <2>2, OwedBars DEF topicsBar
  <2>7. owedBar \cap Abstract!OwedTo(s) = {}
    <3>1. ASSUME NEW q \in Publishers, NEW i \in DOMAIN matched[q] PROVE matched[q][i] # s
      BY <2>4 DEF MatchedInv
    <3>. QED  BY <3>1, OwedPairs, OwedBars DEF Abstract!OwedTo
  <2>. QED  BY <2>5, <2>6, <2>7 DEF Abstract!CloseEnd
<1>. QED  BY <1>1, <1>2, <1>3 DEF Abstract!Next

LEMMA StepRefines == ASSUME RefInv, [Next]_vars PROVE [Abstract!Next]_(Abstract!vars)
<1>1. ASSUME NEW s \in Subs, Receive(s) PROVE Abstract!Next
  <2>1. UNCHANGED <<stateBar, topicsBar>>
    BY <1>1, BarFrame, LinkedFrame DEF Receive, svars
  <2>2. UNCHANGED owedBar
    BY <1>1, OwedBars DEF Receive, pvars
  <2>3. Abstract!Receive(s)
    BY <1>1, <2>1, <2>2 DEF Receive, Abstract!Receive
  <2>. QED  BY <2>3 DEF Abstract!Next
<1>2. CASE UNCHANGED vars
  <2>1. UNCHANGED <<stateBar, topicsBar>>
    BY <1>2, BarFrame, LinkedFrame DEF vars, svars
  <2>2. UNCHANGED <<owedBar, buffer>>
    BY <1>2, OwedBars DEF vars, pvars
  <2>. QED  BY <2>1, <2>2 DEF Abstract!vars
<1>. QED
  BY <1>1, <1>2, SubscribeRefines, PublishRefines, CloseRefines
     DEF Next, Subscribe, PublishRun, CloseRun

(* Locks, tables and send loops do what the contract says: a publish owes  *)
(* its message to just the subscriptions open at one instant, offers it    *)
(* once to each, and nothing to a subscription that has been closed.       *)
THEOREM BrokerImplemented == Spec => ImplementsBroker
<1>1. Init => Abstract!Init
  <2>. SUFFICES ASSUME Init PROVE Abstract!Init
    OBVIOUS
  <2>1. stateBar = [s \in Subs |-> "none"] /\ topicsBar = [s \in Subs |-> {}]
    BY DEF Init, stateBar, topicsBar
  <2>2. owedBar = {}
    <3>1. \A p \in Publishers : DOMAIN matched[p] = {}
      BY DEF Init
    <3>. QED  BY <3>1, OwedPairs, OwedBars
  <2>. QED  BY <2>1, <2>2 DEF Init, Abstract!Init
<1>2. RefInv /\ [Next]_vars => [Abstract!Next]_(Abstract!vars)
  BY StepRefines
<1>. QED  BY <1>1, <1>2, RefInvariance, PTL DEF Spec, ImplementsBroker, Abstract!Spec
=============================================================================
