------------------------ MODULE NatsKVSessions_proofs ------------------------
(* Proofs about NatsKVSessions: for any sessions, users and callers.       *)
EXTENDS NatsKVSessions, SequenceTheorems, TLAPS

(* An update is taken from the channel of a watch.                         *)
LEMMA TailEntries ==
    ASSUME NEW q \in Seq(Entries), q # <<>>
    PROVE  /\ Tail(q) \in Seq(Entries)
           /\ \A i \in DOMAIN Tail(q) : \E j \in DOMAIN q : Tail(q)[i] = q[j]
           /\ 1 \in DOMAIN q /\ Head(q) = q[1]
<1>1. Tail(q) \in Seq(Entries) /\ Len(Tail(q)) = Len(q) - 1
  BY HeadTailProperties
<1>2. \A i \in 1 .. Len(Tail(q)) : Tail(q)[i] = q[i + 1] /\ i + 1 \in DOMAIN q
  BY <1>1, HeadTailProperties
<1>. QED  BY <1>1, <1>2

(* The library puts an entry, or an entry and nil, into it.                *)
LEMMA SentEntries ==
    ASSUME NEW q \in Seq(Entries), NEW r \in Seq(Entries)
    PROVE  /\ q \o r \in Seq(Entries)
           /\ \A i \in DOMAIN (q \o r) :
                 \/ \E j \in DOMAIN q : (q \o r)[i] = q[j]
                 \/ \E j \in DOMAIN r : (q \o r)[i] = r[j]
<1>1. /\ q \o r \in Seq(Entries)
      /\ Len(q \o r) = Len(q) + Len(r)
      /\ \A i \in 1 .. Len(q) + Len(r) :
            (q \o r)[i] = IF i <= Len(q) THEN q[i] ELSE r[i - Len(q)]
  BY ConcatProperties
<1>2. ASSUME NEW i \in DOMAIN (q \o r)
      PROVE  \/ \E j \in DOMAIN q : (q \o r)[i] = q[j]
             \/ \E j \in DOMAIN r : (q \o r)[i] = r[j]
  <2>1. i \in 1 .. Len(q) + Len(r) /\ Len(q) \in Nat /\ Len(r) \in Nat
    BY <1>1
  <2>2. CASE i <= Len(q)
    <3>1. i \in DOMAIN q /\ (q \o r)[i] = q[i]
      BY <1>1, <2>1, <2>2
    <3>. QED  BY <3>1
  <2>3. CASE ~(i <= Len(q))
    <3>1. i - Len(q) \in DOMAIN r /\ (q \o r)[i] = r[i - Len(q)]
      BY <1>1, <2>1, <2>3
    <3>. QED  BY <3>1
  <2>. QED  BY <2>2, <2>3
<1>. QED  BY <1>1, <1>2

LEMMA SentType ==
    ASSUME TypeOK, NEW w \in Watches, watchOf[w] \in Keys
    PROVE  /\ Sent(w) \in Seq(Entries)
           /\ \A j \in DOMAIN Sent(w) : Sent(w)[j] \in {kv[watchOf[w]], "nil"}
<1>1. kv[watchOf[w]] \in Entries /\ "nil" \in Entries
  BY DEF TypeOK, Entries
<1>. QED  BY <1>1 DEF Sent

(* A call of NotifyClosed that has begun is about a key, whose entry is    *)
(* there to stay, live or deleted.                                         *)
AskedInv ==
    \A w \in Watches :
        wpc[w] # "idle" => watchOf[w] \in Keys /\ kv[watchOf[w]] # "none"

Types == TypeOK /\ AskedInv

(* Every step keeps the variables in their types.                          *)
LEMMA NextTypes ==
    ASSUME Types, [Next]_vars
    PROVE  Types'
<1>. USE OwnerAssumption, PrefetchAssumption
     DEF Types, TypeOK, AskedInv, bucket, wvars, evars, Put, Delete, Watching,
         WatchGoto, Told, Returns
<1>1. ASSUME NEW k \in Keys, CreateSession(k) \/ SaveSession(k) PROVE Types'
  <2>1. TypeOK'
    BY <1>1 DEF CreateSession, SaveSession
  <2>2. AskedInv'
    BY <1>1 DEF CreateSession, SaveSession
  <2>. QED  BY <2>1, <2>2
<1>2. ASSUME NEW k \in Keys, CloseSession(k) PROVE Types'
  <2>1. TypeOK'
    BY <1>2 DEF CloseSession
  <2>2. AskedInv'
    BY <1>2 DEF CloseSession
  <2>. QED  BY <2>1, <2>2
<1>3. ASSUME NEW w \in Watches, NEW k \in Keys, NotifyClosed(w, k) PROVE Types'
  <2>1. CASE Told(w) /\ WatchGoto(w, "done")
    BY <1>3, <2>1 DEF NotifyClosed
  <2>2. CASE WatchGoto(w, "watch") /\ UNCHANGED calls
    BY <1>3, <2>2 DEF NotifyClosed
  <2>. QED  BY <1>3, <2>1, <2>2 DEF NotifyClosed
<1>4. ASSUME NEW w \in Watches,
             WatchStarts(w) \/ WatchFails(w) \/ UpdatesClosed(w) \/ Cancel(w)
      PROVE  Types'
  BY <1>4 DEF WatchStarts, WatchFails, UpdatesClosed, Cancel
<1>. <<>> \in Seq(Entries)
  OBVIOUS
<1>5. ASSUME NEW w \in Watches, NextUpdate(w) PROVE Types'
  <2>1. CASE Head(updates[w]) = "deleted"
    <3>1. /\ Told(w) /\ Returns(w)
          /\ wpc[w] = "loop"
          /\ UNCHANGED <<bucket, watchOf, ctxDone, evars, since>>
      BY <1>5, <2>1 DEF NextUpdate
    <3>2. updates' \in [Watches -> Seq(Entries)]
      BY <3>1
    <3>. QED  BY <3>1, <3>2
  <2>2. CASE Head(updates[w]) # "deleted"
    <3>1. Tail(updates[w]) \in Seq(Entries)
      BY <1>5, TailEntries DEF NextUpdate
    <3>2. updates' \in [Watches -> Seq(Entries)]
      BY <1>5, <2>2, <3>1 DEF NextUpdate
    <3>3. wpc' \in [Watches -> {"idle", "watch", "loop", "check", "done", "failed"}]
      BY <1>5, <2>2 DEF NextUpdate
    <3>. QED  BY <1>5, <2>2, <3>2, <3>3 DEF NextUpdate
  <2>. QED  BY <2>1, <2>2
<1>6. ASSUME NEW w \in Watches, Recheck(w) \/ Stop(w) PROVE Types'
  <2>1. CASE Told(w) /\ Returns(w)
    BY <1>6, <2>1 DEF Recheck, Stop
  <2>2. CASE WatchGoto(w, "loop") /\ UNCHANGED <<calls, unsent, replaying, updates>>
    BY <1>6, <2>2 DEF Recheck, Stop
  <2>3. CASE Stop(w)
    BY <2>3 DEF Stop
  <2>. QED  BY <1>6, <2>1, <2>2, <2>3 DEF Recheck
<1>7. ASSUME NEW w \in Watches, Deliver(w) PROVE Types'
  <2>1. Sent(w) \in Seq(Entries)
    BY <1>7, SentType DEF Deliver
  <2>2. updates' \in [Watches -> Seq(Entries)]
    BY <1>7, <2>1, SentEntries DEF Deliver
  <2>. QED  BY <1>7, <2>2 DEF Deliver
<1>8. ASSUME NEW c \in Closers, NEW u \in Users, CloseAllUserSessions(c, u)
      PROVE  Types'
  BY <1>8 DEF CloseAllUserSessions
<1>9. ASSUME NEW c \in Closers, NEW k \in Keys, List(c, k) PROVE Types'
  BY <1>9 DEF List
<1>10. ASSUME NEW c \in Closers, NEW k \in Keys, CloseEntry(c, k) PROVE Types'
  <2>1. TypeOK'
    BY <1>10 DEF CloseEntry
  <2>2. AskedInv'
    BY <1>10 DEF CloseEntry
  <2>. QED  BY <2>1, <2>2
<1>11. ASSUME NEW c \in Closers, NEW k \in Keys, CloseEntryFails(c, k) PROVE Types'
  <2>1. TypeOK'
    BY <1>11 DEF CloseEntryFails
  <2>2. AskedInv'
    BY <1>11 DEF CloseEntryFails
  <2>. QED  BY <2>1, <2>2
<1>12. ASSUME NEW c \in Closers, CloseAllReturns(c) \/ CloseAllIsCut(c) PROVE Types'
  BY <1>12 DEF CloseAllReturns, CloseAllIsCut
<1>13. CASE UNCHANGED vars
  BY <1>13 DEF vars
<1>. QED
  BY <1>1, <1>2, <1>3, <1>4, <1>5, <1>6, <1>7, <1>8, <1>9, <1>10, <1>11, <1>12, <1>13
     DEF Next, WatchRun

THEOREM TypeCorrect == Spec => []TypeOK
<1>1. Init => Types
  BY DEF Init, Types, TypeOK, AskedInv
<1>2. Types /\ [Next]_vars => Types'
  BY NextTypes
<1>3. Types => TypeOK
  BY DEF Types
<1>. QED  BY <1>1, <1>2, <1>3, PTL DEF Spec

------------------------------------------------------------------------------
(* The inductive invariant.  A tombstone, in the bucket or on its way to a *)
(* watch, is of a session that was closed.                                 *)
TombstoneInv ==
    /\ \A k \in Keys : kv[k] = "deleted" => k \in wasClosed
    /\ \A w \in Watches : \A i \in DOMAIN updates[w] :
          updates[w][i] = "deleted" => watchOf[w] \in wasClosed

(* A function is called in the step in which NotifyClosed or its goroutine *)
(* returns; before NotifyClosed has begun the library sends nothing.       *)
CallsInv ==
    \A w \in Watches :
        /\ wpc[w] # "done" => calls[w] = 0
        /\ calls[w] <= 1
        /\ calls[w] = 1 => watchOf[w] \in wasClosed
        /\ wpc[w] = "idle" => updates[w] = <<>>

(* A session of a CloseAllUserSessions that has met no error is closed, or *)
(* live and on one of its lists.                                           *)
Pending(c, k) == kv[k] = "live" /\ k \in seen[c] \cup listed[c]

CloseAllInv ==
    \A c \in Closers :
        /\ epc[c] = "list" /\ c \notin failed =>
              \A k \in asked[c] : k \in since[c] \/ Pending(c, k)
        /\ epc[c] = "done" /\ c \notin failed \cup cut => asked[c] \subseteq since[c]

IInv == Types /\ TombstoneInv /\ CallsInv /\ CloseAllInv

LEMMA NextTombstone ==
    ASSUME IInv, Types', [Next]_vars
    PROVE  TombstoneInv'
<1>. USE DEF IInv, Types, TypeOK, AskedInv, TombstoneInv, bucket, wvars, evars,
             Put, Delete, WatchGoto, Told, Returns
<1>1. ASSUME NEW k \in Keys, CreateSession(k) \/ SaveSession(k) \/ CloseSession(k)
      PROVE  TombstoneInv'
  BY <1>1 DEF CreateSession, SaveSession, CloseSession
<1>2. ASSUME NEW w \in Watches, NEW k \in Keys, NotifyClosed(w, k) PROVE TombstoneInv'
  <2>1. updates[w] = <<>>
    BY <1>2 DEF NotifyClosed, CallsInv
  <2>. QED  BY <1>2, <2>1 DEF NotifyClosed
<1>3. ASSUME NEW w \in Watches,
             \/ WatchStarts(w) \/ WatchFails(w) \/ UpdatesClosed(w) \/ Cancel(w)
             \/ Recheck(w) \/ Stop(w)
      PROVE  TombstoneInv'
  <2>1. CASE Returns(w) /\ UNCHANGED <<bucket, watchOf>>
    BY <2>1
  <2>2. CASE UNCHANGED <<bucket, watchOf, updates>>
    BY <2>2
  <2>. QED
    BY <1>3, <2>1, <2>2
       DEF WatchStarts, WatchFails, UpdatesClosed, Cancel, Recheck, Stop
<1>4. ASSUME NEW w \in Watches, NextUpdate(w) PROVE TombstoneInv'
  <2>1. CASE Returns(w)
    BY <1>4, <2>1 DEF NextUpdate
  <2>2. CASE updates' = [updates EXCEPT ![w] = Tail(@)]
    <3>1. \A i \in DOMAIN Tail(updates[w]) :
             \E j \in DOMAIN updates[w] : Tail(updates[w])[i] = updates[w][j]
      BY <1>4, TailEntries DEF NextUpdate
    <3>. QED  BY <1>4, <2>2, <3>1 DEF NextUpdate
  <2>. QED  BY <1>4, <2>1, <2>2 DEF NextUpdate
<1>5. ASSUME NEW w \in Watches, Deliver(w) PROVE TombstoneInv'
  <2>1. /\ watchOf[w] \in Keys
        /\ Sent(w) \in Seq(Entries)
        /\ \A j \in DOMAIN Sent(w) : Sent(w)[j] \in {kv[watchOf[w]], "nil"}
    BY <1>5, SentType DEF Deliver
  <2>2. ASSUME NEW i \in DOMAIN (updates[w] \o Sent(w)),
               (updates[w] \o Sent(w))[i] = "deleted"
        PROVE  watchOf[w] \in wasClosed
    <3>1. \/ \E j \in DOMAIN updates[w] : (updates[w] \o Sent(w))[i] = updates[w][j]
          \/ \E j \in DOMAIN Sent(w) : (updates[w] \o Sent(w))[i] = Sent(w)[j]
      <4>1. updates[w] \in Seq(Entries)
        OBVIOUS
      <4>2. QED  BY <2>1, <2>2, <4>1, SentEntries
    <3>. QED  BY <2>1, <2>2, <3>1
  <2>. QED  BY <1>5, <2>2 DEF Deliver
<1>6. ASSUME NEW c \in Closers, NEW u \in Users, CloseAllUserSessions(c, u)
      PROVE  TombstoneInv'
  BY <1>6 DEF CloseAllUserSessions
<1>7. ASSUME NEW c \in Closers, NEW k \in Keys,
             List(c, k) \/ CloseEntry(c, k) \/ CloseEntryFails(c, k)
      PROVE  TombstoneInv'
  BY <1>7 DEF List, CloseEntry, CloseEntryFails
<1>8. ASSUME NEW c \in Closers, CloseAllReturns(c) \/ CloseAllIsCut(c)
      PROVE  TombstoneInv'
  BY <1>8 DEF CloseAllReturns, CloseAllIsCut
<1>9. CASE UNCHANGED vars
  BY <1>9 DEF vars
<1>. QED
  BY <1>1, <1>2, <1>3, <1>4, <1>5, <1>6, <1>7, <1>8, <1>9 DEF Next, WatchRun

LEMMA NextCalls ==
    ASSUME IInv, Types', [Next]_vars
    PROVE  CallsInv'
<1>. USE DEF IInv, Types, TypeOK, AskedInv, CallsInv, bucket, wvars, evars,
             Put, Delete, WatchGoto, Told, Returns
<1>1. ASSUME NEW k \in Keys, CreateSession(k) \/ SaveSession(k) \/ CloseSession(k)
      PROVE  CallsInv'
  BY <1>1 DEF CreateSession, SaveSession, CloseSession
<1>2. ASSUME NEW w \in Watches, NEW k \in Keys, NotifyClosed(w, k) PROVE CallsInv'
  <2>1. NotFound(k) => k \in wasClosed
    BY <1>2 DEF NotifyClosed, NotFound, TombstoneInv
  <2>. QED  BY <1>2, <2>1 DEF NotifyClosed
<1>3. ASSUME NEW w \in Watches,
             \/ WatchStarts(w) \/ WatchFails(w) \/ UpdatesClosed(w) \/ Cancel(w)
             \/ Stop(w) \/ Deliver(w)
      PROVE  CallsInv'
  BY <1>3 DEF WatchStarts, WatchFails, UpdatesClosed, Cancel, Stop, Deliver
<1>4. ASSUME NEW w \in Watches, NextUpdate(w) PROVE CallsInv'
  <2>1. Head(updates[w]) = "deleted" => watchOf[w] \in wasClosed
    BY <1>4, TailEntries DEF NextUpdate, TombstoneInv
  <2>2. CASE Head(updates[w]) = "deleted"
    BY <1>4, <2>1, <2>2 DEF NextUpdate
  <2>3. CASE Head(updates[w]) # "deleted"
    BY <1>4, <2>3 DEF NextUpdate
  <2>. QED  BY <2>2, <2>3
<1>5. ASSUME NEW w \in Watches, Recheck(w) PROVE CallsInv'
  <2>1. NotFound(watchOf[w]) => watchOf[w] \in wasClosed
    BY <1>5 DEF Recheck, NotFound, TombstoneInv
  <2>. QED  BY <1>5, <2>1 DEF Recheck
<1>6. ASSUME NEW c \in Closers, NEW u \in Users, CloseAllUserSessions(c, u)
      PROVE  CallsInv'
  BY <1>6 DEF CloseAllUserSessions
<1>7. ASSUME NEW c \in Closers, NEW k \in Keys,
             List(c, k) \/ CloseEntry(c, k) \/ CloseEntryFails(c, k)
      PROVE  CallsInv'
  BY <1>7 DEF List, CloseEntry, CloseEntryFails
<1>8. ASSUME NEW c \in Closers, CloseAllReturns(c) \/ CloseAllIsCut(c)
      PROVE  CallsInv'
  BY <1>8 DEF CloseAllReturns, CloseAllIsCut
<1>9. CASE UNCHANGED vars
  BY <1>9 DEF vars
<1>. QED
  BY <1>1, <1>2, <1>3, <1>4, <1>5, <1>6, <1>7, <1>8, <1>9 DEF Next, WatchRun

LEMMA NextCloseAll ==
    ASSUME IInv, Types', [Next]_vars
    PROVE  CloseAllInv'
<1>. USE DEF IInv, Types, TypeOK, CloseAllInv, Pending, bucket, wvars, evars,
             Put, Delete
<1>1. ASSUME NEW k \in Keys, CreateSession(k) \/ SaveSession(k) PROVE CloseAllInv'
  BY <1>1 DEF CreateSession, SaveSession
<1>2. ASSUME NEW k \in Keys, CloseSession(k) PROVE CloseAllInv'
  BY <1>2 DEF CloseSession
<1>3. ASSUME NEW w \in Watches,
             \/ \E k \in Keys : NotifyClosed(w, k)
             \/ WatchRun(w) \/ Deliver(w) \/ Stop(w) \/ Cancel(w)
      PROVE  CloseAllInv'
  <2>1. UNCHANGED <<bucket, evars, since>>
    BY <1>3 DEF NotifyClosed, WatchRun, WatchStarts, WatchFails, NextUpdate,
                UpdatesClosed, Recheck, Deliver, Stop, Cancel
  <2>. QED  BY <2>1
<1>4. ASSUME NEW c \in Closers, NEW u \in Users, CloseAllUserSessions(c, u)
      PROVE  CloseAllInv'
  BY <1>4 DEF CloseAllUserSessions
<1>5. ASSUME NEW c \in Closers, NEW k \in Keys, List(c, k) PROVE CloseAllInv'
  BY <1>5 DEF List
<1>6. ASSUME NEW c \in Closers, NEW k \in Keys, CloseEntry(c, k) PROVE CloseAllInv'
  BY <1>6 DEF CloseEntry
<1>7. ASSUME NEW c \in Closers, NEW k \in Keys, CloseEntryFails(c, k) PROVE CloseAllInv'
  <2>1. CASE Delete(k)
    BY <1>7, <2>1 DEF CloseEntryFails
  <2>2. CASE UNCHANGED <<bucket, unsent, since>>
    BY <1>7, <2>2 DEF CloseEntryFails
  <2>. QED  BY <1>7, <2>1, <2>2 DEF CloseEntryFails
<1>8. ASSUME NEW c \in Closers, CloseAllReturns(c) PROVE CloseAllInv'
  BY <1>8 DEF CloseAllReturns
<1>9. ASSUME NEW c \in Closers, CloseAllIsCut(c) PROVE CloseAllInv'
  BY <1>9 DEF CloseAllIsCut
<1>10. CASE UNCHANGED vars
  BY <1>10 DEF vars
<1>. QED
  BY <1>1, <1>2, <1>3, <1>4, <1>5, <1>6, <1>7, <1>8, <1>9, <1>10 DEF Next

LEMMA Invariance == Spec => []IInv
<1>1. Init => IInv
  BY DEF Init, IInv, Types, TypeOK, AskedInv, TombstoneInv, CallsInv, CloseAllInv
<1>2. IInv /\ [Next]_vars => IInv'
  BY NextTypes, NextTombstone, NextCalls, NextCloseAll DEF IInv
<1>. QED  BY <1>1, <1>2, PTL DEF Spec

------------------------------------------------------------------------------
(* However lookup, watch, replay and second lookup interleave with closes, *)
(* the function is called once at most, and for a session that was closed. *)
THEOREM CalledOnceForClosedHolds == Spec => []CalledOnceForClosed
<1>1. IInv => CalledOnceForClosed
  BY DEF IInv, Types, TypeOK, CallsInv, CalledOnceForClosed
<1>. QED  BY <1>1, Invariance, PTL

(* A CloseAllUserSessions without an error leaves out no session the user  *)
(* had at the call, whatever is saved and closed beside it.                *)
THEOREM CloseAllIsCompleteHolds == Spec => []CloseAllIsComplete
<1>1. IInv => CloseAllIsComplete
  BY DEF IInv, CloseAllInv, CloseAllIsComplete
<1>. QED  BY <1>1, Invariance, PTL

------------------------------------------------------------------------------
(* What the refinement needs beside IInv: a key that was closed or is on a *)
(* list to be closed has an entry, and a watch names a key once asked for. *)
EntryInv ==
    /\ \A k \in wasClosed : kv[k] # "none"
    /\ \A c \in Closers : \A k \in seen[c] : kv[k] # "none"
    /\ \A w \in Watches : wpc[w] = "idle" => watchOf[w] = None

LEMMA NextEntry ==
    ASSUME IInv, EntryInv, [Next]_vars
    PROVE  EntryInv'
<1>. USE DEF IInv, Types, TypeOK, EntryInv, bucket, wvars, evars, Put, Delete,
             WatchGoto, Told, Returns
<1>1. ASSUME NEW k \in Keys, CreateSession(k) \/ SaveSession(k) \/ CloseSession(k)
      PROVE  EntryInv'
  BY <1>1 DEF CreateSession, SaveSession, CloseSession
<1>2. ASSUME NEW w \in Watches,
             \/ \E k \in Keys : NotifyClosed(w, k)
             \/ WatchRun(w) \/ Deliver(w) \/ Stop(w) \/ Cancel(w)
      PROVE  EntryInv'
  <2>1. UNCHANGED <<bucket, seen>>
    BY <1>2 DEF NotifyClosed, WatchRun, WatchStarts, WatchFails, NextUpdate,
                UpdatesClosed, Recheck, Deliver, Stop, Cancel
  <2>2. \A v \in Watches : wpc'[v] = "idle" => wpc[v] = "idle" /\ watchOf'[v] = watchOf[v]
    BY <1>2 DEF NotifyClosed, WatchRun, WatchStarts, WatchFails, NextUpdate,
                UpdatesClosed, Recheck, Deliver, Stop, Cancel
  <2>. QED  BY <2>1, <2>2
<1>3. ASSUME NEW c \in Closers, NEW u \in Users, CloseAllUserSessions(c, u)
      PROVE  EntryInv'
  BY <1>3 DEF CloseAllUserSessions
<1>4. ASSUME NEW c \in Closers, NEW k \in Keys,
             List(c, k) \/ CloseEntry(c, k) \/ CloseEntryFails(c, k)
      PROVE  EntryInv'
  <2>1. CASE List(c, k)
    BY <2>1 DEF List
  <2>2. CASE CloseEntry(c, k)
    BY <2>2 DEF CloseEntry
  <2>3. CASE CloseEntryFails(c, k)
    BY <2>3 DEF CloseEntryFails
  <2>. QED  BY <1>4, <2>1, <2>2, <2>3
<1>5. ASSUME NEW c \in Closers, CloseAllReturns(c) \/ CloseAllIsCut(c)
      PROVE  EntryInv'
  BY <1>5 DEF CloseAllReturns, CloseAllIsCut
<1>6. CASE UNCHANGED vars
  BY <1>6 DEF vars
<1>. QED  BY <1>1, <1>2, <1>3, <1>4, <1>5, <1>6 DEF Next

(* The three steps that change the bucket.                                 *)
LEMMA BucketRefines ==
    ASSUME IInv, EntryInv, NEW k \in Keys
    PROVE  /\ kv[k] = "none" /\ Put(k) /\ UNCHANGED <<watchOf, calls>> =>
                 Abstract!CreateSession(k)
           /\ kv[k] # "none" /\ Put(k) /\ UNCHANGED <<watchOf, calls>> =>
                 [Abstract!SaveSession(k)]_(Abstract!vars)
           /\ kv[k] # "none" /\ Delete(k) /\ UNCHANGED <<watchOf, calls>> =>
                 Abstract!Close({k})
<1>. USE DEF IInv, Types, TypeOK, TombstoneInv, EntryInv
<1>1. ASSUME Put(k)
      PROVE  /\ {j \in Keys : kv'[j] = "live"} = {j \in Keys : kv[j] = "live"} \cup {k}
             /\ wasClosed' = wasClosed
  BY <1>1 DEF Put
<1>2. ASSUME Delete(k)
      PROVE  /\ {j \in Keys : kv'[j] = "live"} = {j \in Keys : kv[j] = "live"} \ {k}
             /\ wasClosed' = wasClosed \cup {k}
  BY <1>2 DEF Delete
<1>3. kv[k] # "none" => kv[k] = "live" \/ k \in wasClosed
  OBVIOUS
<1>4. ASSUME kv[k] = "none", Put(k), UNCHANGED <<watchOf, calls>>
      PROVE  Abstract!CreateSession(k)
  BY <1>1, <1>4 DEF Abstract!CreateSession
<1>5. ASSUME kv[k] # "none", Put(k), UNCHANGED <<watchOf, calls>>
      PROVE  [Abstract!SaveSession(k)]_(Abstract!vars)
  <2>1. CASE kv[k] = "live"
    BY <1>1, <1>5, <2>1 DEF Abstract!vars
  <2>2. CASE k \in wasClosed
    BY <1>1, <1>5, <2>2 DEF Abstract!SaveSession
  <2>. QED  BY <1>3, <1>5, <2>1, <2>2
<1>6. ASSUME kv[k] # "none", Delete(k), UNCHANGED <<watchOf, calls>>
      PROVE  Abstract!Close({k})
  BY <1>2, <1>3, <1>6 DEF Abstract!Close
<1>. QED  BY <1>4, <1>5, <1>6

(* A step of the goroutine of a watch reports the close or shows nothing.  *)
LEMMA WatchRefines ==
    ASSUME IInv, NEW w \in Watches,
           WatchRun(w) \/ Deliver(w) \/ Stop(w) \/ Cancel(w)
    PROVE  Abstract!Notify(w) \/ UNCHANGED Abstract!vars
<1>. USE DEF IInv, Types, TypeOK, AskedInv, bucket
<1>1. CASE UNCHANGED <<bucket, watchOf, calls>>
  BY <1>1 DEF Abstract!vars
<1>2. CASE /\ Told(w)
           /\ wpc[w] # "done"
           /\ watchOf[w] \in wasClosed
           /\ UNCHANGED <<bucket, watchOf>>
  <2>1. calls[w] = 0 /\ calls' = [calls EXCEPT ![w] = 1]
    <3>1. calls[w] = 0
      BY <1>2 DEF CallsInv
    <3>. QED  BY <1>2, <3>1 DEF Told
  <2>2. UNCHANGED {k \in Keys : kv[k] = "live"}
    BY <1>2
  <2>. QED  BY <1>2, <2>1, <2>2 DEF Abstract!Notify, Abstract!Tell
<1>3. CASE NextUpdate(w)
  <2>1. Head(updates[w]) = "deleted" => watchOf[w] \in wasClosed
    BY <1>3, TailEntries DEF NextUpdate, TombstoneInv
  <2>. QED  BY <1>1, <1>2, <1>3, <2>1 DEF NextUpdate
<1>4. CASE Recheck(w)
  <2>1. NotFound(watchOf[w]) => watchOf[w] \in wasClosed
    BY <1>4 DEF Recheck, NotFound, TombstoneInv
  <2>. QED  BY <1>1, <1>2, <1>4, <2>1 DEF Recheck
<1>. QED
  BY <1>1, <1>3, <1>4
     DEF WatchRun, WatchStarts, WatchFails, UpdatesClosed, Deliver, Stop, Cancel

LEMMA StepRefines ==
    ASSUME IInv, EntryInv, [Next]_vars
    PROVE  [Abstract!Next]_(Abstract!vars)
<1>. USE DEF IInv, Types, TypeOK, bucket, wvars
<1>1. ASSUME NEW k \in Keys, CreateSession(k) \/ SaveSession(k) \/ CloseSession(k)
      PROVE  [Abstract!Next]_(Abstract!vars)
  BY <1>1, BucketRefines DEF CreateSession, SaveSession, CloseSession, Abstract!Next
<1>2. ASSUME NEW w \in Watches, NEW k \in Keys, NotifyClosed(w, k)
      PROVE  Abstract!Next
  <2>1. watchOf[w] = None /\ calls[w] = 0
    BY <1>2 DEF NotifyClosed, EntryInv, CallsInv
  <2>2. kv[k] = "live" \/ (kv[k] = "deleted" /\ k \in wasClosed)
    BY <1>2 DEF NotifyClosed, TombstoneInv
  <2>3. Abstract!NotifyClosed(w, k)
    BY <1>2, <2>1, <2>2
       DEF NotifyClosed, NotFound, Told, Abstract!NotifyClosed, Abstract!Tell
  <2>. QED  BY <2>3 DEF Abstract!Next
<1>3. ASSUME NEW w \in Watches, WatchRun(w) \/ Deliver(w) \/ Stop(w) \/ Cancel(w)
      PROVE  [Abstract!Next]_(Abstract!vars)
  BY <1>3, WatchRefines DEF Abstract!Next
<1>4. ASSUME NEW c \in Closers, NEW k \in Keys, CloseEntry(c, k) \/ CloseEntryFails(c, k)
      PROVE  [Abstract!Next]_(Abstract!vars)
  <2>1. kv[k] # "none" /\ UNCHANGED <<watchOf, calls>>
    BY <1>4 DEF CloseEntry, CloseEntryFails, EntryInv
  <2>2. CASE Delete(k)
    <3>1. Abstract!Close({k})
      BY <2>1, <2>2, BucketRefines
    <3>. QED  BY <3>1 DEF Abstract!Next
  <2>3. CASE UNCHANGED bucket
    BY <2>1, <2>3 DEF Abstract!vars
  <2>. QED  BY <1>4, <2>2, <2>3 DEF CloseEntry, CloseEntryFails
<1>5. ASSUME \/ UNCHANGED vars
             \/ \E c \in Closers :
                   \/ \E u \in Users : CloseAllUserSessions(c, u)
                   \/ \E k \in Keys : List(c, k)
                   \/ CloseAllReturns(c) \/ CloseAllIsCut(c)
      PROVE  UNCHANGED Abstract!vars
  BY <1>5
     DEF vars, CloseAllUserSessions, List, CloseAllReturns, CloseAllIsCut, Abstract!vars
<1>. QED  BY <1>1, <1>2, <1>3, <1>4, <1>5 DEF Next

(* Shared by any number of processes, the bucket gives what the server may *)
(* rely on, save that a late SaveSession brings a closed session back.     *)
THEOREM ManagerImplemented == Spec => ImplementsManager
<1>1. Init => EntryInv /\ Abstract!Init
  BY DEF Init, EntryInv, Abstract!Init
<1>2. IInv /\ EntryInv /\ [Next]_vars => EntryInv'
  BY NextEntry
<1>3. IInv /\ EntryInv /\ [Next]_vars => [Abstract!Next]_(Abstract!vars)
  BY StepRefines
<1>. QED
  BY <1>1, <1>2, <1>3, Invariance, PTL DEF Spec, ImplementsManager, Abstract!Spec
=============================================================================
