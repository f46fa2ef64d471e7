------------------------ MODULE InmemSessions_proofs ------------------------
(* Proofs about InmemSessions: for any number of tokens, users and watches.*)
EXTENDS InmemSessions, TLAPS

(* Every step keeps the variables in their types.                          *)
LEMMA NextTypes == ASSUME TypeOK, [Next]_vars PROVE TypeOK'
<1>. USE DEF TypeOK
<1>1. ASSUME NEW ts \in SUBSET Tokens, CloseTokens(ts) PROVE TypeOK'
  BY <1>1 DEF CloseTokens
<1>2. ASSUME NEW t \in Tokens, NEW rec \in Records, CreateSession(t, rec) PROVE TypeOK'
  BY <1>2 DEF CreateSession
<1>3. ASSUME NEW t \in Tokens, NEW rec \in Records, SaveSession(t, rec) PROVE TypeOK'
  BY <1>3 DEF SaveSession
<1>4. ASSUME NEW w \in Watches, Cancel(w) \/ Forget(w) \/ Notify(w) PROVE TypeOK'
  BY <1>4 DEF Cancel, Forget, Notify
<1>5. ASSUME NEW w \in Watches, NEW t \in issued, NotifyClosed(w, t) PROVE TypeOK'
  BY <1>5 DEF NotifyClosed
<1>6. CASE UNCHANGED vars
  BY <1>6 DEF vars
<1>. QED
  BY <1>1, <1>2, <1>3, <1>4, <1>5, <1>6 DEF Next, CloseSession, CloseAllUserSessions

THEOREM TypeCorrect == Spec => []TypeOK
<1>1. Init => TypeOK
  BY DEF Init, TypeOK
<1>. QED  BY <1>1, NextTypes, PTL DEF Spec

------------------------------------------------------------------------------
(* The inductive invariant.  A watch is in one of five conditions: not yet *)
(* asked for; registered, of a session that is there; taken out of the map *)
(* to be notified of a session that is gone; notified of it; or given up   *)
(* with its context.                                                       *)
SessionInv == \A t \in Tokens : sessions[t] # None => t \in issued

WatchInv ==
    \A w \in Watches :
        /\ watchOf[w] # None => watchOf[w] \in issued
        /\ watchOf[w] = None => w \notin registered \cup due /\ calls[w] = 0
        /\ w \in registered => /\ sessions[watchOf[w]] # None
                               /\ w \notin due
                               /\ calls[w] = 0
        /\ w \in due => Gone(watchOf[w]) /\ calls[w] = 0
        /\ calls[w] > 0 => Gone(watchOf[w]) /\ calls[w] = 1

(* Whoever asked to be told of a session's end and has not been told is    *)
(* registered, about to be called, or does not care any more.              *)
CoverInv ==
    \A w \in Watches :
        watchOf[w] # None =>
            w \in registered \/ w \in due \/ w \in ctxDone \/ calls[w] = 1

IInv == TypeOK /\ SessionInv /\ WatchInv /\ CoverInv

LEMMA NextIInv ==
    ASSUME IInv, [Next]_vars
    PROVE  IInv'
<1>0. TypeOK'
  BY NextTypes DEF IInv
<1>. USE <1>0, NoneAssumption DEF IInv, TypeOK, Gone
<1>1. ASSUME NEW ts \in SUBSET Tokens, CloseTokens(ts) PROVE IInv'
  <2>1. SessionInv'
    BY <1>1 DEF CloseTokens, SessionInv
  <2>2. WatchInv'
    BY <1>1 DEF CloseTokens, WatchInv
  <2>3. CoverInv'
    BY <1>1 DEF CloseTokens, CoverInv
  <2>. QED  BY <2>1, <2>2, <2>3
<1>2. ASSUME NEW t \in Tokens, NEW rec \in Records, CreateSession(t, rec) PROVE IInv'
  <2>1. SessionInv'
    BY <1>2 DEF CreateSession, SessionInv
  <2>2. WatchInv'
    BY <1>2 DEF CreateSession, WatchInv
  <2>3. CoverInv'
    BY <1>2 DEF CreateSession, CoverInv
  <2>. QED  BY <2>1, <2>2, <2>3
<1>3. ASSUME NEW t \in Tokens, NEW rec \in Records, SaveSession(t, rec) PROVE IInv'
  <2>1. SessionInv' /\ CoverInv'
    BY <1>3 DEF SaveSession, SessionInv, CoverInv
  <2>2. WatchInv'
    BY <1>3 DEF SaveSession, WatchInv
  <2>. QED  BY <2>1, <2>2
<1>4. ASSUME NEW w \in Watches, Cancel(w) PROVE IInv'
  BY <1>4 DEF Cancel, SessionInv, WatchInv, CoverInv
<1>5. ASSUME NEW w \in Watches, Forget(w) PROVE IInv'
  BY <1>5 DEF Forget, SessionInv, WatchInv, CoverInv
<1>6. ASSUME NEW w \in Watches, Notify(w) PROVE IInv'
  <2>1. SessionInv'
    BY <1>6 DEF Notify, SessionInv
  <2>2. WatchInv'
    BY <1>6 DEF Notify, WatchInv
  <2>3. CoverInv'
    BY <1>6 DEF Notify, WatchInv, CoverInv
  <2>. QED  BY <2>1, <2>2, <2>3
<1>7. ASSUME NEW w \in Watches, NEW t \in issued, NotifyClosed(w, t) PROVE IInv'
  <2>1. SessionInv'
    BY <1>7 DEF NotifyClosed, SessionInv
  <2>2. WatchInv'
    BY <1>7 DEF NotifyClosed, WatchInv
  <2>3. CoverInv'
    BY <1>7 DEF NotifyClosed, WatchInv, CoverInv
  <2>. QED  BY <2>1, <2>2, <2>3
<1>8. CASE UNCHANGED vars
  BY <1>8 DEF vars, SessionInv, WatchInv, CoverInv
<1>. QED
  BY <1>1, <1>2, <1>3, <1>4, <1>5, <1>6, <1>7, <1>8
     DEF Next, CloseSession, CloseAllUserSessions

LEMMA InitIInv == Init => IInv
  BY DEF Init, IInv, TypeOK, SessionInv, WatchInv, CoverInv

LEMMA Invariance == Spec => []IInv
<1>. QED  BY InitIInv, NextIInv, PTL DEF Spec

------------------------------------------------------------------------------
(* The function of a watch is called once at most, which closing a channel *)
(* in it requires, and for a session that is gone only.                    *)
LEMMA IInvCalledOnce == IInv => CalledOnceForClosed
  BY DEF IInv, TypeOK, WatchInv, CalledOnceForClosed

THEOREM CalledOnceForClosedHolds == Spec => []CalledOnceForClosed
<1>. QED  BY IInvCalledOnce, Invariance, PTL

LEMMA IInvNothingMissed == IInv => NothingMissed
  BY DEF IInv, WatchInv, CoverInv, NothingMissed, Gone

(* No session goes away unnoticed between the look at m.sessions and the   *)
(* entry into m.watchers, or between the entry and the cancellation.       *)
THEOREM NothingMissedHolds == Spec => []NothingMissed
<1>. QED  BY IInvNothingMissed, Invariance, PTL

(* No save, login or watch brings a closed session back.                   *)
THEOREM ClosedIsFinalHolds == Spec => ClosedIsFinal
<1>1. TypeOK /\ [Next]_vars => [\A t \in Tokens : Gone(t) => sessions'[t] = None]_vars
  <2>. SUFFICES ASSUME TypeOK, Next, NEW t \in Tokens, Gone(t) PROVE sessions'[t] = None
    OBVIOUS
  <2>. USE DEF TypeOK, Gone
  <2>1. ASSUME NEW ts \in SUBSET Tokens, CloseTokens(ts) PROVE sessions'[t] = None
    BY <2>1 DEF CloseTokens
  <2>2. ASSUME NEW u \in Tokens, NEW rec \in Records,
               CreateSession(u, rec) \/ SaveSession(u, rec)
        PROVE  sessions'[t] = None
    BY <2>2 DEF CreateSession, SaveSession
  <2>3. ASSUME NEW w \in Watches, \/ Cancel(w) \/ Forget(w) \/ Notify(w)
                                  \/ \E u \in issued : NotifyClosed(w, u)
        PROVE  sessions'[t] = None
    BY <2>3 DEF Cancel, Forget, Notify, NotifyClosed
  <2>. QED  BY <2>1, <2>2, <2>3 DEF Next, CloseSession, CloseAllUserSessions
<1>. QED  BY <1>1, TypeCorrect, PTL DEF Spec, ClosedIsFinal

------------------------------------------------------------------------------
(* Every step of the manager is one of SessionManager or changes nothing   *)
(* that SessionManager speaks of.                                          *)
LEMMA StepRefines ==
    ASSUME IInv, [Next]_vars
    PROVE  [Abstract!Next]_(Abstract!vars)
<1>. USE NoneAssumption DEF IInv, TypeOK, SessionInv, Gone
<1>1. ASSUME NEW ts \in SUBSET Tokens, CloseTokens(ts) PROVE Abstract!Next
  <2>. PICK ks \in SUBSET Tokens : ks = ts \cap issued
    OBVIOUS
  <2>1. {t \in Tokens : sessions'[t] # None} = {t \in Tokens : sessions[t] # None} \ ks
    <3>1. \A t \in Tokens : sessions'[t] # None <=> sessions[t] # None /\ t \notin ks
      BY <1>1 DEF CloseTokens
    <3>. QED  BY <3>1
  <2>2. {t \in Tokens : Gone(t)'} = {t \in Tokens : Gone(t)} \cup ks
    BY <1>1 DEF CloseTokens
  <2>3. UNCHANGED <<watchOf, calls>>
    BY <1>1 DEF CloseTokens
  <2>4. Abstract!Close(ks)
    BY <2>1, <2>2, <2>3 DEF Abstract!Close
  <2>. QED  BY <2>4 DEF Abstract!Next
<1>2. ASSUME NEW t \in Tokens, NEW rec \in Records, CreateSession(t, rec)
      PROVE  Abstract!Next
  <2>1. Abstract!CreateSession(t)
    BY <1>2 DEF CreateSession, Abstract!CreateSession
  <2>. QED  BY <2>1 DEF Abstract!Next
<1>3. ASSUME NEW t \in Tokens, NEW rec \in Records, SaveSession(t, rec)
      PROVE  UNCHANGED Abstract!vars
  BY <1>3 DEF SaveSession, Abstract!vars
<1>4. ASSUME NEW w \in Watches, Cancel(w) \/ Forget(w) PROVE UNCHANGED Abstract!vars
  BY <1>4 DEF Cancel, Forget, Abstract!vars
<1>5. ASSUME NEW w \in Watches, Notify(w) PROVE [Abstract!Next]_(Abstract!vars)
  <2>1. CASE w \in ctxDone
    BY <1>5, <2>1 DEF Notify, Abstract!vars
  <2>2. CASE w \notin ctxDone
    <3>1. watchOf[w] \in Tokens /\ Gone(watchOf[w]) /\ calls[w] = 0
      BY <1>5 DEF Notify, WatchInv
    <3>2. Abstract!Notify(w)
      BY <1>5, <2>2, <3>1 DEF Notify, Abstract!Notify, Abstract!Tell
    <3>. QED  BY <3>2 DEF Abstract!Next
  <2>. QED  BY <2>1, <2>2
<1>6. ASSUME NEW w \in Watches, NEW t \in issued, NotifyClosed(w, t) PROVE Abstract!Next
  <2>1. t \in Tokens /\ calls[w] = 0
    BY <1>6 DEF NotifyClosed, WatchInv
  <2>2. Abstract!NotifyClosed(w, t)
    BY <1>6, <2>1 DEF NotifyClosed, Abstract!NotifyClosed, Abstract!Tell
  <2>. QED  BY <2>1, <2>2 DEF Abstract!Next
<1>7. CASE UNCHANGED vars
  BY <1>7 DEF vars, Abstract!vars
<1>. QED
  BY <1>1, <1>2, <1>3, <1>4, <1>5, <1>6, <1>7
     DEF Next, CloseSession, CloseAllUserSessions

(* What the server may rely on, this manager gives: a session ends at its  *)
(* first close, and is reported once at most to whoever asked.             *)
THEOREM ManagerImplemented == Spec => ImplementsManager
<1>1. Init => Abstract!Init
  BY DEF Init, Abstract!Init, Gone
<1>. QED
  BY <1>1, StepRefines, Invariance, PTL DEF Spec, ImplementsManager, Abstract!Spec
=============================================================================
