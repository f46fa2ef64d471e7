--------------------------- MODULE Parser_proofs ---------------------------
(***************************************************************************)
(* Proofs about what the parser accepts, for any declarations: what it     *)
(* calls an overlap is one, the switches of the generated server take each *)
(* event for itself, a stream is sent what concerns it and once, a page    *)
(* takes a method for each role from the least depth, which is where a     *)
(* call of it that compiles goes, the routes it accepts are registered     *)
(* without conflict, and a request reaches the page whose route matches it *)
(* best.                                                                   *)
(***************************************************************************)
EXTENDS Parser, FiniteSetTheorems, SequenceTheorems, TLAPS

------------------------------------------------------------------------------
(* Induction, as facts about sets of numbers: the provers instantiate no   *)
(* operator, as the library's induction theorems would need.  Strict       *)
(* inclusion is well-founded on finite sets, and so on the intervals 1..n. *)
LEMMA LeastNat ==
    ASSUME NEW T \in SUBSET Nat, T # {}
    PROVE  \E n \in T : \A m \in T : n <= m
<1> DEFINE R == StrictSubsetOrdering(Nat)
           U == {1..n : n \in T}
<1>1. IsWellFoundedOn(R, FiniteSubsetsOf(Nat))
  BY FS_StrictSubsetOrderingWellFounded
<1>2. U \subseteq FiniteSubsetsOf(Nat) /\ U # {}
  <2>1. \A n \in T : 1..n \subseteq Nat /\ IsFiniteSet(1..n)
    BY FS_Interval
  <2> QED BY <2>1 DEF FiniteSubsetsOf
<1>3. \E x \in U : \A y \in U : <<y, x>> \notin R
  <2> HIDE DEF R, U
  <2> QED BY <1>1, <1>2, WFMin
<1>4. PICK n \in T : \A y \in U : <<y, 1..n>> \notin R
  BY <1>3
<1>5. ASSUME NEW m \in T, m < n PROVE FALSE
  <2>1. 1..m \in U /\ 1..m \subseteq 1..n /\ n \in 1..n /\ n \notin 1..m
    BY <1>5
  <2>2. 1..m \in SUBSET Nat /\ 1..n \in SUBSET Nat /\ 1..m # 1..n
    BY <2>1
  <2>3. <<1..m, 1..n>> \in R
    BY <2>1, <2>2 DEF StrictSubsetOrdering
  <2> QED BY <1>4, <2>1, <2>3
<1> QED BY <1>5

LEMMA SetInduction ==
    ASSUME NEW T \in SUBSET Nat, 0 \in T, \A n \in T : n + 1 \in T
    PROVE  T = Nat
<1>1. SUFFICES ASSUME Nat \ T # {} PROVE FALSE
  OBVIOUS
<1>2. PICK n \in Nat \ T : \A m \in Nat \ T : n <= m
  BY <1>1, LeastNat
<1>3. n # 0 /\ n - 1 \in Nat /\ ~(n <= n - 1)
  BY <1>2
<1>4. n - 1 \in T
  BY <1>2, <1>3
<1> QED BY <1>2, <1>4

------------------------------------------------------------------------------
(* A pattern without ">" matches what has as many tokens, its own where it *)
(* has no "*".                                                             *)
Agrees(p, t, i) == p[i] = AnyToken \/ p[i] = t[i]

LEMMA MatchesExactly ==
    ASSUME NEW S, NEW p \in Seq(S), NEW t \in Seq(S),
           \A i \in DOMAIN p : p[i] # AnySuffix
    PROVE  Matches(p, t) <=> Len(p) = Len(t) /\ \A i \in DOMAIN p : Agrees(p, t, i)
<1> USE DEF Agrees
<1>1. CASE ~IsPattern(p)
  <2>1. \A i \in DOMAIN p : p[i] # AnyToken
    BY <1>1 DEF IsPattern
  <2>2. p = t <=> Len(p) = Len(t) /\ \A i \in 1..Len(p) : p[i] = t[i]
    BY SeqEqual
  <2> QED
    BY <1>1, <2>1, <2>2 DEF Matches
<1>2. CASE IsPattern(p)
  <2> DEFINE step(g, i) ==
               CASE p[i] = AnySuffix -> t[i] # ""
                 [] p[i] \notin {AnyToken, AnySuffix, t[i]} -> FALSE
                 [] OTHER -> IF i = Len(p) \/ i = Len(t) THEN Len(p) = Len(t) ELSE g[i + 1]
             agree[i \in 1..Len(p)] ==
               CASE p[i] = AnySuffix -> t[i] # ""
                 [] p[i] \notin {AnyToken, AnySuffix, t[i]} -> FALSE
                 [] OTHER -> IF i = Len(p) \/ i = Len(t) THEN Len(p) = Len(t) ELSE agree[i + 1]
             R(i) == Len(p) = Len(t) /\ \A j \in i..Len(p) : Agrees(p, t, j)
             rest == [i \in 1..Len(p) |-> R(i)]
             unfold(i, next) ==
               IF p[i] \notin {AnyToken, t[i]} THEN FALSE
               ELSE IF i = Len(p) \/ i = Len(t) THEN Len(p) = Len(t) ELSE next
  <2>1. Len(p) \in Nat \ {0} /\ Len(t) \in Nat /\ DOMAIN p = 1..Len(p)
    BY <1>2 DEF IsPattern
  <2> HIDE DEF step, agree, R, rest, unfold
  <2>2. ASSUME NEW g, NEW i \in 1..Len(p) PROVE step(g, i) = unfold(i, g[i + 1])
    BY <2>1 DEF AnyToken, AnySuffix, step, unfold
  <2>3. ASSUME NEW i \in 1..Len(p) PROVE R(i) = unfold(i, R(i + 1))
    <3>1. \A j \in Int : j \in i..Len(p) <=> j = i \/ j \in (i + 1)..Len(p)
      BY <2>1
    <3>2. R(i) <=> Agrees(p, t, i) /\ R(i + 1)
      <4>1. \A j \in i..Len(p) : j \in Int
        BY <2>1
      <4>2. \A j \in (i + 1)..Len(p) : j \in Int
        BY <2>1
      <4> QED
        BY <3>1, <4>1, <4>2 DEF R
    <3>3. i = Len(p) => R(i + 1) = (Len(p) = Len(t))
      BY <2>1 DEF R
    <3>4. i # Len(p) /\ i = Len(t) => ~R(i + 1) /\ Len(p) # Len(t)
      BY DEF R
    <3>5. R(i) \in BOOLEAN /\ R(i + 1) \in BOOLEAN
      BY DEF R
    <3> QED
      BY <3>2, <3>3, <3>4, <3>5 DEF unfold, Agrees
  <2>4. ASSUME NEW i \in 1..Len(p) PROVE i + 1 \in 1..Len(p) \/ i = Len(p)
    <3> DEFINE n == Len(p)
    <3>1. n \in Nat
      BY <2>1
    <3> HIDE DEF n
    <3>2. i \in 1..n => i + 1 \in 1..n \/ i = n
      BY <3>1
    <3> QED
      BY <3>2 DEF n
  <2>5. ASSUME NEW i \in 1..Len(p) PROVE R(i) = step(rest, i)
    <3>1. CASE i = Len(p)
      <4>1. unfold(i, R(i + 1)) = unfold(i, rest[i + 1])
        BY <3>1 DEF unfold
      <4> QED
        BY <2>2, <2>3, <4>1
    <3>2. CASE i # Len(p)
      <4>1. rest[i + 1] = R(i + 1)
        BY <2>4, <3>2 DEF rest
      <4> QED
        BY <2>2, <2>3, <4>1
    <3> QED
      BY <3>1, <3>2
  <2>6. agree = [i \in 1..Len(p) |-> step(agree, i)]
    <3>1. agree = CHOOSE g : g = [i \in 1..Len(p) |-> step(g, i)]
      BY DEF agree, step
    <3>2. rest = [i \in 1..Len(p) |-> step(rest, i)]
      BY <2>5 DEF rest
    <3> QED
      BY <3>1, <3>2
  <2>7. \A i \in 1..Len(p) : agree[i] = R(i)
    <3>1. ASSUME NEW i \in 1..Len(p) PROVE agree[i] = unfold(i, agree[i + 1])
      <4>1. agree[i] = step(agree, i)
        BY <2>6
      <4> QED
        BY <2>2, <4>1
    <3> DEFINE differ == {k \in 0..(Len(p) - 1) : agree[Len(p) - k] # R(Len(p) - k)}
    <3>2. ASSUME NEW i \in 1..Len(p), agree[i] # R(i) PROVE Len(p) - i \in differ
      <4>1. Len(p) - i \in 0..(Len(p) - 1) /\ Len(p) - (Len(p) - i) = i
        BY <2>1
      <4> QED
        BY <3>2, <4>1
    <3>3. SUFFICES ASSUME differ # {} PROVE FALSE
      BY <3>2
    <3>4. differ \in SUBSET Nat
      BY <2>1
    <3>5. PICK k \in differ : \A l \in differ : k <= l
      <4> HIDE DEF differ
      <4> QED
        BY <3>3, <3>4, LeastNat
    <3> DEFINE i == Len(p) - k
    <3>6. k \in Nat /\ i \in 1..Len(p) /\ agree[i] # R(i) /\ i + 1 = Len(p) - (k - 1)
      BY <2>1
    <3>7. i # Len(p) /\ agree[i + 1] # R(i + 1)
      <4>1. agree[i] = unfold(i, agree[i + 1]) /\ R(i) = unfold(i, R(i + 1))
        BY <2>3, <3>1, <3>6
      <4>2. agree[i + 1] # R(i + 1)
        BY <3>6, <4>1
      <4>3. i = Len(p) => unfold(i, agree[i + 1]) = unfold(i, R(i + 1))
        BY DEF unfold
      <4> QED
        BY <3>6, <4>1, <4>2, <4>3
    <3>8. i + 1 \in 1..Len(p) /\ Len(p) - (i + 1) = k - 1 /\ ~(k <= k - 1)
      <4> DEFINE n == Len(p)
      <4> HIDE DEF differ
      <4>1. n \in Nat /\ k \in Nat
        BY <2>1, <3>6
      <4>2. i + 1 \in 1..n
        BY <2>4, <3>6, <3>7
      <4> HIDE DEF n
      <4>3. n - (n - k + 1) = k - 1 /\ ~(k <= k - 1)
        BY <4>1
      <4> QED
        BY <4>2, <4>3 DEF n
    <3> HIDE DEF differ
    <3>9. k - 1 \in differ
      BY <3>2, <3>7, <3>8
    <3> QED
      BY <3>5, <3>8, <3>9
  <2>8. Matches(p, t) = agree[1]
    BY <1>2 DEF Matches, agree
  <2>9. agree[1] = R(1)
    <3> QED
      BY <2>1, <2>7
  <2> QED
    BY <2>1, <2>8, <2>9 DEF R
<1> QED
  BY <1>1, <1>2

------------------------------------------------------------------------------

(* Prefixes of one sequence are prefixes of each other.                    *)
LEMMA PrefixOfPrefix ==
    ASSUME NEW S, NEW t \in Seq(S), NEW s \in Seq(S), NEW u \in Seq(S),
           AtOrBelow(t, s), AtOrBelow(t, u), Len(s) <= Len(u)
    PROVE  AtOrBelow(u, s)
<1>1. \A i \in 1..Len(s) : s[i] = t[i]
  BY DEF AtOrBelow
<1>2. \A i \in 1..Len(u) : u[i] = t[i]
  BY DEF AtOrBelow
<1>3. SubSeq(u, 1, Len(s)) \in Seq(S) /\ Len(SubSeq(u, 1, Len(s))) = Len(s)
  OBVIOUS
<1>4. \A i \in 1..Len(s) : SubSeq(u, 1, Len(s))[i] = s[i]
  BY <1>1, <1>2
<1>5. SubSeq(u, 1, Len(s)) = s
  BY <1>3, <1>4, SeqEqual
<1> QED
  BY <1>5 DEF AtOrBelow

LEMMA BelowIsAtOrBelow ==
    ASSUME NEW S, NEW t \in Seq(S), NEW s \in Seq(S), Below(t, s)
    PROVE  AtOrBelow(t, s)
BY DEF Below, AtOrBelow

LEMMA FunctionIsSeq ==
    ASSUME NEW S, NEW V \in SUBSET S, NEW n \in Nat, NEW v \in [1..n -> V]
    PROVE  v \in Seq(S)
<1>1. v \in [1..n -> S]
  OBVIOUS
<1> QED
  BY <1>1, SeqDef

LEMMA ConcatIsBelow ==
    ASSUME NEW S, NEW s \in Seq(S), NEW v \in Seq(S), Len(v) > 0
    PROVE  s \o v \in Seq(S) /\ Below(s \o v, s)
<1>1. s \o v \in Seq(S) /\ Len(s \o v) = Len(s) + Len(v)
  OBVIOUS
<1>2. \A k \in 1..Len(s) : SubSeq(s \o v, 1, Len(s))[k] = s[k]
  BY <1>1
<1>3. SubSeq(s \o v, 1, Len(s)) = s
  BY <1>1, <1>2, SeqEqual
<1> QED
  BY <1>1, <1>3 DEF Below

LEMMA SomethingIsBelow ==
    ASSUME NEW S, S # {}, NEW s \in Seq(S)
    PROVE  \E u \in Seq(S) : Below(u, s)
<1>1. PICK x : x \in S
  OBVIOUS
<1>2. <<x>> \in Seq(S) /\ Len(<<x>>) > 0
  BY <1>1
<1> QED
  BY <1>2, ConcatIsBelow

LEMMA BelowTransitive ==
    ASSUME NEW S, NEW t \in Seq(S), NEW u \in Seq(S), NEW s \in Seq(S),
           Below(t, u), AtOrBelow(u, s)
    PROVE  Below(t, s)
<1>1. Len(t) > Len(s)
  BY DEF Below, AtOrBelow
<1>2. \A i \in 1..Len(s) : t[i] = s[i]
  BY DEF Below, AtOrBelow
<1>3. SubSeq(t, 1, Len(s)) = s
  BY <1>1, <1>2, SeqEqual
<1> QED
  BY <1>1, <1>3 DEF Below

(* The parser refuses an event for an overlap exactly if some subject is   *)
(* occupied by it and by another: the test of prefixes in Claim.Overlaps   *)
(* neither misses a collision nor refuses subjects that cannot collide.    *)
THEOREM OverlapsExactly ==
    ASSUME NEW e \in EventType, NEW f \in EventType, e.subject # f.subject
    PROVE  Overlaps(e, f) <=>
             \E t \in Seq(STRING) : Occupies(e, t) /\ Occupies(f, t)
<1> USE DEF EventType
<1>1. ASSUME Overlaps(e, f)
      PROVE  \E t \in Seq(STRING) : Occupies(e, t) /\ Occupies(f, t)
  <2>0. e.subject \in Seq(STRING) /\ f.subject \in Seq(STRING) /\ STRING # {}
    OBVIOUS
  <2>1. CASE HasFields(e) /\ HasFields(f) /\ AtOrBelow(e.subject, f.subject)
    <3>1. PICK u \in Seq(STRING) : Below(u, e.subject)
      BY <2>0, SomethingIsBelow
    <3>2. Below(u, f.subject)
      BY <2>0, <2>1, <3>1, BelowTransitive
    <3> QED
      BY <2>1, <3>1, <3>2 DEF Occupies
  <2>2. CASE HasFields(e) /\ HasFields(f) /\ AtOrBelow(f.subject, e.subject)
    <3>1. PICK u \in Seq(STRING) : Below(u, f.subject)
      BY <2>0, SomethingIsBelow
    <3>2. Below(u, e.subject)
      BY <2>0, <2>2, <3>1, BelowTransitive
    <3> QED
      BY <2>2, <3>1, <3>2 DEF Occupies
  <2>3. CASE HasFields(e) /\ ~HasFields(f) /\ Below(f.subject, e.subject)
    BY <2>3 DEF Occupies
  <2>4. CASE ~HasFields(e) /\ HasFields(f) /\ Below(e.subject, f.subject)
    BY <2>4 DEF Occupies
  <2> QED
    BY <1>1, <2>1, <2>2, <2>3, <2>4 DEF Overlaps
<1>2. ASSUME NEW t \in Seq(STRING), Occupies(e, t), Occupies(f, t)
      PROVE  Overlaps(e, f)
  <2>1. CASE HasFields(e) /\ HasFields(f)
    <3>1. AtOrBelow(t, e.subject) /\ AtOrBelow(t, f.subject)
      BY <1>2, <2>1, BelowIsAtOrBelow DEF Occupies
    <3>2. CASE Len(e.subject) <= Len(f.subject)
      BY <2>1, <3>1, <3>2, PrefixOfPrefix DEF Overlaps
    <3>3. CASE Len(f.subject) <= Len(e.subject)
      BY <2>1, <3>1, <3>3, PrefixOfPrefix DEF Overlaps
    <3> QED
      BY <3>2, <3>3
  <2>2. CASE ~(HasFields(e) /\ HasFields(f))
    BY <1>2, <2>2 DEF Occupies, Overlaps
  <2> QED
    BY <2>1, <2>2
<1> QED
  BY <1>1, <1>2

LEMMA OverlapsSymmetric ==
    ASSUME NEW e, NEW f
    PROVE  Overlaps(e, f) <=> Overlaps(f, e)
BY DEF Overlaps

LEMMA NoFieldsNoWildcards ==
    ASSUME NEW e \in EventType, ~HasFields(e)
    PROVE  EvSubj(e) = e.subject
<1>1. e.fields = <<>> /\ DOMAIN e.fields = {}
  BY DEF HasFields
<1>2. [i \in DOMAIN e.fields |-> AnyToken] = <<>>
  BY <1>1, EmptySeq
<1>3. e.subject \o <<>> = e.subject
  BY ConcatEmptySeq DEF EventType
<1> QED
  BY <1>2, <1>3 DEF EvSubj

(* The case of an event tests for the subjects the event occupies.         *)
LEMMA TestsOccupied ==
    ASSUME NEW e \in EventType, NEW t, Tests(e, t)
    PROVE  Occupies(e, t)
<1>1. CASE HasFields(e)
  BY <1>1 DEF Tests, Occupies
<1>2. CASE ~HasFields(e)
  BY <1>2, NoFieldsNoWildcards DEF Tests, Occupies
<1> QED
  BY <1>1, <1>2

------------------------------------------------------------------------------
(* Accepted events are apart.                                              *)
Apart == \A i, j \in DOMAIN events : i # j =>
            /\ events[i].subject # events[j].subject
            /\ ~Overlaps(events[i], events[j])

EventsInv ==
    /\ events \in Seq(EventType)
    /\ phase = "events" => unread \in Seq(EventType)
    /\ Apart

LEMMA InitEvents == Init => EventsInv
BY ApplicationsAssumption DEF Init, EventsInv, Apart

LEMMA ClaimKeepsEvents ==
    ASSUME EventsInv, ClaimEvent
    PROVE  EventsInv'
<1> DEFINE e == Head(unread)
<1>1. /\ phase = "events" /\ unread \in Seq(EventType) /\ unread # <<>>
      /\ phase' = phase /\ unread' = Tail(unread)
      /\ events \in Seq(EventType)
  BY DEF EventsInv, ClaimEvent
<1>2. e \in EventType /\ unread' \in Seq(EventType)
  BY <1>1
<1>3. CASE events' = events
  BY <1>1, <1>2, <1>3 DEF EventsInv, Apart
<1>4. CASE /\ events' = Append(events, e)
           /\ \A i \in DOMAIN events : /\ events[i].subject # e.subject
                                      /\ ~Overlaps(e, events[i])
  <2>1. events' \in Seq(EventType)
    BY <1>1, <1>2, <1>4
  <2>2. /\ DOMAIN events' = 1..(Len(events) + 1)
        /\ events'[Len(events) + 1] = e
        /\ \A i \in 1..Len(events) : events'[i] = events[i]
        /\ DOMAIN events = 1..Len(events)
    BY <1>1, <1>2, <1>4
  <2>3. Apart'
    <3>1. SUFFICES ASSUME NEW i \in DOMAIN events', NEW j \in DOMAIN events', i # j
                   PROVE  /\ events'[i].subject # events'[j].subject
                          /\ ~Overlaps(events'[i], events'[j])
      BY DEF Apart
    <3>2. CASE i \in DOMAIN events /\ j \in DOMAIN events
      BY <2>2, <3>1, <3>2 DEF EventsInv, Apart
    <3>3. CASE i \in DOMAIN events /\ j = Len(events) + 1
      BY <1>4, <2>2, <3>3, OverlapsSymmetric
    <3>4. CASE j \in DOMAIN events /\ i = Len(events) + 1
      BY <1>4, <2>2, <3>4
    <3> QED
      BY <2>2, <3>1, <3>2, <3>3, <3>4
  <2> QED
    BY <1>1, <1>2, <2>1, <2>3 DEF EventsInv
<1> QED
  BY <1>3, <1>4 DEF ClaimEvent

(* No two accepted events overlap.                                         *)
THEOREM EventsInvariance == Spec => []EventsInv
<1>1. EventsInv /\ [Next]_vars => EventsInv'
  <2> SUFFICES ASSUME EventsInv, [Next]_vars PROVE EventsInv'
    OBVIOUS
  <2>1. CASE ClaimEvent
    BY <2>1, ClaimKeepsEvents
  <2>2. CASE UNCHANGED vars
    BY <2>2 DEF EventsInv, Apart, vars
  <2>3. CASE events' = events /\ phase' # "events"
    BY <2>3 DEF EventsInv, Apart
  <2>4. AttachMethods \/ FlattenNext \/ FlattenDone \/ RequireHandlers
          \/ ClaimRoute \/ ParseReturns \/ SetupHandlers
        => events' = events /\ phase' # "events"
    BY DEF AttachMethods, FlattenNext, FlattenDone, RequireHandlers, ClaimRoute,
           ParseReturns, SetupHandlers
  <2> QED
    BY <2>1, <2>2, <2>3, <2>4 DEF Next
<1> QED
  BY <1>1, InitEvents, PTL DEF Spec

------------------------------------------------------------------------------
(* A dispatched message is published to a subject its event occupies.      *)
LEMMA DispatchOccupies ==
    ASSUME EventsInv, NEW d \in Dispatches
    PROVE  /\ d[1] \in Handled(events) /\ d[1] \in EventType
           /\ d[2] \in Seq(STRING) /\ Len(d[2]) = Len(d[1].fields)
           /\ \A i \in DOMAIN d[2] : IsToken(d[2][i])
           /\ SubjectOf(d[1], d[2]) \in Seq(STRING)
           /\ Tests(d[1], SubjectOf(d[1], d[2]))
<1> DEFINE e == d[1]
           values == d[2]
           subject == SubjectOf(e, values)
<1>1. events \in Seq(EventType)
  BY DEF EventsInv
<1>2. /\ e \in Handled(events)
      /\ MayDispatch(e, values)
      /\ \E n \in 0..MaxFields : values \in [1..n -> Values]
  BY DEF Dispatches
<1>3. e \in EventType
  BY <1>1, <1>2 DEF Handled
<1>4. values \in Seq(STRING)
  <2>1. PICK n \in 0..MaxFields : values \in [1..n -> Values]
    BY <1>2
  <2>2. n \in Nat /\ Values \in SUBSET STRING
    BY <2>1, ApplicationsAssumption
  <2> HIDE DEF values
  <2> QED
    BY <2>1, <2>2, FunctionIsSeq
<1>5. Tests(e, subject)
  <2>1. CASE HasFields(e)
    <3>1. Len(values) > 0
      BY <1>2, <1>3, <2>1 DEF HasFields, MayDispatch, EventType
    <3>2. e.subject \in Seq(STRING)
      BY <1>3 DEF EventType
    <3>3. Below(e.subject \o values, e.subject)
      BY <1>4, <3>1, <3>2, ConcatIsBelow
    <3> QED
      BY <2>1, <3>3 DEF Tests, SubjectOf
  <2>2. CASE ~HasFields(e)
    <3>1. values = <<>>
      BY <1>2, <1>4, <2>2 DEF HasFields, MayDispatch, EventType
    <3>2. e.subject \o <<>> = e.subject
      BY <1>3, ConcatEmptySeq DEF EventType
    <3> QED
      BY <1>3, <2>2, <3>1, <3>2, NoFieldsNoWildcards DEF Tests, SubjectOf
  <2> QED
    BY <2>1, <2>2
<1>6. subject \in Seq(STRING)
  BY <1>3, <1>4 DEF SubjectOf, EventType
<1> QED
  BY <1>2, <1>3, <1>4, <1>5, <1>6 DEF MayDispatch

(* No subject is occupied by two accepted events.                          *)
LEMMA OnlyOneOccupies ==
    ASSUME EventsInv, NEW e \in Handled(events), NEW f \in Handled(events),
           NEW t \in Seq(STRING), Occupies(e, t), Occupies(f, t)
    PROVE  e = f
<1>1. PICK i \in DOMAIN events, j \in DOMAIN events : events[i] = e /\ events[j] = f
  BY DEF Handled
<1>2. e \in EventType /\ f \in EventType
  BY <1>1 DEF EventsInv
<1>3. e.subject = f.subject \/ Overlaps(e, f)
  BY <1>2, OverlapsExactly
<1> QED
  BY <1>1, <1>3 DEF EventsInv, Apart

(* If all cases that apply are of one event, the first is.                 *)
LEMMA FirstOfOne ==
    ASSUME NEW H \in Seq(EventType), NEW cases \in SUBSET DOMAIN H, cases # {},
           NEW e, \A i \in cases : H[i] = e
    PROVE  First(H, cases) = e
<1>1. cases \in SUBSET Nat
  OBVIOUS
<1>2. \E i \in cases : \A j \in cases : i <= j
  BY <1>1, LeastNat
<1> QED
  BY <1>2 DEF First

(* Each event is taken for itself by the switch over all events.           *)
THEOREM CountedAsDispatchedHolds == Spec => []CountedAsDispatched
<1>1. ASSUME EventsInv, NEW d \in Dispatches
      PROVE  FirstCase(events, SubjectOf(d[1], d[2])) = d[1]
  <2> DEFINE subject == SubjectOf(d[1], d[2])
  <2>1. /\ d[1] \in Handled(events) /\ d[1] \in EventType /\ subject \in Seq(STRING)
        /\ Tests(d[1], subject) /\ events \in Seq(EventType)
    BY <1>1, DispatchOccupies DEF EventsInv
  <2> HIDE DEF subject
  <2>2. \A i \in Cases(events, subject) :
           events[i] \in Handled(events) /\ events[i] \in EventType /\ Tests(events[i], subject)
    BY <2>1 DEF Cases, Handled
  <2>3. \A i \in Cases(events, subject) : events[i] = d[1]
    BY <1>1, <2>1, <2>2, TestsOccupied, OnlyOneOccupies
  <2>4. Cases(events, subject) # {} /\ Cases(events, subject) \in SUBSET DOMAIN events
    BY <2>1 DEF Cases, Handled
  <2> QED
    BY <2>1, <2>3, <2>4, FirstOfOne DEF FirstCase, subject
<1>2. EventsInv => CountedAsDispatched
  BY <1>1 DEF CountedAsDispatched
<1> QED
  BY <1>2, EventsInvariance, PTL
------------------------------------------------------------------------------
(* What follows is of applications that declare the subjects of events     *)
(* without wildcards, which the parser does not demand.                    *)
NoWildcards(e) == \A i \in DOMAIN e.subject : e.subject[i] \notin {AnyToken, AnySuffix}

(* A field for the user at most, and then none for a signal.               *)
OneAddressee(e) ==
    /\ \A i, j \in DOMAIN e.fields : e.fields[i] = User /\ e.fields[j] = User => i = j
    /\ ~(IsPrivate(e) /\ IsSignalScoped(e))

Declared == UNION {Handled(a.events) : a \in Applications}

SubjectsPlain    == \A e \in Declared : NoWildcards(e)
AddressedOnce    == \A e \in Declared : OneAddressee(e)

DeclaredInv ==
    /\ app \in Applications
    /\ Handled(events) \subseteq Declared
    /\ phase = "events" => unread \in Seq(EventType) /\ Handled(unread) \subseteq Declared

LEMMA DeclaredInvariance == Spec => []DeclaredInv
<1>1. Init => DeclaredInv
  BY ApplicationsAssumption DEF Init, DeclaredInv, Declared, Handled
<1>2. DeclaredInv /\ EventsInv /\ [Next]_vars => DeclaredInv'
  <2> SUFFICES ASSUME DeclaredInv, EventsInv, [Next]_vars PROVE DeclaredInv'
    OBVIOUS
  <2>1. CASE ClaimEvent
    <3>1. /\ unread \in Seq(EventType) /\ unread # <<>> /\ events \in Seq(EventType)
          /\ unread' = Tail(unread) /\ app' = app /\ phase = "events"
          /\ events' = events \/ events' = Append(events, Head(unread))
      BY <2>1 DEF ClaimEvent, DeclaredInv, EventsInv
    <3>2. /\ Head(unread) \in Handled(unread)
          /\ Handled(Tail(unread)) \subseteq Handled(unread)
          /\ Tail(unread) \in Seq(EventType)
      BY <3>1 DEF Handled
    <3>3. Handled(Append(events, Head(unread))) \subseteq Handled(events) \cup {Head(unread)}
      BY <3>1, <3>2 DEF Handled
    <3>4. Handled(unread) \subseteq Declared
      BY <3>1 DEF DeclaredInv
    <3>5. Handled(events') \subseteq Declared
      <4>1. CASE events' = events
        BY <4>1 DEF DeclaredInv
      <4>2. CASE events' = Append(events, Head(unread))
        BY <3>2, <3>3, <3>4, <4>2 DEF DeclaredInv
      <4> QED
        BY <3>1, <4>1, <4>2
    <3> QED
      BY <3>1, <3>2, <3>4, <3>5 DEF DeclaredInv
  <2>2. CASE UNCHANGED vars
    BY <2>2 DEF DeclaredInv, vars
  <2>3. CASE events' = events /\ app' = app /\ phase' # "events"
    BY <2>3 DEF DeclaredInv
  <2>4. AttachMethods \/ FlattenNext \/ FlattenDone \/ RequireHandlers
          \/ ClaimRoute \/ ParseReturns \/ SetupHandlers
        => events' = events /\ app' = app /\ phase' # "events"
    BY DEF AttachMethods, FlattenNext, FlattenDone, RequireHandlers, ClaimRoute,
           ParseReturns, SetupHandlers
  <2> QED
    BY <2>1, <2>2, <2>3, <2>4 DEF Next
<1> QED
  BY <1>1, <1>2, EventsInvariance, PTL DEF Spec

------------------------------------------------------------------------------
(* A pattern of an event: its subject, and a token or "*" for each field.  *)
(* Of a string that is written out the provers do not know that it is one. *)
Text == STRING \cup {AnyToken, Guest}

Fillings(e) == [DOMAIN e.fields -> Text \ {AnySuffix}]

LEMMA SeqOfLarger ==
    ASSUME NEW S, NEW V \in SUBSET S, NEW s \in Seq(V)
    PROVE  s \in Seq(S)
<1>1. Len(s) \in Nat /\ s \in [1..Len(s) -> V]
  OBVIOUS
<1> QED
  BY <1>1, FunctionIsSeq

LEMMA ConcatParts ==
    ASSUME NEW S, NEW s \in Seq(S), NEW v \in Seq(S)
    PROVE  /\ Len(s \o v) = Len(s) + Len(v)
           /\ \A i \in DOMAIN s : (s \o v)[i] = s[i]
           /\ \A i \in DOMAIN v : (s \o v)[Len(s) + i] = v[i]
OBVIOUS

LEMMA SamePrefix ==
    ASSUME NEW S, NEW s \in Seq(S), NEW t \in Seq(S), Len(t) >= Len(s),
           \A i \in DOMAIN s : t[i] = s[i]
    PROVE  SubSeq(t, 1, Len(s)) = s
<1>1. SubSeq(t, 1, Len(s)) \in Seq(S) /\ Len(SubSeq(t, 1, Len(s))) = Len(s)
  OBVIOUS
<1>2. \A i \in 1..Len(s) : SubSeq(t, 1, Len(s))[i] = s[i]
  OBVIOUS
<1> QED
  BY <1>1, <1>2, SeqEqual

(* Such a pattern matches the subject and a value for each field, the same *)
(* where the pattern has no "*".                                           *)
LEMMA FieldsMatch ==
    ASSUME NEW e \in EventType, NoWildcards(e), NEW w \in Fillings(e),
           NEW t \in Seq(STRING)
    PROVE  /\ e.subject \o w \in Seq(Text)
           /\ Matches(e.subject \o w, t) <=>
                /\ Len(t) = Len(e.subject) + Len(e.fields)
                /\ \A i \in DOMAIN e.subject : t[i] = e.subject[i]
                /\ \A i \in DOMAIN e.fields :
                      w[i] = AnyToken \/ w[i] = t[Len(e.subject) + i]
<1> DEFINE s == e.subject
           p == s \o w
           m == Len(e.subject)
           n == Len(e.fields)
<1>1. /\ m \in Nat /\ n \in Nat /\ m = Len(s)
      /\ DOMAIN s = 1..m /\ DOMAIN e.fields = 1..n
      /\ s \in Seq(Text) /\ t \in Seq(Text)
  BY SeqOfLarger DEF EventType, Text
<1>2. w \in [1..n -> Text] /\ \A i \in 1..n : w[i] # AnySuffix
  BY <1>1 DEF Fillings
<1>3. w \in Seq(Text) /\ Len(w) = n
  <2> HIDE DEF n, m
  <2>1. w \in Seq(Text)
    BY <1>1, <1>2, FunctionIsSeq
  <2>2. DOMAIN w = 1..n
    BY <1>2
  <2> QED
    BY <1>1, <2>1, <2>2
<1> HIDE DEF s, m, n
<1>4. p \in Seq(Text) /\ Len(p) = m + n
  BY <1>1, <1>3
<1>5. \A i \in 1..m : p[i] = s[i]
  BY <1>1, <1>3
<1>6. \A i \in 1..n : p[m + i] = w[i]
  BY <1>1, <1>3
<1> HIDE DEF p
<1>7. \A k \in 1..(m + n) : k \in 1..m \/ \E i \in 1..n : k = m + i
  <2>1. \A k \in 1..(m + n) : k \in 1..m \/ (k - m \in 1..n /\ k = m + (k - m))
    BY <1>1
  <2> QED
    BY <2>1
<1>8. (\A i \in 1..m : i \in 1..(m + n)) /\ (\A i \in 1..n : m + i \in 1..(m + n))
  BY <1>1
<1>9. \A i \in 1..m : s[i] \notin {AnyToken, AnySuffix}
  BY <1>1 DEF NoWildcards, s
<1>10. DOMAIN p = 1..(m + n)
  BY <1>1, <1>4
<1>11. \A k \in DOMAIN p : p[k] # AnySuffix
  BY <1>2, <1>5, <1>6, <1>7, <1>9, <1>10
<1>12. Matches(p, t) <=> Len(p) = Len(t) /\ \A k \in DOMAIN p : Agrees(p, t, k)
  BY <1>1, <1>4, <1>11, MatchesExactly
<1>13. (\A k \in DOMAIN p : Agrees(p, t, k)) <=>
          /\ \A i \in 1..m : t[i] = s[i]
          /\ \A i \in 1..n : w[i] = AnyToken \/ w[i] = t[m + i]
  <2>1. \A i \in 1..m : Agrees(p, t, i) <=> t[i] = s[i]
    BY <1>5, <1>9 DEF Agrees
  <2>2. \A i \in 1..n : Agrees(p, t, m + i) <=> (w[i] = AnyToken \/ w[i] = t[m + i])
    BY <1>6 DEF Agrees
  <2> QED
    BY <1>7, <1>8, <1>10, <2>1, <2>2
<1> QED
  BY <1>1, <1>4, <1>12, <1>13 DEF s, m, n, p

LEMMA MatchedIsOccupied ==
    ASSUME NEW e \in EventType, NoWildcards(e), NEW w \in Fillings(e),
           NEW t \in Seq(STRING), Matches(e.subject \o w, t)
    PROVE  Occupies(e, t)
<1>1. /\ Len(t) = Len(e.subject) + Len(e.fields)
      /\ \A i \in DOMAIN e.subject : t[i] = e.subject[i]
  BY FieldsMatch
<1>2. e.subject \in Seq(STRING) /\ e.fields \in Seq(STRING)
  BY DEF EventType
<1> DEFINE s == e.subject
           f == e.fields
<1>3. s \in Seq(STRING) /\ f \in Seq(STRING) /\ Len(t) = Len(s) + Len(f)
  BY <1>1, <1>2
<1>4. \A i \in DOMAIN s : t[i] = s[i]
  BY <1>1
<1>5. HasFields(e) <=> f # <<>>
  BY DEF HasFields
<1>6. (Below(t, s) /\ f # <<>>) \/ (t = s /\ f = <<>>)
  <2> HIDE DEF s, f
  <2>1. CASE f # <<>>
    <3>1. Len(t) > Len(s)
      BY <1>3, <2>1
    <3>2. SubSeq(t, 1, Len(s)) = s
      BY <1>3, <1>4, <3>1, SamePrefix
    <3> QED
      BY <2>1, <3>1, <3>2 DEF Below
  <2>2. CASE f = <<>>
    <3>1. Len(t) = Len(s)
      BY <1>3, <2>2
    <3> QED
      BY <1>3, <1>4, <2>2, <3>1, SeqEqual
  <2> QED
    BY <2>1, <2>2
<1> QED
  BY <1>5, <1>6 DEF Occupies

------------------------------------------------------------------------------
(* The streams a page could have.                                          *)
LEMMA StreamFacts ==
    ASSUME EventsInv, NEW s \in Streams
    PROVE  /\ s.handlers \in Seq(EventType)
           /\ Handled(s.handlers) \subseteq Handled(events)
           /\ s.user \in Text \ {AnyToken, AnySuffix}
           /\ \A f \in Signals : s.signals[f] \in STRING /\ IsToken(s.signals[f])
<1>1. /\ s.handlers \in {[i \in DOMAIN p |-> events[p[i]]] : p \in InjectiveSeqs(DOMAIN events)}
      /\ s.user \in {u \in Values : IsToken(u)} \cup {Guest}
      /\ s.signals \in [Signals -> {v \in Values : IsToken(v)}]
  BY DEF Streams
<1>2. PICK p \in InjectiveSeqs(DOMAIN events) : s.handlers = [i \in DOMAIN p |-> events[p[i]]]
  BY <1>1
<1>3. PICK n \in Nat : p \in [1..n -> DOMAIN events]
  <2>1. PICK n \in 0..Cardinality(DOMAIN events) : p \in [1..n -> DOMAIN events]
    BY <1>2 DEF InjectiveSeqs
  <2>2. n \in Nat
    BY <2>1, FS_CardinalityType
  <2> QED
    BY <2>1, <2>2
<1>4. events \in Seq(EventType)
  BY DEF EventsInv
<1>5. s.handlers \in [1..n -> EventType]
  BY <1>2, <1>3, <1>4
<1>6. s.handlers \in Seq(EventType)
  BY <1>5, SeqDef
<1>7. Handled(s.handlers) \subseteq Handled(events)
  BY <1>2, <1>3, <1>4 DEF Handled
<1>8. s.user \in Text \ {AnyToken, AnySuffix}
  <2>1. Guest # AnyToken /\ Guest # AnySuffix
    BY DEF Guest, AnyToken, AnySuffix
  <2> QED
    BY <1>1, <2>1, ApplicationsAssumption DEF Text, IsToken
<1>9. \A f \in Signals : s.signals[f] \in STRING /\ IsToken(s.signals[f])
  BY <1>1, ApplicationsAssumption
<1> QED
  BY <1>6, <1>7, <1>8, <1>9

(* Every pattern of a stream is one of an event it has a case for.         *)
LEMMA PatternShape ==
    ASSUME EventsInv, NEW s \in Streams,
           NEW p \in SubscriptionOf(s.handlers, s.user, s.signals)
    PROVE  \E e \in Handled(s.handlers) :
              /\ s.user = Guest => ~IsPrivate(e)
              /\ \E w \in Fillings(e) : p = e.subject \o w
<1> DEFINE H == s.handlers
<1>1. s.user \in Text \ {AnySuffix} /\ \A f \in Signals : s.signals[f] \in Text \ {AnySuffix}
  BY StreamFacts DEF IsToken, Text
<1>2. AnyToken \in Text \ {AnySuffix}
  <2>1. AnyToken # AnySuffix
    BY DEF AnyToken, AnySuffix
  <2> QED
    BY <2>1 DEF Text
<1>3. \A e \in Handled(H) : \E w \in Fillings(e) : EvSubj(e) = e.subject \o w
  BY <1>2 DEF EvSubj, Fillings
<1>4. \A e \in Handled(H) : \E w \in Fillings(e) : UserSubject(e, s.user) = e.subject \o w
  BY <1>1, <1>2 DEF UserSubject, Fillings
<1>5. \A e \in Handled(H) : \E w \in Fillings(e) : SignalSubject(e, s.signals) = e.subject \o w
  BY <1>1, <1>2 DEF SignalSubject, Fillings
<1>6. \E e \in Handled(H) :
         /\ s.user = Guest => ~IsPrivate(e)
         /\ p \in {EvSubj(e), UserSubject(e, s.user), SignalSubject(e, s.signals)}
  <2>1. CASE PrivateOf(H) # {} /\ s.user = Guest
    BY <2>1 DEF SubscriptionOf, PublicOf, SignalScoped, PrivateOf
  <2>2. CASE ~(PrivateOf(H) # {} /\ s.user = Guest)
    <3>1. \A e \in Handled(H) : s.user = Guest => ~IsPrivate(e)
      BY <2>2 DEF PrivateOf
    <3> QED
      BY <2>2, <3>1 DEF SubscriptionOf, PublicOf, SignalScoped, PrivateOf
  <2> QED
    BY <2>1, <2>2
<1> QED
  BY <1>3, <1>4, <1>5, <1>6

(* What a stream receives of an event that is dispatched, it receives by a *)
(* pattern of that event.                                                  *)
LEMMA ReceivedIsDispatched ==
    ASSUME EventsInv, DeclaredInv, SubjectsPlain, NEW d \in Dispatches, NEW s \in Streams,
           NEW e \in Handled(s.handlers), NEW w \in Fillings(e),
           Matches(e.subject \o w, SubjectOf(d[1], d[2]))
    PROVE  e = d[1]
<1> DEFINE t == SubjectOf(d[1], d[2])
<1>1. /\ d[1] \in Handled(events) /\ d[1] \in EventType
      /\ t \in Seq(STRING) /\ Tests(d[1], t)
  BY DispatchOccupies
<1> HIDE DEF t
<1>2. e \in Handled(events) /\ e \in EventType
  <2>1. e \in Handled(events)
    BY StreamFacts
  <2> QED
    BY <2>1 DEF EventsInv, Handled
<1>3. NoWildcards(e)
  BY <1>2 DEF DeclaredInv, SubjectsPlain
<1>4. Occupies(e, t)
  BY <1>1, <1>2, <1>3, MatchedIsOccupied DEF t
<1>5. Occupies(d[1], t)
  BY <1>1, TestsOccupied
<1> QED
  BY <1>1, <1>2, <1>4, <1>5, OnlyOneOccupies

(* The case of the event is taken, whatever the order of the handlers, of  *)
(* applications whose subjects have no wildcards.                          *)
THEOREM HandledAsDispatchedHolds ==
    ASSUME SubjectsPlain
    PROVE  Spec => []HandledAsDispatched
<1>1. ASSUME EventsInv, DeclaredInv, NEW d \in Dispatches, NEW s \in Streams,
             Received(s, SubjectOf(d[1], d[2])) # {}
      PROVE  TakenBy(s.handlers, s.user, SubjectOf(d[1], d[2])) = d[1]
  <2> DEFINE t == SubjectOf(d[1], d[2])
             cases == Cases(s.handlers, t) \cap HandlersFor(s.handlers, s.user)
  <2>1. PICK p \in SubscriptionOf(s.handlers, s.user, s.signals) : Matches(p, t)
    BY <1>1 DEF Received
  <2>2. PICK e \in Handled(s.handlers) :
           /\ s.user = Guest => ~IsPrivate(e)
           /\ \E w \in Fillings(e) : p = e.subject \o w
    BY <1>1, PatternShape
  <2>3. e = d[1]
    BY <1>1, <2>1, <2>2, ReceivedIsDispatched
  <2>4. /\ d[1] \in Handled(events) /\ d[1] \in EventType
        /\ t \in Seq(STRING) /\ Tests(d[1], t)
    BY <1>1, DispatchOccupies
  <2>5. s.handlers \in Seq(EventType) /\ Handled(s.handlers) \subseteq Handled(events)
    BY <1>1, StreamFacts
  <2> HIDE DEF t
  <2>6. cases # {} /\ cases \in SUBSET DOMAIN s.handlers
    BY <2>2, <2>3, <2>4 DEF Cases, HandlersFor, Handled
  <2>7. \A i \in cases : s.handlers[i] = d[1]
    <3>1. \A i \in cases : /\ s.handlers[i] \in Handled(events) /\ s.handlers[i] \in EventType
                           /\ Tests(s.handlers[i], t)
      BY <2>5 DEF Cases, Handled
    <3> QED
      BY <1>1, <2>4, <3>1, TestsOccupied, OnlyOneOccupies
  <2> HIDE DEF cases
  <2>8. First(s.handlers, cases) = d[1]
    BY <2>5, <2>6, <2>7, FirstOfOne
  <2> QED
    BY <2>8 DEF TakenBy, cases, t
<1>2. EventsInv /\ DeclaredInv => HandledAsDispatched
  BY <1>1 DEF HandledAsDispatched
<1> QED
  BY <1>2, EventsInvariance, DeclaredInvariance, PTL

------------------------------------------------------------------------------
(* An event addressed once is subscribed to by one pattern, which has the  *)
(* stream's own user and signals where the event has theirs.               *)
Addressed(e, user, signals) ==
    [i \in DOMAIN e.fields |->
        IF e.fields[i] = User THEN user
        ELSE IF e.fields[i] \in Signals THEN signals[e.fields[i]] ELSE AnyToken]

PatternOf(e, user, signals) == e.subject \o Addressed(e, user, signals)

ServedTo(H, user) == {e \in Handled(H) : user = Guest => ~IsPrivate(e)}

LEMMA OnePattern ==
    ASSUME NEW H, NEW user, NEW signals,
           \A e \in Handled(H) : e \in EventType /\ OneAddressee(e)
    PROVE  \A p : p \in SubscriptionOf(H, user, signals) <=>
             \E e \in ServedTo(H, user) : p = PatternOf(e, user, signals)
<1> USE DEF PatternOf
<1> DEFINE own(e) == PatternOf(e, user, signals)
<1>1. \A e \in PublicOf(H) : EvSubj(e) = own(e)
  BY DEF PublicOf, PrivateOf, SignalScoped, IsPrivate, IsSignalScoped, Addressed, EvSubj
<1>2. \A e \in PrivateOf(H) : e \in Handled(H) /\ UserSubject(e, user) = own(e)
  <2>1. SUFFICES ASSUME NEW e \in PrivateOf(H) PROVE UserSubject(e, user) = own(e)
    BY DEF PrivateOf
  <2>2. /\ \A i, j \in DOMAIN e.fields : e.fields[i] = User /\ e.fields[j] = User => i = j
        /\ \A i \in DOMAIN e.fields : e.fields[i] \notin Signals
    BY <2>1 DEF PrivateOf, OneAddressee, IsSignalScoped
  <2>3. e.fields \in Seq(STRING)
    BY <2>1 DEF PrivateOf, EventType
  <2>4. \A i \in DOMAIN e.fields :
           (/\ e.fields[i] = User
            /\ \A j \in DOMAIN e.fields : j < i => e.fields[j] # User)
           <=> e.fields[i] = User
    BY <2>2, <2>3
  <2> QED
    BY <2>2, <2>4 DEF UserSubject, Addressed
<1>3. \A e \in SignalScoped(H) : e \in Handled(H) /\ ~IsPrivate(e) /\ SignalSubject(e, signals) = own(e)
  BY DEF SignalScoped, OneAddressee, IsPrivate, SignalSubject, Addressed
<1>4. \A e \in PublicOf(H) : e \in Handled(H) /\ ~IsPrivate(e)
  BY DEF PublicOf, PrivateOf
<1>5. \A e \in Handled(H) : e \in PublicOf(H) \/ e \in PrivateOf(H) \/ e \in SignalScoped(H)
  BY DEF PublicOf
<1>6. \A e \in PrivateOf(H) : IsPrivate(e)
  BY DEF PrivateOf
<1> USE DEF ServedTo
<1> DEFINE mine == ServedTo(H, user)
           private == {UserSubject(e, user) : e \in PrivateOf(H)}
           scoped(E) == {SignalSubject(e, signals) : e \in E}
           public == {EvSubj(e) : e \in PublicOf(H)}
<1> HIDE DEF own
<1>7. CASE PrivateOf(H) # {} /\ user = Guest
  <2>1. SubscriptionOf(H, user, signals) = public \cup scoped(SignalScoped(H) \ PrivateOf(H))
    BY <1>7 DEF SubscriptionOf
  <2>2. SignalScoped(H) \ PrivateOf(H) = SignalScoped(H)
    BY <1>3, <1>6
  <2>3. mine = PublicOf(H) \cup SignalScoped(H)
    BY <1>3, <1>4, <1>5, <1>6, <1>7
  <2>4. public = {own(e) : e \in PublicOf(H)}
    BY <1>1
  <2>5. scoped(SignalScoped(H)) = {own(e) : e \in SignalScoped(H)}
    BY <1>3
  <2> QED
    BY <2>1, <2>2, <2>3, <2>4, <2>5 DEF own
<1>8. CASE ~(PrivateOf(H) # {} /\ user = Guest)
  <2>1. SubscriptionOf(H, user, signals) = public \cup private \cup scoped(SignalScoped(H))
    BY <1>8 DEF SubscriptionOf
  <2>2. mine = PublicOf(H) \cup PrivateOf(H) \cup SignalScoped(H)
    BY <1>2, <1>3, <1>4, <1>5, <1>8 DEF PrivateOf
  <2>3. public = {own(e) : e \in PublicOf(H)}
    BY <1>1
  <2>4. scoped(SignalScoped(H)) = {own(e) : e \in SignalScoped(H)}
    BY <1>3
  <2>5. private = {own(e) : e \in PrivateOf(H)}
    BY <1>2
  <2> QED
    BY <2>1, <2>2, <2>3, <2>4, <2>5 DEF own
<1> QED
  BY <1>7, <1>8

(* A stream receives what is dispatched by the pattern of its event alone, *)
(* and that pattern asks for what concerns the stream.                     *)
LEMMA ReceivedByItsPattern ==
    ASSUME EventsInv, DeclaredInv, SubjectsPlain, AddressedOnce,
           NEW d \in Dispatches, NEW s \in Streams
    PROVE  /\ Received(s, SubjectOf(d[1], d[2])) \subseteq {PatternOf(d[1], s.user, s.signals)}
           /\ Received(s, SubjectOf(d[1], d[2])) # {} <=>
                /\ d[1] \in Handled(s.handlers)
                /\ Concerns(d[1], d[2], s.user, s.signals)
<1> DEFINE t == SubjectOf(d[1], d[2])
           H == s.handlers
           pattern(e) == PatternOf(e, s.user, s.signals)
           mine == ServedTo(H, s.user)
<1>1. /\ d[1] \in Handled(events) /\ d[1] \in EventType
      /\ d[2] \in Seq(STRING) /\ Len(d[2]) = Len(d[1].fields)
      /\ \A i \in DOMAIN d[2] : IsToken(d[2][i])
      /\ t \in Seq(STRING)
  BY DispatchOccupies
<1>2. /\ Handled(H) \subseteq Handled(events)
      /\ s.user \in Text \ {AnyToken, AnySuffix}
      /\ \A f \in Signals : s.signals[f] \in STRING /\ IsToken(s.signals[f])
  BY StreamFacts
<1>3. \A e \in Handled(events) : e \in EventType
  BY DEF EventsInv, Handled
<1>4. \A e \in Handled(events) : NoWildcards(e) /\ OneAddressee(e)
  BY DEF DeclaredInv, SubjectsPlain, AddressedOnce
<1>5. \A p : p \in SubscriptionOf(H, s.user, s.signals) <=> \E e \in mine : p = pattern(e)
  <2>1. \A e \in Handled(s.handlers) : e \in EventType /\ OneAddressee(e)
    BY <1>2, <1>3, <1>4
  <2> QED
    BY <2>1, OnePattern
<1>6. \A e \in Handled(events) : Addressed(e, s.user, s.signals) \in Fillings(e)
  <2>1. AnyToken # AnySuffix
    BY DEF AnyToken, AnySuffix
  <2> QED
    BY <1>2, <2>1 DEF Addressed, Fillings, Text, IsToken
<1>7. \A e \in mine : Matches(pattern(e), t) => e = d[1]
  <2>1. mine \subseteq Handled(H)
    BY DEF ServedTo
  <2> QED
    BY <1>2, <1>6, <2>1, ReceivedIsDispatched DEF PatternOf
<1>8. Matches(pattern(d[1]), t) <=> Concerns(d[1], d[2], s.user, s.signals)
  <2> DEFINE e == d[1]
             v == d[2]
             w == Addressed(e, s.user, s.signals)
             m == Len(e.subject)
  <2>1. /\ e.subject \in Seq(STRING) /\ e.fields \in Seq(STRING)
        /\ DOMAIN e.fields = DOMAIN v
    BY <1>1 DEF EventType
  <2>2. /\ Len(t) = m + Len(e.fields)
        /\ \A i \in DOMAIN e.subject : t[i] = e.subject[i]
        /\ \A i \in DOMAIN e.fields : t[m + i] = v[i]
    <3> DEFINE a == e.subject
    <3>1. a \in Seq(STRING) /\ v \in Seq(STRING) /\ t = a \o v /\ Len(v) = Len(e.fields)
      BY <1>1, <2>1 DEF SubjectOf
    <3> HIDE DEF a, v, t
    <3>2. /\ Len(a \o v) = Len(a) + Len(v)
          /\ \A i \in DOMAIN a : (a \o v)[i] = a[i]
          /\ \A i \in DOMAIN v : (a \o v)[Len(a) + i] = v[i]
      <4>1. a \in Seq(STRING) /\ v \in Seq(STRING)
        BY <3>1
      <4> QED
        BY <4>1, ConcatParts
    <3> QED
      BY <2>1, <3>1, <3>2 DEF a
  <2>3. w \in Fillings(e) /\ NoWildcards(e)
    BY <1>1, <1>4, <1>6
  <2> HIDE DEF t
  <2>4. Matches(e.subject \o w, t) <=>
           \A i \in DOMAIN e.fields : w[i] = AnyToken \/ w[i] = t[m + i]
    <3> HIDE DEF w
    <3> QED
      BY <1>1, <2>2, <2>3, FieldsMatch
  <2>5. \A i \in DOMAIN e.fields :
           (w[i] = AnyToken \/ w[i] = v[i]) <=>
              /\ e.fields[i] = User => v[i] = s.user
              /\ e.fields[i] \in Signals => v[i] = s.signals[e.fields[i]]
    BY <1>2, SignalsAssumption DEF Addressed, IsToken
  <2> HIDE DEF w
  <2> QED
    BY <2>2, <2>4, <2>5 DEF Concerns, w, PatternOf
<1>9. ASSUME d[1] \in Handled(H), Concerns(d[1], d[2], s.user, s.signals)
      PROVE  d[1] \in mine
  <2>1. DOMAIN d[1].fields = DOMAIN d[2]
    BY <1>1 DEF EventType
  <2>2. IsPrivate(d[1]) => \E i \in DOMAIN d[2] : d[2][i] = s.user
    BY <1>9, <2>1 DEF IsPrivate, Concerns
  <2>3. IsPrivate(d[1]) => s.user # Guest
    BY <1>1, <2>2 DEF IsToken, Guest
  <2> QED
    BY <1>9, <2>3 DEF ServedTo
<1> HIDE DEF t, pattern, mine
<1>10. \A p : p \in Received(s, t) <=> (\E e \in mine : p = pattern(e)) /\ Matches(p, t)
  BY <1>5 DEF Received
<1>11. Received(s, t) \subseteq {pattern(d[1])}
  BY <1>7, <1>10
<1>12. Received(s, t) # {} <=> d[1] \in mine /\ Matches(pattern(d[1]), t)
  BY <1>7, <1>10
<1>13. d[1] \in mine => d[1] \in Handled(H)
  BY DEF mine, ServedTo
<1> QED
  BY <1>8, <1>9, <1>11, <1>12, <1>13 DEF t, pattern

(* A stream is sent what its page handles and concerns it, and nothing     *)
(* else, of applications whose subjects have no wildcards and whose events *)
(* are addressed once.                                                     *)
THEOREM SentWhatConcernsItHolds ==
    ASSUME SubjectsPlain, AddressedOnce
    PROVE  Spec => []SentWhatConcernsIt
<1>1. EventsInv /\ DeclaredInv => SentWhatConcernsIt
  BY ReceivedByItsPattern DEF SentWhatConcernsIt
<1> QED
  BY <1>1, EventsInvariance, DeclaredInvariance, PTL

(* And no event is sent to a stream twice, of the same applications.       *)
THEOREM SentOnceHolds ==
    ASSUME SubjectsPlain, AddressedOnce
    PROVE  Spec => []SentOnce
<1>1. ASSUME NEW R, NEW p, R \subseteq {p} PROVE Cardinality(R) <= 1
  <2>1. IsFiniteSet({p}) /\ Cardinality({p}) = 1
    BY FS_Singleton
  <2>2. Cardinality(R) <= Cardinality({p})
    BY <1>1, <2>1, FS_Subset
  <2> QED
    BY <2>1, <2>2
<1>2. EventsInv /\ DeclaredInv => SentOnce
  BY <1>1, ReceivedByItsPattern DEF SentOnce
<1> QED
  BY <1>2, EventsInvariance, DeclaredInvariance, PTL
------------------------------------------------------------------------------
(* The types at depth n of what page p embeds, for declarations that stay  *)
(* as they are: types is app.types.                                        *)
Embedded(types, t) == types[t].embeds
MethodsIn(types, t) == DOMAIN types[t].methods

Kids(types, S) ==
    UNION {{Embedded(types, t)[i] : i \in DOMAIN Embedded(types, t)} : t \in S}

Unfolds(types, p, n, g) == g = [k \in 0..n |-> IF k = 0 THEN {p} ELSE Kids(types, g[k - 1])]

Deep(types, p, n) == (CHOOSE g : Unfolds(types, p, n, g))[n]

LEMMA LevelIsDeep ==
    ASSUME NEW p, NEW n
    PROVE  Level(p, n) = Deep(app.types, p, n)
BY DEF Level, Deep, Unfolds, Kids, Embeds, Embedded

LEMMA UnfoldsAgree ==
    ASSUME NEW types, NEW p, NEW n \in Nat, NEW m \in Nat, NEW g, NEW h,
           Unfolds(types, p, n, g), Unfolds(types, p, m, h), NEW k \in Nat, k <= n, k <= m
    PROVE  g[k] = h[k]
<1> DEFINE differ == {i \in Nat : i <= n /\ i <= m /\ g[i] # h[i]}
<1>1. SUFFICES ASSUME differ # {} PROVE FALSE
  OBVIOUS
<1>2. differ \in SUBSET Nat
  OBVIOUS
<1> HIDE DEF differ
<1>3. PICK i \in differ : \A j \in differ : i <= j
  BY <1>1, <1>2, LeastNat
<1>4. i \in Nat /\ i <= n /\ i <= m /\ g[i] # h[i]
  BY <1>3 DEF differ
<1>5. /\ g[i] = IF i = 0 THEN {p} ELSE Kids(types, g[i - 1])
      /\ h[i] = IF i = 0 THEN {p} ELSE Kids(types, h[i - 1])
  <2>1. i \in 0..n /\ i \in 0..m
    BY <1>4
  <2> QED
    BY <2>1 DEF Unfolds
<1>6. i # 0 /\ g[i - 1] # h[i - 1]
  BY <1>4, <1>5
<1>7. i - 1 \in differ /\ ~(i <= i - 1)
  BY <1>4, <1>6 DEF differ
<1> QED
  BY <1>3, <1>7

LEMMA DeepUnfolds ==
    ASSUME NEW types, NEW p
    PROVE  /\ Deep(types, p, 0) = {p}
           /\ \A n \in Nat : Deep(types, p, n + 1) = Kids(types, Deep(types, p, n))
<1> DEFINE some == {n \in Nat : \E g : Unfolds(types, p, n, g)}
           level(n) == CHOOSE g : Unfolds(types, p, n, g)
<1>1. 0 \in some
  <2>1. Unfolds(types, p, 0, [k \in 0..0 |-> {p}])
    <3>1. \A k \in 0..0 : k = 0
      OBVIOUS
    <3> QED
      BY <3>1 DEF Unfolds
  <2> QED
    BY <2>1
<1>2. ASSUME NEW n \in some PROVE n + 1 \in some
  <2>1. PICK g : Unfolds(types, p, n, g)
    OBVIOUS
  <2> DEFINE h == [k \in 0..(n + 1) |-> IF k = n + 1 THEN Kids(types, g[n]) ELSE g[k]]
  <2>2. \A k \in 0..n : g[k] = IF k = 0 THEN {p} ELSE Kids(types, g[k - 1])
    BY <2>1 DEF Unfolds
  <2>3. n \in Nat
    OBVIOUS
  <2>4. ASSUME NEW k \in 0..(n + 1)
        PROVE  h[k] = IF k = 0 THEN {p} ELSE Kids(types, h[k - 1])
    <3>1. CASE k = n + 1
      <4>1. k # 0 /\ k - 1 \in 0..(n + 1) /\ k - 1 # n + 1 /\ k - 1 = n
        BY <2>3, <3>1
      <4> QED
        BY <3>1, <4>1
    <3>2. CASE k # n + 1
      <4>1. k \in 0..n /\ (k # 0 => k - 1 \in 0..(n + 1) /\ k - 1 # n + 1)
        BY <2>3, <3>2
      <4>2. h[k] = g[k] /\ (k # 0 => h[k - 1] = g[k - 1])
        BY <3>2, <4>1
      <4> QED
        BY <2>2, <4>1, <4>2
    <3> QED
      BY <3>1, <3>2
  <2>5. h = [k \in 0..(n + 1) |-> IF k = 0 THEN {p} ELSE Kids(types, h[k - 1])]
    <3>1. h = [k \in 0..(n + 1) |-> h[k]]
      OBVIOUS
    <3> HIDE DEF h
    <3> QED
      BY <2>4, <3>1
  <2> HIDE DEF h
  <2> QED
    BY <2>3, <2>5 DEF Unfolds
<1>3. some = Nat
  <2>1. some \in SUBSET Nat
    OBVIOUS
  <2> HIDE DEF some
  <2> QED
    BY <1>1, <1>2, <2>1, SetInduction
<1>4. \A n \in Nat : Unfolds(types, p, n, level(n))
  <2>1. \A n \in Nat : \E g : Unfolds(types, p, n, g)
    BY <1>3
  <2> QED
    BY <2>1
<1>5. \A n \in Nat : Deep(types, p, n) = level(n)[n]
  BY DEF Deep
<1> HIDE DEF level
<1>6. ASSUME NEW n \in Nat PROVE Deep(types, p, n + 1) = Kids(types, Deep(types, p, n))
  <2>1. n + 1 \in Nat /\ n + 1 \in 0..(n + 1) /\ n + 1 # 0 /\ (n + 1) - 1 = n /\ n <= n /\ n <= n + 1
    OBVIOUS
  <2>2. level(n + 1)[n + 1] = Kids(types, level(n + 1)[n])
    BY <1>4, <2>1 DEF Unfolds
  <2>3. level(n + 1)[n] = level(n)[n]
    BY <1>4, <2>1, UnfoldsAgree
  <2> QED
    BY <1>5, <2>1, <2>2, <2>3
<1>7. Deep(types, p, 0) = {p}
  <2>1. level(0)[0] = {p}
    BY <1>4 DEF Unfolds
  <2> QED
    BY <1>5, <2>1
<1> QED
  BY <1>6, <1>7

LEMMA DeepNext ==
    ASSUME NEW types, NEW p, NEW n \in Nat, NEW m, m = n + 1
    PROVE  Deep(types, p, m) = Kids(types, Deep(types, p, n))
<1>1. \A k \in Nat : Deep(types, p, k + 1) = Kids(types, Deep(types, p, k))
  BY DeepUnfolds
<1> QED
  BY <1>1

------------------------------------------------------------------------------
(* Declarations whose types embed declared types.                          *)
Closed(types) ==
    IsFiniteSet(DOMAIN types) /\ \A t \in DOMAIN types : Embedded(types, t) \in Seq(DOMAIN types)

LEMMA DeepDeclared ==
    ASSUME NEW types, Closed(types), NEW p \in DOMAIN types
    PROVE  \A k \in Nat : Deep(types, p, k) \subseteq DOMAIN types
<1> DEFINE D(k) == Deep(types, p, k)
<1>1. D(0) = {p} /\ \A k \in Nat : D(k + 1) = Kids(types, D(k))
  BY DeepUnfolds
<1> HIDE DEF D
<1>2. \A k \in Nat : D(k) \subseteq DOMAIN types
  <2> DEFINE T == {k \in Nat : D(k) \subseteq DOMAIN types}
  <2>1. 0 \in T
    BY <1>1
  <2>2. ASSUME NEW k \in T PROVE k + 1 \in T
    <3>1. D(k + 1) = Kids(types, D(k)) /\ D(k) \subseteq DOMAIN types /\ k \in Nat
      BY <1>1
    <3>2. Kids(types, D(k)) \subseteq DOMAIN types
      <4>1. \A u \in D(k) : \A i \in DOMAIN Embedded(types, u) :
               Embedded(types, u)[i] \in DOMAIN types
        BY <3>1 DEF Closed
      <4> QED
        BY <4>1 DEF Kids
    <3> QED
      BY <3>1, <3>2
  <2>3. T \in SUBSET Nat
    OBVIOUS
  <2> HIDE DEF T
  <2>4. T = Nat
    BY <2>1, <2>2, <2>3, SetInduction
  <2> QED
    BY <2>4 DEF T
<1> QED
  BY <1>2 DEF D

(* All that is embedded is embedded no deeper than there are types.        *)
LEMMA DeepWithinLevels ==
    ASSUME NEW types, Closed(types), NEW p \in DOMAIN types,
           NEW n \in Nat, NEW t \in Deep(types, p, n)
    PROVE  \E k \in 0..Cardinality(DOMAIN types) : t \in Deep(types, p, k)
<1> DEFINE N == Cardinality(DOMAIN types)
           D(k) == Deep(types, p, k)
           Near(k) == UNION {D(j) : j \in 0..k}
           settled == {k \in Nat : Near(k + 1) \subseteq Near(k)}
<1>1. D(0) = {p} /\ \A k \in Nat : D(k + 1) = Kids(types, D(k))
  BY DeepUnfolds
<1> HIDE DEF D
<1>2. \A k \in Nat : D(k) \subseteq DOMAIN types
  BY DeepDeclared DEF D
<1>3. \A k \in Nat : Near(k) \subseteq DOMAIN types /\ IsFiniteSet(Near(k))
  <2>1. \A k \in Nat : Near(k) \subseteq DOMAIN types
    <3>1. \A k \in Nat : \A j \in 0..k : j \in Nat
      OBVIOUS
    <3> QED
      BY <1>2, <3>1
  <2> HIDE DEF Near
  <2> QED
    BY <2>1, FS_Subset DEF Closed
<1>4. \A k \in Nat : Near(k) \subseteq Near(k + 1) /\ D(k) \subseteq Near(k)
  <2>1. \A k \in Nat : k \in 0..k /\ \A j \in 0..k : j \in 0..(k + 1)
    OBVIOUS
  <2> QED
    BY <2>1
<1>5. ASSUME NEW k \in settled PROVE \A j \in Nat : D(j) \subseteq Near(k)
  <2> DEFINE T == {j \in Nat : D(j) \subseteq Near(k)}
  <2>0. k \in Nat /\ Near(k + 1) \subseteq Near(k)
    OBVIOUS
  <2>1. 0 \in T
    <3>1. 0 \in 0..k
      BY <2>0
    <3> QED
      BY <3>1
  <2>2. ASSUME NEW j \in T PROVE j + 1 \in T
    <3>1. j \in Nat /\ D(j) \subseteq Near(k) /\ D(j + 1) = Kids(types, D(j))
      BY <1>1
    <3>2. Kids(types, D(j)) \subseteq Near(k + 1)
      <4>1. ASSUME NEW x \in Kids(types, D(j)) PROVE x \in Near(k + 1)
        <5>1. PICK u \in D(j) : \E i \in DOMAIN Embedded(types, u) : x = Embedded(types, u)[i]
          BY DEF Kids
        <5>2. PICK l \in 0..k : u \in D(l)
          BY <3>1
        <5>3. l \in Nat /\ l + 1 \in 0..(k + 1)
          BY <2>0
        <5>4. x \in D(l + 1)
          BY <1>1, <5>1, <5>2, <5>3 DEF Kids
        <5> QED
          BY <5>3, <5>4
      <4> QED
        BY <4>1
    <3> HIDE DEF Near
    <3> QED
      BY <2>0, <3>1, <3>2
  <2>3. T \in SUBSET Nat
    OBVIOUS
  <2> HIDE DEF T
  <2>4. T = Nat
    BY <2>1, <2>2, <2>3, SetInduction
  <2> QED
    BY <2>4 DEF T
<1>6. \A k \in Nat : (\E j \in settled : j <= k) \/ Cardinality(Near(k)) >= k + 1
  <2> DEFINE T == {k \in Nat : (\E j \in settled : j <= k) \/ Cardinality(Near(k)) >= k + 1}
  <2>1. 0 \in T
    <3>1. Near(0) = {p}
      <4>1. \A j \in 0..0 : j = 0
        OBVIOUS
      <4>2. 0 \in 0..0
        OBVIOUS
      <4> QED
        BY <1>1, <4>1, <4>2
    <3> HIDE DEF Near, settled
    <3>2. Cardinality(Near(0)) = 1
      BY <3>1, FS_Singleton
    <3> QED
      BY <3>2
  <2>2. ASSUME NEW k \in T PROVE k + 1 \in T
    <3>1. CASE \E j \in settled : j <= k
      <4> HIDE DEF Near
      <4>1. \E j \in settled : j <= k + 1
        BY <3>1
      <4> QED
        BY <4>1
    <3>2. CASE k \in settled
      <4>1. k \in Nat /\ k <= k + 1
        OBVIOUS
      <4> HIDE DEF Near, settled
      <4> QED
        BY <3>2, <4>1
    <3>3. CASE ~(\E j \in settled : j <= k) /\ k \notin settled
      <4>1. k \in Nat /\ Near(k) # Near(k + 1) /\ Near(k) \subseteq Near(k + 1)
        BY <1>4, <3>3
      <4>2. Cardinality(Near(k)) >= k + 1
        BY <3>3
      <4> HIDE DEF Near, settled
      <4>3. IsFiniteSet(Near(k)) /\ IsFiniteSet(Near(k + 1))
        BY <1>3, <4>1
      <4>4. /\ Cardinality(Near(k)) \in Nat /\ Cardinality(Near(k + 1)) \in Nat
            /\ Cardinality(Near(k)) < Cardinality(Near(k + 1))
        BY <4>1, <4>3, FS_Subset, FS_CardinalityType
      <4>5. Cardinality(Near(k + 1)) >= (k + 1) + 1
        BY <4>1, <4>2, <4>4
      <4> QED
        BY <4>1, <4>5
    <3> QED
      BY <3>1, <3>2, <3>3
  <2>3. T \in SUBSET Nat
    OBVIOUS
  <2> HIDE DEF T
  <2>4. T = Nat
    BY <2>1, <2>2, <2>3, SetInduction
  <2> QED
    BY <2>4 DEF T
<1>7. N \in Nat /\ Cardinality(Near(N)) <= N
  <2>1. N \in Nat
    BY FS_CardinalityType DEF Closed
  <2>2. Near(N) \subseteq DOMAIN types
    BY <1>3, <2>1
  <2> HIDE DEF Near
  <2> QED
    BY <2>1, <2>2, FS_Subset DEF Closed
<1>8. PICK k \in settled : k <= N
  <2> HIDE DEF Near, settled, N
  <2>1. ~(Cardinality(Near(N)) >= N + 1)
    <3>1. Cardinality(Near(N)) \in Nat
      BY <1>3, <1>7, FS_CardinalityType
    <3> QED
      BY <1>7, <3>1
  <2> QED
    BY <1>6, <1>7, <2>1
<1>9. t \in Near(k)
  <2>1. t \in D(n)
    BY DEF D
  <2> QED
    BY <1>5, <2>1
<1>10. PICK j \in 0..k : t \in D(j)
  BY <1>9
<1>11. j \in 0..N
  <2>1. k \in Nat
    BY <1>8
  <2> QED
    BY <1>7, <1>8, <2>1
<1> QED
  BY <1>10, <1>11 DEF D

------------------------------------------------------------------------------
(* flattenPage: the queue has types of one depth and then their types, the *)
(* types of lesser depth have been looked at.  V is what has been, and p.  *)
Elements(q) == {q[i] : i \in DOMAIN q}

Layered(types, p, V, q, d, j) ==
    /\ \A i \in DOMAIN q : q[i] \in Deep(types, p, IF i <= j THEN d ELSE d + 1)
    /\ \A i \in 0..(d - 1) : Deep(types, p, i) \subseteq V
    /\ \A t \in Deep(types, p, d) : t \in V \/ \E i \in 1..j : t = q[i]

Searched(types, p, V, q) ==
    /\ q \in Seq(DOMAIN types)
    /\ p \in V /\ V \subseteq DOMAIN types
    /\ \A t \in V : Kids(types, {t}) \subseteq V \cup Elements(q)
    /\ \E d \in Nat \ {0} : \E j \in 0..Len(q) : Layered(types, p, V, q, d, j)

LEMMA KidsOfEach ==
    ASSUME NEW types, NEW S, NEW x
    PROVE  x \in Kids(types, S) <=> \E t \in S : x \in Kids(types, {t})
BY DEF Kids

LEMMA SearchStarts ==
    ASSUME NEW types, Closed(types), NEW p \in DOMAIN types
    PROVE  Searched(types, p, {p}, Embedded(types, p))
<1> DEFINE q == Embedded(types, p)
<1>1. q \in Seq(DOMAIN types)
  BY DEF Closed
<1>2. Kids(types, {p}) = Elements(q)
  BY DEF Kids, Elements
<1>3. Deep(types, p, 0) = {p} /\ Deep(types, p, 1) = Kids(types, {p})
  <2>1. 0 \in Nat /\ 0 + 1 = 1
    OBVIOUS
  <2> QED
    BY <2>1, DeepUnfolds
<1> HIDE DEF q
<1>4. 1 \in Nat \ {0} /\ Len(q) \in 0..Len(q) /\ DOMAIN q = 1..Len(q) /\ \A i \in 0..(1 - 1) : i = 0
  BY <1>1
<1>5. Layered(types, p, {p}, q, 1, Len(q))
  <2>1. \A i \in DOMAIN q : i <= Len(q) /\ q[i] \in Deep(types, p, 1)
    BY <1>1, <1>2, <1>3 DEF Elements
  <2>2. \A i \in 0..(1 - 1) : Deep(types, p, i) \subseteq {p}
    BY <1>3, <1>4
  <2>3. \A t \in Deep(types, p, 1) : \E i \in 1..Len(q) : t = q[i]
    BY <1>2, <1>3, <1>4 DEF Elements
  <2> QED
    BY <2>1, <2>2, <2>3 DEF Layered
<1> QED
  BY <1>1, <1>2, <1>4, <1>5 DEF Searched, q

(* When nothing is left of a depth, the queue is of the next.              *)
LEMMA HeadIsOfTheLayer ==
    ASSUME NEW types, NEW p, NEW V, NEW q, Searched(types, p, V, q), q # <<>>
    PROVE  \E d \in Nat \ {0} : \E j \in 1..Len(q) : Layered(types, p, V, q, d, j)
<1>1. PICK d \in Nat \ {0}, j \in 0..Len(q) : Layered(types, p, V, q, d, j)
  BY DEF Searched
<1>2. q \in Seq(DOMAIN types) /\ DOMAIN q = 1..Len(q) /\ Len(q) \in Nat \ {0}
  BY DEF Searched
<1>3. CASE j # 0
  <2>1. j \in 1..Len(q)
    BY <1>2, <1>3
  <2> QED
    BY <1>1, <2>1
<1>4. CASE j = 0
  <2> DEFINE n == Len(q)
  <2>1. d + 1 \in Nat \ {0} /\ n \in 1..n /\ (d + 1) - 1 = d
    BY <1>2
  <2>2. Deep(types, p, d) \subseteq V
    <3>1. \A i \in 1..0 : FALSE
      OBVIOUS
    <3> QED
      BY <1>1, <1>4, <3>1 DEF Layered
  <2>3. \A i \in 0..d : Deep(types, p, i) \subseteq V
    <3>1. \A i \in 0..d : i \in 0..(d - 1) \/ i = d
      OBVIOUS
    <3> QED
      BY <1>1, <2>2, <3>1 DEF Layered
  <2>4. \A i \in DOMAIN q : i <= n /\ q[i] \in Deep(types, p, d + 1)
    <3>1. \A i \in DOMAIN q : i <= n /\ ~(i <= 0)
      BY <1>2
    <3> QED
      BY <1>1, <1>4, <3>1 DEF Layered
  <2>5. ASSUME NEW t \in Deep(types, p, d + 1) PROVE t \in V \/ \E i \in 1..n : t = q[i]
    <3>1. t \in Kids(types, Deep(types, p, d))
      BY DeepNext
    <3>2. PICK u \in Deep(types, p, d) : t \in Kids(types, {u})
      BY <3>1, KidsOfEach
    <3>3. t \in V \cup Elements(q)
      BY <2>2, <3>2 DEF Searched
    <3> QED
      BY <1>2, <3>3 DEF Elements
  <2>6. Layered(types, p, V, q, d + 1, n)
    BY <2>1, <2>3, <2>4, <2>5 DEF Layered
  <2> QED
    BY <2>1, <2>6
<1> QED
  BY <1>3, <1>4

(* The next type is taken from the queue, x is appended.                   *)
LEMMA SearchGoesOn ==
    ASSUME NEW types, NEW p, NEW V, NEW q, Searched(types, p, V, q), q # <<>>,
           NEW x \in Seq(DOMAIN types), Elements(x) \subseteq Kids(types, {Head(q)}),
           Kids(types, {Head(q)}) \subseteq V \cup Elements(q) \cup Elements(x)
    PROVE  Searched(types, p, V \cup {Head(q)}, Tail(q) \o x)
<1> DEFINE h == Head(q)
           r == Tail(q) \o x
           W == V \cup {h}
           n == Len(q)
           l == Len(x)
<1>1. PICK d \in Nat \ {0}, j \in 1..Len(q) : Layered(types, p, V, q, d, j)
  BY HeadIsOfTheLayer
<1>2. /\ q \in Seq(DOMAIN types) /\ DOMAIN q = 1..n /\ n \in Nat \ {0}
      /\ h = q[1] /\ h \in DOMAIN types /\ l \in Nat /\ DOMAIN x = 1..l
  BY DEF Searched
<1>3. /\ r \in Seq(DOMAIN types) /\ Len(r) = (n - 1) + l /\ DOMAIN r = 1..((n - 1) + l)
      /\ \A i \in 1..(n - 1) : r[i] = q[i + 1]
      /\ \A i \in 1..l : r[(n - 1) + i] = x[i]
  <2>1. /\ Tail(q) \in Seq(DOMAIN types) /\ Len(Tail(q)) = n - 1
        /\ \A i \in 1..(n - 1) : Tail(q)[i] = q[i + 1]
    BY <1>2
  <2> QED
    BY <1>2, <2>1
<1> HIDE DEF r, h, n, l
<1>4. \A i \in 1..n : i = 1 \/ (i - 1 \in 1..(n - 1) /\ q[i] = r[i - 1])
  <2>1. \A i \in 1..n : i = 1 \/ (i - 1 \in 1..(n - 1) /\ (i - 1) + 1 = i)
    BY <1>2
  <2> QED
    BY <1>3, <2>1
<1>5. \A i \in 1..((n - 1) + l) : i \in 1..(n - 1) \/ \E k \in 1..l : i = (n - 1) + k
  <2>1. \A i \in 1..((n - 1) + l) : i \in 1..(n - 1) \/
           (i - (n - 1) \in 1..l /\ i = (n - 1) + (i - (n - 1)))
    BY <1>2
  <2> QED
    BY <2>1
<1>6. Elements(q) \subseteq {h} \cup Elements(r) /\ Elements(x) \subseteq Elements(r)
  <2>1. \A i \in 1..(n - 1) : i \in DOMAIN r
    BY <1>2, <1>3
  <2>2. \A i \in 1..l : (n - 1) + i \in DOMAIN r
    BY <1>2, <1>3
  <2>3. Elements(q) \subseteq {h} \cup Elements(r)
    BY <1>2, <1>4, <2>1 DEF Elements
  <2>4. Elements(x) \subseteq Elements(r)
    BY <1>2, <1>3, <2>2 DEF Elements
  <2> QED
    BY <2>3, <2>4
<1>7. \A t \in W : Kids(types, {t}) \subseteq W \cup Elements(r)
  BY <1>6 DEF Searched, h
<1>8. h \in Deep(types, p, d)
  <2>1. 1 <= j /\ 1 \in DOMAIN q
    BY <1>2
  <2> QED
    BY <1>1, <1>2, <2>1 DEF Layered
<1>9. Elements(x) \subseteq Deep(types, p, d + 1)
  <2>1. Kids(types, {h}) \subseteq Kids(types, Deep(types, p, d))
    BY <1>8, KidsOfEach
  <2>2. Deep(types, p, d + 1) = Kids(types, Deep(types, p, d))
    BY DeepNext
  <2> QED
    BY <2>1, <2>2 DEF h
<1>10. j - 1 \in 0..Len(r)
  BY <1>2, <1>3 DEF n
<1>11. Layered(types, p, W, r, d, j - 1)
  <2>1. ASSUME NEW i \in DOMAIN r
        PROVE  r[i] \in Deep(types, p, IF i <= j - 1 THEN d ELSE d + 1)
    <3>1. CASE i \in 1..(n - 1)
      <4>1. i + 1 \in DOMAIN q /\ (i <= j - 1 <=> i + 1 <= j)
        BY <1>2, <3>1
      <4> QED
        BY <1>1, <1>3, <3>1, <4>1 DEF Layered
    <3>2. CASE \E k \in 1..l : i = (n - 1) + k
      <4>1. PICK k \in 1..l : i = (n - 1) + k
        BY <3>2
      <4>2. r[i] \in Elements(x) /\ ~(i <= j - 1)
        <5>1. r[i] \in Elements(x)
          BY <1>2, <1>3, <4>1 DEF Elements
        <5>2. n \in Nat /\ j <= n /\ k >= 1 /\ i = (n - 1) + k
          BY <1>2, <4>1 DEF n
        <5> QED
          BY <5>1, <5>2
      <4> QED
        BY <1>9, <4>2
    <3> QED
      BY <1>3, <1>5, <3>1, <3>2
  <2>2. \A i \in 0..(d - 1) : Deep(types, p, i) \subseteq W
    BY <1>1 DEF Layered
  <2>3. ASSUME NEW t \in Deep(types, p, d)
        PROVE  t \in W \/ \E i \in 1..(j - 1) : t = r[i]
    <3>1. CASE t \in V
      BY <3>1
    <3>2. CASE \E i \in 1..j : t = q[i]
      <4>1. PICK i \in 1..j : t = q[i]
        BY <3>2
      <4>2. i \in 1..n /\ (i = 1 \/ i - 1 \in 1..(j - 1))
        BY <1>2 DEF n
      <4> QED
        BY <1>2, <1>4, <4>1, <4>2
    <3> QED
      BY <1>1, <3>1, <3>2 DEF Layered
  <2> QED
    BY <2>1, <2>2, <2>3 DEF Layered
<1> QED
  BY <1>2, <1>3, <1>7, <1>10, <1>11 DEF Searched, h, r

(* With nothing in the queue, everything embedded has been looked at.      *)
LEMMA SearchEnds ==
    ASSUME NEW types, NEW p, NEW V, Searched(types, p, V, <<>>), NEW n \in Nat
    PROVE  Deep(types, p, n) \subseteq V
<1> DEFINE T == {k \in Nat : Deep(types, p, k) \subseteq V}
<1>1. \A t \in V : Kids(types, {t}) \subseteq V
  BY DEF Searched, Elements
<1>2. 0 \in T
  BY DeepUnfolds DEF Searched
<1>3. ASSUME NEW k \in T PROVE k + 1 \in T
  <2>1. k \in Nat /\ Deep(types, p, k) \subseteq V
    OBVIOUS
  <2>2. Deep(types, p, k + 1) = Kids(types, Deep(types, p, k))
    BY <2>1, DeepNext
  <2>3. Kids(types, Deep(types, p, k)) \subseteq V
    BY <1>1, <2>1, KidsOfEach
  <2> QED
    BY <2>1, <2>2, <2>3
<1>4. T \in SUBSET Nat
  OBVIOUS
<1> HIDE DEF T
<1>5. T = Nat
  BY <1>2, <1>3, <1>4, SetInduction
<1> QED
  BY <1>5 DEF T

------------------------------------------------------------------------------
(* The methods of p, when the types in V have been looked at: there is one *)
(* for every role that a type of V has one for, each is from a type no     *)
(* deeper than another with its role; and from the only such type, of those*)
(* embedded, unless it is an action or an error was reported.              *)
RoleIn(types, t, m) ==
    IF m \in ActionNames THEN <<"action", Suffixes[m]>>
    ELSE IF m \in Hooks \cup {Get} THEN <<"page", m>>
    ELSE <<"event", types[t].methods[m]>>

Alike(types, x, t, m) == RoleIn(types, x[1], x[2]) = RoleIn(types, t, m)

LEMMA RoleOfDeclared ==
    /\ \A t : Methods(t) = MethodsIn(app.types, t)
    /\ \A t, m : Role(t, m) = RoleIn(app.types, t, m)
    /\ \A x, t, m : Plays(x, Role(t, m)) <=> Alike(app.types, x, t, m)
BY DEF Role, RoleIn, Plays, Alike, Methods, MethodsIn

Reached(types, p) == UNION {Deep(types, p, n) : n \in Nat}

NoDeeper(types, p, t, n) == \E k \in Nat : k <= n /\ t \in Deep(types, p, k)

TakenFrom(types, p, V, own, clean) ==
    /\ p \in V /\ V \subseteq Reached(types, p)
    /\ \A x \in own : x = <<x[1], x[2]>> /\ x[1] \in V /\ x[2] \in MethodsIn(types, x[1])
    /\ \A t \in V : \A m \in MethodsIn(types, t) : \E x \in own : Alike(types, x, t, m)
    /\ \A x \in own, n \in Nat : \A t \in Deep(types, p, n) : \A m \in MethodsIn(types, t) :
          Alike(types, x, t, m) => NoDeeper(types, p, x[1], n)
    /\ clean => \A x \in own, t \in V : \A m \in MethodsIn(types, t) \ ActionNames :
          Alike(types, x, t, m) /\ x[1] # p => x[1] = t

Promoted(types, p, own, clean) ==
    TakenFrom(types, p, Reached(types, p), own, clean)

LEMMA OwnMethods ==
    ASSUME NEW types, NEW p, NEW clean
    PROVE  TakenFrom(types, p, {p}, {p} \X MethodsIn(types, p), clean)
<1> DEFINE own == {p} \X MethodsIn(types, p)
<1>1. p \in Deep(types, p, 0) /\ 0 \in Nat /\ \A n \in Nat : 0 <= n
  BY DeepUnfolds
<1>2. {p} \subseteq Reached(types, p)
  BY <1>1 DEF Reached
<1>3. \A x \in own : x = <<x[1], x[2]>> /\ x[1] = p /\ x[2] \in MethodsIn(types, p)
  OBVIOUS
<1>4. \A m \in MethodsIn(types, p) : <<p, m>> \in own
  OBVIOUS
<1>5. \A m \in MethodsIn(types, p) : \E x \in own : Alike(types, x, p, m)
  <2>1. \A m : Alike(types, <<p, m>>, p, m)
    BY DEF Alike
  <2> QED
    BY <1>4, <2>1
<1>6. \A n \in Nat : NoDeeper(types, p, p, n)
  BY <1>1 DEF NoDeeper
<1> HIDE DEF own
<1>7. TakenFrom(types, p, {p}, own, clean)
  BY <1>2, <1>3, <1>5, <1>6 DEF TakenFrom
<1> QED
  BY <1>7 DEF own

LEMMA TakeNext ==
    ASSUME NEW types, NEW p, NEW V, NEW q, Searched(types, p, V, q), q # <<>>,
           NEW own, NEW clean, TakenFrom(types, p, V, own, clean),
           Head(q) \notin V,
           NEW taken \in SUBSET MethodsIn(types, Head(q)),
           \A m \in taken : \A x \in own : ~Alike(types, x, Head(q), m),
           \A m \in MethodsIn(types, Head(q)) :
              \/ \E x \in own : Alike(types, x, Head(q), m)
              \/ \E k \in taken : RoleIn(types, Head(q), k) = RoleIn(types, Head(q), m),
           NEW cleaner, cleaner => clean,
           cleaner => \A m \in MethodsIn(types, Head(q)) \ ActionNames : \A x \in own :
                         Alike(types, x, Head(q), m) => x[1] = p
    PROVE  TakenFrom(types, p, V \cup {Head(q)}, own \cup ({Head(q)} \X taken), cleaner)
<1> DEFINE h == Head(q)
           W == V \cup {h}
           next == own \cup ({h} \X taken)
<1>1. PICK d \in Nat \ {0}, j \in 1..Len(q) : Layered(types, p, V, q, d, j)
  BY HeadIsOfTheLayer
<1>2. h \in Deep(types, p, d)
  <2>1. q \in Seq(DOMAIN types) /\ Len(q) \in Nat \ {0} /\ h = q[1]
    BY DEF Searched
  <2>2. 1 <= j /\ 1 \in DOMAIN q
    BY <2>1
  <2> HIDE DEF h
  <2> QED
    BY <1>1, <2>1, <2>2 DEF Layered
<1>3. \A n \in Nat : n < d => Deep(types, p, n) \subseteq V
  <2>1. \A n \in Nat : n < d => n \in 0..(d - 1)
    OBVIOUS
  <2> QED
    BY <1>1, <2>1 DEF Layered
<1>4. /\ \A m \in taken : \A x \in own : ~Alike(types, x, h, m)
      /\ \A m \in MethodsIn(types, h) :
            \/ \E x \in own : Alike(types, x, h, m)
            \/ \E k \in taken : RoleIn(types, h, k) = RoleIn(types, h, m)
      /\ cleaner => \A m \in MethodsIn(types, h) \ ActionNames : \A x \in own :
            Alike(types, x, h, m) => x[1] = p
      /\ taken \subseteq MethodsIn(types, h)
  OBVIOUS
<1> HIDE DEF h
<1>5. h \notin V /\ p \in V /\ h # p
  BY DEF TakenFrom, h
<1>6. \A x \in next : x \in own \/ (x = <<x[1], x[2]>> /\ x[1] = h /\ x[2] \in taken)
  OBVIOUS
<1>7. own \subseteq next /\ \A k \in taken : <<h, k>> \in next
  OBVIOUS
<1> HIDE DEF next
<1>8. p \in W /\ W \subseteq Reached(types, p)
  BY <1>2 DEF TakenFrom, Reached
<1>9. \A x \in next : x = <<x[1], x[2]>> /\ x[1] \in W /\ x[2] \in MethodsIn(types, x[1])
  BY <1>4, <1>6 DEF TakenFrom
<1>10. \A t \in W : \A m \in MethodsIn(types, t) : \E x \in next : Alike(types, x, t, m)
  <2>1. ASSUME NEW t \in V, NEW m \in MethodsIn(types, t)
        PROVE  \E x \in next : Alike(types, x, t, m)
    BY <1>7, <2>1 DEF TakenFrom
  <2>2. ASSUME NEW m \in MethodsIn(types, h) PROVE \E x \in next : Alike(types, x, h, m)
    <3>1. \A k : Alike(types, <<h, k>>, h, m) <=> RoleIn(types, h, k) = RoleIn(types, h, m)
      BY DEF Alike
    <3> QED
      BY <1>4, <1>7, <2>2, <3>1
  <2> QED
    BY <2>1, <2>2
<1>11. ASSUME NEW x \in next, NEW t \in V, NEW m \in MethodsIn(types, t), Alike(types, x, t, m)
       PROVE  x \in own
  <2>1. PICK y \in own : Alike(types, y, t, m)
    BY <1>11 DEF TakenFrom
  <2>2. CASE x[1] = h /\ x[2] \in taken
    <3>1. Alike(types, y, h, x[2])
      BY <1>11, <2>1, <2>2 DEF Alike
    <3> QED
      BY <1>4, <2>2, <3>1
  <2> QED
    BY <1>6, <2>2
<1>12. ASSUME NEW x \in next, NEW n \in Nat, NEW t \in Deep(types, p, n),
              NEW m \in MethodsIn(types, t), Alike(types, x, t, m)
       PROVE  NoDeeper(types, p, x[1], n)
  <2>1. CASE x \in own
    BY <1>12, <2>1 DEF TakenFrom
  <2>2. CASE x \notin own
    <3>1. t \notin V /\ x[1] = h
      BY <1>6, <1>11, <1>12, <2>2
    <3>2. d <= n
      BY <1>3, <3>1
    <3> QED
      BY <1>2, <3>1, <3>2 DEF NoDeeper
  <2> QED
    BY <2>1, <2>2
<1>13. ASSUME cleaner, NEW x \in next, NEW t \in W, NEW m \in MethodsIn(types, t) \ ActionNames,
              Alike(types, x, t, m), x[1] # p
       PROVE  x[1] = t
  <2>1. CASE x \in own /\ t \in V
    BY <1>13, <2>1 DEF TakenFrom
  <2>2. CASE x \in own /\ t = h
    BY <1>4, <1>13, <2>2
  <2>3. CASE x \notin own
    <3>1. t = h /\ x[1] = h
      BY <1>6, <1>11, <1>13, <2>3
    <3> QED
      BY <3>1
  <2> QED
    BY <2>1, <2>2, <2>3
<1>14. TakenFrom(types, p, W, next, cleaner)
  BY <1>8, <1>9, <1>10, <1>12, <1>13 DEF TakenFrom
<1> QED
  BY <1>14 DEF h, next

LEMMA TakenAtTheEnd ==
    ASSUME NEW types, NEW p, NEW V, Searched(types, p, V, <<>>),
           NEW own, NEW clean, TakenFrom(types, p, V, own, clean)
    PROVE  Promoted(types, p, own, clean)
<1>1. V = Reached(types, p)
  BY SearchEnds DEF Reached, TakenFrom
<1> QED
  BY <1>1 DEF Promoted

LEMMA TakenStays ==
    ASSUME NEW types, NEW p, NEW V, NEW own, NEW clean, NEW cleaner,
           TakenFrom(types, p, V, own, clean), cleaner => clean
    PROVE  TakenFrom(types, p, V, own, cleaner)
BY DEF TakenFrom

(* What TakenFromThePromoted says of a page.                               *)
ReachedInLevels(types, p) == UNION {Deep(types, p, n) : n \in 0..Cardinality(DOMAIN types)}

AtDepth(types, p, m, n) ==
    n \in 0..Cardinality(DOMAIN types) /\ \E t \in Deep(types, p, n) : m \in MethodsIn(types, t)

LEMMA LevelsReachAll ==
    ASSUME NEW types, Closed(types), NEW p \in DOMAIN types
    PROVE  /\ Cardinality(DOMAIN types) \in Nat
           /\ ReachedInLevels(types, p) = Reached(types, p)
<1> DEFINE levels == 0..Cardinality(DOMAIN types)
           reach == ReachedInLevels(types, p)
<1>1. Cardinality(DOMAIN types) \in Nat
  BY FS_CardinalityType DEF Closed
<1>2. \A n \in levels : n \in Nat
  BY <1>1
<1>3. reach \subseteq Reached(types, p)
  BY <1>2 DEF Reached, ReachedInLevels
<1>4. Reached(types, p) \subseteq reach
  BY DeepWithinLevels DEF Reached, ReachedInLevels
<1> QED
  BY <1>1, <1>3, <1>4

PromotedInLevels(types, p, own) ==
    /\ \A t \in ReachedInLevels(types, p) : \A m \in MethodsIn(types, t) :
          \E x \in own : Alike(types, x, t, m)
    /\ \A x \in own : \E n : AtDepth(types, p, x[2], n)
    /\ \A x \in own, t \in ReachedInLevels(types, p) :
         \A m \in MethodsIn(types, t) \ ActionNames :
            Alike(types, x, t, m) /\ x[1] # p => x[1] = t

LEMMA PromotedWithinLevels ==
    ASSUME NEW types, Closed(types), NEW p \in DOMAIN types,
           NEW own, Promoted(types, p, own, TRUE)
    PROVE  PromotedInLevels(types, p, own)
<1>1. ReachedInLevels(types, p) = Reached(types, p)
  BY LevelsReachAll
<1>2. \A x \in own : x[1] \in Reached(types, p) /\ x[2] \in MethodsIn(types, x[1])
  BY DEF Promoted, TakenFrom
<1>3. ASSUME NEW x \in own PROVE \E n : AtDepth(types, p, x[2], n)
  <2>1. PICK n \in 0..Cardinality(DOMAIN types) : x[1] \in Deep(types, p, n)
    BY <1>1, <1>2 DEF ReachedInLevels
  <2> QED
    BY <1>2, <2>1 DEF AtDepth
<1> QED
  BY <1>1, <1>3 DEF Promoted, TakenFrom, PromotedInLevels

LEMMA LeastPromoted ==
    ASSUME NEW types, Closed(types), NEW p \in DOMAIN types,
           NEW own, Promoted(types, p, own, TRUE), NEW x \in own,
           NEW n, NEW t \in Deep(types, p, n), AtDepth(types, p, x[2], n),
           \A k : AtDepth(types, p, x[2], k) => n <= k,
           x[2] \in MethodsIn(types, t), Alike(types, x, t, x[2])
    PROVE  x[1] \in Deep(types, p, n) /\ x[2] \in MethodsIn(types, x[1])
<1> DEFINE levels == 0..Cardinality(DOMAIN types)
<1>1. Cardinality(DOMAIN types) \in Nat
  BY LevelsReachAll
<1>2. n \in Nat /\ n \in levels
  BY <1>1 DEF AtDepth
<1>3. NoDeeper(types, p, x[1], n) /\ x[2] \in MethodsIn(types, x[1])
  BY <1>2 DEF Promoted, TakenFrom
<1>4. PICK k \in Nat : k <= n /\ x[1] \in Deep(types, p, k)
  BY <1>3 DEF NoDeeper
<1>5. AtDepth(types, p, x[2], k)
  <2>1. k \in levels
    BY <1>1, <1>2, <1>4
  <2> QED
    BY <1>3, <1>4, <2>1 DEF AtDepth
<1>6. k = n
  BY <1>2, <1>4, <1>5
<1> QED
  BY <1>3, <1>4, <1>6

------------------------------------------------------------------------------
(* The pages that have been flattened, those that have not been, and the   *)
(* one that is.                                                            *)
Settled(p) == Promoted(app.types, p, owned[p], errs = {})

Untouched(p) == owned[p] = {p} \X MethodsIn(app.types, p)

FlatteningInv ==
    /\ unread \in Seq(Pages)
    /\ \A i, j \in DOMAIN unread : unread[i] = unread[j] => i = j
    /\ \A p \in Pages : p \in Elements(unread) \/ Settled(p)
    /\ \A i \in DOMAIN unread : i # 1 => Untouched(unread[i])
    /\ unread = <<>> => queue = <<>>
    /\ unread # <<>> =>
          /\ Searched(app.types, Page, visited \cup {Page}, queue)
          /\ TakenFrom(app.types, Page, visited \cup {Page}, owned[Page], errs = {})

PassesInv ==
    /\ app \in Applications
    /\ owned = [p \in Pages |-> owned[p]]
    /\ phase = "events" => visited = {} /\ \A p \in Pages : Untouched(p)
    /\ phase = "flatten" => FlatteningInv
    /\ phase \notin {"events", "flatten"} => \A p \in Pages : Settled(p)
    /\ phase \in {"accepted", "serving", "panicked"} => errs = {}

LEMMA DeclarationFacts ==
    ASSUME app \in Applications
    PROVE  /\ Closed(app.types)
           /\ app.pages \in Seq(Pages)
           /\ \A i, j \in DOMAIN app.pages : app.pages[i] = app.pages[j] => i = j
           /\ Elements(app.pages) = Pages
           /\ Pages \subseteq DOMAIN app.types
<1>1. Closed(app.types)
  BY DeclarationsAssumption DEF Closed, Embedded
<1>2. /\ app.pages \in Seq(Pages) /\ SE!IsInjective(app.pages)
      /\ \A p \in Pages : p \in DOMAIN app.types /\ \E i \in DOMAIN app.pages : app.pages[i] = p
  BY DeclarationsAssumption DEF Pages
<1>3. Elements(app.pages) = Pages
  BY <1>2 DEF Elements
<1> QED
  BY <1>1, <1>2, <1>3 DEF SE!IsInjective

LEMMA SettledStays ==
    ASSUME NEW p, Settled(p), app' = app, owned'[p] = owned[p], errs' = {} => errs = {}
    PROVE  Settled(p)'
<1>1. Promoted(app.types, p, owned[p], errs' = {})
  BY TakenStays DEF Settled, Promoted
<1> QED
  BY <1>1 DEF Settled

(* A page whose turn it is.                                                *)
LEMMA PageStarts ==
    ASSUME app \in Applications, NEW p \in Pages, Untouched(p), NEW clean
    PROVE  /\ Searched(app.types, p, {} \cup {p}, Embeds(p))
           /\ TakenFrom(app.types, p, {} \cup {p}, owned[p], clean)
<1>1. Closed(app.types) /\ p \in DOMAIN app.types
  BY DeclarationFacts
<1>2. {} \cup {p} = {p} /\ Embeds(p) = Embedded(app.types, p)
  BY DEF Embeds, Embedded
<1>3. Searched(app.types, p, {p}, Embedded(app.types, p))
  BY <1>1, SearchStarts
<1>4. TakenFrom(app.types, p, {p}, owned[p], clean)
  BY OwnMethods DEF Untouched
<1> QED
  BY <1>2, <1>3, <1>4

LEMMA AttachKeepsPasses ==
    ASSUME PassesInv, AttachMethods
    PROVE  PassesInv'
<1>1. /\ app \in Applications /\ app' = app /\ owned' = owned /\ visited' = {}
      /\ phase' = "flatten" /\ unread' = app.pages
      /\ queue' = IF app.pages = <<>> THEN <<>> ELSE Embeds(Head(app.pages))
      /\ owned = [p \in Pages |-> owned[p]]
      /\ \A p \in Pages : Untouched(p)
  BY DEF PassesInv, AttachMethods
<1>2. /\ unread' \in Seq(Pages) /\ Pages' = Pages
      /\ \A i, j \in DOMAIN unread' : unread'[i] = unread'[j] => i = j
      /\ \A p \in Pages : p \in Elements(unread')
  BY <1>1, DeclarationFacts DEF Pages
<1>3. \A p \in Pages : Untouched(p)'
  BY <1>1 DEF Untouched
<1>4. (\A i \in DOMAIN unread : Untouched(unread[i]))'
  <2>1. \A i \in DOMAIN unread' : unread'[i] \in Pages
    BY <1>2
  <2> QED
    BY <1>1, <2>1 DEF Untouched
<1>5. ASSUME unread' # <<>>
      PROVE  /\ Searched(app.types, Head(unread'), {} \cup {Head(unread')}, queue')
             /\ TakenFrom(app.types, Head(unread'), {} \cup {Head(unread')},
                          owned[Head(unread')], errs' = {})
  <2>1. Head(unread') \in Pages /\ queue' = Embeds(Head(unread'))
    BY <1>1, <1>2, <1>5
  <2> QED
    BY <1>1, <2>1, PageStarts
<1>6. unread' = <<>> => queue' = <<>>
  BY <1>1
<1>7. FlatteningInv'
  BY <1>1, <1>2, <1>4, <1>5, <1>6 DEF FlatteningInv, Page
<1> QED
  BY <1>1, <1>2, <1>7 DEF PassesInv

LEMMA FlattenNextKeepsPasses ==
    ASSUME PassesInv, FlattenNext
    PROVE  PassesInv'
<1> DEFINE t == Head(queue)
           V == visited \cup {Page}
           types == app.types
<1>1. /\ app \in Applications /\ app' = app /\ phase' = "flatten" /\ unread' = unread
      /\ queue # <<>> /\ FlatteningInv /\ Pages' = Pages /\ Page' = Page
      /\ owned = [p \in Pages |-> owned[p]]
  BY DEF PassesInv, FlattenNext, Pages, Page
<1>2. /\ unread \in Seq(Pages) /\ unread # <<>> /\ Page \in Pages /\ Page = unread[1]
      /\ 1 \in DOMAIN unread
      /\ \A i \in DOMAIN unread : i # 1 => unread[i] # Page /\ unread[i] \in Pages
      /\ \A p \in Pages : p \in Elements(unread) \/ p # Page
  BY <1>1 DEF FlatteningInv, Page, Elements
<1>3. /\ Searched(types, Page, V, queue)
      /\ TakenFrom(types, Page, V, owned[Page], errs = {})
      /\ Closed(types)
  BY <1>1, <1>2, DeclarationFacts DEF FlatteningInv
<1>4. queue \in Seq(DOMAIN types) /\ t \in DOMAIN types
  BY <1>1, <1>3 DEF Searched
<1>5. /\ Searched(types, Page, (visited \cup {Page})', queue')
      /\ TakenFrom(types, Page, (visited \cup {Page})', owned'[Page], errs' = {})
      /\ owned' = [p \in Pages |-> owned'[p]]
      /\ \A p \in Pages \ {Page} : owned'[p] = owned[p]
      /\ errs' = {} => errs = {}
  <2>1. CASE t \in visited
    <3>1. /\ queue' = Tail(queue) /\ visited' = visited /\ owned' = owned /\ errs' = errs
      BY <2>1 DEF FlattenNext
    <3>2. Kids(types, {t}) \subseteq V \cup Elements(queue) \cup Elements(<<>>)
      BY <1>3, <2>1 DEF Searched
    <3>3. <<>> \in Seq(DOMAIN types) /\ Elements(<<>>) \subseteq Kids(types, {t})
      BY DEF Elements
    <3>4. Searched(types, Page, V \cup {t}, Tail(queue) \o <<>>)
      BY <1>1, <1>3, <3>2, <3>3, SearchGoesOn
    <3>5. V \cup {t} = V /\ Tail(queue) \o <<>> = Tail(queue)
      <4>1. Tail(queue) \in Seq(DOMAIN types)
        BY <1>1, <1>4
      <4> QED
        BY <2>1, <4>1, ConcatEmptySeq
    <3> QED
      BY <1>1, <1>3, <3>1, <3>4, <3>5
  <2>2. CASE t \notin visited
    <3>1. PICK taken \in OneOfEachRole(t, Missing(t)) :
             owned' = [owned EXCEPT ![Page] = @ \cup ({t} \X taken)]
      BY <2>2 DEF FlattenNext
    <3>2. /\ queue' = Tail(queue) \o Embedded(types, t) /\ visited' = visited \cup {t}
          /\ errs' = errs \cup {"ErrConflictingEmbed" : m \in Clashing(t)}
      BY <2>2 DEF FlattenNext, Embeds, Embedded
    <3>3. (visited \cup {Page})' = V \cup {t}
      BY <1>1, <3>2
    <3>4. Embedded(types, t) \in Seq(DOMAIN types)
      BY <1>3, <1>4 DEF Closed
    <3>5. Kids(types, {t}) = Elements(Embedded(types, t))
      BY DEF Kids, Elements
    <3>6. Searched(types, Page, V \cup {t}, queue')
      BY <1>1, <1>3, <3>2, <3>4, <3>5, SearchGoesOn
    <3>7. errs' = {} => errs = {} /\ Clashing(t) = {}
      BY <3>2
    <3>8. /\ owned'[Page] = owned[Page] \cup ({t} \X taken)
          /\ owned' = [p \in Pages |-> owned'[p]]
          /\ \A p \in Pages \ {Page} : owned'[p] = owned[p]
      BY <1>1, <1>2, <3>1
    <3>9. /\ taken \subseteq MethodsIn(types, t)
          /\ \A m \in taken : \A x \in owned[Page] : ~Alike(types, x, t, m)
          /\ \A m \in MethodsIn(types, t) :
                \/ \E x \in owned[Page] : Alike(types, x, t, m)
                \/ \E k \in taken : RoleIn(types, t, k) = RoleIn(types, t, m)
      <4>1. /\ taken \subseteq Missing(t)
            /\ \A m \in Missing(t) : \E k \in taken : Role(t, k) = Role(t, m)
        BY DEF OneOfEachRole
      <4>2. Missing(t) = {m \in MethodsIn(types, t) : \A x \in owned[Page] : ~Alike(types, x, t, m)}
        BY RoleOfDeclared DEF Missing
      <4> HIDE DEF types, t
      <4> QED
        BY <4>1, <4>2, RoleOfDeclared DEF types
    <3>10. TakenFrom(types, Page, V \cup {t}, owned[Page] \cup ({t} \X taken), errs' = {})
      <4>1. CASE t = Page
        <5>1. V \cup {t} = V
          BY <4>1
        <5>2. taken = {}
          <6>1. t \in V
            BY <4>1
          <6>2. \A m \in MethodsIn(types, t) : \E x \in owned[Page] : Alike(types, x, t, m)
            BY <1>3, <6>1 DEF TakenFrom
          <6> HIDE DEF types, t
          <6> QED
            BY <3>9, <6>2
        <5>3. owned[Page] \cup ({t} \X taken) = owned[Page]
          BY <5>2
        <5> QED
          BY <1>3, <3>7, <5>1, <5>3, TakenStays
      <4>2. CASE t # Page
        <5>1. t \notin V
          BY <2>2, <4>2
        <5>2. errs' = {} => \A m \in MethodsIn(types, t) \ ActionNames : \A x \in owned[Page] :
                               Alike(types, x, t, m) => x[1] = Page
          <6>1. \A x \in owned[Page] : x[1] # t
            BY <1>3, <5>1 DEF TakenFrom
          <6>2. Clashing(t) = {m \in MethodsIn(types, t) \ ActionNames :
                   \E x \in owned[Page] : Alike(types, x, t, m) /\ x[1] \notin {Page, t}}
            BY RoleOfDeclared DEF Clashing
          <6> HIDE DEF types, t
          <6> QED
            BY <3>7, <6>1, <6>2
        <5> HIDE DEF V, types
        <5> QED
          BY <1>1, <1>3, <3>7, <3>9, <5>1, <5>2, TakeNext
      <4> QED
        BY <4>1, <4>2
    <3> QED
      BY <3>3, <3>6, <3>7, <3>8, <3>10
  <2> QED
    BY <2>1, <2>2
<1>6. \A p \in Pages : p \in Elements(unread) \/ Settled(p)'
  <2>1. \A p \in Pages : p \in Elements(unread) \/ (Settled(p) /\ owned'[p] = owned[p])
    <3>1. Page \in Elements(unread)
      BY <1>2 DEF Elements
    <3> QED
      BY <1>1, <1>5, <3>1 DEF FlatteningInv
  <2> QED
    BY <1>1, <1>5, <2>1, SettledStays
<1>7. \A i \in DOMAIN unread : i # 1 => Untouched(unread[i])'
  <2>1. \A i \in DOMAIN unread : i # 1 => Untouched(unread[i]) /\ owned'[unread[i]] = owned[unread[i]]
    BY <1>1, <1>2, <1>5 DEF FlatteningInv
  <2> QED
    BY <1>1, <2>1 DEF Untouched
<1>8. FlatteningInv'
  BY <1>1, <1>2, <1>5, <1>6, <1>7 DEF FlatteningInv
<1> QED
  BY <1>1, <1>5, <1>8 DEF PassesInv

LEMMA FlattenDoneKeepsPasses ==
    ASSUME PassesInv, FlattenDone
    PROVE  PassesInv'
<1> DEFINE rest == Tail(unread)
           n == Len(unread)
<1>1. /\ app \in Applications /\ app' = app /\ phase' = "flatten" /\ unread' = rest
      /\ queue = <<>> /\ unread # <<>> /\ FlatteningInv /\ Pages' = Pages
      /\ owned' = owned /\ owned = [p \in Pages |-> owned[p]]
      /\ visited' = {} /\ errs' = errs
      /\ queue' = IF rest = <<>> THEN <<>> ELSE Embeds(Head(rest))
  BY DEF PassesInv, FlattenDone, Pages
<1>2. /\ unread \in Seq(Pages) /\ n \in Nat \ {0} /\ DOMAIN unread = 1..n
      /\ Page \in Pages /\ Page = unread[1]
  BY <1>1 DEF FlatteningInv, Page
<1>3. /\ rest \in Seq(Pages) /\ DOMAIN rest = 1..(n - 1)
      /\ \A i \in 1..(n - 1) : rest[i] = unread[i + 1]
      /\ rest # <<>> => Head(rest) = rest[1] /\ 1 \in DOMAIN rest
  BY <1>2
<1> HIDE DEF rest, n
<1>4. \A i \in 1..(n - 1) : i + 1 \in 1..n /\ i + 1 # 1
  BY <1>2
<1>5. \A i, j \in DOMAIN rest : rest[i] = rest[j] => i = j
  <2>1. \A i, j \in DOMAIN unread : unread[i] = unread[j] => i = j
    BY <1>1 DEF FlatteningInv
  <2>2. ASSUME NEW i \in 1..(n - 1), NEW j \in 1..(n - 1), rest[i] = rest[j] PROVE i = j
    <3>1. i + 1 = j + 1
      BY <1>2, <1>3, <1>4, <2>1, <2>2
    <3> QED
      BY <3>1
  <2> QED
    BY <1>3, <2>2
<1>6. \A i \in DOMAIN rest : rest[i] \in Pages /\ Untouched(rest[i])
  BY <1>1, <1>2, <1>3, <1>4 DEF FlatteningInv
<1>7. Settled(Page)
  <2>1. /\ Searched(app.types, Page, visited \cup {Page}, <<>>)
        /\ TakenFrom(app.types, Page, visited \cup {Page}, owned[Page], errs = {})
    BY <1>1 DEF FlatteningInv
  <2> QED
    BY <2>1, TakenAtTheEnd DEF Settled
<1>8. \A p \in Pages : p \in Elements(rest) \/ Settled(p)
  <2>1. \A i \in 1..n : i = 1 \/ \E k \in 1..(n - 1) : i = k + 1
    <3>1. \A i \in 1..n : i = 1 \/ (i - 1 \in 1..(n - 1) /\ i = (i - 1) + 1)
      BY <1>2
    <3> QED
      BY <3>1
  <2>2. ASSUME NEW i \in 1..n PROVE unread[i] = Page \/ unread[i] \in Elements(rest)
    <3>1. CASE i = 1
      BY <1>2, <3>1
    <3>2. CASE \E k \in 1..(n - 1) : i = k + 1
      BY <1>3, <3>2 DEF Elements
    <3> QED
      BY <2>1, <3>1, <3>2
  <2>3. \A p \in Elements(unread) : p = Page \/ p \in Elements(rest)
    BY <1>2, <2>2 DEF Elements
  <2> QED
    BY <1>1, <1>7, <2>3 DEF FlatteningInv
<1>9. \A p \in Pages : p \in Elements(rest) \/ Settled(p)'
  BY <1>1, <1>8 DEF Settled
<1>10. (\A i \in DOMAIN unread : Untouched(unread[i]))'
  BY <1>1, <1>6 DEF Untouched
<1>11. ASSUME rest # <<>>
       PROVE  /\ Searched(app.types, Head(rest), {} \cup {Head(rest)}, queue')
              /\ TakenFrom(app.types, Head(rest), {} \cup {Head(rest)},
                           owned[Head(rest)], errs = {})
  <2>1. Head(rest) \in Pages /\ Untouched(Head(rest)) /\ queue' = Embeds(Head(rest))
    BY <1>1, <1>3, <1>6, <1>11
  <2> QED
    BY <1>1, <2>1, PageStarts
<1>12. FlatteningInv'
  BY <1>1, <1>3, <1>5, <1>9, <1>10, <1>11 DEF FlatteningInv, Page
<1> QED
  BY <1>1, <1>12 DEF PassesInv

(* flattenPage leaves each page with a method for each role declared in its*)
(* reach, taken from a type at the least depth that has one.               *)
THEOREM PassesInvariance == Spec => []PassesInv
<1>1. Init => PassesInv
  BY DEF Init, PassesInv, Pages, Untouched, Methods, MethodsIn
<1>2. PassesInv /\ [Next]_vars => PassesInv'
  <2> SUFFICES ASSUME PassesInv, [Next]_vars PROVE PassesInv'
    OBVIOUS
  <2>1. CASE ClaimEvent
    BY <2>1 DEF ClaimEvent, PassesInv, Pages, Untouched
  <2>2. CASE AttachMethods
    BY <2>2, AttachKeepsPasses
  <2>3. CASE FlattenNext
    BY <2>3, FlattenNextKeepsPasses
  <2>4. CASE FlattenDone
    BY <2>4, FlattenDoneKeepsPasses
  <2>5. ASSUME app' = app, owned' = owned, errs' = {} => errs = {},
               phase # "events", phase = "flatten" => unread = <<>>,
               phase' \notin {"events", "flatten"},
               phase' \in {"accepted", "serving", "panicked"} => errs' = {}
        PROVE  PassesInv'
    <3>1. \A p \in Pages : Settled(p)
      BY <2>5 DEF PassesInv, FlatteningInv, Elements
    <3>2. \A p \in Pages : Settled(p)'
      BY <2>5, <3>1, SettledStays
    <3> QED
      BY <2>5, <3>2 DEF PassesInv, Pages
  <2>6. CASE RequireHandlers
    BY <2>5, <2>6 DEF RequireHandlers
  <2>7. CASE ClaimRoute
    BY <2>5, <2>7 DEF ClaimRoute
  <2>8. CASE ParseReturns
    BY <2>5, <2>8 DEF ParseReturns
  <2>9. CASE SetupHandlers
    <3>1. errs = {} /\ errs' = errs /\ phase' \notin {"events", "flatten"}
      BY <2>9 DEF SetupHandlers, PassesInv
    <3> QED
      BY <2>5, <2>9, <3>1 DEF SetupHandlers
  <2>10. CASE UNCHANGED vars
    <3>1. PassesInv' <=> PassesInv
      BY <2>10 DEF vars, PassesInv, FlatteningInv, Pages, Settled, Untouched, Page
    <3> QED
      BY <3>1
  <2> QED
    BY <2>1, <2>2, <2>3, <2>4, <2>6, <2>7, <2>8, <2>9, <2>10 DEF Next
<1> QED
  BY <1>1, <1>2, PTL DEF Spec

(* What an accepted page has of each role is what Go's promotion of its    *)
(* name reaches, where that is one method and plays the role.              *)
THEOREM TakenFromThePromotedHolds == Spec => []TakenFromThePromoted
<1>1. ASSUME PassesInv, phase = "accepted", NEW p \in Pages
      PROVE  LET reach == UNION {Level(p, n) : n \in Levels}
             IN /\ \A t \in reach : \A m \in Methods(t) :
                      \E x \in owned[p] : Plays(x, Role(t, m))
                /\ \A x \in owned[p], t \in reach :
                      Promoters(p, x[2]) = {t} /\ Plays(x, Role(t, x[2])) => x[1] = t
                /\ \A x \in owned[p], t \in reach : \A m \in Methods(t) \ ActionNames :
                      Plays(x, Role(t, m)) /\ x[1] # p => x[1] = t
  <2> DEFINE reach == UNION {Level(p, n) : n \in Levels}
  <2>0. PICK types, own : types = app.types /\ own = owned[p]
    OBVIOUS
  <2>1. Promoted(types, p, own, TRUE)
    BY <1>1, <2>0 DEF PassesInv, Settled
  <2>2. Closed(types) /\ p \in DOMAIN types
    BY <1>1, <2>0, DeclarationFacts DEF PassesInv
  <2>3. Levels = 0..Cardinality(DOMAIN types)
    BY <2>0 DEF Levels
  <2>4. /\ \A t : Methods(t) = MethodsIn(types, t)
        /\ \A x, t, m : Plays(x, Role(t, m)) <=> Alike(types, x, t, m)
    BY <2>0, RoleOfDeclared
  <2>5. \A n : Level(p, n) = Deep(types, p, n)
    BY <2>0, LevelIsDeep
  <2>6. reach = ReachedInLevels(types, p)
    BY <2>3, <2>5 DEF ReachedInLevels
  <2> HIDE DEF reach
  <2>7. PromotedInLevels(types, p, own)
    BY <2>1, <2>2, PromotedWithinLevels
  <2>8. /\ \A t \in reach : \A m \in MethodsIn(types, t) : \E x \in own : Alike(types, x, t, m)
        /\ \A x \in own, t \in reach : \A m \in MethodsIn(types, t) \ ActionNames :
              Alike(types, x, t, m) /\ x[1] # p => x[1] = t
    BY <2>6, <2>7 DEF PromotedInLevels
  <2>9. ASSUME NEW x \in own, NEW t \in reach, Promoters(p, x[2]) = {t}, Alike(types, x, t, x[2])
        PROVE  x[1] = t
    <3> DEFINE depths == {n \in Levels : \E u \in Level(p, n) : x[2] \in Methods(u)}
               least == Shallowest(p, x[2])
    <3>0. least = CHOOSE n \in depths : \A k \in depths : n <= k
      BY DEF Shallowest
    <3>1. \A n : n \in depths <=> AtDepth(types, p, x[2], n)
      BY <2>3, <2>4, <2>5 DEF AtDepth
    <3>2. least \in depths /\ \A k \in depths : least <= k
      <4>1. \E n : AtDepth(types, p, x[2], n)
        BY <2>7, <2>9 DEF PromotedInLevels
      <4>2. depths # {} /\ depths \in SUBSET Nat
        <5>1. Cardinality(DOMAIN types) \in Nat
          BY <2>2, FS_CardinalityType DEF Closed
        <5> QED
          BY <2>3, <3>1, <4>1, <5>1
      <4> HIDE DEF depths, least
      <4>3. \E n \in depths : \A k \in depths : n <= k
        BY <4>2, LeastNat
      <4> QED
        BY <3>0, <4>3
    <3>3. \A u : u \in Promoters(p, x[2]) <=>
                   u \in Deep(types, p, least) /\ x[2] \in MethodsIn(types, u)
      BY <2>4, <2>5 DEF Promoters
    <3> HIDE DEF least, depths
    <3>4. t \in Deep(types, p, least) /\ x[2] \in MethodsIn(types, t)
      BY <2>9, <3>3
    <3>5. AtDepth(types, p, x[2], least) /\ \A k : AtDepth(types, p, x[2], k) => least <= k
      BY <3>1, <3>2
    <3>6. x[1] \in Deep(types, p, least) /\ x[2] \in MethodsIn(types, x[1])
      BY <2>1, <2>2, <2>9, <3>4, <3>5, LeastPromoted
    <3> QED
      BY <2>9, <3>3, <3>6
  <2> QED
    BY <2>0, <2>4, <2>8, <2>9 DEF reach
<1>2. PassesInv => TakenFromThePromoted
  BY <1>1 DEF TakenFromThePromoted
<1> QED
  BY <1>2, PassesInvariance, PTL

------------------------------------------------------------------------------
(* Two patterns are in each other's way if they conflict, those whose      *)
(* routes are in X left aside.                                             *)
Barred(X, a, b) == a.route \notin X /\ b.route \notin X /\ Conflict(a, b)

Clear(X, s) == \A i, j \in DOMAIN s : i # j => ~Barred(X, s[i], s[j])

ClearOf(X, s, t) == \A i \in DOMAIN s, j \in DOMAIN t : ~Barred(X, s[i], t[j])

LEMMA BarredSymmetric ==
    ASSUME NEW X, NEW a, NEW b
    PROVE  Barred(X, a, b) <=> Barred(X, b, a)
<1>1. \A r, q : Share(r, q) => Share(q, r)
  BY DEF Share, Meet
<1> QED
  BY <1>1 DEF Barred, Conflict

LEMMA JoinedClear ==
    ASSUME NEW X, NEW S, NEW s \in Seq(S), NEW t \in Seq(S)
    PROVE  /\ s \o t \in Seq(S)
           /\ Clear(X, s \o t) <=> Clear(X, s) /\ Clear(X, t) /\ ClearOf(X, s, t)
           /\ \A u : ClearOf(X, s \o t, u) <=> ClearOf(X, s, u) /\ ClearOf(X, t, u)
<1> DEFINE n == Len(s)
           m == Len(t)
           st == s \o t
<1>1. /\ n \in Nat /\ m \in Nat /\ DOMAIN s = 1..n /\ DOMAIN t = 1..m
      /\ st \in Seq(S) /\ DOMAIN st = 1..(n + m)
      /\ \A i \in 1..n : st[i] = s[i]
      /\ \A i \in 1..m : st[n + i] = t[i]
  OBVIOUS
<1> HIDE DEF n, m, st
<1>2. \A i \in 1..(n + m) : i \in 1..n \/ \E k \in 1..m : i = n + k
  <2> TAKE i \in 1..(n + m)
  <2>1. i \in 1..n \/ (i - n \in 1..m /\ i = n + (i - n))
    BY <1>1
  <2> QED
    BY <2>1
<1>3. \A i \in 1..n : i \in 1..(n + m)
  BY <1>1
<1>4. \A k \in 1..m : n + k \in 1..(n + m) /\ n + k \notin 1..n
  BY <1>1
<1>5. \A k, l \in 1..m : n + k = n + l => k = l
  BY <1>1
<1>6. Clear(X, st) => Clear(X, s) /\ Clear(X, t) /\ ClearOf(X, s, t)
  <2>1. ASSUME Clear(X, st) PROVE Clear(X, s)
    BY <1>1, <1>3, <2>1 DEF Clear
  <2>2. ASSUME Clear(X, st) PROVE Clear(X, t)
    <3> SUFFICES ASSUME NEW k \in 1..m, NEW l \in 1..m, k # l PROVE ~Barred(X, t[k], t[l])
      BY <1>1 DEF Clear
    <3>1. ~Barred(X, st[n + k], st[n + l])
      BY <1>1, <1>4, <1>5, <2>2 DEF Clear
    <3> QED
      BY <1>1, <3>1
  <2>3. ASSUME Clear(X, st) PROVE ClearOf(X, s, t)
    <3> SUFFICES ASSUME NEW i \in 1..n, NEW l \in 1..m PROVE ~Barred(X, s[i], t[l])
      BY <1>1 DEF ClearOf
    <3>1. ~Barred(X, st[i], st[n + l])
      BY <1>1, <1>3, <1>4, <2>3 DEF Clear
    <3> QED
      BY <1>1, <3>1
  <2> QED
    BY <2>1, <2>2, <2>3
<1>7. ASSUME Clear(X, s), Clear(X, t), ClearOf(X, s, t)
      PROVE  Clear(X, st)
  <2> SUFFICES ASSUME NEW i \in 1..(n + m), NEW j \in 1..(n + m), i # j
               PROVE  ~Barred(X, st[i], st[j])
    BY <1>1 DEF Clear
  <2>1. CASE i \in 1..n /\ j \in 1..n
    BY <1>1, <1>7, <2>1 DEF Clear
  <2>2. CASE i \in 1..n /\ j \notin 1..n
    <3>1. PICK l \in 1..m : j = n + l
      BY <1>2, <2>2
    <3>2. ~Barred(X, s[i], t[l])
      BY <1>1, <1>7, <2>2 DEF ClearOf
    <3> QED
      BY <1>1, <2>2, <3>1, <3>2
  <2>3. CASE i \notin 1..n /\ j \in 1..n
    <3>1. PICK k \in 1..m : i = n + k
      BY <1>2, <2>3
    <3>2. ~Barred(X, s[j], t[k])
      BY <1>1, <1>7, <2>3 DEF ClearOf
    <3> QED
      BY <1>1, <2>3, <3>1, <3>2, BarredSymmetric
  <2>4. CASE i \notin 1..n /\ j \notin 1..n
    <3>1. PICK k \in 1..m : i = n + k
      BY <1>2, <2>4
    <3>2. PICK l \in 1..m : j = n + l
      BY <1>2, <2>4
    <3> QED
      BY <1>1, <1>7, <3>1, <3>2 DEF Clear
  <2> QED
    BY <2>1, <2>2, <2>3, <2>4
<1>8. ASSUME NEW u
      PROVE  ClearOf(X, st, u) <=> ClearOf(X, s, u) /\ ClearOf(X, t, u)
  <2>1. ASSUME ClearOf(X, st, u) PROVE ClearOf(X, s, u)
    BY <1>1, <1>3, <2>1 DEF ClearOf
  <2>2. ASSUME ClearOf(X, st, u) PROVE ClearOf(X, t, u)
    <3> SUFFICES ASSUME NEW k \in 1..m, NEW j \in DOMAIN u PROVE ~Barred(X, t[k], u[j])
      BY <1>1 DEF ClearOf
    <3>1. ~Barred(X, st[n + k], u[j])
      BY <1>1, <1>4, <2>2 DEF ClearOf
    <3> QED
      BY <1>1, <3>1
  <2>3. ASSUME ClearOf(X, s, u), ClearOf(X, t, u) PROVE ClearOf(X, st, u)
    <3> SUFFICES ASSUME NEW i \in 1..(n + m), NEW j \in DOMAIN u PROVE ~Barred(X, st[i], u[j])
      BY <1>1 DEF ClearOf
    <3>1. CASE i \in 1..n
      BY <1>1, <2>3, <3>1 DEF ClearOf
    <3>2. CASE i \notin 1..n
      <4>1. PICK k \in 1..m : i = n + k
        BY <1>2, <3>2
      <4>2. ~Barred(X, t[k], u[j])
        BY <1>1, <2>3 DEF ClearOf
      <4> QED
        BY <1>1, <4>1, <4>2
    <3> QED
      BY <3>1, <3>2
  <2> QED
    BY <2>1, <2>2, <2>3
<1> QED
  BY <1>1, <1>6, <1>7, <1>8 DEF st

(* FlattenSeq, by the unfolding of its recursion.                          *)
Joins(ss, n, g) == g = [i \in 1..n |-> IF i = 1 THEN ss[i] ELSE g[i - 1] \o ss[i]]

LEMMA FlattenJoins ==
    ASSUME NEW S, NEW ss \in Seq(S), ss # <<>>
    PROVE  \E g : Joins(ss, Len(ss), g) /\ SE!FlattenSeq(ss) = g[Len(ss)]
<1> DEFINE T == {n \in Nat : \E g : Joins(ss, n, g)}
<1>1. 0 \in T
  <2>1. Joins(ss, 0, [i \in 1..0 |-> i])
    <3>1. 1..0 = {}
      OBVIOUS
    <3> QED
      BY <3>1 DEF Joins
  <2> QED
    BY <2>1
<1>2. ASSUME NEW n \in T PROVE n + 1 \in T
  <2>1. PICK g : Joins(ss, n, g)
    OBVIOUS
  <2> DEFINE h == [i \in 1..(n + 1) |->
                      IF i = n + 1 THEN (IF i = 1 THEN ss[i] ELSE g[n] \o ss[i]) ELSE g[i]]
  <2>2. n \in Nat /\ \A i \in 1..n : g[i] = IF i = 1 THEN ss[i] ELSE g[i - 1] \o ss[i]
    BY <2>1 DEF Joins
  <2>3. ASSUME NEW i \in 1..(n + 1)
        PROVE  h[i] = IF i = 1 THEN ss[i] ELSE h[i - 1] \o ss[i]
    <3>1. CASE i = n + 1
      <4>1. i # 1 => i - 1 \in 1..(n + 1) /\ i - 1 = n /\ i - 1 # n + 1
        BY <2>2, <3>1
      <4> QED
        BY <3>1, <4>1
    <3>2. CASE i # n + 1
      <4>1. i \in 1..n /\ (i # 1 => i - 1 \in 1..(n + 1) /\ i - 1 # n + 1)
        BY <2>2, <3>2
      <4> QED
        BY <2>2, <3>2, <4>1
    <3> QED
      BY <3>1, <3>2
  <2>4. Joins(ss, n + 1, h)
    <3> DEFINE k == [i \in 1..(n + 1) |-> IF i = 1 THEN ss[i] ELSE h[i - 1] \o ss[i]]
    <3>1. h = k
      BY <2>3
    <3> HIDE DEF h
    <3> QED
      BY <3>1 DEF Joins
  <2> QED
    BY <2>2, <2>4
<1>3. T = Nat
  BY <1>1, <1>2, SetInduction
<1>4. Len(ss) \in Nat /\ Len(ss) # 0
  OBVIOUS
<1>5. \E g : Joins(ss, Len(ss), g)
  BY <1>3, <1>4
<1> DEFINE f == CHOOSE g : Joins(ss, Len(ss), g)
<1>6. SE!FlattenSeq(ss) = f[Len(ss)]
  BY <1>4 DEF SE!FlattenSeq, Joins
<1>7. Joins(ss, Len(ss), f)
  BY <1>5
<1> QED
  BY <1>6, <1>7

LEMMA FlattenedClear ==
    ASSUME NEW X, NEW S, NEW ss \in Seq(Seq(S))
    PROVE  /\ SE!FlattenSeq(ss) \in Seq(S)
           /\ Clear(X, SE!FlattenSeq(ss)) <=>
                /\ \A i \in DOMAIN ss : Clear(X, ss[i])
                /\ \A i, j \in DOMAIN ss : i < j => ClearOf(X, ss[i], ss[j])
           /\ \A u : ClearOf(X, SE!FlattenSeq(ss), u) <=>
                        \A i \in DOMAIN ss : ClearOf(X, ss[i], u)
<1>1. CASE ss = <<>>
  <2>1. SE!FlattenSeq(ss) = <<>> /\ <<>> \in Seq(S) /\ DOMAIN <<>> = {}
    BY <1>1 DEF SE!FlattenSeq
  <2>2. Clear(X, <<>>) /\ \A u : ClearOf(X, <<>>, u)
    BY <2>1 DEF Clear, ClearOf
  <2> HIDE DEF SE!FlattenSeq
  <2> QED
    BY <1>1, <2>1, <2>2
<1>2. CASE ss # <<>>
  <2> DEFINE N == Len(ss)
  <2>1. PICK g : Joins(ss, N, g) /\ SE!FlattenSeq(ss) = g[N]
    BY <1>2, FlattenJoins
  <2>2. N \in Nat /\ N # 0 /\ DOMAIN ss = 1..N /\ \A i \in 1..N : ss[i] \in Seq(S)
    BY <1>2
  <2>3. \A i \in 1..N : g[i] = IF i = 1 THEN ss[i] ELSE g[i - 1] \o ss[i]
    BY <2>1 DEF Joins
  <2> HIDE DEF N
  <2> DEFINE Good(k) ==
               /\ g[k] \in Seq(S)
               /\ Clear(X, g[k]) <=>
                    /\ \A i \in 1..k : Clear(X, ss[i])
                    /\ \A i, j \in 1..k : i < j => ClearOf(X, ss[i], ss[j])
               /\ \A u : ClearOf(X, g[k], u) <=> \A i \in 1..k : ClearOf(X, ss[i], u)
             T == {n \in Nat : n < N => Good(n + 1)}
  <2>4. 0 \in T
    <3>1. 1 \in 1..N /\ g[1] = ss[1] /\ 1..1 = {1} /\ 0 + 1 = 1
      BY <2>2, <2>3
    <3>2. ~(1 < 1)
      OBVIOUS
    <3> QED
      BY <2>2, <3>1, <3>2
  <2>5. ASSUME NEW n \in T PROVE n + 1 \in T
    <3>1. SUFFICES ASSUME n + 1 < N PROVE Good((n + 1) + 1)
      OBVIOUS
    <3> DEFINE k == n + 1
               l == (n + 1) + 1
    <3>2. /\ n \in Nat /\ k \in 1..N /\ l \in 1..N /\ l # 1 /\ l - 1 = k
          /\ \A i \in 1..l : i \in 1..k \/ i = l
          /\ \A i \in 1..k : i \in 1..l /\ i < l
          /\ l \in 1..l
          /\ \A i, j \in 1..l : i < j => i \in 1..k
      BY <2>2, <3>1
    <3>3. Good(k)
      BY <2>2, <3>1
    <3> HIDE DEF k, l
    <3>4. g[l] = g[k] \o ss[l] /\ ss[l] \in Seq(S) /\ g[k] \in Seq(S)
      BY <2>2, <2>3, <3>2, <3>3
    <3> DEFINE s == g[k]
               t == ss[l]
    <3>5. /\ g[l] \in Seq(S)
          /\ Clear(X, g[l]) <=> Clear(X, g[k]) /\ Clear(X, ss[l]) /\ ClearOf(X, g[k], ss[l])
          /\ \A u : ClearOf(X, g[l], u) <=> ClearOf(X, g[k], u) /\ ClearOf(X, ss[l], u)
      <4> HIDE DEF Good, T
      <4>1. s \in Seq(S) /\ t \in Seq(S) /\ g[l] = s \o t
        BY <3>4
      <4> HIDE DEF s, t
      <4>2. /\ s \o t \in Seq(S)
            /\ Clear(X, s \o t) <=> Clear(X, s) /\ Clear(X, t) /\ ClearOf(X, s, t)
            /\ \A u : ClearOf(X, s \o t, u) <=> ClearOf(X, s, u) /\ ClearOf(X, t, u)
        BY <4>1, JoinedClear
      <4> QED
        BY <4>1, <4>2 DEF s, t
    <3>6. \A u : ClearOf(X, g[l], u) <=> \A i \in 1..l : ClearOf(X, ss[i], u)
      BY <3>2, <3>3, <3>5
    <3>7. Clear(X, g[l]) <=>
             /\ \A i \in 1..l : Clear(X, ss[i])
             /\ \A i, j \in 1..l : i < j => ClearOf(X, ss[i], ss[j])
      <4>1. ClearOf(X, g[k], ss[l]) <=> \A i \in 1..k : ClearOf(X, ss[i], ss[l])
        BY <3>3
      <4>2. (\A i \in 1..l : Clear(X, ss[i])) <=> (\A i \in 1..k : Clear(X, ss[i])) /\ Clear(X, ss[l])
        BY <3>2
      <4>3. (\A i, j \in 1..l : i < j => ClearOf(X, ss[i], ss[j])) <=>
               /\ \A i, j \in 1..k : i < j => ClearOf(X, ss[i], ss[j])
               /\ \A i \in 1..k : ClearOf(X, ss[i], ss[l])
        BY <3>2
      <4>4. Clear(X, g[k]) <=>
               /\ \A i \in 1..k : Clear(X, ss[i])
               /\ \A i, j \in 1..k : i < j => ClearOf(X, ss[i], ss[j])
        BY <3>3
      <4> QED
        BY <3>5, <4>1, <4>2, <4>3, <4>4
    <3> QED
      BY <3>5, <3>6, <3>7 DEF k, l
  <2>6. T = Nat
    <3> HIDE DEF Good
    <3> QED
      BY <2>4, <2>5, SetInduction
  <2>7. Good(N)
    <3>1. N - 1 \in Nat /\ N - 1 < N /\ (N - 1) + 1 = N
      BY <2>2
    <3> HIDE DEF Good
    <3> QED
      BY <2>6, <3>1
  <2> QED
    BY <2>1, <2>2, <2>7
<1> QED
  BY <1>1, <1>2

------------------------------------------------------------------------------
(* Lists of finite sets.                                                   *)
LEMMA ListedOnce ==
    ASSUME NEW S, IsFiniteSet(S)
    PROVE  /\ SE!SetToSeq(S) \in Seq(S)
           /\ \A i, j \in DOMAIN SE!SetToSeq(S) : SE!SetToSeq(S)[i] = SE!SetToSeq(S)[j] => i = j
           /\ \A x \in S : \E i \in DOMAIN SE!SetToSeq(S) : SE!SetToSeq(S)[i] = x
<1> DEFINE N == Cardinality(S)
           f == SE!SetToSeq(S)
<1>1. N \in Nat /\ ExistsBijection(1..N, S)
  BY FS_CardinalityType
<1>2. PICK g \in Bijection(1..N, S) : TRUE
  BY <1>1 DEF ExistsBijection
<1>3. g \in [1..N -> S] /\ SE!IsInjective(g)
  BY <1>2 DEF Bijection, Injection, IsInjective, SE!IsInjective
<1>4. f \in [1..N -> S] /\ SE!IsInjective(f)
  <2>1. f = CHOOSE h \in [1..N -> S] : SE!IsInjective(h)
    <3>1. SE!Cardinality(S) = N
      BY Zenon DEF SE!Cardinality, Cardinality
    <3> QED
      BY Zenon, <3>1 DEF SE!SetToSeq
  <2> HIDE DEF f, N
  <2>2. \E h \in [1..N -> S] : SE!IsInjective(h)
    BY <1>3
  <2> QED
    BY <2>1, <2>2
<1> HIDE DEF f, N
<1>5. f \in Injection(1..N, S)
  BY <1>4 DEF Injection, IsInjective, SE!IsInjective
<1>6. IsFiniteSet(1..N) /\ Cardinality(1..N) = N
  BY <1>1, FS_Interval
<1>7. f \in Surjection(1..N, S)
  BY <1>5, <1>6, FS_Injection DEF N
<1>8. f \in Seq(S) /\ DOMAIN f = 1..N
  BY <1>1, <1>4
<1>9. \A x \in S : \E i \in DOMAIN f : f[i] = x
  BY <1>7, <1>8 DEF Surjection
<1> QED
  BY <1>4, <1>8, <1>9 DEF f, SE!IsInjective

LEMMA ImageFinite ==
    ASSUME NEW S, IsFiniteSet(S), NEW f, DOMAIN f = S
    PROVE  IsFiniteSet({f[x] : x \in S})
<1> DEFINE T == {f[x] : x \in S}
           g == [x \in S |-> f[x]]
<1>1. g \in Surjection(S, T)
  BY DEF Surjection
<1> QED
  BY <1>1, FS_Surjection

LEMMA ClearOfSymmetric ==
    ASSUME NEW X, NEW s, NEW t
    PROVE  ClearOf(X, s, t) <=> ClearOf(X, t, s)
BY BarredSymmetric DEF ClearOf

------------------------------------------------------------------------------
(* A route of literals and {name}, and the pattern that closes it.         *)
Segment == STRING \cup {"", "_$", "anon", End}
Bare(route) == route[Len(route)] \notin {"", End, Rest}

LEMMA Segments ==
    "" \in Segment /\ "_$" \in Segment /\ "anon" \in Segment /\ End \in Segment
BY DEF Segment

LEMMA Appended ==
    ASSUME NEW r \in Seq(Segment), NEW x \in Segment
    PROVE  /\ Append(r, x) \in Seq(Segment) /\ Append(r, x) = r \o <<x>>
           /\ Len(r) \in Nat /\ Len(Append(r, x)) = Len(r) + 1
           /\ \A i \in 1..Len(r) : Append(r, x)[i] = r[i]
           /\ Append(r, x)[Len(r) + 1] = x
           /\ SubSeq(Append(r, x), 1, Len(r)) = r
           /\ DOMAIN r = 1..Len(r) /\ (r # <<>> => Len(r) # 0)
<1>1. /\ Append(r, x) \in Seq(Segment) /\ Len(r) \in Nat /\ Len(Append(r, x)) = Len(r) + 1
      /\ \A i \in 1..Len(r) : Append(r, x)[i] = r[i]
      /\ Append(r, x)[Len(r) + 1] = x /\ DOMAIN r = 1..Len(r) /\ (r # <<>> => Len(r) # 0)
  OBVIOUS
<1>2. SubSeq(Append(r, x), 1, Len(r)) = r
  OBVIOUS
<1>3. Append(r, x) = r \o <<x>>
  OBVIOUS
<1> QED
  BY <1>1, <1>2, <1>3

LEMMA ClosedByEnd ==
    ASSUME NEW r \in Seq(Segment), r # <<>>, Bare(r)
    PROVE  Slashed(r, <<End>>) = Append(r, End)
<1>1. r[Len(r)] # "" /\ r[Len(r)] # End
  BY DEF Bare
<1>2. WithTrailingSlash(r) = Append(r, "")
  BY <1>1 DEF WithTrailingSlash
<1>3. Len(Append(r, "")) = Len(r) + 1 /\ Len(r) \in Nat /\ SubSeq(Append(r, ""), 1, Len(r)) = r
  BY Segments, Appended
<1>4. (Len(r) + 1) - 1 = Len(r)
  BY <1>3
<1>5. Slashed(r, <<End>>) = r \o <<End>>
  BY <1>2, <1>3, <1>4 DEF Slashed
<1> QED
  BY <1>5, Segments, Appended

LEMMA ClosedAlike ==
    ASSUME NEW r \in Seq(Segment), r # <<>>, Bare(r), NEW q \in Seq(Segment), q # <<>>, Bare(q)
    PROVE  /\ Share(Append(r, End), Append(q, End)) => Share(r, q)
           /\ Within(Append(r, End), Append(q, End)) <=> Within(r, q)
<1> DEFINE n == Len(r)
           m == Len(q)
           R == Append(r, End)
           Q == Append(q, End)
<1>1. /\ n \in Nat /\ m \in Nat /\ n # 0 /\ m # 0 /\ DOMAIN r = 1..n /\ DOMAIN q = 1..m
      /\ Len(R) = n + 1 /\ Len(Q) = m + 1 /\ DOMAIN R = 1..(n + 1) /\ DOMAIN Q = 1..(m + 1)
      /\ R[n + 1] = End /\ Q[m + 1] = End
      /\ \A i \in 1..n : R[i] = r[i]
      /\ \A i \in 1..m : Q[i] = q[i]
  <2>1. End \in Segment
    BY Segments
  <2>2. /\ n \in Nat /\ n # 0 /\ DOMAIN r = 1..n /\ R \in Seq(Segment)
        /\ Len(R) = n + 1 /\ R[n + 1] = End /\ \A i \in 1..n : R[i] = r[i]
    BY <2>1, Appended
  <2>3. /\ m \in Nat /\ m # 0 /\ DOMAIN q = 1..m /\ Q \in Seq(Segment)
        /\ Len(Q) = m + 1 /\ Q[m + 1] = End /\ \A i \in 1..m : Q[i] = q[i]
    BY <2>1, Appended
  <2> HIDE DEF n, m, R, Q
  <2>4. DOMAIN R = 1..(n + 1) /\ DOMAIN Q = 1..(m + 1)
    BY <2>2, <2>3
  <2> QED
    BY <2>2, <2>3, <2>4
<1>2. ~Multi(r) /\ ~Multi(q) /\ ~Multi(R) /\ ~Multi(Q)
  BY <1>1 DEF Multi, Bare, End, Rest
<1> HIDE DEF n, m, R, Q
<1>3. Share(r, q) <=> n = m /\ \A i \in 1..n : Meet(r[i], q[i])
  <2>1. Len(r) = n /\ Len(q) = m /\ ((n >= m /\ m >= n) <=> n = m)
    <3>1. Len(r) = n /\ Len(q) = m
      BY DEF n, m
    <3> QED
      BY <1>1, <3>1
  <2>2. Share(r, q) <=> n >= m /\ m >= n /\ \A i \in (1..n) \cap (1..m) : Meet(r[i], q[i])
    BY <1>1, <1>2, <2>1 DEF Share
  <2> QED
    BY <2>1, <2>2
<1>4. Share(R, Q) => n = m /\ \A i \in 1..n : Meet(R[i], Q[i])
  BY <1>1, <1>2 DEF Share
<1>5. Within(r, q) <=> n = m /\ \A i \in 1..n : Admits(q[i], r[i])
  BY <1>1, <1>2 DEF Within, n, m
<1>6. Within(R, Q) <=> n = m /\ \A i \in 1..(n + 1) : Admits(Q[i], R[i])
  <2>1. n + 1 = m + 1 <=> n = m
    BY <1>1
  <2> QED
    BY <1>1, <1>2, <2>1 DEF Within
<1>7. n = m => Admits(Q[n + 1], R[n + 1])
  BY <1>1 DEF Admits
<1>8. \A i \in 1..(n + 1) : i \in 1..n \/ i = n + 1
  BY <1>1
<1>9. \A i \in 1..n : i \in 1..(n + 1)
  BY <1>1
<1>10. Within(R, Q) <=> n = m /\ \A i \in 1..n : Admits(Q[i], R[i])
  BY <1>6, <1>7, <1>8, <1>9
<1>11. Share(R, Q) => Share(r, q)
  BY <1>1, <1>3, <1>4
<1>12. Within(R, Q) <=> Within(r, q)
  BY <1>1, <1>5, <1>10
<1> QED
  BY <1>11, <1>12 DEF R, Q

LEMMA RootIsWider ==
    ASSUME NEW r \in Seq(Segment), r # <<>>
    PROVE  Within(Append(r, End), Root) /\ ~Within(Root, Append(r, End))
<1> DEFINE R == Append(r, End)
<1>1. /\ Len(r) \in Nat /\ Len(r) # 0 /\ Len(R) = Len(r) + 1 /\ R[Len(r) + 1] = End
  BY Segments, Appended
<1>2. Len(Root) = 1 /\ Root[1] = ""
  BY DEF Root
<1>3. Multi(Root)
  BY <1>2 DEF Multi
<1>4. ~Multi(R)
  BY <1>1 DEF Multi, End, Rest
<1> HIDE DEF R
<1>5. Within(R, Root)
  <2>1. Within(R, Root) <=>
           Len(R) >= Len(Root) /\ \A i \in 1..(Len(Root) - 1) : Admits(Root[i], R[i])
    BY <1>3 DEF Within
  <2>2. Len(R) >= 1 /\ \A i \in 1..(1 - 1) : FALSE
    BY <1>1
  <2> QED
    BY <1>2, <2>1, <2>2
<1>6. ~Within(Root, R)
  <2>1. Within(Root, R) => Len(Root) = Len(R)
    BY <1>4 DEF Within
  <2>2. Len(R) # 1
    BY <1>1
  <2> QED
    BY <1>2, <2>1, <2>2
<1> QED
  BY <1>5, <1>6 DEF R

(* x is the pattern of the declared route of c.                            *)
Registers(x, c) ==
    /\ x.method = c.method
    /\ c.route \in Seq(Segment) /\ c.route # <<>>
    /\ \/ Bare(c.route) /\ x.route = Append(c.route, End)
       \/ x.route = Root

(* Two patterns that conflict have routes that do, unless both are "/".    *)
LEMMA ConflictOfRoutes ==
    ASSUME NEW x, NEW c, Registers(x, c), NEW y, NEW d, Registers(y, d),
           Conflict(x, y), x.route # Root \/ y.route # Root
    PROVE  Conflict(c, d)
<1> DEFINE xr == x.route
           yr == y.route
           r == c.route
           q == d.route
<1>1. /\ xr # Root \/ yr # Root
      /\ x.method = y.method
      /\ x.method = c.method /\ y.method = d.method
      /\ Share(xr, yr) /\ (Within(xr, yr) <=> Within(yr, xr))
      /\ r \in Seq(Segment) /\ r # <<>> /\ ((Bare(r) /\ xr = Append(r, End)) \/ xr = Root)
      /\ q \in Seq(Segment) /\ q # <<>> /\ ((Bare(q) /\ yr = Append(q, End)) \/ yr = Root)
  BY DEF Registers, Conflict
<1>2. c.method = d.method
  BY DEF Registers, Conflict
<1> HIDE DEF xr, yr, r, q
<1>3. xr # Root /\ yr # Root
  BY <1>1, RootIsWider
<1>4. Share(r, q) /\ (Within(r, q) <=> Within(q, r))
  <2>1. Bare(r) /\ xr = Append(r, End) /\ Bare(q) /\ yr = Append(q, End)
    BY <1>1, <1>3
  <2>2. Share(r, q) /\ (Within(xr, yr) <=> Within(r, q))
    BY <1>1, <2>1, ClosedAlike
  <2>3. Within(yr, xr) <=> Within(q, r)
    BY <1>1, <2>1, ClosedAlike
  <2> QED
    BY <1>1, <2>2, <2>3
<1> QED
  BY <1>2, <1>4 DEF Conflict, r, q

------------------------------------------------------------------------------
(* What is claimed for a page, by page, action and action of App.          *)
Pattern == [method : ActionMethods \cup {"GET"}, route : Seq(Segment)]

PageClaim(p) == [method |-> "GET", route |-> app.routeOf[p]]

LEMMA RouteFacts ==
    ASSUME app \in Applications
    PROVE  /\ \A p \in Pages : /\ app.routeOf[p] \in Seq(Segment) /\ app.routeOf[p] # <<>>
                               /\ p = Index => app.routeOf[p] = Root
                               /\ PageClaim(p) \in Pattern
           /\ app.actions \in Seq(ActionType)
           /\ \A a \in ActionType : a.route \in Seq(Segment) /\ a.route # <<>> /\ a \in Pattern
<1>1. STRING \in SUBSET Segment
  BY DEF Segment
<1>2. \A r \in RouteType : r \in Seq(Segment) /\ r # <<>>
  <2> TAKE r \in RouteType
  <2>1. r \in Seq(STRING) /\ r # <<>>
    BY DEF RouteType
  <2> QED
    BY <1>1, <2>1, SeqOfLarger
<1>3. /\ \A p \in Pages : app.routeOf[p] \in RouteType /\ (p = Index => app.routeOf[p] = Root)
      /\ app.actions \in Seq(ActionType)
  BY RoutesDeclaredAssumption DEF Pages
<1>4. \A a \in ActionType : a.route \in RouteType /\ a = [method |-> a.method, route |-> a.route]
                            /\ a.method \in ActionMethods
  BY DEF ActionType
<1>5. \A a \in ActionType : a \in Pattern
  BY <1>2, <1>4 DEF Pattern
<1>6. \A p \in Pages : PageClaim(p) \in Pattern
  BY <1>2, <1>3 DEF PageClaim, Pattern
<1> QED
  BY <1>2, <1>3, <1>4, <1>5, <1>6

LEMMA ActionsListed ==
    ASSUME app \in Applications, NEW p \in Pages, Settled(p)
    PROVE  ActionsOf(p) \in Seq(ActionType)
<1> DEFINE types == app.types
           own == owned[p]
           mine == {x \in own : x[2] \in ActionNames}
           s == SE!SetToSeq(mine)
           A == [i \in DOMAIN s |-> types[s[i][1]].methods[s[i][2]]]
<1>1. Closed(types) /\ p \in DOMAIN types
  BY DeclarationFacts
<1>2. Reached(types, p) \subseteq DOMAIN types
  BY <1>1, DeepDeclared DEF Reached
<1>3. \A x \in own : x[1] \in DOMAIN types /\ x[2] \in MethodsIn(types, x[1])
  BY <1>2 DEF Settled, Promoted, TakenFrom
<1>4. /\ \A t \in DOMAIN types : IsFiniteSet(MethodsIn(types, t))
      /\ \A t \in DOMAIN types, m \in ActionNames :
            m \in MethodsIn(types, t) => types[t].methods[m] \in ActionType
  BY RoutesDeclaredAssumption DEF MethodsIn
<1>5. IsFiniteSet(mine)
  <2> DEFINE g == [t \in DOMAIN types |-> {t} \X MethodsIn(types, t)]
             all == {g[t] : t \in DOMAIN types}
  <2>1. IsFiniteSet(all)
    <3>1. DOMAIN g = DOMAIN types /\ IsFiniteSet(DOMAIN types)
      BY <1>1 DEF Closed
    <3> HIDE DEF g
    <3> QED
      BY <3>1, ImageFinite
  <2>2. \A t \in DOMAIN types : IsFiniteSet({t} \X MethodsIn(types, t))
    BY <1>4, FS_Singleton, FS_Product
  <2>3. \A T \in all : IsFiniteSet(T)
    BY <2>2
  <2>4. \A x \in own : x = <<x[1], x[2]>>
    BY DEF Settled, Promoted, TakenFrom
  <2>5. \A x \in own : x \in g[x[1]]
    BY <1>3, <2>4
  <2>6. mine \in SUBSET UNION all
    BY <1>3, <2>5
  <2> HIDE DEF all, mine
  <2> QED
    BY <2>1, <2>3, <2>6, FS_UNION, FS_Subset
<1>6. s \in Seq(mine)
  BY <1>5, ListedOnce
<1>7. ActionsOf(p) = A
  BY DEF ActionsOf
<1> HIDE DEF s
<1>8. /\ DOMAIN s = 1..Len(s) /\ Len(s) \in Nat
      /\ \A i \in DOMAIN s : s[i] \in own /\ s[i][2] \in ActionNames
  BY <1>6
<1>9. \A i \in DOMAIN s : A[i] \in ActionType
  BY <1>3, <1>4, <1>8
<1>10. A \in [1..Len(s) -> ActionType]
  BY <1>8, <1>9
<1> HIDE DEF A
<1> QED
  BY <1>7, <1>8, <1>10, FunctionIsSeq

LEMMA ClaimsOfPage ==
    ASSUME app \in Applications, NEW p \in Pages, Settled(p), HasMethod(p, Get)
    PROVE  /\ Claims(p) \in Seq(Pattern)
           /\ \A c : c = PageClaim(p) \/ c \in Elements(ActionsOf(p)) =>
                        \E i \in DOMAIN Claims(p) : Claims(p)[i] = c
           /\ Clear({}, Claims(p)) =>
                /\ \A a \in Elements(ActionsOf(p)) : ~Conflict(PageClaim(p), a)
                /\ Clear({}, ActionsOf(p))
<1> DEFINE c == PageClaim(p)
           s == ActionsOf(p)
           C == <<c>> \o s
<1>1. s \in Seq(Pattern) /\ c \in Pattern
  <2>1. s \in Seq(ActionType) /\ ActionType \in SUBSET Pattern
    BY ActionsListed, RouteFacts
  <2> QED
    BY <2>1, RouteFacts, SeqOfLarger
<1>2. Claims(p) = C
  BY DEF Claims, PageClaim
<1> HIDE DEF s, c
<1>3. <<c>> \in Seq(Pattern)
  BY <1>1
<1>4. /\ C \in Seq(Pattern)
      /\ Clear({}, C) => Clear({}, s) /\ ClearOf({}, <<c>>, s)
  BY <1>1, <1>3, JoinedClear
<1>5. /\ 1 \in DOMAIN C /\ C[1] = c
      /\ \A i \in DOMAIN s : 1 + i \in DOMAIN C /\ C[1 + i] = s[i]
  BY <1>1, <1>3
<1> HIDE DEF C
<1>6. \A x : x = c \/ x \in Elements(s) => \E i \in DOMAIN C : C[i] = x
  BY <1>5 DEF Elements
<1>7. ASSUME Clear({}, C), NEW a \in Elements(s) PROVE ~Conflict(c, a)
  <2>1. ClearOf({}, <<c>>, s) /\ 1 \in DOMAIN <<c>> /\ <<c>>[1] = c
    BY <1>4, <1>7
  <2> QED
    BY <2>1 DEF ClearOf, Barred, Elements
<1> QED
  BY <1>2, <1>4, <1>6, <1>7 DEF c, s

(* What the passes have found of an application that is accepted.          *)
WellClaimed ==
    /\ app \in Applications
    /\ \A p \in Pages : Settled(p) /\ HasMethod(p, Get)

ClaimsApart ==
    /\ \A p, q \in Pages : p # q => ~Conflict(PageClaim(p), PageClaim(q))
    /\ \A p, q \in Pages : \A a \in Elements(ActionsOf(q)) : ~Conflict(PageClaim(p), a)
    /\ \A p \in Pages : Clear({}, ActionsOf(p))
    /\ \A p, q \in Pages : p # q =>
          \A a \in Elements(ActionsOf(p)), b \in Elements(ActionsOf(q)) : ~Conflict(a, b)
    /\ \A i, j \in DOMAIN app.actions : i # j => ~Conflict(app.actions[i], app.actions[j])
    /\ \A p \in Pages, i \in DOMAIN app.actions : ~Conflict(PageClaim(p), app.actions[i])
    /\ \A p \in Pages, i \in DOMAIN app.actions : \A a \in Elements(ActionsOf(p)) :
          ~Conflict(a, app.actions[i])

LEMMA AllClaimsClear ==
    ASSUME WellClaimed
    PROVE  /\ AllClaims \in Seq(Pattern)
           /\ Clear({}, AllClaims) =>
                /\ \A p \in Pages : Clear({}, Claims(p))
                /\ \A p, q \in Pages : p # q => ClearOf({}, Claims(p), Claims(q))
                /\ Clear({}, app.actions)
                /\ \A p \in Pages : ClearOf({}, Claims(p), app.actions)
<1> DEFINE ss == [i \in DOMAIN app.pages |-> Claims(app.pages[i])]
           F == SE!FlattenSeq(ss)
<1>1. /\ app.pages \in Seq(Pages) /\ Elements(app.pages) = Pages
      /\ app \in Applications
  BY DeclarationFacts DEF WellClaimed
<1>2. \A p \in Pages : Claims(p) \in Seq(Pattern)
  BY ClaimsOfPage DEF WellClaimed
<1>3. /\ ss \in Seq(Seq(Pattern)) /\ DOMAIN ss = DOMAIN app.pages
      /\ \A i \in DOMAIN app.pages : ss[i] = Claims(app.pages[i])
  <2>1. /\ DOMAIN app.pages = 1..Len(app.pages) /\ Len(app.pages) \in Nat
        /\ \A i \in DOMAIN app.pages : app.pages[i] \in Pages
    BY <1>1
  <2>2. ss \in [1..Len(app.pages) -> Seq(Pattern)]
    BY <1>2, <2>1
  <2> QED
    BY <2>1, <2>2, FunctionIsSeq
<1>4. app.actions \in Seq(Pattern)
  <2>1. ActionType \in SUBSET Pattern /\ app.actions \in Seq(ActionType)
    BY <1>1, RouteFacts
  <2> QED
    BY <2>1, SeqOfLarger
<1> HIDE DEF ss
<1>5. /\ F \in Seq(Pattern)
      /\ Clear({}, F) <=>
            /\ \A i \in DOMAIN ss : Clear({}, ss[i])
            /\ \A i, j \in DOMAIN ss : i < j => ClearOf({}, ss[i], ss[j])
      /\ \A u : ClearOf({}, F, u) <=> \A i \in DOMAIN ss : ClearOf({}, ss[i], u)
  BY <1>3, FlattenedClear
<1>6. AllClaims = F \o app.actions
  BY DEF AllClaims, ss
<1> HIDE DEF F
<1>7. /\ AllClaims \in Seq(Pattern)
      /\ Clear({}, AllClaims) =>
            Clear({}, F) /\ Clear({}, app.actions) /\ ClearOf({}, F, app.actions)
  BY <1>4, <1>5, <1>6, JoinedClear
<1>8. \A p \in Pages : \E i \in DOMAIN ss : ss[i] = Claims(p) /\ app.pages[i] = p
  BY <1>1, <1>3 DEF Elements
<1>9. ASSUME Clear({}, F), NEW p \in Pages, NEW q \in Pages, p # q
      PROVE  ClearOf({}, Claims(p), Claims(q))
  <2>1. PICK i \in DOMAIN ss : ss[i] = Claims(p) /\ app.pages[i] = p
    BY <1>8
  <2>2. PICK j \in DOMAIN ss : ss[j] = Claims(q) /\ app.pages[j] = q
    BY <1>8
  <2>3. i # j /\ i \in Nat /\ j \in Nat
    BY <1>1, <1>3, <1>9, <2>1, <2>2
  <2>4. i < j \/ j < i
    BY <2>3
  <2> QED
    BY <1>5, <1>9, <2>1, <2>2, <2>4, ClearOfSymmetric
<1>10. Clear({}, F) => \A p \in Pages : Clear({}, Claims(p))
  BY <1>5, <1>8
<1>11. ClearOf({}, F, app.actions) => \A p \in Pages : ClearOf({}, Claims(p), app.actions)
  BY <1>5, <1>8
<1> QED
  BY <1>7, <1>9, <1>10, <1>11

LEMMA ApartWhenClear ==
    ASSUME WellClaimed, Clear({}, AllClaims)
    PROVE  ClaimsApart
<1>1. /\ \A p \in Pages : Clear({}, Claims(p))
      /\ \A p, q \in Pages : p # q => ClearOf({}, Claims(p), Claims(q))
      /\ Clear({}, app.actions)
      /\ \A p \in Pages : ClearOf({}, Claims(p), app.actions)
  BY AllClaimsClear
<1>2. \A p \in Pages : \A c : c = PageClaim(p) \/ c \in Elements(ActionsOf(p)) =>
                          \E i \in DOMAIN Claims(p) : Claims(p)[i] = c
  BY ClaimsOfPage DEF WellClaimed
<1>3. \A p \in Pages :
         /\ \A a \in Elements(ActionsOf(p)) : ~Conflict(PageClaim(p), a)
         /\ Clear({}, ActionsOf(p))
  BY <1>1, ClaimsOfPage DEF WellClaimed
<1>4. ASSUME NEW p \in Pages, NEW q \in Pages, p # q,
             NEW c, c = PageClaim(p) \/ c \in Elements(ActionsOf(p)),
             NEW d, d = PageClaim(q) \/ d \in Elements(ActionsOf(q))
      PROVE  ~Conflict(c, d)
  <2>1. PICK i \in DOMAIN Claims(p) : Claims(p)[i] = c
    BY <1>2, <1>4
  <2>2. PICK j \in DOMAIN Claims(q) : Claims(q)[j] = d
    BY <1>2, <1>4
  <2>3. ClearOf({}, Claims(p), Claims(q))
    BY <1>1, <1>4
  <2> QED
    BY <2>1, <2>2, <2>3 DEF ClearOf, Barred
<1>5. ASSUME NEW p \in Pages, NEW c, c = PageClaim(p) \/ c \in Elements(ActionsOf(p)),
             NEW i \in DOMAIN app.actions
      PROVE  ~Conflict(c, app.actions[i])
  <2>1. PICK k \in DOMAIN Claims(p) : Claims(p)[k] = c
    BY <1>2, <1>5
  <2>2. ClearOf({}, Claims(p), app.actions)
    BY <1>1
  <2> QED
    BY <2>1, <2>2 DEF ClearOf, Barred
<1>6. \A i, j \in DOMAIN app.actions : i # j => ~Conflict(app.actions[i], app.actions[j])
  BY <1>1 DEF Clear, Barred
<1>7. \A p, q \in Pages : p # q => ~Conflict(PageClaim(p), PageClaim(q))
  BY <1>4
<1>8. \A p, q \in Pages : \A a \in Elements(ActionsOf(q)) : ~Conflict(PageClaim(p), a)
  BY <1>3, <1>4
<1>9. \A p, q \in Pages : p # q =>
         \A a \in Elements(ActionsOf(p)), b \in Elements(ActionsOf(q)) : ~Conflict(a, b)
  BY <1>4
<1>10. \A p \in Pages, i \in DOMAIN app.actions :
          ~Conflict(PageClaim(p), app.actions[i]) /\ \A a \in Elements(ActionsOf(p)) : ~Conflict(a, app.actions[i])
  BY <1>5
<1> QED
  BY <1>3, <1>6, <1>7, <1>8, <1>9, <1>10 DEF ClaimsApart

------------------------------------------------------------------------------
(* What the server registers: each pattern of a page is its route's or, for*)
(* a stream, barred from nothing here.                                     *)
StreamRoutes ==
    UNION {{StreamPath(app.routeOf[p]), AnonStreamPath(app.routeOf[p])} : p \in Pages}

AllBare ==
    /\ \A p \in Pages : p # Index => Bare(app.routeOf[p])
    /\ \A p \in Pages : \A a \in Elements(ActionsOf(p)) : Bare(a.route)
    /\ \A i \in DOMAIN app.actions : Bare(app.actions[i].route)

LEMMA SmallSequences ==
    ASSUME NEW S, NEW x \in S, NEW y \in S, NEW z \in S
    PROVE  <<x, y>> \in Seq(S) /\ <<x, y, z>> \in Seq(S)
OBVIOUS

LEMMA Replaced ==
    ASSUME NEW S, NEW r \in Seq(S), r # <<>>, NEW x \in S
    PROVE  /\ [r EXCEPT ![Len(r)] = x] \in Seq(S) /\ Len([r EXCEPT ![Len(r)] = x]) = Len(r)
           /\ Len(r) \in Nat /\ Len(r) # 0
OBVIOUS

LEMMA SlashedType ==
    ASSUME NEW r \in Seq(Segment), r # <<>>, NEW segments \in Seq(Segment)
    PROVE  Slashed(r, segments) \in Seq(Segment)
<1> DEFINE w == WithTrailingSlash(r)
<1>1. w \in Seq(Segment) /\ Len(w) # 0
  <2>1. /\ Append(r, "") \in Seq(Segment) /\ Len(Append(r, "")) = Len(r) + 1
        /\ Len(r) \in Nat /\ Len(r) # 0 /\ "" \in Segment
    BY Segments, Appended
  <2>2. [r EXCEPT ![Len(r)] = ""] \in Seq(Segment) /\ Len([r EXCEPT ![Len(r)] = ""]) = Len(r)
    BY <2>1, Replaced
  <2>3. CASE r[Len(r)] = End
    BY <2>1, <2>2, <2>3 DEF WithTrailingSlash
  <2>4. CASE r[Len(r)] # End /\ r[Len(r)] = ""
    BY <2>1, <2>4 DEF WithTrailingSlash
  <2>5. CASE r[Len(r)] # End /\ r[Len(r)] # ""
    <3>1. w = Append(r, "")
      BY <2>5 DEF WithTrailingSlash
    <3> DEFINE u == Append(r, "")
    <3>2. u \in Seq(Segment) /\ Len(u) = Len(r) + 1
      BY <2>1
    <3> HIDE DEF w, u
    <3>3. Len(u) # 0
      <4>1. Len(r) \in Nat
        OBVIOUS
      <4> QED
        BY <3>2, <4>1
    <3>4. w = u
      BY <3>1 DEF u
    <3> QED
      BY <3>2, <3>3, <3>4
  <2> QED
    BY <2>3, <2>4, <2>5
<1>2. Slashed(r, segments) = SubSeq(w, 1, Len(w) - 1) \o segments
  BY DEF Slashed
<1> HIDE DEF w
<1>3. Len(w) - 1 \in Nat /\ Len(w) - 1 <= Len(w)
  BY <1>1
<1>4. SubSeq(w, 1, Len(w) - 1) \in Seq(Segment)
  BY <1>1, <1>3
<1> QED
  BY <1>2, <1>4

LEMMA PatternOfRoute ==
    ASSUME AllBare, app \in Applications, NEW p \in Pages
    PROVE  /\ PagePattern(app.routeOf[p]) \in Seq(Segment)
           /\ \A x : x.method = "GET" /\ x.route = PagePattern(app.routeOf[p]) =>
                        Registers(x, PageClaim(p)) /\ (x.route = Root => p = Index)
<1> DEFINE r == app.routeOf[p]
<1>1. r \in Seq(Segment) /\ r # <<>> /\ (p = Index => r = Root) /\ (p # Index => Bare(r))
  BY RouteFacts DEF AllBare
<1>2. PageClaim(p).method = "GET" /\ PageClaim(p).route = r
  BY DEF PageClaim
<1> HIDE DEF r
<1>3. CASE p = Index
  <2>1. PagePattern(r) = Root
    BY <1>1, <1>3 DEF PagePattern
  <2> QED
    BY <1>1, <1>2, <1>3, <2>1 DEF Registers, r
<1>4. CASE p # Index
  <2>1. ~EndsInWildcard(r) /\ r # Root
    <3>1. r[Len(r)] # "" /\ r[Len(r)] # Rest
      BY <1>1, <1>4 DEF Bare
    <3>2. Root[Len(Root)] = ""
      BY DEF Root
    <3> QED
      BY <3>1, <3>2 DEF EndsInWildcard
  <2>2. PagePattern(r) = Append(r, End)
    BY <1>1, <1>4, <2>1, ClosedByEnd DEF PagePattern
  <2>3. Append(r, End) \in Seq(Segment) /\ Len(Append(r, End)) # Len(Root)
    <3>1. /\ Append(r, End) \in Seq(Segment)
          /\ Len(Append(r, End)) = Len(r) + 1 /\ Len(r) \in Nat /\ Len(r) # 0
      BY <1>1, Segments, Appended
    <3>2. Len(Root) = 1
      BY DEF Root
    <3> QED
      BY <3>1, <3>2
  <2>4. Append(r, End) # Root
    BY <2>3
  <2> QED
    BY <1>1, <1>2, <1>4, <2>2, <2>3, <2>4 DEF Registers, r
<1> QED
  BY <1>3, <1>4

PageListing(p) == [method |-> "GET", route |-> PagePattern(app.routeOf[p])]

LEMMA PagePatternsListed ==
    ASSUME app \in Applications, NEW p \in Pages
    PROVE  /\ PagePatterns(p) \in Seq(Pattern)
           /\ 1 \in DOMAIN PagePatterns(p) /\ PagePatterns(p)[1] = PageListing(p)
           /\ \A i \in DOMAIN PagePatterns(p) :
                 i # 1 => PagePatterns(p)[i].route \in StreamRoutes
<1> DEFINE r == app.routeOf[p]
           a == PagePattern(app.routeOf[p])
           b == StreamPath(app.routeOf[p])
           c == AnonStreamPath(app.routeOf[p])
           stream == IF HasStream(p) THEN <<b>> \o (IF HasAnonStream(p) THEN <<c>> ELSE <<>>)
                     ELSE <<>>
           routes == <<a>> \o stream
           P == [i \in DOMAIN routes |-> [method |-> "GET", route |-> routes[i]]]
<1>1. a \in Seq(Segment) /\ b \in Seq(Segment) /\ c \in Seq(Segment)
  <2>1. <<"_$", End>> \in Seq(Segment) /\ <<"_$", "anon", End>> \in Seq(Segment)
    BY Segments, SmallSequences
  <2>2. <<End>> \in Seq(Segment)
    <3>1. End \in Segment
      BY Segments
    <3> QED
      BY <3>1
  <2>3. r \in Seq(Segment) /\ r # <<>>
    BY RouteFacts
  <2>4. Slashed(r, <<End>>) \in Seq(Segment)
    BY <2>2, <2>3, SlashedType
  <2> QED
    BY <2>1, <2>3, <2>4, SlashedType DEF StreamPath, AnonStreamPath, PagePattern
<1>2. b \in StreamRoutes /\ c \in StreamRoutes
  BY DEF StreamRoutes
<1>3. PagePatterns(p) = P
  BY DEF PagePatterns
<1> HIDE DEF a, b, c
<1>4. /\ stream \in Seq(Seq(Segment)) /\ Len(stream) \in Nat
      /\ \A i \in DOMAIN stream : stream[i] = b \/ stream[i] = c
  <2>1. CASE ~HasStream(p)
    BY <2>1
  <2>2. CASE HasStream(p) /\ ~HasAnonStream(p)
    BY <1>1, <2>2
  <2>3. CASE HasStream(p) /\ HasAnonStream(p)
    BY <1>1, <2>3
  <2> QED
    BY <2>1, <2>2, <2>3
<1> HIDE DEF stream
<1>5. /\ routes \in Seq(Seq(Segment)) /\ Len(routes) \in Nat /\ DOMAIN routes = 1..Len(routes)
      /\ 1 \in DOMAIN routes /\ routes[1] = a
      /\ \A i \in DOMAIN routes : i # 1 => routes[i] = b \/ routes[i] = c
      /\ \A i \in DOMAIN routes : routes[i] \in Seq(Segment)
  BY <1>1, <1>4
<1> HIDE DEF routes
<1>6. \A i \in DOMAIN routes : [method |-> "GET", route |-> routes[i]] \in Pattern
  BY <1>5 DEF Pattern
<1>7. P \in Seq(Pattern)
  <2>1. P \in [1..Len(routes) -> Pattern]
    BY <1>5, <1>6
  <2> QED
    BY <1>5, <2>1, FunctionIsSeq
<1>8. /\ DOMAIN P = DOMAIN routes
      /\ \A i \in DOMAIN P : P[i] = [method |-> "GET", route |-> routes[i]]
  OBVIOUS
<1> HIDE DEF P
<1>9. \A i \in DOMAIN P : i # 1 => P[i].route \in StreamRoutes
  <2> TAKE i \in DOMAIN P
  <2>1. P[i].route = routes[i] /\ i \in DOMAIN routes
    BY <1>8
  <2> QED
    BY <1>2, <1>5, <2>1
<1>10. 1 \in DOMAIN P /\ P[1] = PageListing(p)
  BY <1>5, <1>8 DEF PageListing, a
<1> QED
  BY <1>3, <1>7, <1>9, <1>10

LEMMA PatternsOfPage ==
    ASSUME AllBare, app \in Applications, NEW p \in Pages
    PROVE  /\ PagePatterns(p) \in Seq(Pattern)
           /\ \A i \in DOMAIN PagePatterns(p) :
                 IF i = 1
                 THEN /\ Registers(PagePatterns(p)[i], PageClaim(p))
                      /\ PagePatterns(p)[i].route = Root => p = Index
                 ELSE PagePatterns(p)[i].route \in StreamRoutes
<1>1. /\ PagePatterns(p) \in Seq(Pattern) /\ PagePatterns(p)[1] = PageListing(p)
      /\ \A i \in DOMAIN PagePatterns(p) : i # 1 => PagePatterns(p)[i].route \in StreamRoutes
  BY PagePatternsListed
<1>2. Registers(PageListing(p), PageClaim(p)) /\ (PageListing(p).route = Root => p = Index)
  BY PatternOfRoute DEF PageListing
<1> QED
  BY <1>1, <1>2

LEMMA PatternOfAction ==
    ASSUME NEW a \in ActionType, Bare(a.route), app \in Applications
    PROVE  /\ ActionPattern(a) \in Pattern
           /\ Registers(ActionPattern(a), a) /\ ActionPattern(a).route # Root
<1> DEFINE r == a.route
           R == Append(r, End)
<1>1. r \in Seq(Segment) /\ r # <<>> /\ a = [method |-> a.method, route |-> r] /\ a.method \in ActionMethods
  <2>1. a = [method |-> a.method, route |-> r] /\ a.method \in ActionMethods
    BY DEF ActionType
  <2> QED
    BY <2>1, RouteFacts
<1>2. Slashed(r, <<End>>) = R
  BY <1>1, ClosedByEnd
<1>3. ActionPattern(a) = [method |-> a.method, route |-> R]
  <2>1. ActionPattern(a) = [a EXCEPT !.route = Slashed(a.route, <<End>>)]
    BY DEF ActionPattern
  <2> HIDE DEF R
  <2>2. ActionPattern(a) = [a EXCEPT !.route = R]
    BY <1>2, <2>1
  <2> QED
    BY <2>2 DEF ActionType
<1>4. R \in Seq(Segment) /\ Len(R) # Len(Root)
  <2>1. Len(R) = Len(r) + 1 /\ Len(r) \in Nat /\ Len(r) # 0 /\ R \in Seq(Segment)
    BY <1>1, Segments, Appended
  <2>2. Len(Root) = 1
    BY DEF Root
  <2> QED
    BY <2>1, <2>2
<1>5. R # Root
  BY <1>4
<1> HIDE DEF R
<1>6. ActionPattern(a) \in Pattern
  BY <1>1, <1>3, <1>4 DEF Pattern
<1>7. ActionPattern(a).method = a.method /\ ActionPattern(a).route = R
  BY <1>3
<1> QED
  BY <1>1, <1>5, <1>6, <1>7 DEF Registers, R

ActionPatterns(p) == [i \in DOMAIN ActionsOf(p) |-> ActionPattern(ActionsOf(p)[i])]

LEMMA PatternsOfActions ==
    ASSUME AllBare, WellClaimed, NEW p \in Pages
    PROVE  /\ ActionPatterns(p) \in Seq(Pattern)
           /\ DOMAIN ActionPatterns(p) = DOMAIN ActionsOf(p)
           /\ \A i \in DOMAIN ActionPatterns(p) :
                 /\ ActionsOf(p)[i] \in Elements(ActionsOf(p))
                 /\ Registers(ActionPatterns(p)[i], ActionsOf(p)[i])
                 /\ ActionPatterns(p)[i].route # Root
<1> DEFINE A == ActionsOf(p)
           P == ActionPatterns(p)
<1>1. app \in Applications /\ A \in Seq(ActionType)
  BY ActionsListed DEF WellClaimed
<1>2. DOMAIN P = DOMAIN A /\ \A i \in DOMAIN A : P[i] = ActionPattern(A[i])
  BY DEF ActionPatterns
<1>3. /\ DOMAIN A = 1..Len(A) /\ Len(A) \in Nat
      /\ \A i \in DOMAIN A : A[i] \in ActionType /\ A[i] \in Elements(A) /\ Bare(A[i].route)
  BY <1>1 DEF Elements, AllBare
<1>4. P = [i \in DOMAIN A |-> P[i]]
  BY DEF ActionPatterns
<1> HIDE DEF A, P
<1>5. \A i \in DOMAIN A : /\ P[i] \in Pattern
                         /\ Registers(P[i], A[i]) /\ P[i].route # Root
  <2> TAKE i \in DOMAIN A
  <2>1. P[i] = ActionPattern(A[i]) /\ A[i] \in ActionType /\ Bare(A[i].route)
    BY <1>2, <1>3
  <2> QED
    BY <1>1, <2>1, PatternOfAction
<1>6. P \in [1..Len(A) -> Pattern]
  BY <1>3, <1>4, <1>5
<1>7. P \in Seq(Pattern)
  BY <1>3, <1>6, FunctionIsSeq
<1> QED
  BY <1>2, <1>3, <1>5, <1>7 DEF A, P

(* No two blocks are in each other's way, nor two patterns of a block.     *)
LEMMA PageBlocks ==
    ASSUME AllBare, WellClaimed, ClaimsApart
    PROVE  /\ \A p \in Pages : Clear(StreamRoutes, PagePatterns(p))
           /\ \A p, q \in Pages : p # q => ClearOf(StreamRoutes, PagePatterns(p), PagePatterns(q))
           /\ \A p, q \in Pages : ClearOf(StreamRoutes, PagePatterns(p), ActionPatterns(q))
<1>1. \A p \in Pages : \A i \in DOMAIN PagePatterns(p) :
         IF i = 1
         THEN /\ Registers(PagePatterns(p)[i], PageClaim(p))
              /\ PagePatterns(p)[i].route = Root => p = Index
         ELSE PagePatterns(p)[i].route \in StreamRoutes
  BY PatternsOfPage DEF WellClaimed
<1>2. ASSUME NEW p \in Pages PROVE Clear(StreamRoutes, PagePatterns(p))
  <2> SUFFICES ASSUME NEW i \in DOMAIN PagePatterns(p), NEW j \in DOMAIN PagePatterns(p), i # j
               PROVE  ~Barred(StreamRoutes, PagePatterns(p)[i], PagePatterns(p)[j])
    BY DEF Clear
  <2>1. i # 1 \/ j # 1
    OBVIOUS
  <2> QED
    BY <1>1, <2>1 DEF Barred
<1>3. ASSUME NEW p \in Pages, NEW q \in Pages, p # q
      PROVE  ClearOf(StreamRoutes, PagePatterns(p), PagePatterns(q))
  <2> SUFFICES ASSUME NEW i \in DOMAIN PagePatterns(p), NEW j \in DOMAIN PagePatterns(q),
                      Barred(StreamRoutes, PagePatterns(p)[i], PagePatterns(q)[j])
               PROVE  FALSE
    BY DEF ClearOf
  <2> DEFINE x == PagePatterns(p)[i]
             y == PagePatterns(q)[j]
  <2>1. Conflict(x, y) /\ i = 1 /\ j = 1
    BY <1>1 DEF Barred
  <2>2. /\ Registers(x, PageClaim(p)) /\ (x.route = Root => p = Index)
        /\ Registers(y, PageClaim(q)) /\ (y.route = Root => q = Index)
    BY <1>1, <2>1
  <2> HIDE DEF x, y
  <2>3. Conflict(PageClaim(p), PageClaim(q))
    BY <1>3, <2>1, <2>2, ConflictOfRoutes
  <2> QED
    BY <1>3, <2>3 DEF ClaimsApart
<1>4. ASSUME NEW p \in Pages, NEW q \in Pages
      PROVE  ClearOf(StreamRoutes, PagePatterns(p), ActionPatterns(q))
  <2> SUFFICES ASSUME NEW i \in DOMAIN PagePatterns(p), NEW j \in DOMAIN ActionPatterns(q),
                      Barred(StreamRoutes, PagePatterns(p)[i], ActionPatterns(q)[j])
               PROVE  FALSE
    BY DEF ClearOf
  <2> DEFINE x == PagePatterns(p)[i]
             y == ActionPatterns(q)[j]
  <2>1. Conflict(x, y) /\ i = 1
    BY <1>1 DEF Barred
  <2>2. Registers(x, PageClaim(p))
    BY <1>1, <2>1
  <2>3. PICK a \in Elements(ActionsOf(q)) : Registers(y, a) /\ y.route # Root
    BY PatternsOfActions
  <2> HIDE DEF x, y
  <2>4. Conflict(PageClaim(p), a)
    BY <2>1, <2>2, <2>3, ConflictOfRoutes
  <2> QED
    BY <2>4 DEF ClaimsApart
<1> QED
  BY <1>2, <1>3, <1>4

LEMMA ActionBlocks ==
    ASSUME AllBare, WellClaimed, ClaimsApart
    PROVE  /\ \A p \in Pages : Clear(StreamRoutes, ActionPatterns(p))
           /\ \A p, q \in Pages : p # q => ClearOf(StreamRoutes, ActionPatterns(p), ActionPatterns(q))
<1>1. ASSUME NEW p \in Pages, NEW q \in Pages,
             NEW i \in DOMAIN ActionPatterns(p), NEW j \in DOMAIN ActionPatterns(q),
             p # q \/ (p = q /\ i # j)
      PROVE  ~Barred(StreamRoutes, ActionPatterns(p)[i], ActionPatterns(q)[j])
  <2> DEFINE x == ActionPatterns(p)[i]
             y == ActionPatterns(q)[j]
             a == ActionsOf(p)[i]
             b == ActionsOf(q)[j]
  <2>1. a \in Elements(ActionsOf(p)) /\ i \in DOMAIN ActionsOf(p) /\ Registers(x, a) /\ x.route # Root
    BY PatternsOfActions
  <2>2. b \in Elements(ActionsOf(q)) /\ j \in DOMAIN ActionsOf(q) /\ Registers(y, b) /\ y.route # Root
    BY PatternsOfActions
  <2>3. ~Conflict(a, b)
    <3>1. CASE p # q
      BY <2>1, <2>2, <3>1 DEF ClaimsApart
    <3>2. CASE p = q /\ i # j
      <4>1. Clear({}, ActionsOf(p))
        BY DEF ClaimsApart
      <4> QED
        BY <2>1, <2>2, <3>2, <4>1 DEF Clear, Barred
    <3> QED
      BY <1>1, <3>1, <3>2
  <2> HIDE DEF x, y, a, b
  <2>4. ~Conflict(x, y)
    BY <2>1, <2>2, <2>3, ConflictOfRoutes
  <2> QED
    BY <2>4 DEF Barred, x, y
<1>2. \A p \in Pages : Clear(StreamRoutes, ActionPatterns(p))
  BY <1>1 DEF Clear
<1>3. \A p, q \in Pages : p # q => ClearOf(StreamRoutes, ActionPatterns(p), ActionPatterns(q))
  BY <1>1 DEF ClearOf
<1> QED
  BY <1>2, <1>3

AppPatterns == [i \in DOMAIN app.actions |-> ActionPattern(app.actions[i])]

LEMMA AppBlock ==
    ASSUME AllBare, WellClaimed, ClaimsApart
    PROVE  /\ AppPatterns \in Seq(Pattern)
           /\ Clear(StreamRoutes, AppPatterns)
           /\ \A p \in Pages : /\ ClearOf(StreamRoutes, PagePatterns(p), AppPatterns)
                               /\ ClearOf(StreamRoutes, ActionPatterns(p), AppPatterns)
<1> DEFINE N == Len(app.actions)
<1>1. /\ app \in Applications /\ N \in Nat /\ DOMAIN app.actions = 1..N
      /\ \A i \in 1..N : app.actions[i] \in ActionType
  BY RouteFacts DEF WellClaimed
<1>2. DOMAIN AppPatterns = 1..N /\ \A i \in 1..N : AppPatterns[i] = ActionPattern(app.actions[i])
  BY <1>1 DEF AppPatterns
<1>3. \A i \in 1..N : /\ AppPatterns[i] \in Pattern
                      /\ Registers(AppPatterns[i], app.actions[i]) /\ AppPatterns[i].route # Root
  <2> TAKE i \in 1..N
  <2>1. Bare(app.actions[i].route) /\ app.actions[i] \in ActionType
    BY <1>1 DEF AllBare
  <2> QED
    BY <1>1, <1>2, <2>1, PatternOfAction
<1>4. AppPatterns \in Seq(Pattern)
  <2>1. AppPatterns \in [1..N -> Pattern]
    BY <1>1, <1>3 DEF AppPatterns
  <2> HIDE DEF N
  <2> QED
    BY <1>1, <2>1, FunctionIsSeq
<1> HIDE DEF N
<1>5. Clear(StreamRoutes, AppPatterns)
  <2> SUFFICES ASSUME NEW i \in 1..N, NEW j \in 1..N, i # j
               PROVE  ~Conflict(AppPatterns[i], AppPatterns[j])
    BY <1>2 DEF Clear, Barred
  <2>1. ~Conflict(app.actions[i], app.actions[j])
    BY <1>1 DEF ClaimsApart
  <2> QED
    BY <1>3, <2>1, ConflictOfRoutes
<1>6. ASSUME NEW p \in Pages PROVE ClearOf(StreamRoutes, PagePatterns(p), AppPatterns)
  <2> SUFFICES ASSUME NEW i \in DOMAIN PagePatterns(p), NEW j \in 1..N,
                      Barred(StreamRoutes, PagePatterns(p)[i], AppPatterns[j])
               PROVE  FALSE
    BY <1>2 DEF ClearOf
  <2> DEFINE x == PagePatterns(p)[i]
  <2>1. Conflict(x, AppPatterns[j]) /\ x.route \notin StreamRoutes
    BY DEF Barred
  <2>2. Registers(x, PageClaim(p))
    BY <2>1, PatternsOfPage DEF WellClaimed
  <2> HIDE DEF x
  <2>3. Conflict(PageClaim(p), app.actions[j])
    BY <1>3, <2>1, <2>2, ConflictOfRoutes
  <2> QED
    BY <1>1, <2>3 DEF ClaimsApart
<1>7. ASSUME NEW p \in Pages PROVE ClearOf(StreamRoutes, ActionPatterns(p), AppPatterns)
  <2> SUFFICES ASSUME NEW i \in DOMAIN ActionPatterns(p), NEW j \in 1..N
               PROVE  ~Conflict(ActionPatterns(p)[i], AppPatterns[j])
    BY <1>2 DEF ClearOf, Barred
  <2> DEFINE x == ActionPatterns(p)[i]
  <2>1. PICK a \in Elements(ActionsOf(p)) : Registers(x, a) /\ x.route # Root
    BY PatternsOfActions
  <2>2. ~Conflict(a, app.actions[j])
    BY <1>1 DEF ClaimsApart
  <2> HIDE DEF x
  <2>3. ~Conflict(x, AppPatterns[j])
    BY <1>3, <2>1, <2>2, ConflictOfRoutes
  <2> QED
    BY <2>3 DEF x
<1> QED
  BY <1>4, <1>5, <1>6, <1>7

LEMMA RegistrationsClear ==
    ASSUME AllBare, WellClaimed, ClaimsApart
    PROVE  Clear(StreamRoutes, Registrations)
<1> DEFINE ss == [i \in DOMAIN app.pages |-> PagePatterns(app.pages[i])]
           tt == [i \in DOMAIN app.pages |-> ActionPatterns(app.pages[i])]
           X == StreamRoutes
           F == SE!FlattenSeq(ss)
           G == SE!FlattenSeq(tt)
           A == AppPatterns
<1>1. /\ app \in Applications /\ app.pages \in Seq(Pages)
      /\ \A i, j \in DOMAIN app.pages : app.pages[i] = app.pages[j] => i = j
  BY DeclarationFacts DEF WellClaimed
<1>2. /\ DOMAIN app.pages = 1..Len(app.pages) /\ Len(app.pages) \in Nat
      /\ \A i \in DOMAIN app.pages : app.pages[i] \in Pages
  BY <1>1
<1>3. /\ DOMAIN ss = DOMAIN app.pages /\ DOMAIN tt = DOMAIN app.pages
      /\ \A i \in DOMAIN app.pages :
            ss[i] = PagePatterns(app.pages[i]) /\ tt[i] = ActionPatterns(app.pages[i])
  OBVIOUS
<1>4. ss \in Seq(Seq(Pattern)) /\ tt \in Seq(Seq(Pattern))
  <2>1. \A p \in Pages : PagePatterns(p) \in Seq(Pattern) /\ ActionPatterns(p) \in Seq(Pattern)
    BY <1>1, PatternsOfPage, PatternsOfActions
  <2>2. /\ ss \in [1..Len(app.pages) -> Seq(Pattern)]
        /\ tt \in [1..Len(app.pages) -> Seq(Pattern)]
    BY <1>2, <2>1
  <2> QED
    BY <1>2, <2>2, FunctionIsSeq
<1>5. Registrations = (F \o A) \o G
  BY DEF Registrations, AppPatterns, ActionPatterns
<1> HIDE DEF ss, tt
<1>6. /\ F \in Seq(Pattern)
      /\ Clear(X, F) <=>
            /\ \A i \in DOMAIN ss : Clear(X, ss[i])
            /\ \A i, j \in DOMAIN ss : i < j => ClearOf(X, ss[i], ss[j])
      /\ \A u : ClearOf(X, F, u) <=> \A i \in DOMAIN ss : ClearOf(X, ss[i], u)
  BY <1>4, FlattenedClear
<1>7. /\ G \in Seq(Pattern)
      /\ Clear(X, G) <=>
            /\ \A i \in DOMAIN tt : Clear(X, tt[i])
            /\ \A i, j \in DOMAIN tt : i < j => ClearOf(X, tt[i], tt[j])
      /\ \A u : ClearOf(X, G, u) <=> \A i \in DOMAIN tt : ClearOf(X, tt[i], u)
  BY <1>4, FlattenedClear
<1> HIDE DEF F, G, A, X
<1>8. \A i, j \in DOMAIN app.pages : i < j => app.pages[i] # app.pages[j]
  <2>1. \A i, j \in DOMAIN app.pages : i < j => i # j
    BY <1>2
  <2> QED
    BY <1>1, <2>1
<1>9. Clear(X, F)
  BY <1>2, <1>3, <1>6, <1>8, PageBlocks DEF X
<1>10. Clear(X, G)
  BY <1>2, <1>3, <1>7, <1>8, ActionBlocks DEF X
<1>11. A \in Seq(Pattern) /\ Clear(X, A)
  BY AppBlock DEF A, X
<1>12. ClearOf(X, F, A)
  BY <1>2, <1>3, <1>6, AppBlock DEF A, X
<1>13. ClearOf(X, A, G)
  <2>1. ClearOf(X, G, A)
    BY <1>2, <1>3, <1>7, AppBlock DEF A, X
  <2> QED
    BY <2>1, ClearOfSymmetric
<1>14. ClearOf(X, F, G)
  <2>1. ASSUME NEW i \in DOMAIN ss PROVE ClearOf(X, ss[i], G)
    <3>1. \A j \in DOMAIN tt : ClearOf(X, tt[j], ss[i])
      <4> TAKE j \in DOMAIN tt
      <4>1. ClearOf(X, ss[i], tt[j])
        BY <1>2, <1>3, PageBlocks DEF X
      <4> QED
        BY <4>1, ClearOfSymmetric
    <3>2. ClearOf(X, G, ss[i])
      BY <1>7, <3>1
    <3> QED
      BY <3>2, ClearOfSymmetric
  <2> QED
    BY <1>6, <2>1
<1>15. F \o A \in Seq(Pattern) /\ Clear(X, F \o A)
  BY <1>6, <1>9, <1>11, <1>12, JoinedClear
<1>16. ClearOf(X, F \o A, G)
  BY <1>6, <1>11, <1>13, <1>14, JoinedClear
<1>17. Clear(X, (F \o A) \o G)
  <2> DEFINE FA == F \o A
  <2>1. FA \in Seq(Pattern) /\ Clear(X, FA) /\ ClearOf(X, FA, G)
    BY <1>15, <1>16
  <2> HIDE DEF FA
  <2>2. Clear(X, FA \o G)
    BY <1>7, <1>10, <2>1, JoinedClear
  <2> QED
    BY <2>2 DEF FA
<1> QED
  BY <1>5, <1>17 DEF X, F, G, A

(* What validateRouteConflicts has claimed is on the router, in order, and *)
(* nothing of it is in the way of something else.                          *)
RoutesInv ==
    /\ phase \in {"events", "flatten"} => patterns = {}
    /\ phase = "routes" /\ errs = {} =>
          /\ \A p \in Pages : HasMethod(p, Get)
          /\ unread \in Seq(Pattern)
          /\ \E done \in Seq(Pattern) :
                /\ AllClaims = done \o unread
                /\ patterns = Elements(done) /\ Clear({}, done)
    /\ phase \in {"accepted", "serving", "panicked"} =>
          (\A p \in Pages : HasMethod(p, Get)) /\ Clear({}, AllClaims)

LEMMA RequireKeepsRoutes ==
    ASSUME PassesInv, PassesInv', RoutesInv, RequireHandlers
    PROVE  RoutesInv'
<1>1. /\ phase' = "routes" /\ patterns' = {} /\ app' = app /\ owned' = owned
      /\ events' = events /\ unread' = AllClaims
  BY DEF RequireHandlers, RoutesInv
<1>2. Pages' = Pages /\ AllClaims' = AllClaims /\ (\A p \in Pages : HasMethod(p, Get) <=> HasMethod(p, Get)')
  BY <1>1 DEF Pages, HasMethod, AllClaims, Claims, ActionsOf
<1>3. ASSUME errs' = {} PROVE \A p \in Pages : HasMethod(p, Get)
  BY <1>3 DEF RequireHandlers
<1>4. ASSUME errs' = {} PROVE AllClaims \in Seq(Pattern)
  <2>1. (\A p \in Pages : Settled(p))'
    BY <1>1 DEF PassesInv
  <2>2. app \in Applications
    BY DEF PassesInv
  <2>3. WellClaimed'
    BY <1>1, <1>2, <1>3, <1>4, <2>1, <2>2 DEF WellClaimed
  <2>4. (AllClaims \in Seq(Pattern))'
    BY <2>3, AllClaimsClear, PTL
  <2> QED
    BY <1>2, <2>4
<1>5. ASSUME errs' = {}
      PROVE  \E done \in Seq(Pattern) :
                AllClaims = done \o AllClaims /\ {} = Elements(done) /\ Clear({}, done)
  <2>1. <<>> \in Seq(Pattern) /\ Elements(<<>>) = {} /\ Clear({}, <<>>)
    BY DEF Elements, Clear
  <2>2. AllClaims = <<>> \o AllClaims
    BY <1>4, <1>5
  <2> QED
    BY <2>1, <2>2
<1> QED
  BY <1>1, <1>2, <1>3, <1>4, <1>5 DEF RoutesInv

LEMMA ClaimKeepsRoutes ==
    ASSUME PassesInv, RoutesInv, ClaimRoute
    PROVE  RoutesInv'
<1> DEFINE c == Head(unread)
<1>1. /\ phase = "routes" /\ phase' = "routes" /\ app' = app /\ owned' = owned
      /\ events' = events /\ unread # <<>> /\ unread' = Tail(unread)
  BY DEF ClaimRoute
<1>2. Pages' = Pages /\ AllClaims' = AllClaims /\ (\A p \in Pages : HasMethod(p, Get) <=> HasMethod(p, Get)')
  BY <1>1 DEF Pages, HasMethod, AllClaims, Claims, ActionsOf
<1>3. ASSUME errs' = {} PROVE errs = {} /\ Registrable(patterns, c) /\ patterns' = patterns \cup {c}
  BY <1>3 DEF ClaimRoute
<1>4. ASSUME errs' = {}
      PROVE  /\ \A p \in Pages : HasMethod(p, Get)
             /\ unread' \in Seq(Pattern)
             /\ \E done \in Seq(Pattern) :
                   /\ AllClaims = done \o unread'
                   /\ patterns' = Elements(done) /\ Clear({}, done)
  <2>1. /\ \A p \in Pages : HasMethod(p, Get)
        /\ unread \in Seq(Pattern)
    BY <1>1, <1>3, <1>4 DEF RoutesInv
  <2>2. PICK done \in Seq(Pattern) :
           AllClaims = done \o unread /\ patterns = Elements(done) /\ Clear({}, done)
    BY <1>1, <1>3, <1>4 DEF RoutesInv
  <2>3. c \in Pattern /\ Tail(unread) \in Seq(Pattern) /\ <<c>> \in Seq(Pattern)
    BY <1>1, <2>1
  <2> DEFINE more == done \o <<c>>
  <2>4. more \o Tail(unread) = AllClaims
    <3>1. unread = <<c>> \o Tail(unread)
      BY <1>1, <2>1
    <3>2. \A t \in Seq(Pattern) : (done \o <<c>>) \o t = done \o (<<c>> \o t)
      BY <2>2, <2>3
    <3> QED
      BY <2>2, <2>3, <3>1, <3>2
  <2>5. Clear({}, more) /\ more \in Seq(Pattern)
    <3>1. ClearOf({}, done, <<c>>)
      <4>1. \A i \in DOMAIN done : ~Conflict(c, done[i])
        BY <1>3, <1>4, <2>2 DEF Registrable, Elements
      <4>2. \A i \in DOMAIN done : ~Barred({}, done[i], c)
        <5>1. \A i \in DOMAIN done : ~Barred({}, c, done[i])
          BY <4>1 DEF Barred
        <5> QED
          BY <5>1, BarredSymmetric
      <4>3. \A j \in DOMAIN <<c>> : <<c>>[j] = c
        OBVIOUS
      <4> QED
        BY <4>2, <4>3 DEF ClearOf
    <3>2. Clear({}, <<c>>)
      <4>1. \A i, j \in DOMAIN <<c>> : i = j
        OBVIOUS
      <4> QED
        BY <4>1 DEF Clear
    <3> QED
      BY <2>2, <2>3, <3>1, <3>2, JoinedClear
  <2>6. Elements(more) = patterns \cup {c}
    <3>1. /\ DOMAIN more = 1..(Len(done) + 1) /\ DOMAIN done = 1..Len(done) /\ Len(done) \in Nat
          /\ \A i \in 1..Len(done) : more[i] = done[i]
          /\ more[Len(done) + 1] = c
      BY <2>2, <2>3
    <3>2. \A i \in 1..(Len(done) + 1) : i \in 1..Len(done) \/ i = Len(done) + 1
      BY <3>1
    <3>3. Len(done) + 1 \in 1..(Len(done) + 1) /\ \A i \in 1..Len(done) : i \in 1..(Len(done) + 1)
      BY <3>1
    <3> HIDE DEF more
    <3> QED
      BY <2>2, <3>1, <3>2, <3>3 DEF Elements
  <2> HIDE DEF more
  <2> QED
    BY <1>1, <1>3, <1>4, <2>1, <2>3, <2>4, <2>5, <2>6
<1> QED
  BY <1>1, <1>2, <1>4 DEF RoutesInv, Elements

LEMMA ReturnKeepsRoutes ==
    ASSUME PassesInv, RoutesInv, ParseReturns
    PROVE  RoutesInv'
<1>1. /\ phase = "routes" /\ phase' \in {"accepted", "refused"} /\ app' = app /\ owned' = owned
      /\ events' = events /\ unread = <<>> /\ (phase' = "accepted" => errs = {})
  BY DEF ParseReturns
<1>2. Pages' = Pages /\ AllClaims' = AllClaims /\ (\A p \in Pages : HasMethod(p, Get) <=> HasMethod(p, Get)')
  BY <1>1 DEF Pages, HasMethod, AllClaims, Claims, ActionsOf
<1>3. ASSUME phase' = "accepted"
      PROVE  (\A p \in Pages : HasMethod(p, Get)) /\ Clear({}, AllClaims)
  <2>1. PICK done \in Seq(Pattern) : AllClaims = done \o unread /\ Clear({}, done)
    BY <1>1, <1>3 DEF RoutesInv
  <2>2. AllClaims = done
    BY <1>1, <2>1
  <2> QED
    BY <1>1, <1>3, <2>1, <2>2 DEF RoutesInv
<1> QED
  BY <1>1, <1>2, <1>3 DEF RoutesInv, Clear

LEMMA RoutesInvariance == Spec => []RoutesInv
<1>1. Init => RoutesInv
  BY DEF Init, RoutesInv
<1>2. PassesInv /\ PassesInv' /\ RoutesInv /\ [Next]_vars => RoutesInv'
  <2> SUFFICES ASSUME PassesInv, PassesInv', RoutesInv, [Next]_vars PROVE RoutesInv'
    OBVIOUS
  <2>1. CASE ClaimEvent \/ AttachMethods \/ FlattenNext \/ FlattenDone
    <3>1. phase' \in {"events", "flatten"} /\ patterns' = patterns /\ phase \in {"events", "flatten"}
      BY <2>1 DEF ClaimEvent, AttachMethods, FlattenNext, FlattenDone
    <3> QED
      BY <3>1 DEF RoutesInv
  <2>2. CASE RequireHandlers
    BY <2>2, RequireKeepsRoutes
  <2>3. CASE ClaimRoute
    BY <2>3, ClaimKeepsRoutes
  <2>4. CASE ParseReturns
    BY <2>4, ReturnKeepsRoutes
  <2>5. CASE SetupHandlers
    <3>1. phase = "accepted" /\ phase' \in {"serving", "panicked"} /\ app' = app /\ owned' = owned
      BY <2>5 DEF SetupHandlers
    <3>2. Pages' = Pages /\ AllClaims' = AllClaims /\ (\A p \in Pages : HasMethod(p, Get) <=> HasMethod(p, Get)')
      BY <3>1 DEF Pages, HasMethod, AllClaims, Claims, ActionsOf
    <3> QED
      BY <3>1, <3>2 DEF RoutesInv, Clear
  <2>6. CASE UNCHANGED vars
    <3>1. /\ phase' = phase /\ app' = app /\ owned' = owned /\ patterns' = patterns
          /\ unread' = unread /\ errs' = errs
      BY <2>6 DEF vars
    <3>2. Pages' = Pages /\ AllClaims' = AllClaims /\ (\A p \in Pages : HasMethod(p, Get) <=> HasMethod(p, Get)')
      BY <3>1 DEF Pages, HasMethod, AllClaims, Claims, ActionsOf
    <3> QED
      BY <3>1, <3>2 DEF RoutesInv, Clear, Elements
  <2> QED
    BY <2>1, <2>2, <2>3, <2>4, <2>5, <2>6 DEF Next
<1> QED
  BY <1>1, <1>2, PassesInvariance, PTL DEF Spec

(* What the parser of an application of such routes accepts, the server's  *)
(* router does, the routes of the streams and of the static files left     *)
(* aside.                                                                  *)
THEOREM DeclaredRoutesRegisterHolds == Spec => []DeclaredRoutesRegister
<1>1. PassesInv /\ RoutesInv => DeclaredRoutesRegister
  <2> SUFFICES ASSUME PassesInv, RoutesInv, phase \in {"serving", "panicked"}
               PROVE  DeclaredRoutesRegister
    BY DEF DeclaredRoutesRegister
  <2>1. WellClaimed
    BY DEF PassesInv, RoutesInv, WellClaimed
  <2>2. ClaimsApart
    BY <2>1, ApartWhenClear DEF RoutesInv
  <2> DEFINE routes(actions) == {actions[i].route : i \in DOMAIN actions}
             declared == {app.routeOf[p] : p \in Pages \ {Index}} \cup routes(app.actions)
                            \cup UNION {routes(ActionsOf(p)) : p \in Pages}
             claimed == {i \in DOMAIN Registrations : Registrations[i].route \notin StreamRoutes}
  <2>3. ASSUME \A route \in declared : route[Len(route)] \notin {"", End, Rest}
        PROVE  \A i, j \in claimed : i # j => ~Conflict(Registrations[i], Registrations[j])
    <3>1. AllBare
      <4>1. \A route \in declared : Bare(route)
        BY <2>3 DEF Bare
      <4>2. \A p \in Pages : p # Index => app.routeOf[p] \in declared
        OBVIOUS
      <4>3. \A p \in Pages : \A a \in Elements(ActionsOf(p)) : a.route \in declared
        BY DEF Elements
      <4>4. \A i \in DOMAIN app.actions : app.actions[i].route \in declared
        OBVIOUS
      <4> HIDE DEF declared
      <4> QED
        BY <4>1, <4>2, <4>3, <4>4 DEF AllBare
    <3>2. Clear(StreamRoutes, Registrations)
      BY <2>1, <2>2, <3>1, RegistrationsClear
    <3> QED
      BY <3>2 DEF Clear, Barred
  <2> QED
    BY <2>3 DEF DeclaredRoutesRegister, StreamRoutes
<1> QED
  BY <1>1, PassesInvariance, RoutesInvariance, PTL

------------------------------------------------------------------------------
(* Within is an order on routes, and of routes that match one path one is  *)
(* within all others if no two are in each other's way.                    *)
Routes == Seq(Segment) \ {<<>>}

LEMMA RouteShape ==
    ASSUME NEW r \in Routes
    PROVE  /\ Len(r) \in Nat /\ Len(r) >= 1 /\ DOMAIN r = 1..Len(r)
           /\ \A i \in 1..Len(r) : r[i] \in Segment
BY DEF Routes

LEMMA AdmitsOrders ==
    /\ \A s : Admits(s, s)
    /\ \A s, t, u : Admits(s, t) /\ Admits(t, u) => Admits(s, u)
    /\ \A s : Admits(s, "") <=> s = ""
    /\ \A s : Admits(s, End) <=> s = End
    /\ \A s : Admits(s, Rest) <=> s = Rest
BY DEF Admits, Var, End, Rest

LEMMA WithinReflexive == \A r \in Routes : Within(r, r)
<1> TAKE r \in Routes
<1>1. Len(r) \in Nat /\ DOMAIN r = 1..Len(r)
  BY RouteShape
<1> QED
  BY <1>1 DEF Within, Admits

LEMMA WithinTransitive ==
    ASSUME NEW a \in Routes, NEW b \in Routes, NEW c \in Routes, Within(a, b), Within(b, c)
    PROVE  Within(a, c)
<1> DEFINE k == Len(a)
           l == Len(b)
           m == Len(c)
<1>1. /\ k \in Nat /\ l \in Nat /\ m \in Nat /\ k >= 1 /\ l >= 1 /\ m >= 1
      /\ DOMAIN a = 1..k /\ DOMAIN b = 1..l /\ DOMAIN c = 1..m
  BY RouteShape
<1> HIDE DEF k, l, m
<1>2. Multi(b) => k >= l /\ \A i \in 1..(l - 1) : Admits(b[i], a[i])
  BY DEF Within, k, l
<1>3. ~Multi(b) => k = l /\ \A i \in 1..l : Admits(b[i], a[i])
  BY <1>1 DEF Within, k, l
<1>4. CASE Multi(c)
  <2>1. l >= m /\ \A i \in 1..(m - 1) : Admits(c[i], b[i])
    BY <1>4 DEF Within, l, m
  <2>2. k >= m
    BY <1>1, <1>2, <1>3, <2>1
  <2>3. \A i \in 1..(m - 1) : Admits(b[i], a[i])
    <3>1. \A i \in 1..(m - 1) : i \in 1..(l - 1) /\ i \in 1..l
      BY <1>1, <2>1
    <3> QED
      BY <1>2, <1>3, <3>1
  <2>4. \A i \in 1..(m - 1) : Admits(c[i], a[i])
    BY <2>1, <2>3, AdmitsOrders
  <2> QED
    BY <1>4, <2>2, <2>4 DEF Within, k, m
<1>5. CASE ~Multi(c)
  <2>1. l = m /\ \A i \in 1..m : Admits(c[i], b[i])
    BY <1>1, <1>5 DEF Within, l, m
  <2>2. ~Multi(b)
    <3>1. Admits(c[m], b[l])
      BY <1>1, <2>1
    <3>2. b[l] = "" \/ b[l] = Rest => c[m] = b[l]
      BY <3>1 DEF Admits, Var
    <3>3. c[m] # "" /\ c[m] # Rest
      BY <1>5 DEF Multi, m
    <3>4. b[l] # "" /\ b[l] # Rest
      BY <3>2, <3>3
    <3> QED
      BY <3>4 DEF Multi, l
  <2>3. k = m /\ \A i \in 1..m : Admits(c[i], a[i])
    BY <1>3, <2>1, <2>2, AdmitsOrders
  <2> QED
    BY <1>1, <1>5, <2>3 DEF Within, k, m
<1> QED
  BY <1>4, <1>5

(* Of finitely many patterns any two of which compare, one is least.       *)
LEMMA MostSpecific ==
    ASSUME NEW M, IsFiniteSet(M), M # {}, \A x \in M : x.route \in Routes,
           \A x, y \in M : Within(x.route, y.route) \/ Within(y.route, x.route)
    PROVE  \E x \in M : \A y \in M : Within(x.route, y.route)
<1> DEFINE below(x) == {y \in M : Within(y.route, x.route)}
           T == {Cardinality(below(x)) : x \in M}
<1>1. \A x \in M : IsFiniteSet(below(x)) /\ Cardinality(below(x)) \in Nat
  BY FS_Subset, FS_CardinalityType
<1> HIDE DEF below
<1>2. PICK n \in T : \A m \in T : n <= m
  <2>1. T \in SUBSET Nat /\ T # {}
    BY <1>1
  <2> HIDE DEF T
  <2> QED
    BY <2>1, LeastNat
<1>3. PICK x \in M : n = Cardinality(below(x))
  OBVIOUS
<1>4. ASSUME NEW y \in M, ~Within(x.route, y.route) PROVE FALSE
  <2>1. Within(y.route, x.route)
    BY <1>4
  <2>2. below(y) \subseteq below(x)
    BY <2>1, WithinTransitive DEF below
  <2>3. x \notin below(y) /\ x \in below(x)
    BY <1>4, WithinReflexive DEF below
  <2>4. Cardinality(below(y)) < Cardinality(below(x))
    BY <1>1, <2>2, <2>3, FS_Subset
  <2>5. Cardinality(below(x)) <= Cardinality(below(y))
    BY <1>2, <1>3
  <2> QED
    BY <1>1, <2>4, <2>5
<1> QED
  BY <1>4

(* A path that two routes match, they share.                               *)
LEMMA SharedPath ==
    ASSUME NEW r \in Routes, NEW q \in Routes, NEW s, Len(s) \in Nat,
           Within(s, r), Within(s, q)
    PROVE  Share(r, q)
<1> DEFINE n == Len(s)
           k == Len(r)
           l == Len(q)
<1>1. /\ n \in Nat /\ k \in Nat /\ l \in Nat /\ k >= 1 /\ l >= 1
      /\ DOMAIN r = 1..k /\ DOMAIN q = 1..l
  BY RouteShape
<1> HIDE DEF n, k, l
<1>2. IF Multi(r) THEN n >= k /\ \A i \in 1..(k - 1) : Admits(r[i], s[i])
                  ELSE n = k /\ \A i \in 1..k : Admits(r[i], s[i])
  BY <1>1 DEF Within, n, k
<1>3. IF Multi(q) THEN n >= l /\ \A i \in 1..(l - 1) : Admits(q[i], s[i])
                  ELSE n = l /\ \A i \in 1..l : Admits(q[i], s[i])
  BY <1>1 DEF Within, n, l
<1>4. (Multi(r) \/ k >= l) /\ (Multi(q) \/ l >= k)
  BY <1>1, <1>2, <1>3
<1>5. \A x, y, z : Admits(x, z) /\ Admits(y, z) => Meet(x, y)
  <2> SUFFICES ASSUME NEW x, NEW y, NEW z, Admits(x, z), Admits(y, z)
               PROVE  Admits(x, y) \/ Admits(y, x)
    BY DEF Meet
  <2>1. CASE x = z
    BY <2>1
  <2>2. CASE y = z
    BY <2>2
  <2>3. CASE x # z /\ y # z
    BY <2>3 DEF Admits
  <2> QED
    BY <2>1, <2>2, <2>3
<1> DEFINE fixed(route) == IF Multi(route) THEN 1..(Len(route) - 1) ELSE DOMAIN route
<1>6. \A i \in fixed(r) : Admits(r[i], s[i])
  BY <1>1, <1>2 DEF k
<1>7. \A i \in fixed(q) : Admits(q[i], s[i])
  BY <1>1, <1>3 DEF l
<1>8. \A i \in fixed(r) \cap fixed(q) : Meet(r[i], q[i])
  BY <1>5, <1>6, <1>7
<1> QED
  BY <1>4, <1>8 DEF Share, k, l

------------------------------------------------------------------------------
(* A path without a slash at its end, none of it the segment of streams,   *)
(* and what of it a route has to admit, as it is and with the slash.       *)
Blank == ""   \* the segment after a slash at the end

PlainPath(path) ==
    path \in Seq(Literals) /\ path # <<>> /\ \A i \in DOMAIN path : path[i] # "_$"

LEMMA PlainSegments == ~ \E s \in {Blank, Var, End, Rest} : s \in Literals
BY RoutesAssumption DEF Blank

Covers(route, path, n) == \A i \in 1..n : Admits(route[i], path[i])

LEMMA PathsArePlain ==
    ASSUME NEW path \in Paths, path[Len(path)] # Blank,
           "_$" \notin {path[i] : i \in DOMAIN path}
    PROVE  PlainPath(path)
<1>1. PICK n \in 1..Depth :
         path \in [1..n -> Literals] \cup {Append(p, Blank) : p \in [1..(n - 1) -> Literals]}
  BY DEF Paths, Blank
<1>2. n \in Nat /\ n >= 1 /\ n - 1 \in Nat
  <2>1. Depth \in Nat
    BY RoutesAssumption
  <2> QED
    BY <2>1
<1>3. path \in [1..n -> Literals]
  <2>1. ASSUME NEW p \in [1..(n - 1) -> Literals], path = Append(p, Blank) PROVE FALSE
    <3>1. p \in Seq(Literals)
      BY <1>2, SeqDef
    <3>2. Append(p, Blank)[Len(Append(p, Blank))] = Blank
      BY <3>1
    <3> QED
      BY <2>1, <3>2
  <2> QED
    BY <1>1, <2>1
<1>4. path \in Seq(Literals)
  BY <1>2, <1>3, SeqDef
<1>5. path # <<>>
  BY <1>2, <1>3
<1> QED
  BY <1>4, <1>5 DEF PlainPath

(* The form in which a path that ends in a slash is compared with routes.  *)
Ending(path) == [i \in DOMAIN path |-> IF i = Len(path) /\ path[i] = Blank THEN End ELSE path[i]]

LEMMA MatchesPlain ==
    ASSUME NEW path, PlainPath(path), NEW r \in Routes
    PROVE  /\ PathMatches(r, path) <=>
                IF Multi(r) THEN Len(path) >= Len(r) /\ Covers(r, path, Len(r) - 1)
                            ELSE Len(path) = Len(r) /\ Covers(r, path, Len(path))
           /\ PathMatches(r, WithSlash(path)) <=>
                IF Multi(r) THEN Len(path) + 1 >= Len(r) /\ Covers(r, path, Len(r) - 1)
                            ELSE /\ Len(path) + 1 = Len(r) /\ Covers(r, path, Len(path))
                                 /\ r[Len(path) + 1] = End
           /\ Len(Ending(WithSlash(path))) \in Nat
           /\ PathMatches(r, WithSlash(path)) <=> Within(Ending(WithSlash(path)), r)
<1> DEFINE n == Len(path)
           k == Len(r)
           N == Append(path, Blank)
           E == Ending(N)
           P == Ending(path)
<1>1. /\ n \in Nat /\ n >= 1 /\ k \in Nat /\ k >= 1
      /\ path \in Seq(Literals) /\ DOMAIN path = 1..n /\ DOMAIN r = 1..k
      /\ \A i \in 1..n : path[i] # Blank
  <2>1. path \in Seq(Literals) /\ path # <<>>
    BY DEF PlainPath
  <2>2. n \in Nat /\ n >= 1 /\ DOMAIN path = 1..n
    BY <2>1
  <2>3. k \in Nat /\ k >= 1 /\ DOMAIN r = 1..k
    BY RouteShape
  <2>4. \A i \in 1..n : path[i] \in Literals
    BY <2>1, <2>2
  <2>5. \A i \in 1..n : path[i] # Blank
    BY <2>4, PlainSegments
  <2> QED
    BY <2>1, <2>2, <2>3, <2>5
<1>2. WithSlash(path) = N
  <2>1. path[Len(path)] # Blank
    BY <1>1
  <2> QED
    BY <2>1 DEF WithSlash, Blank
<1>3. /\ Len(N) = n + 1 /\ DOMAIN N = 1..(n + 1) /\ N[n + 1] = Blank
      /\ \A i \in 1..n : N[i] = path[i]
  BY <1>1
<1> HIDE DEF n, k, N
<1>4. /\ E = [i \in 1..(n + 1) |-> IF i = n + 1 /\ N[i] = Blank THEN End ELSE N[i]]
      /\ P = [i \in 1..n |-> IF i = n /\ path[i] = Blank THEN End ELSE path[i]]
  BY <1>1, <1>3 DEF Ending, n
<1> HIDE DEF E, P
<1>5. /\ Len(E) = n + 1 /\ E[n + 1] = End /\ \A i \in 1..n : E[i] = path[i]
      /\ Len(P) = n /\ \A i \in 1..n : P[i] = path[i]
  BY <1>1, <1>3, <1>4
<1>6. /\ PathMatches(r, path) <=> Within(P, r)
      /\ PathMatches(r, N) <=> Within(E, r)
  BY DEF PathMatches, Ending, Blank, E, P
<1>7. Within(P, r) <=> IF Multi(r) THEN n >= k /\ Covers(r, path, k - 1)
                                   ELSE n = k /\ Covers(r, path, n)
  <2>1. CASE Multi(r)
    <3>1. n >= k => \A i \in 1..(k - 1) : i \in 1..n
      BY <1>1
    <3> QED
      BY <1>5, <2>1, <3>1 DEF Within, Covers, k
  <2>2. CASE ~Multi(r)
    BY <1>1, <1>5, <2>2 DEF Within, Covers, k
  <2> QED
    BY <2>1, <2>2
<1>8. Within(E, r) <=> IF Multi(r) THEN n + 1 >= k /\ Covers(r, path, k - 1)
                                   ELSE n + 1 = k /\ Covers(r, path, n) /\ r[n + 1] = End
  <2>1. CASE Multi(r)
    <3>1. n + 1 >= k => \A i \in 1..(k - 1) : i \in 1..n
      BY <1>1
    <3> QED
      BY <1>5, <2>1, <3>1 DEF Within, Covers, k
  <2>2. CASE ~Multi(r)
    <3>1. Within(E, r) <=> n + 1 = k /\ \A i \in 1..k : Admits(r[i], E[i])
      BY <1>1, <1>5, <2>2 DEF Within, k
    <3>2. n + 1 \in 1..(n + 1) /\ \A i \in 1..(n + 1) : i \in 1..n \/ i = n + 1
      BY <1>1
    <3>3. \A i \in 1..n : i \in 1..(n + 1)
      BY <1>1
    <3>4. Admits(r[n + 1], E[n + 1]) <=> r[n + 1] = End
      BY <1>5 DEF Admits, Var
    <3> QED
      BY <1>5, <2>2, <3>1, <3>2, <3>3, <3>4 DEF Covers
  <2> QED
    BY <2>1, <2>2
<1>9. Len(path) = n /\ Len(r) = k /\ WithSlash(path) = N /\ E = Ending(WithSlash(path))
  BY <1>2 DEF n, k, E
<1>10. PathMatches(r, path) <=> IF Multi(r) THEN n >= k /\ Covers(r, path, k - 1)
                                           ELSE n = k /\ Covers(r, path, n)
  BY <1>6, <1>7
<1>11. PathMatches(r, WithSlash(path)) <=>
          IF Multi(r) THEN n + 1 >= k /\ Covers(r, path, k - 1)
                      ELSE n + 1 = k /\ Covers(r, path, n) /\ r[n + 1] = End
  BY <1>2, <1>6, <1>8
<1>12. /\ Len(Ending(WithSlash(path))) \in Nat
       /\ PathMatches(r, WithSlash(path)) <=> Within(Ending(WithSlash(path)), r)
  BY <1>1, <1>5, <1>6, <1>9
<1> QED
  BY <1>9, <1>10, <1>11, <1>12

------------------------------------------------------------------------------
(* What the route of a page is without what marks its end, and what of it  *)
(* is registered.                                                          *)
LEMMA Shortened ==
    ASSUME NEW S, NEW r \in Seq(S), r # <<>>, NEW x \in S
    PROVE  /\ SubSeq([r EXCEPT ![Len(r)] = x], 1, Len(r) - 1) = SubSeq(r, 1, Len(r) - 1)
           /\ SubSeq(r, 1, Len(r) - 1) \in Seq(S)
           /\ Len(SubSeq(r, 1, Len(r) - 1)) = Len(r) - 1
           /\ \A i \in 1..(Len(r) - 1) : SubSeq(r, 1, Len(r) - 1)[i] = r[i]
<1> DEFINE n == Len(r)
           w == [r EXCEPT ![n] = x]
<1>1. n \in Nat /\ n >= 1 /\ n - 1 \in 0..n /\ DOMAIN r = 1..n
  OBVIOUS
<1>2. w \in Seq(S) /\ Len(w) = n /\ \A i \in 1..(n - 1) : w[i] = r[i]
  OBVIOUS
<1> HIDE DEF n, w
<1>3. /\ SubSeq(w, 1, n - 1) \in Seq(S) /\ Len(SubSeq(w, 1, n - 1)) = n - 1
      /\ \A i \in 1..(n - 1) : SubSeq(w, 1, n - 1)[i] = w[i]
  BY <1>1, <1>2
<1>4. /\ SubSeq(r, 1, n - 1) \in Seq(S) /\ Len(SubSeq(r, 1, n - 1)) = n - 1
      /\ \A i \in 1..(n - 1) : SubSeq(r, 1, n - 1)[i] = r[i]
  BY <1>1 DEF n
<1>5. SubSeq(w, 1, n - 1) = SubSeq(r, 1, n - 1)
  BY <1>1, <1>2, <1>3, <1>4
<1> QED
  BY <1>4, <1>5 DEF n, w

LEMMA SlashedBody ==
    ASSUME NEW r \in Routes
    PROVE  \E b \in Seq(Segment) :
              /\ \A segments : Slashed(r, segments) = b \o segments
              /\ IF r[Len(r)] \in {End, Blank} THEN b = SubSeq(r, 1, Len(r) - 1) ELSE b = r
<1> DEFINE n == Len(r)
           w == WithTrailingSlash(r)
           b == IF r[n] \in {End, Blank} THEN SubSeq(r, 1, n - 1) ELSE r
<1>1. r \in Seq(Segment) /\ r # <<>> /\ Blank \in Segment
  BY Segments DEF Routes, Blank
<1>2. b \in Seq(Segment)
  BY <1>1, Shortened
<1>3. SubSeq(w, 1, Len(w) - 1) = b
  <2>1. CASE r[n] = End
    <3>1. w = [r EXCEPT ![n] = Blank]
      BY <2>1 DEF WithTrailingSlash, Blank, End
    <3>2. Len([r EXCEPT ![n] = Blank]) = n
      BY <1>1
    <3>3. SubSeq([r EXCEPT ![n] = Blank], 1, n - 1) = SubSeq(r, 1, n - 1)
      BY <1>1, Shortened
    <3> HIDE DEF n, w
    <3> QED
      BY <2>1, <3>1, <3>2, <3>3
  <2>2. CASE r[n] # End /\ r[n] = Blank
    BY <2>2 DEF WithTrailingSlash, Blank
  <2>3. CASE r[n] # End /\ r[n] # Blank
    <3>1. w = Append(r, Blank)
      BY <2>3 DEF WithTrailingSlash, Blank
    <3>2. /\ Len(Append(r, Blank)) = n + 1 /\ n \in Nat
          /\ SubSeq(Append(r, Blank), 1, n) = r
      BY <1>1, Appended
    <3>3. (n + 1) - 1 = n
      BY <3>2
    <3> HIDE DEF n, w
    <3> QED
      BY <2>3, <3>1, <3>2, <3>3
  <2> QED
    BY <2>1, <2>2, <2>3
<1>4. \A segments : Slashed(r, segments) = b \o segments
  BY <1>3 DEF Slashed
<1> QED
  BY <1>2, <1>4

(* A declared route takes all that follows it, is the end of "/" alone, or *)
(* is a route of literals and {name} that its pattern closes.              *)
LEMMA PageRoutes ==
    ASSUME NEW r \in Routes, IsPatternOfMux(r)
    PROVE  \/ /\ Multi(r) /\ Opened(r) = r
              /\ PagePattern(r) = r
           \/ /\ r = <<End>> /\ Opened(r) = r
              /\ PagePattern(r) = r
           \/ /\ Opened(r) \in Routes /\ Bare(Opened(r))
              /\ PagePattern(r) = Append(Opened(r), End)
              /\ PagePattern(Opened(r)) = Append(Opened(r), End)
<1> DEFINE n == Len(r)
           o == Opened(r)
<1>1. /\ r \in Seq(Segment) /\ r # <<>> /\ n \in Nat /\ n >= 1 /\ DOMAIN r = 1..n
  BY RouteShape DEF Routes
<1>2. CASE r = Root \/ EndsInWildcard(r)
  <2>1. Multi(r)
    <3>1. Len(Root) = 1 /\ Root[1] = ""
      BY DEF Root
    <3> QED
      BY <1>2, <3>1 DEF Multi, EndsInWildcard
  <2> QED
    BY <1>2, <2>1 DEF Opened, PagePattern
<1>3. PICK b \in Seq(Segment) :
         /\ \A segments : Slashed(r, segments) = b \o segments
         /\ IF r[n] \in {End, Blank} THEN b = SubSeq(r, 1, n - 1) ELSE b = r
  BY SlashedBody
<1>4. CASE r = <<End>>
  <2>1. b = <<>>
    BY <1>3, <1>4
  <2>2. Slashed(r, <<End>>) = <<End>>
    BY <1>3, <2>1
  <2>3. r # Root /\ ~EndsInWildcard(r)
    BY <1>4 DEF Root, EndsInWildcard, End, Rest
  <2> QED
    BY <1>4, <2>2, <2>3 DEF Opened, PagePattern
<1>5. CASE r # Root /\ ~EndsInWildcard(r) /\ r # <<End>>
  <2>1. o = b /\ PagePattern(r) = Append(b, End)
    <3>1. b \o <<>> = b /\ b \o <<End>> = Append(b, End)
      <4>1. End \in Segment
        BY Segments
      <4> QED
        BY <1>3, <4>1
    <3>2. o = Slashed(r, <<>>) /\ PagePattern(r) = Slashed(r, <<End>>)
      BY <1>5 DEF Opened, PagePattern
    <3> QED
      BY <1>3, <3>1, <3>2
  <2>2. b # <<>> /\ Bare(b)
    <3>1. CASE r[n] \in {End, Blank}
      <4>1. n # 1
        <5>1. n = 1 => r = <<r[n]>>
          BY <1>1
        <5> HIDE DEF n
        <5>2. <<Blank>> = Root
          BY DEF Root, Blank
        <5> QED
          BY <1>5, <3>1, <5>1, <5>2
      <4>2. Len(b) = n - 1 /\ \A i \in 1..(n - 1) : b[i] = r[i]
        <5>1. b = SubSeq(r, 1, n - 1)
          BY <1>3, <3>1
        <5>2. Blank \in Segment
          BY Segments DEF Blank
        <5> QED
          BY <1>1, <5>1, <5>2, Shortened
      <4>3. n - 1 \in 1..(n - 1) /\ n - 1 \in DOMAIN r /\ n - 1 # n
        <5>1. n \in Nat /\ n >= 1 /\ DOMAIN r = 1..n /\ n # 1
          BY <1>1, <4>1
        <5> HIDE DEF n
        <5> QED
          BY <5>1
      <4>4. b[n - 1] = r[n - 1] /\ r[n - 1] \notin {Rest, End, Blank}
        BY <4>2, <4>3 DEF IsPatternOfMux, Blank
      <4>5. b # <<>>
        BY <4>2, <4>3
      <4> QED
        BY <4>2, <4>4, <4>5 DEF Bare, Blank
    <3>2. CASE r[n] \notin {End, Blank}
      BY <1>1, <1>3, <1>5, <3>2 DEF Bare, Blank, EndsInWildcard
    <3> QED
      BY <3>1, <3>2
  <2>3. PagePattern(b) = Append(b, End)
    <3>1. b # Root /\ ~EndsInWildcard(b)
      <4>1. Root[Len(Root)] = Blank
        BY DEF Root, Blank
      <4>2. b[Len(b)] # Blank /\ b[Len(b)] # Rest
        BY <2>2 DEF Bare, Blank
      <4> QED
        BY <4>1, <4>2 DEF EndsInWildcard
    <3> QED
      BY <2>2, <3>1, ClosedByEnd DEF PagePattern
  <2> QED
    BY <2>1, <2>2, <2>3 DEF Routes
<1> QED
  BY <1>2, <1>4, <1>5

LEMMA Followed ==
    ASSUME NEW S, NEW s \in Seq(S), NEW t \in Seq(S)
    PROVE  /\ s \o t \in Seq(S) /\ Len(s \o t) = Len(s) + Len(t)
           /\ \A i \in 1..Len(t) : (s \o t)[Len(s) + i] = t[i]
OBVIOUS

(* No path without the segment of streams is one of a stream.              *)
LEMMA StreamEnds ==
    ASSUME NEW r \in Routes, NEW q, q = StreamPath(r) \/ q = AnonStreamPath(r)
    PROVE  /\ q \in Routes /\ q[Len(q)] = End
           /\ \E k \in Nat : Len(q) \in {k + 2, k + 3} /\ q[k + 1] = "_$"
<1>1. PICK b \in Seq(Segment) : \A segments : Slashed(r, segments) = b \o segments
  BY SlashedBody
<1> DEFINE k == Len(b)
           l == Len(q)
<1>2. k \in Nat /\ "_$" \in Segment /\ "anon" \in Segment /\ End \in Segment
  <2>1. "_$" \in Segment /\ "anon" \in Segment /\ End \in Segment
    BY Segments
  <2> QED
    BY <1>1, <2>1
<1>3. /\ q \in Seq(Segment) /\ l \in {k + 2, k + 3}
      /\ q[k + 1] = "_$" /\ q[l] = End
  <2>1. CASE q = StreamPath(r)
    <3>1. q = b \o <<"_$", End>>
      BY <1>1, <2>1 DEF StreamPath
    <3> DEFINE t == <<"_$", End>>
    <3>2. t \in Seq(Segment) /\ Len(t) = 2 /\ t[1] = "_$" /\ t[2] = End
      BY <1>2
    <3> HIDE DEF t
    <3>3. q = b \o t
      BY <3>1 DEF t
    <3>4. Len(q) = k + 2 /\ q[k + 1] = t[1] /\ q[k + 2] = t[2] /\ q \in Seq(Segment)
      <4>1. b \in Seq(Segment) /\ t \in Seq(Segment) /\ Len(t) = 2 /\ q = b \o t
        BY <1>1, <3>2, <3>3
      <4>2. /\ q \in Seq(Segment) /\ Len(q) = k + 2
            /\ \A i \in 1..2 : q[k + i] = t[i]
        <5>1. /\ b \o t \in Seq(Segment) /\ Len(b \o t) = k + Len(t)
              /\ \A i \in 1..Len(t) : (b \o t)[k + i] = t[i]
          <6>1. b \in Seq(Segment) /\ t \in Seq(Segment)
            BY <4>1
          <6> HIDE DEF t
          <6> QED
            BY <6>1, Followed
        <5> HIDE DEF t, k
        <5> QED
          BY <4>1, <5>1
      <4>3. 1 \in 1..2 /\ 2 \in 1..2
        OBVIOUS
      <4> HIDE DEF t, k
      <4> QED
        BY <4>2, <4>3
    <3> QED
      BY <3>2, <3>4
  <2>2. CASE q = AnonStreamPath(r)
    <3>1. q = b \o <<"_$", "anon", End>>
      BY <1>1, <2>2 DEF AnonStreamPath
    <3> DEFINE t == <<"_$", "anon", End>>
    <3>2. t \in Seq(Segment) /\ Len(t) = 3 /\ t[1] = "_$" /\ t[3] = End
      BY <1>2
    <3> HIDE DEF t
    <3>3. q = b \o t
      BY <3>1 DEF t
    <3>4. Len(q) = k + 3 /\ q[k + 1] = t[1] /\ q[k + 3] = t[3] /\ q \in Seq(Segment)
      <4>1. b \in Seq(Segment) /\ t \in Seq(Segment) /\ Len(t) = 3 /\ q = b \o t
        BY <1>1, <3>2, <3>3
      <4>2. /\ q \in Seq(Segment) /\ Len(q) = k + 3
            /\ \A i \in 1..3 : q[k + i] = t[i]
        <5>1. /\ b \o t \in Seq(Segment) /\ Len(b \o t) = k + Len(t)
              /\ \A i \in 1..Len(t) : (b \o t)[k + i] = t[i]
          <6>1. b \in Seq(Segment) /\ t \in Seq(Segment)
            BY <4>1
          <6> HIDE DEF t
          <6> QED
            BY <6>1, Followed
        <5> HIDE DEF t, k
        <5> QED
          BY <4>1, <5>1
      <4>3. 1 \in 1..3 /\ 3 \in 1..3
        OBVIOUS
      <4> HIDE DEF t, k
      <4> QED
        BY <4>2, <4>3
    <3> QED
      BY <3>2, <3>4
  <2> QED
    BY <2>1, <2>2
<1> HIDE DEF k, l
<1>4. q \in Routes
  <2>1. Len(q) # 0
    BY <1>2, <1>3 DEF l
  <2> QED
    BY <1>3, <2>1 DEF Routes
<1> QED
  BY <1>2, <1>3, <1>4 DEF l

LEMMA StreamsElsewhere ==
    ASSUME NEW r \in Routes, NEW path, PlainPath(path),
           NEW q, q = StreamPath(r) \/ q = AnonStreamPath(r)
    PROVE  q \in Routes /\ ~PathMatches(q, WithSlash(path))
<1> DEFINE l == Len(q)
<1>1. q \in Routes /\ q[l] = End
  BY StreamEnds
<1>2. PICK k \in Nat : l \in {k + 2, k + 3} /\ q[k + 1] = "_$"
  BY StreamEnds
<1> HIDE DEF l
<1>3. ~Multi(q)
  BY <1>1 DEF Multi, l, End, Rest
<1>4. ASSUME PathMatches(q, WithSlash(path)) PROVE FALSE
  <2> DEFINE n == Len(path)
  <2>1. n + 1 = l /\ Covers(q, path, n)
    BY <1>1, <1>3, <1>4, MatchesPlain DEF l
  <2>2. path \in Seq(Literals) /\ n \in Nat /\ DOMAIN path = 1..n /\ \A i \in 1..n : path[i] # "_$"
    BY DEF PlainPath
  <2> HIDE DEF n
  <2>3. k + 1 \in 1..n
    BY <1>2, <2>1, <2>2
  <2>4. Admits("_$", path[k + 1])
    BY <1>2, <2>1, <2>3 DEF Covers
  <2> QED
    BY <2>2, <2>3, <2>4 DEF Admits, Var
<1> QED
  BY <1>1, <1>4

------------------------------------------------------------------------------
(* What the server registers, whatever the routes.                         *)
LEMMA JoinedElements ==
    ASSUME NEW S, NEW s \in Seq(S), NEW t \in Seq(S)
    PROVE  s \o t \in Seq(S) /\ Elements(s \o t) = Elements(s) \cup Elements(t)
<1> DEFINE n == Len(s)
           m == Len(t)
           st == s \o t
<1>1. /\ n \in Nat /\ m \in Nat /\ DOMAIN s = 1..n /\ DOMAIN t = 1..m
      /\ st \in Seq(S) /\ DOMAIN st = 1..(n + m)
      /\ \A i \in 1..n : st[i] = s[i]
  OBVIOUS
<1>2. \A i \in 1..m : st[n + i] = t[i]
  BY Followed
<1> HIDE DEF n, m, st
<1>3. \A i \in 1..(n + m) : i \in 1..n \/ \E k \in 1..m : i = n + k
  <2> TAKE i \in 1..(n + m)
  <2>1. i \notin 1..n => i - n \in 1..m /\ i = n + (i - n)
    BY <1>1
  <2> QED
    BY <2>1
<1>4. (\A i \in 1..n : i \in 1..(n + m)) /\ \A i \in 1..m : n + i \in 1..(n + m)
  BY <1>1
<1>5. \A x : x \in Elements(st) <=> x \in Elements(s) \/ x \in Elements(t)
  <2>1. \A i \in 1..(n + m) : st[i] \in Elements(s) \/ st[i] \in Elements(t)
    BY <1>1, <1>2, <1>3 DEF Elements
  <2>2. \A i \in 1..n : s[i] \in Elements(st)
    BY <1>1, <1>4 DEF Elements
  <2>3. \A i \in 1..m : t[i] \in Elements(st)
    <3> TAKE i \in 1..m
    <3>1. st[n + i] = t[i] /\ n + i \in DOMAIN st
      BY <1>1, <1>2, <1>4
    <3> QED
      BY <3>1 DEF Elements
  <2> QED
    BY <1>1, <2>1, <2>2, <2>3 DEF Elements
<1> QED
  BY <1>1, <1>5 DEF st

LEMMA FlattenedElements ==
    ASSUME NEW S, NEW ss \in Seq(Seq(S))
    PROVE  /\ SE!FlattenSeq(ss) \in Seq(S)
           /\ \A x : x \in Elements(SE!FlattenSeq(ss)) <=> \E i \in DOMAIN ss : x \in Elements(ss[i])
<1>1. CASE ss = <<>>
  <2>1. SE!FlattenSeq(ss) = <<>> /\ <<>> \in Seq(S) /\ DOMAIN <<>> = {}
    BY <1>1 DEF SE!FlattenSeq
  <2>2. Elements(<<>>) = {}
    BY <2>1 DEF Elements
  <2> HIDE DEF SE!FlattenSeq
  <2> QED
    BY <1>1, <2>1, <2>2
<1>2. CASE ss # <<>>
  <2> DEFINE N == Len(ss)
  <2>1. PICK g : Joins(ss, N, g) /\ SE!FlattenSeq(ss) = g[N]
    BY <1>2, FlattenJoins
  <2>2. N \in Nat /\ N # 0 /\ DOMAIN ss = 1..N /\ \A i \in 1..N : ss[i] \in Seq(S)
    BY <1>2
  <2>3. \A i \in 1..N : g[i] = IF i = 1 THEN ss[i] ELSE g[i - 1] \o ss[i]
    BY <2>1 DEF Joins
  <2> HIDE DEF N
  <2> DEFINE Good(k) ==
               /\ g[k] \in Seq(S)
               /\ \A x : x \in Elements(g[k]) <=> \E i \in 1..k : x \in Elements(ss[i])
             T == {n \in Nat : n < N => Good(n + 1)}
  <2>4. 0 \in T
    <3>1. 1 \in 1..N /\ g[1] = ss[1] /\ 1..1 = {1} /\ 0 + 1 = 1
      BY <2>2, <2>3
    <3> QED
      BY <2>2, <3>1
  <2>5. ASSUME NEW n \in T PROVE n + 1 \in T
    <3>1. SUFFICES ASSUME n + 1 < N PROVE Good((n + 1) + 1)
      OBVIOUS
    <3> DEFINE k == n + 1
               l == (n + 1) + 1
    <3>2. /\ n \in Nat /\ k \in 1..N /\ l \in 1..N /\ l # 1 /\ l - 1 = k
          /\ \A i \in 1..l : i \in 1..k \/ i = l
          /\ \A i \in 1..k : i \in 1..l
          /\ l \in 1..l
      BY <2>2, <3>1
    <3>3. Good(k)
      BY <2>2, <3>1
    <3> HIDE DEF k, l
    <3>4. g[l] = g[k] \o ss[l] /\ ss[l] \in Seq(S) /\ g[k] \in Seq(S)
      BY <2>2, <2>3, <3>2, <3>3
    <3>5. g[l] \in Seq(S) /\ Elements(g[l]) = Elements(g[k]) \cup Elements(ss[l])
      <4> HIDE DEF Good, T
      <4> QED
        BY <3>4, JoinedElements
    <3>6. \A x : x \in Elements(g[l]) <=> \E i \in 1..l : x \in Elements(ss[i])
      BY <3>2, <3>3, <3>5
    <3> QED
      BY <3>5, <3>6 DEF k, l
  <2>6. T = Nat
    <3> HIDE DEF Good
    <3> QED
      BY <2>4, <2>5, SetInduction
  <2>7. Good(N)
    <3>1. N - 1 \in Nat /\ N - 1 < N /\ (N - 1) + 1 = N
      BY <2>2
    <3> HIDE DEF Good
    <3> QED
      BY <2>6, <3>1
  <2> QED
    BY <2>1, <2>2, <2>7
<1> QED
  BY <1>1, <1>2

LEMMA ActionListing ==
    ASSUME NEW a \in ActionType, app \in Applications
    PROVE  ActionPattern(a) \in Pattern /\ ActionPattern(a).method # "GET"
<1>1. a.route \in Seq(Segment) /\ a.route # <<>> /\ a.method \in ActionMethods
  BY RouteFacts DEF ActionType
<1> DEFINE R == Slashed(a.route, <<End>>)
<1>2. R \in Seq(Segment)
  <2>1. End \in Segment
    BY Segments
  <2>2. <<End>> \in Seq(Segment)
    BY <2>1
  <2> QED
    BY <1>1, <2>2, SlashedType
<1>3. ActionPattern(a) = [a EXCEPT !.route = R]
  BY DEF ActionPattern
<1> HIDE DEF R
<1>4. ActionPattern(a) = [method |-> a.method, route |-> R]
  BY <1>3 DEF ActionType
<1>5. a.method \in ActionMethods /\ a.method # "GET"
  <2>1. \A m \in ActionMethods : m # "GET"
    BY DEF ActionMethods
  <2> QED
    BY <1>1, <2>1
<1> QED
  BY <1>2, <1>4, <1>5 DEF Pattern

LEMMA ActionPatternsListed ==
    ASSUME WellClaimed, NEW p \in Pages
    PROVE  /\ ActionPatterns(p) \in Seq(Pattern)
           /\ \A i \in DOMAIN ActionPatterns(p) : ActionPatterns(p)[i].method # "GET"
<1> DEFINE A == ActionsOf(p)
<1>1. app \in Applications /\ A \in Seq(ActionType)
  BY ActionsListed DEF WellClaimed
<1>2. /\ DOMAIN A = 1..Len(A) /\ Len(A) \in Nat
      /\ \A i \in DOMAIN A : A[i] \in ActionType
  BY <1>1
<1>3. /\ ActionPatterns(p) = [i \in 1..Len(A) |-> ActionPattern(A[i])]
  BY <1>2 DEF ActionPatterns
<1> HIDE DEF A
<1>4. \A i \in 1..Len(A) : ActionPattern(A[i]) \in Pattern /\ ActionPattern(A[i]).method # "GET"
  BY <1>1, <1>2, ActionListing
<1>5. ActionPatterns(p) \in [1..Len(A) -> Pattern]
  BY <1>3, <1>4
<1> QED
  BY <1>2, <1>3, <1>4, <1>5, FunctionIsSeq

LEMMA AppPatternsListed ==
    ASSUME WellClaimed
    PROVE  /\ AppPatterns \in Seq(Pattern)
           /\ \A i \in DOMAIN AppPatterns : AppPatterns[i].method # "GET"
<1> DEFINE N == Len(app.actions)
<1>1. /\ app \in Applications /\ N \in Nat /\ DOMAIN app.actions = 1..N
      /\ \A i \in 1..N : app.actions[i] \in ActionType
  BY RouteFacts DEF WellClaimed
<1>2. /\ DOMAIN AppPatterns = 1..N
      /\ \A i \in 1..N : AppPatterns[i] \in Pattern /\ AppPatterns[i].method # "GET"
  BY <1>1, ActionListing DEF AppPatterns
<1>3. AppPatterns \in [1..N -> Pattern]
  BY <1>1, <1>2 DEF AppPatterns
<1> HIDE DEF N
<1> QED
  BY <1>1, <1>2, <1>3, FunctionIsSeq

LEMMA RegistrationsListed ==
    ASSUME WellClaimed
    PROVE  /\ Registrations \in Seq(Pattern)
           /\ \A x \in Elements(Registrations) : x.method = "GET" =>
                 x.route \in StreamRoutes \/ \E p \in Pages : x = PageListing(p)
           /\ \A p \in Pages : PageListing(p) \in Elements(Registrations)
<1> DEFINE ss == [i \in DOMAIN app.pages |-> PagePatterns(app.pages[i])]
           tt == [i \in DOMAIN app.pages |-> ActionPatterns(app.pages[i])]
           F == SE!FlattenSeq(ss)
           G == SE!FlattenSeq(tt)
           A == AppPatterns
<1>1. app \in Applications /\ app.pages \in Seq(Pages) /\ Elements(app.pages) = Pages
  BY DeclarationFacts DEF WellClaimed
<1>2. /\ DOMAIN app.pages = 1..Len(app.pages) /\ Len(app.pages) \in Nat
      /\ \A i \in DOMAIN app.pages : app.pages[i] \in Pages
  BY <1>1
<1>3. /\ DOMAIN ss = DOMAIN app.pages /\ DOMAIN tt = DOMAIN app.pages
      /\ \A i \in DOMAIN app.pages :
            ss[i] = PagePatterns(app.pages[i]) /\ tt[i] = ActionPatterns(app.pages[i])
  OBVIOUS
<1>4. ss \in Seq(Seq(Pattern)) /\ tt \in Seq(Seq(Pattern))
  <2>1. \A p \in Pages : PagePatterns(p) \in Seq(Pattern) /\ ActionPatterns(p) \in Seq(Pattern)
    BY <1>1, PagePatternsListed, ActionPatternsListed
  <2>2. /\ ss \in [1..Len(app.pages) -> Seq(Pattern)]
        /\ tt \in [1..Len(app.pages) -> Seq(Pattern)]
    BY <1>2, <2>1
  <2> QED
    BY <1>2, <2>2, FunctionIsSeq
<1>5. Registrations = (F \o A) \o G
  BY DEF Registrations, AppPatterns, ActionPatterns
<1> HIDE DEF ss, tt
<1>6. /\ F \in Seq(Pattern)
      /\ \A x : x \in Elements(F) <=> \E i \in DOMAIN ss : x \in Elements(ss[i])
  BY <1>4, FlattenedElements
<1>7. /\ G \in Seq(Pattern)
      /\ \A x : x \in Elements(G) <=> \E i \in DOMAIN tt : x \in Elements(tt[i])
  BY <1>4, FlattenedElements
<1>8. A \in Seq(Pattern) /\ \A x \in Elements(A) : x.method # "GET"
  BY AppPatternsListed DEF Elements
<1> HIDE DEF F, G, A
<1>9. /\ F \o A \in Seq(Pattern) /\ Elements(F \o A) = Elements(F) \cup Elements(A)
  BY <1>6, <1>8, JoinedElements
<1>10. /\ (F \o A) \o G \in Seq(Pattern)
       /\ Elements((F \o A) \o G) = Elements(F \o A) \cup Elements(G)
  <2> DEFINE FA == F \o A
  <2>1. FA \in Seq(Pattern)
    BY <1>9
  <2> HIDE DEF FA
  <2>2. FA \o G \in Seq(Pattern) /\ Elements(FA \o G) = Elements(FA) \cup Elements(G)
    BY <1>7, <2>1, JoinedElements
  <2> QED
    BY <2>2 DEF FA
<1>11. \A x : x \in Elements(Registrations) <=>
                 x \in Elements(F) \/ x \in Elements(A) \/ x \in Elements(G)
  BY <1>5, <1>9, <1>10
<1>12. ASSUME NEW x \in Elements(F)
       PROVE  x.route \in StreamRoutes \/ \E p \in Pages : x = PageListing(p)
  <2>1. PICK i \in DOMAIN app.pages : x \in Elements(PagePatterns(app.pages[i]))
    BY <1>3, <1>6
  <2>2. PICK j \in DOMAIN PagePatterns(app.pages[i]) : x = PagePatterns(app.pages[i])[j]
    BY <2>1 DEF Elements
  <2>3. app.pages[i] \in Pages
    BY <1>2
  <2> QED
    BY <1>1, <2>2, <2>3, PagePatternsListed
<1>13. \A x \in Elements(G) : x.method # "GET"
  <2> TAKE x \in Elements(G)
  <2>1. PICK i \in DOMAIN app.pages : x \in Elements(ActionPatterns(app.pages[i]))
    BY <1>3, <1>7
  <2> QED
    BY <1>2, <2>1, ActionPatternsListed DEF Elements
<1>14. ASSUME NEW p \in Pages PROVE PageListing(p) \in Elements(F)
  <2>1. PICK i \in DOMAIN app.pages : app.pages[i] = p
    BY <1>1 DEF Elements
  <2>2. PageListing(p) \in Elements(ss[i])
    BY <1>1, <1>3, <2>1, PagePatternsListed DEF Elements
  <2> QED
    BY <1>3, <1>6, <2>1, <2>2
<1> QED
  BY <1>5, <1>8, <1>10, <1>11, <1>12, <1>13, <1>14

------------------------------------------------------------------------------
(* Which paths a page's route and its pattern match.                       *)
LEMMA WideAfterNarrow ==
    ASSUME NEW a \in Routes, NEW b \in Routes, Multi(a), Within(a, b)
    PROVE  Multi(b)
<1> DEFINE n == Len(a)
           m == Len(b)
<1>1. n \in Nat /\ n >= 1 /\ m \in Nat /\ m >= 1 /\ DOMAIN b = 1..m
  BY RouteShape
<1> HIDE DEF n, m
<1>2. SUFFICES ASSUME ~Multi(b) PROVE FALSE
  OBVIOUS
<1>3. n = m /\ \A i \in 1..m : Admits(b[i], a[i])
  BY <1>1, <1>2 DEF Within, n, m
<1>4. Admits(b[m], a[n]) /\ a[n] = a[Len(a)] /\ b[m] = b[Len(b)]
  <2>1. Admits(b[m], a[n])
    BY <1>1, <1>3
  <2> QED
    BY <2>1 DEF n, m
<1> QED
  BY <1>2, <1>4 DEF Multi, Admits, Var, Rest, End

LEMMA RequestOfWide ==
    ASSUME NEW path, PlainPath(path), NEW r \in Routes, Multi(r), PathMatches(r, path)
    PROVE  Len(path) >= Len(r) /\ PathMatches(r, WithSlash(path))
<1>1. Len(path) \in Nat /\ Len(r) \in Nat
  BY RouteShape DEF PlainPath
<1>2. Len(path) >= Len(r) /\ Covers(r, path, Len(r) - 1)
  BY MatchesPlain
<1>3. Len(path) + 1 >= Len(r)
  BY <1>1, <1>2
<1> QED
  BY <1>2, <1>3, MatchesPlain

LEMMA RequestOfRoot ==
    ASSUME NEW path, PlainPath(path)
    PROVE  /\ Root \in Routes /\ Multi(Root)
           /\ PathMatches(Root, path) /\ PathMatches(Root, WithSlash(path))
<1>1. Root \in Routes /\ Len(Root) = 1
  <2>1. Blank \in Segment /\ Root = <<Blank>>
    BY Segments DEF Blank, Root
  <2> HIDE DEF Root
  <2>2. <<Blank>> \in Seq(Segment) /\ <<Blank>> # <<>> /\ Len(<<Blank>>) = 1
    BY <2>1
  <2> QED
    BY <2>1, <2>2 DEF Routes
<1>2. Multi(Root)
  <2>1. Len(Root) = 1 /\ Root[1] = ""
    BY DEF Root
  <2> QED
    BY <2>1 DEF Multi
<1>3. Len(path) \in Nat /\ Len(path) >= 1
  BY DEF PlainPath
<1>4. Covers(Root, path, 0)
  <2>1. \A i \in 1..0 : FALSE
    OBVIOUS
  <2> QED
    BY <2>1 DEF Covers
<1>5. Len(path) >= Len(Root) /\ Len(Root) - 1 = 0
  BY <1>1, <1>3
<1>6. PathMatches(Root, path)
  BY <1>1, <1>2, <1>4, <1>5, MatchesPlain
<1> QED
  BY <1>1, <1>2, <1>6, RequestOfWide

LEMMA RequestOfEnd ==
    ASSUME NEW path, PlainPath(path)
    PROVE  /\ <<End>> \in Routes
           /\ ~PathMatches(<<End>>, path) /\ ~PathMatches(<<End>>, WithSlash(path))
<1> DEFINE e == <<End>>
<1>1. e \in Routes /\ Len(e) = 1 /\ e[1] = End
  <2>1. End \in Segment
    BY Segments
  <2> QED
    BY <2>1 DEF Routes
<1>2. ~Multi(e)
  BY <1>1 DEF Multi, End, Rest
<1> HIDE DEF e
<1>3. path \in Seq(Literals) /\ Len(path) \in Nat /\ Len(path) >= 1 /\ path[1] \in Literals
  BY DEF PlainPath
<1>4. ASSUME PathMatches(e, path) PROVE FALSE
  <2>1. Covers(e, path, Len(path))
    BY <1>1, <1>2, <1>4, MatchesPlain
  <2>2. Admits(End, path[1])
    BY <1>1, <1>3, <2>1 DEF Covers
  <2>3. path[1] = End
    BY <2>2 DEF Admits, End, Var
  <2> QED
    BY <1>3, <2>3, PlainSegments
<1>5. ASSUME PathMatches(e, WithSlash(path)) PROVE FALSE
  <2>1. Len(path) + 1 = Len(e)
    BY <1>1, <1>2, <1>5, MatchesPlain
  <2> QED
    BY <1>1, <1>3, <2>1
<1> QED
  BY <1>1, <1>4, <1>5 DEF e

LEMMA RequestOfClosed ==
    ASSUME NEW path, PlainPath(path), NEW b \in Routes, Bare(b)
    PROVE  /\ Append(b, End) \in Routes /\ ~Multi(b) /\ ~Multi(Append(b, End))
           /\ PathMatches(Append(b, End), WithSlash(path)) <=> PathMatches(b, path)
           /\ PathMatches(b, path) => Len(path) = Len(b)
           /\ ~PathMatches(b, WithSlash(path))
<1> DEFINE n == Len(path)
           k == Len(b)
           c == Append(b, End)
<1>1. /\ n \in Nat /\ k \in Nat /\ k >= 1 /\ b \in Seq(Segment)
      /\ Len(c) = k + 1 /\ c[k + 1] = End /\ (\A i \in 1..k : c[i] = b[i]) /\ c \in Seq(Segment)
  <2>1. End \in Segment /\ b \in Seq(Segment) /\ b # <<>>
    BY Segments DEF Routes
  <2>2. n \in Nat
    BY DEF PlainPath
  <2> QED
    BY <2>1, <2>2, Appended, RouteShape
<1>2. ~Multi(b) /\ b[k] # End
  BY DEF Bare, Multi
<1> HIDE DEF n, k, c
<1>3. c \in Routes
  BY <1>1 DEF Routes
<1>4. ~Multi(c)
  <2>1. c[Len(c)] = End
    BY <1>1
  <2> QED
    BY <2>1 DEF Multi, End, Rest
<1>5. PathMatches(b, path) <=> n = k /\ Covers(b, path, n)
  BY <1>2, MatchesPlain DEF n, k
<1>6. PathMatches(b, WithSlash(path)) <=> n + 1 = k /\ Covers(b, path, n) /\ b[n + 1] = End
  BY <1>2, MatchesPlain DEF n, k
<1>7. PathMatches(c, WithSlash(path)) <=> n + 1 = k + 1 /\ Covers(c, path, n) /\ c[n + 1] = End
  <2>1. PathMatches(c, WithSlash(path)) <=>
           n + 1 = Len(c) /\ Covers(c, path, n) /\ c[n + 1] = End
    BY <1>3, <1>4, MatchesPlain DEF n
  <2> QED
    BY <1>1, <2>1
<1>8. n = k => (Covers(c, path, n) <=> Covers(b, path, n))
  BY <1>1 DEF Covers
<1>9. PathMatches(c, WithSlash(path)) <=> PathMatches(b, path)
  <2>1. n + 1 = k + 1 <=> n = k
    BY <1>1
  <2> QED
    BY <1>1, <1>5, <1>7, <1>8, <2>1
<1>10. ~PathMatches(b, WithSlash(path))
  BY <1>2, <1>6
<1>11. PathMatches(b, path) => n = k
  BY <1>5
<1> QED
  BY <1>2, <1>3, <1>4, <1>9, <1>10, <1>11 DEF n, k, c

LEMMA ClosedWithinWide ==
    ASSUME NEW b \in Routes, NEW o \in Routes, Multi(o), Len(b) >= Len(o),
           Within(Append(b, End), o)
    PROVE  Within(b, o)
<1> DEFINE k == Len(b)
           l == Len(o)
           c == Append(b, End)
<1>1. /\ k \in Nat /\ l \in Nat /\ l >= 1 /\ k >= l
      /\ (\A i \in 1..k : c[i] = b[i])
  <2>1. End \in Segment /\ b \in Seq(Segment)
    BY Segments DEF Routes
  <2>2. \A i \in 1..k : c[i] = b[i]
    BY <2>1, Appended
  <2>3. k \in Nat /\ l \in Nat /\ l >= 1
    BY RouteShape
  <2> QED
    BY <2>2, <2>3
<1> HIDE DEF k, l, c
<1>2. \A i \in 1..(l - 1) : Admits(o[i], c[i])
  BY DEF Within, l, c
<1>3. \A i \in 1..(l - 1) : i \in 1..k
  BY <1>1
<1> QED
  BY <1>1, <1>2, <1>3 DEF Within, k, l

------------------------------------------------------------------------------
(* A running server's patterns, and what serves a request among them.      *)
GetOn(route) == [method |-> "GET", route |-> route]

AllRegistered ==
    \/ patterns = Elements(Registrations)
    \/ /\ app.assets # <<>>
       /\ patterns = Elements(Registrations) \cup {AssetsPattern}

Running ==
    /\ WellClaimed /\ Index \in Pages
    /\ \A p \in Pages : IsPatternOfMux(app.routeOf[p])
    /\ AllRegistered
    /\ \A x, y \in patterns : x # y => ~Conflict(x, y)

LEMMA PageKinds ==
    ASSUME app \in Applications, NEW p \in Pages, IsPatternOfMux(app.routeOf[p]),
           NEW o, o = Opened(app.routeOf[p]), NEW x, x = PagePattern(app.routeOf[p])
    PROVE  /\ o \in Routes /\ x \in Routes
           /\ \/ Multi(o) /\ x = o /\ PagePattern(o) = o
              \/ o = <<End>> /\ x = <<End>>
              \/ Bare(o) /\ x = Append(o, End) /\ PagePattern(o) = x
<1> DEFINE r == app.routeOf[p]
<1>1. r \in Routes
  BY RouteFacts DEF Routes
<1>2. End \in Segment
  BY Segments
<1>3. \A b \in Routes : Append(b, End) \in Routes
  <2> TAKE b \in Routes
  <2>1. b \in Seq(Segment)
    BY DEF Routes
  <2>2. Append(b, End) \in Seq(Segment) /\ Append(b, End) # <<>>
    BY <1>2, <2>1
  <2> QED
    BY <2>2 DEF Routes
<1>4. IsPatternOfMux(r) /\ o = Opened(r) /\ x = PagePattern(r)
  OBVIOUS
<1> HIDE DEF r
<1>5. \/ Multi(r) /\ o = r /\ x = r
      \/ r = <<End>> /\ o = r /\ x = r
      \/ o \in Routes /\ Bare(o) /\ x = Append(o, End) /\ PagePattern(o) = Append(o, End)
  BY <1>1, <1>4, PageRoutes
<1> QED
  BY <1>1, <1>3, <1>4, <1>5

(* The static files take what follows their prefix, and no page's route    *)
(* that ends in a literal or {name} is that prefix.                        *)
LEMMA StaticFiles ==
    ASSUME app \in Applications
    PROVE  /\ AssetsPattern = GetOn(app.assets)
           /\ app.assets # <<>> =>
                 AssetsPattern \in Pattern /\ app.assets \in Routes /\ Multi(app.assets)
           /\ \A b \in Routes : Bare(b) => GetOn(b) # AssetsPattern
<1>1. AssetsPattern = GetOn(app.assets)
  BY DEF AssetsPattern, GetOn
<1>2. ASSUME app.assets # <<>>
      PROVE  /\ app.assets \in Seq(Segment) /\ app.assets[Len(app.assets)] = Blank
  <2> DEFINE a == app.assets
  <2>1. a \in Seq(STRING) /\ Len(a) > 1 /\ a[Len(a)] = Blank
    <3>1. /\ a \in Seq(STRING) /\ Len(a) > 1
          /\ \A i \in 1..Len(a) : i = Len(a) => a[i] = Blank
      BY <1>2, AssetsAssumption DEF Blank
    <3>2. Len(a) \in 1..Len(a)
      BY <3>1
    <3> QED
      BY <3>1, <3>2
  <2> HIDE DEF a
  <2>2. STRING \in SUBSET Segment
    BY DEF Segment
  <2>3. a \in Seq(Segment)
    BY <2>1, <2>2, SeqOfLarger
  <2> QED
    BY <2>1, <2>3 DEF a
<1>3. ASSUME app.assets # <<>>
      PROVE  AssetsPattern \in Pattern /\ app.assets \in Routes /\ Multi(app.assets)
  <2>1. app.assets \in Routes
    BY <1>2, <1>3 DEF Routes
  <2>2. Multi(app.assets)
    BY <1>2, <1>3 DEF Multi, Blank
  <2>3. AssetsPattern \in Pattern
    BY <1>2, <1>3 DEF Pattern, AssetsPattern
  <2> QED
    BY <2>1, <2>2, <2>3
<1>4. ASSUME NEW b \in Routes, Bare(b) PROVE GetOn(b) # AssetsPattern
  <2>1. b # <<>> /\ b[Len(b)] # Blank
    BY <1>4 DEF Routes, Bare, Blank
  <2>2. GetOn(b).route = b /\ GetOn(app.assets).route = app.assets
    BY DEF GetOn
  <2> QED
    BY <1>1, <1>2, <2>1, <2>2
<1> QED
  BY <1>1, <1>3, <1>4

(* The patterns that match a request, and that they can be compared.       *)
Serving(path) == {x \in patterns : x.method = "GET" /\ PathMatches(x.route, path)}

LEMMA RegisteredEnds ==
    ASSUME Running, NEW x \in patterns, x.method = "GET"
    PROVE  x.route \in Routes /\ (Multi(x.route) \/ x.route[Len(x.route)] = End)
<1>1. /\ WellClaimed /\ app \in Applications /\ AllRegistered
      /\ \A p \in Pages : IsPatternOfMux(app.routeOf[p])
  BY DEF Running, WellClaimed
<1>2. \/ x.route \in StreamRoutes
      \/ \E p \in Pages : x = PageListing(p)
      \/ x = AssetsPattern /\ x.route \in Routes /\ Multi(x.route)
  <2>1. \A y \in Elements(Registrations) : y.method = "GET" =>
              y.route \in StreamRoutes \/ \E p \in Pages : y = PageListing(p)
    BY <1>1, RegistrationsListed
  <2>2. app.assets # <<>> => AssetsPattern.route \in Routes /\ Multi(AssetsPattern.route)
    BY <1>1, StaticFiles DEF GetOn
  <2> QED
    BY <1>1, <2>1, <2>2 DEF AllRegistered
<1>3. CASE x.route \in StreamRoutes
  <2>1. PICK p \in Pages : x.route = StreamPath(app.routeOf[p]) \/ x.route = AnonStreamPath(app.routeOf[p])
    BY <1>3 DEF StreamRoutes
  <2>2. app.routeOf[p] \in Routes
    BY <1>1, RouteFacts DEF Routes
  <2> QED
    BY <2>1, <2>2, StreamEnds
<1>4. ASSUME NEW p \in Pages, x = PageListing(p)
      PROVE  x.route \in Routes /\ (Multi(x.route) \/ x.route[Len(x.route)] = End)
  <2> DEFINE o == Opened(app.routeOf[p])
             q == PagePattern(app.routeOf[p])
  <2>1. /\ o \in Routes /\ q \in Routes
        /\ \/ Multi(o) /\ q = o
           \/ o = <<End>> /\ q = <<End>>
           \/ q = Append(o, End)
    BY <1>1, PageKinds
  <2>2. x.route = q
    BY <1>4 DEF PageListing
  <2>3. <<End>>[Len(<<End>>)] = End
    OBVIOUS
  <2>4. Append(o, End)[Len(Append(o, End))] = End
    <3>1. o \in Seq(Segment) /\ End \in Segment
      BY <2>1, Segments DEF Routes
    <3> HIDE DEF o
    <3> QED
      BY <3>1, Appended
  <2> HIDE DEF o, q
  <2> QED
    BY <2>1, <2>2, <2>3, <2>4
<1> QED
  BY <1>2, <1>3, <1>4

LEMMA ServingPages ==
    ASSUME Running, NEW path, PlainPath(path), NEW M, M = Serving(WithSlash(path))
    PROVE  /\ \A x \in M : /\ x.route \in Routes
                           /\ \/ \E p \in Pages : x = PageListing(p)
                              \/ x = AssetsPattern /\ Multi(x.route)
           /\ \A p \in Pages : PathMatches(PagePattern(app.routeOf[p]), WithSlash(path)) =>
                                  PageListing(p) \in M
           /\ GetOn(Root) \in M /\ IsFiniteSet(M)
           /\ \A x, y \in M : Within(x.route, y.route) \/ Within(y.route, x.route)
           /\ \A x, y \in M : Within(x.route, y.route) /\ Within(y.route, x.route) => x = y
<1> DEFINE N == WithSlash(path)
<1>1. /\ WellClaimed /\ app \in Applications /\ Index \in Pages
      /\ \A p \in Pages : IsPatternOfMux(app.routeOf[p])
      /\ AllRegistered
      /\ \A x, y \in patterns : x # y => ~Conflict(x, y)
  BY DEF Running, WellClaimed
<1>2. /\ \A x \in patterns : x.method = "GET" =>
            \/ x.route \in StreamRoutes
            \/ \E p \in Pages : x = PageListing(p)
            \/ x = AssetsPattern /\ x.route \in Routes /\ Multi(x.route)
      /\ \A p \in Pages : PageListing(p) \in patterns
  <2>1. /\ \A x \in Elements(Registrations) : x.method = "GET" =>
              x.route \in StreamRoutes \/ \E p \in Pages : x = PageListing(p)
        /\ \A p \in Pages : PageListing(p) \in Elements(Registrations)
    BY <1>1, RegistrationsListed
  <2>2. app.assets # <<>> => AssetsPattern.route \in Routes /\ Multi(AssetsPattern.route)
    BY <1>1, StaticFiles DEF GetOn
  <2> QED
    BY <1>1, <2>1, <2>2 DEF AllRegistered
<1>3. \A p \in Pages : /\ app.routeOf[p] \in Routes /\ PagePattern(app.routeOf[p]) \in Routes
                       /\ PageListing(p).method = "GET"
                       /\ PageListing(p).route = PagePattern(app.routeOf[p])
  BY <1>1, PageKinds, RouteFacts DEF Routes, PageListing
<1>4. \A x \in M : x \in patterns /\ x.method = "GET" /\ PathMatches(x.route, N)
  BY DEF Serving
<1>5. \A x \in M : /\ x.route \in Routes
                   /\ \/ \E p \in Pages : x = PageListing(p)
                      \/ x = AssetsPattern /\ Multi(x.route)
  <2> TAKE x \in M
  <2>1. x.route \notin StreamRoutes
    <3>1. SUFFICES ASSUME NEW p \in Pages,
                          x.route = StreamPath(app.routeOf[p]) \/ x.route = AnonStreamPath(app.routeOf[p])
                   PROVE  FALSE
      BY DEF StreamRoutes
    <3> QED
      BY <1>3, <1>4, <3>1, StreamsElsewhere
  <2> QED
    BY <1>2, <1>3, <1>4, <2>1
<1>6. ASSUME NEW p \in Pages, PathMatches(PagePattern(app.routeOf[p]), N)
      PROVE  PageListing(p) \in M
  BY <1>2, <1>3, <1>6 DEF Serving
<1>7. GetOn(Root) \in M
  <2>1. app.routeOf[Index] = Root
    BY <1>1, RouteFacts
  <2>2. PagePattern(Root) = Root
    BY DEF PagePattern
  <2>3. PathMatches(PagePattern(app.routeOf[Index]), N)
    BY <2>1, <2>2, RequestOfRoot
  <2>4. PageListing(Index) \in M
    BY <1>1, <1>6, <2>3
  <2>5. PageListing(Index) = GetOn(Root)
    BY <2>1, <2>2 DEF PageListing, GetOn
  <2> QED
    BY <2>4, <2>5
<1>8. IsFiniteSet(M)
  <2> DEFINE f == [p \in Pages |-> PageListing(p)]
             all == {f[p] : p \in Pages}
  <2>1. IsFiniteSet(Pages)
    BY <1>1, DeclarationFacts, FS_Subset DEF Closed
  <2>2. DOMAIN f = Pages
    OBVIOUS
  <2>3. M \in SUBSET (all \cup {AssetsPattern})
    BY <1>5
  <2> HIDE DEF f
  <2>4. IsFiniteSet(all)
    BY <2>1, <2>2, ImageFinite
  <2> HIDE DEF all
  <2>5. IsFiniteSet(all \cup {AssetsPattern})
    BY <2>4, FS_AddElement
  <2> QED
    BY <2>3, <2>5, FS_Subset
<1>9. ASSUME NEW x \in M, NEW y \in M, x # y
      PROVE  ~(Within(x.route, y.route) <=> Within(y.route, x.route))
  <2>1. ~Conflict(x, y) /\ x.method = y.method /\ x.route \in Routes /\ y.route \in Routes
    BY <1>1, <1>4, <1>5, <1>9
  <2>2. Share(x.route, y.route)
    <3> DEFINE s == Ending(N)
               a == x.route
               b == y.route
    <3>1. Len(s) \in Nat /\ Within(s, a) /\ Within(s, b)
      BY <1>4, <2>1, MatchesPlain
    <3> HIDE DEF s
    <3> QED
      BY <2>1, <3>1, SharedPath
  <2> QED
    BY <2>1, <2>2 DEF Conflict
<1>10. \A x \in M : Within(x.route, x.route)
  BY <1>5, WithinReflexive
<1> QED
  BY <1>5, <1>6, <1>7, <1>8, <1>9, <1>10

LEMMA ServedIsLeast ==
    ASSUME NEW P, NEW path, NEW M, M = {x \in P : x.method = "GET" /\ PathMatches(x.route, path)},
           NEW m \in M, \A y \in M : Within(m.route, y.route)
    PROVE  Served(P, "GET", path) \in M /\ \A y \in M : Within(Served(P, "GET", path).route, y.route)
<1>1. M # {}
  OBVIOUS
<1>2. Served(P, "GET", path) = CHOOSE x \in M : \A y \in M : Within(x.route, y.route)
  BY <1>1 DEF Served
<1> QED
  BY <1>2

(* What a request is expected to be served by: the routes as they are      *)
(* declared, the static files' among them if they are served, and what is  *)
(* registered for each.                                                    *)
Expected == {[method |-> "GET", route |-> Opened(app.routeOf[p])] : p \in Pages}
                \cup (patterns \cap {AssetsPattern})

Registered(d) == IF d = AssetsPattern THEN d.route ELSE PagePattern(d.route)

(* Those that match a path, and the pattern of each.                       *)
LEMMA DeclaredPages ==
    ASSUME Running, NEW path, PlainPath(path),
           NEW E, E = {d \in Expected : d.method = "GET" /\ PathMatches(d.route, path)},
           NEW F, F = {d \in Expected : d.method = "GET" /\ PathMatches(d.route, WithSlash(path))}
    PROVE  /\ \A d \in E : /\ d = GetOn(d.route) /\ d.route \in Routes
                           /\ IF Multi(d.route)
                              THEN /\ d \in Serving(WithSlash(path)) /\ Len(path) >= Len(d.route)
                                   /\ Registered(d) = d.route
                              ELSE /\ GetOn(Append(d.route, End)) \in Serving(WithSlash(path))
                                   /\ Bare(d.route) /\ Len(path) = Len(d.route)
                                   /\ Registered(d) = Append(d.route, End)
           /\ F = {x \in Serving(WithSlash(path)) : Multi(x.route)}
           /\ \A x \in Serving(WithSlash(path)) :
                 IF Multi(x.route)
                 THEN Registered(x) = x.route
                 ELSE \E d \in E : /\ Bare(d.route) /\ x.route = Append(d.route, End)
                                   /\ x = GetOn(Append(d.route, End))
           /\ GetOn(Root) \in E
<1> DEFINE N == WithSlash(path)
           M == Serving(N)
<1>1. /\ app \in Applications /\ Index \in Pages
      /\ \A p \in Pages : IsPatternOfMux(app.routeOf[p])
  BY DEF Running, WellClaimed
<1>2. /\ \A x \in M : /\ x \in patterns /\ x.route \in Routes
                       /\ \/ \E p \in Pages : x = PageListing(p)
                          \/ x = AssetsPattern /\ Multi(x.route)
      /\ \A p \in Pages : PathMatches(PagePattern(app.routeOf[p]), N) => PageListing(p) \in M
      /\ \A x \in M : PathMatches(x.route, N)
  BY ServingPages DEF Serving
<1> HIDE DEF M
<1>3. \A route : GetOn(route).method = "GET" /\ GetOn(route).route = route
  BY DEF GetOn
<1>4. /\ \A p \in Pages : PageListing(p) = GetOn(PagePattern(app.routeOf[p]))
      /\ \A p \in Pages : GetOn(Opened(app.routeOf[p])) \in Expected
      /\ \A d \in Expected : \/ \E p \in Pages : d = GetOn(Opened(app.routeOf[p]))
                            \/ d \in {AssetsPattern} \cap patterns
  BY DEF PageListing, GetOn, Expected
<1> DEFINE Kind(o, x) ==
               \/ Multi(o) /\ x = o /\ Registered(GetOn(o)) = o
               \/ o = <<End>> /\ x = <<End>>
               \/ Bare(o) /\ x = Append(o, End) /\ Registered(GetOn(o)) = x
<1>5. \A p \in Pages : /\ Opened(app.routeOf[p]) \in Routes /\ PagePattern(app.routeOf[p]) \in Routes
                       /\ Kind(Opened(app.routeOf[p]), PagePattern(app.routeOf[p]))
  <2> TAKE p \in Pages
  <2> DEFINE o == Opened(app.routeOf[p])
             x == PagePattern(app.routeOf[p])
  <2>1. /\ o \in Routes /\ x \in Routes
        /\ \/ Multi(o) /\ x = o /\ PagePattern(o) = o
           \/ o = <<End>> /\ x = <<End>>
           \/ Bare(o) /\ x = Append(o, End) /\ PagePattern(o) = x
    BY <1>1, PageKinds
  <2>2. Registered(GetOn(o)) = o \/ Registered(GetOn(o)) = PagePattern(o)
    BY <1>3 DEF Registered
  <2>3. Bare(o) => Registered(GetOn(o)) = PagePattern(o)
    BY <1>1, <1>3, <2>1, StaticFiles DEF Registered
  <2> HIDE DEF o, x
  <2>4. Kind(o, x)
    BY <2>1, <2>2, <2>3
  <2> QED
    BY <2>1, <2>4 DEF o, x
<1>6. ASSUME AssetsPattern \in patterns
      PROVE  /\ AssetsPattern = GetOn(AssetsPattern.route) /\ AssetsPattern.route \in Routes
             /\ Kind(AssetsPattern.route, AssetsPattern.route)
             /\ PathMatches(AssetsPattern.route, N) => AssetsPattern \in M
             /\ AssetsPattern \in Expected
  <2>1. AssetsPattern = GetOn(app.assets) /\ AssetsPattern.route = app.assets
    BY <1>1, <1>3, StaticFiles
  <2>2. app.assets # <<>>
    <3>1. AssetsPattern \in Elements(Registrations) \/ app.assets # <<>>
      BY <1>6 DEF Running, AllRegistered
    <3>2. AssetsPattern.method = "GET"
      BY <1>3, <2>1
    <3>3. AssetsPattern \in Elements(Registrations) => AssetsPattern.route \in Routes
      <4>1. WellClaimed
        BY DEF Running
      <4>2. AssetsPattern \in Elements(Registrations) =>
               \/ AssetsPattern.route \in StreamRoutes
               \/ \E p \in Pages : AssetsPattern = PageListing(p)
        BY <3>2, <4>1, RegistrationsListed
      <4>3. ASSUME NEW p \in Pages, AssetsPattern = PageListing(p)
            PROVE  AssetsPattern.route \in Routes
        BY <1>3, <1>4, <1>5, <4>3
      <4>4. ASSUME AssetsPattern.route \in StreamRoutes PROVE AssetsPattern.route \in Routes
        <5>1. PICK p \in Pages : \/ AssetsPattern.route = StreamPath(app.routeOf[p])
                                 \/ AssetsPattern.route = AnonStreamPath(app.routeOf[p])
          BY <4>4 DEF StreamRoutes
        <5>2. app.routeOf[p] \in Routes
          BY <1>1, RouteFacts DEF Routes
        <5> QED
          BY <5>1, <5>2, StreamsElsewhere
      <4> QED
        BY <4>2, <4>3, <4>4
    <3> QED
      BY <2>1, <3>1, <3>3 DEF Routes
  <2>3. AssetsPattern.route \in Routes /\ Multi(AssetsPattern.route)
    BY <1>1, <2>1, <2>2, StaticFiles
  <2>4. Registered(AssetsPattern) = AssetsPattern.route
    BY DEF Registered
  <2>5. Kind(AssetsPattern.route, AssetsPattern.route)
    BY <2>1, <2>3, <2>4
  <2>6. PathMatches(AssetsPattern.route, N) => AssetsPattern \in M
    BY <1>3, <1>6, <2>1 DEF M, Serving
  <2>7. AssetsPattern \in Expected
    BY <1>6 DEF Expected
  <2> QED
    BY <2>1, <2>3, <2>5, <2>6, <2>7
<1> HIDE DEF Kind
<1>7. /\ \A d \in Expected : \E x \in Routes :
            /\ d = GetOn(d.route) /\ d.route \in Routes /\ Kind(d.route, x)
            /\ PathMatches(x, N) => GetOn(x) \in M
      /\ \A x \in M : \E o \in Routes :
            /\ x = GetOn(x.route) /\ x.route \in Routes /\ Kind(o, x.route)
            /\ GetOn(o) \in Expected
  <2>1. ASSUME NEW d \in Expected
        PROVE  \E x \in Routes : /\ d = GetOn(d.route) /\ d.route \in Routes /\ Kind(d.route, x)
                                 /\ PathMatches(x, N) => GetOn(x) \in M
    <3>1. CASE d \in {AssetsPattern} \cap patterns
      BY <1>6, <3>1
    <3>2. ASSUME NEW p \in Pages, d = GetOn(Opened(app.routeOf[p]))
          PROVE  \E x \in Routes : /\ d = GetOn(d.route) /\ d.route \in Routes /\ Kind(d.route, x)
                                   /\ PathMatches(x, N) => GetOn(x) \in M
      BY <1>2, <1>3, <1>4, <1>5, <3>2
    <3> QED
      BY <1>4, <3>1, <3>2
  <2>2. ASSUME NEW x \in M
        PROVE  \E o \in Routes : /\ x = GetOn(x.route) /\ x.route \in Routes /\ Kind(o, x.route)
                                 /\ GetOn(o) \in Expected
    <3>1. CASE x = AssetsPattern
      BY <1>2, <1>6, <3>1
    <3>2. ASSUME NEW p \in Pages, x = PageListing(p)
          PROVE  \E o \in Routes : /\ x = GetOn(x.route) /\ x.route \in Routes /\ Kind(o, x.route)
                                   /\ GetOn(o) \in Expected
      BY <1>3, <1>4, <1>5, <3>2
    <3> QED
      BY <1>2, <3>1, <3>2
  <2> QED
    BY <2>1, <2>2
<1>8. ASSUME NEW d \in E
      PROVE  /\ d = GetOn(d.route) /\ d.route \in Routes
             /\ IF Multi(d.route)
                THEN d \in M /\ Len(path) >= Len(d.route) /\ Registered(d) = d.route
                ELSE /\ GetOn(Append(d.route, End)) \in M
                     /\ Bare(d.route) /\ Len(path) = Len(d.route)
                     /\ Registered(d) = Append(d.route, End)
  <2>1. d \in Expected /\ PathMatches(d.route, path)
    BY <1>8
  <2>2. PICK x \in Routes : /\ d = GetOn(d.route) /\ d.route \in Routes /\ Kind(d.route, x)
                            /\ PathMatches(x, N) => GetOn(x) \in M
    BY <1>7, <2>1
  <2>3. CASE Multi(d.route) /\ x = d.route /\ Registered(d) = d.route
    <3>1. Len(path) >= Len(d.route) /\ PathMatches(d.route, N)
      BY <2>1, <2>2, <2>3, RequestOfWide
    <3> QED
      BY <2>2, <2>3, <3>1
  <2>4. CASE d.route = <<End>> /\ x = <<End>>
    BY <2>1, <2>4, RequestOfEnd
  <2>5. CASE Bare(d.route) /\ x = Append(d.route, End) /\ Registered(d) = x
    <3>1. ~Multi(d.route) /\ PathMatches(x, N) /\ Len(path) = Len(d.route)
      BY <2>1, <2>2, <2>5, RequestOfClosed
    <3> QED
      BY <2>2, <2>5, <3>1
  <2> QED
    BY <2>2, <2>3, <2>4, <2>5 DEF Kind
<1>9. ASSUME NEW x \in M
      PROVE  IF Multi(x.route)
             THEN Registered(x) = x.route /\ x \in F
             ELSE \E d \in E : /\ Bare(d.route) /\ x.route = Append(d.route, End)
                               /\ x = GetOn(Append(d.route, End))
  <2>1. PathMatches(x.route, N)
    BY <1>2
  <2>2. PICK o \in Routes : /\ x = GetOn(x.route) /\ x.route \in Routes /\ Kind(o, x.route)
                            /\ GetOn(o) \in Expected
    BY <1>7
  <2>3. CASE Multi(o) /\ x.route = o /\ Registered(GetOn(o)) = o
    BY <1>3, <2>1, <2>2, <2>3
  <2>4. CASE o = <<End>> /\ x.route = <<End>>
    BY <2>1, <2>4, RequestOfEnd
  <2>5. CASE Bare(o) /\ x.route = Append(o, End)
    <3>1. PathMatches(o, path) /\ ~Multi(x.route)
      BY <2>1, <2>2, <2>5, RequestOfClosed
    <3>2. GetOn(o) \in E
      BY <1>3, <2>2, <3>1
    <3> QED
      BY <1>3, <2>2, <2>5, <3>1, <3>2
  <2> QED
    BY <2>2, <2>3, <2>4, <2>5 DEF Kind
<1>10. ASSUME NEW d \in F PROVE d \in M /\ Multi(d.route)
  <2>1. d \in Expected /\ PathMatches(d.route, N)
    BY <1>10
  <2>2. PICK x \in Routes : /\ d = GetOn(d.route) /\ d.route \in Routes /\ Kind(d.route, x)
                            /\ PathMatches(x, N) => GetOn(x) \in M
    BY <1>7, <2>1
  <2>3. CASE Multi(d.route) /\ x = d.route
    BY <2>1, <2>2, <2>3
  <2>4. CASE d.route = <<End>>
    BY <2>1, <2>4, RequestOfEnd
  <2>5. CASE Bare(d.route)
    BY <2>1, <2>2, <2>5, RequestOfClosed
  <2> QED
    BY <2>2, <2>3, <2>4, <2>5 DEF Kind
<1>11. F = {x \in M : Multi(x.route)}
  BY <1>9, <1>10
<1>12. GetOn(Root) \in E
  <2>1. app.routeOf[Index] = Root
    BY <1>1, RouteFacts
  <2>2. Opened(Root) = Root
    BY DEF Opened
  <2>3. GetOn(Root) \in Expected /\ GetOn(Root).method = "GET" /\ GetOn(Root).route = Root
    BY <1>1, <1>3, <1>4, <2>1, <2>2
  <2> QED
    BY <2>3, RequestOfRoot
<1> QED
  BY <1>8, <1>9, <1>11, <1>12 DEF M

(* The pattern that serves the request is that of the page that best       *)
(* matches it as declared.                                                 *)
LEMMA ServedAsDeclared ==
    ASSUME Running, NEW path, PlainPath(path),
           NEW e, e = Served(Expected, "GET", path),
           NEW z, z = Served(patterns, "GET", WithSlash(path))
    PROVE  IF Multi(e.route)
           THEN /\ z = Served(Expected, "GET", WithSlash(path))
                /\ Registered(z) = z.route
           ELSE z.route = Registered(e)
<1> DEFINE N == WithSlash(path)
           M == Serving(N)
           E == {d \in Expected : d.method = "GET" /\ PathMatches(d.route, path)}
           F == {d \in Expected : d.method = "GET" /\ PathMatches(d.route, N)}
<1>1. /\ M = {x \in patterns : x.method = "GET" /\ PathMatches(x.route, N)}
  BY DEF Serving
<1>2. /\ \A x \in M : x.route \in Routes
      /\ GetOn(Root) \in M /\ IsFiniteSet(M)
      /\ \A x, y \in M : Within(x.route, y.route) \/ Within(y.route, x.route)
      /\ \A x, y \in M : Within(x.route, y.route) /\ Within(y.route, x.route) => x = y
  BY ServingPages
<1>3. /\ \A d \in E : /\ d = GetOn(d.route) /\ d.route \in Routes
                      /\ IF Multi(d.route)
                         THEN d \in M /\ Len(path) >= Len(d.route) /\ Registered(d) = d.route
                         ELSE /\ GetOn(Append(d.route, End)) \in M
                              /\ Bare(d.route) /\ Len(path) = Len(d.route)
                              /\ Registered(d) = Append(d.route, End)
      /\ F = {x \in M : Multi(x.route)}
      /\ \A x \in M : IF Multi(x.route)
                      THEN Registered(x) = x.route
                      ELSE \E d \in E : /\ Bare(d.route) /\ x.route = Append(d.route, End)
                                        /\ x = GetOn(Append(d.route, End))
      /\ GetOn(Root) \in E
  BY DeclaredPages
<1>4. E = {d \in Expected : d.method = "GET" /\ PathMatches(d.route, path)}
  OBVIOUS
<1>5. F = {d \in Expected : d.method = "GET" /\ PathMatches(d.route, N)}
  OBVIOUS
<1> HIDE DEF M, E, F
<1>6. z \in M /\ \A y \in M : Within(z.route, y.route)
  <2>1. M # {}
    BY <1>2
  <2>2. PICK m \in M : \A y \in M : Within(m.route, y.route)
    BY <1>2, <2>1, MostSpecific
  <2> QED
    BY <1>1, <2>2, ServedIsLeast
<1>7. \A route : GetOn(route).route = route
  BY DEF GetOn
<1>8. CASE ~Multi(z.route)
  <2>1. PICK d \in E : Bare(d.route) /\ z.route = Append(d.route, End)
    BY <1>3, <1>6, <1>8
  <2>2. d.route \in Routes /\ ~Multi(d.route) /\ Len(path) = Len(d.route)
    BY <1>3, <2>1, RequestOfClosed
  <2>3. ASSUME NEW y \in E PROVE Within(d.route, y.route)
    <3>1. y.route \in Routes
      BY <1>3
    <3>2. CASE Multi(y.route)
      <4>1. y \in M /\ Len(d.route) >= Len(y.route)
        BY <1>3, <2>2, <3>2
      <4>2. Within(Append(d.route, End), y.route)
        BY <1>6, <2>1, <4>1
      <4> QED
        BY <2>2, <3>1, <3>2, <4>1, <4>2, ClosedWithinWide
    <3>3. CASE ~Multi(y.route)
      <4>1. GetOn(Append(y.route, End)) \in M /\ Bare(y.route)
        BY <1>3, <3>3
      <4>2. Within(Append(d.route, End), Append(y.route, End))
        BY <1>6, <1>7, <2>1, <4>1
      <4> QED
        BY <2>1, <2>2, <3>1, <4>1, <4>2, ClosedAlike DEF Routes
    <3> QED
      BY <3>2, <3>3
  <2>4. e \in E /\ \A y \in E : Within(e.route, y.route)
    BY <1>4, <2>3, ServedIsLeast
  <2>5. ~Multi(e.route)
    BY <1>3, <2>1, <2>2, <2>4, WideAfterNarrow
  <2> DEFINE x == GetOn(Append(e.route, End))
  <2>6. x \in M /\ Bare(e.route) /\ e.route \in Routes /\ Registered(e) = Append(e.route, End)
    BY <1>3, <2>4, <2>5
  <2>7. Within(x.route, z.route) /\ Within(z.route, x.route)
    <3>1. Within(e.route, d.route)
      BY <2>4
    <3>2. Within(Append(e.route, End), Append(d.route, End))
      BY <2>1, <2>2, <2>6, <3>1, ClosedAlike DEF Routes
    <3> QED
      BY <1>6, <1>7, <2>1, <2>6, <3>2
  <2> HIDE DEF x
  <2>8. x = z
    BY <1>2, <1>6, <2>6, <2>7
  <2> QED
    BY <1>7, <2>5, <2>6, <2>8 DEF x
<1>9. CASE Multi(z.route)
  <2>1. \A x \in M : Multi(x.route)
    BY <1>2, <1>6, <1>9, WideAfterNarrow
  <2>2. \A d \in E : d \in M
    <3> TAKE d \in E
    <3>1. ASSUME ~Multi(d.route) PROVE FALSE
      <4>1. GetOn(Append(d.route, End)) \in M /\ Bare(d.route) /\ d.route \in Routes
        BY <1>3, <3>1
      <4>2. ~Multi(Append(d.route, End))
        BY <4>1, RequestOfClosed
      <4> QED
        BY <1>7, <2>1, <4>1, <4>2
    <3> QED
      BY <1>3, <3>1
  <2>3. e \in E
    <3>1. IsFiniteSet(E)
      BY <1>2, <2>2, FS_Subset
    <3>2. \A x, y \in E : Within(x.route, y.route) \/ Within(y.route, x.route)
      BY <1>2, <2>2
    <3>3. E # {} /\ \A x \in E : x.route \in Routes
      BY <1>3
    <3>4. PICK m \in E : \A y \in E : Within(m.route, y.route)
      BY <3>1, <3>2, <3>3, MostSpecific
    <3> QED
      BY <1>4, <3>4, ServedIsLeast
  <2>4. Multi(e.route)
    BY <2>1, <2>2, <2>3
  <2>5. F = M
    BY <1>3, <2>1
  <2>6. z = Served(Expected, "GET", N)
    <3>1. z = Served(patterns, "GET", N)
      OBVIOUS
    <3> QED
      BY <1>1, <1>5, <2>5, <3>1 DEF Served
  <2>7. Registered(z) = z.route
    BY <1>3, <1>6, <1>9
  <2> QED
    BY <2>4, <2>6, <2>7
<1> QED
  BY <1>8, <1>9

LEMMA SlashedOnce ==
    ASSUME NEW path, PlainPath(path)
    PROVE  /\ WithSlash(path) = Append(path, Blank)
           /\ WithSlash(WithSlash(path)) = WithSlash(path)
<1> DEFINE N == Append(path, Blank)
<1>1. path \in Seq(Literals) /\ Len(path) \in Nat /\ Len(path) >= 1
  BY DEF PlainPath
<1>2. path[Len(path)] # Blank
  <2>1. path[Len(path)] \in Literals
    BY <1>1
  <2> QED
    BY <2>1, PlainSegments
<1>3. WithSlash(path) = N
  BY <1>2 DEF WithSlash, Blank
<1>4. N[Len(N)] = Blank
  BY <1>1
<1> HIDE DEF N
<1>5. WithSlash(N) = N
  BY <1>4 DEF WithSlash, Blank
<1> QED
  BY <1>3, <1>5 DEF N

(* With and without the slash one pattern serves a request: what matches   *)
(* without it is wide and matches with it too, and if the router finds a   *)
(* better one with it, it redirects.                                       *)
LEMMA RoutedIsServed ==
    ASSUME Running, NEW path, PlainPath(path), NEW asked, asked = path \/ asked = WithSlash(path)
    PROVE  Routed(patterns, "GET", asked) = Served(patterns, "GET", WithSlash(path))
<1> DEFINE N == WithSlash(path)
           M == Serving(N)
           P == Serving(path)
           z == Served(patterns, "GET", N)
           found == Served(patterns, "GET", path)
<1>1. /\ path \in Seq(Literals) /\ Len(path) \in Nat /\ Len(path) >= 1
      /\ path[Len(path)] # Blank /\ path[Len(path)] # End
      /\ N = Append(path, Blank) /\ Len(N) = Len(path) + 1 /\ N[Len(N)] = Blank
      /\ WithSlash(N) = N
  <2>1. path \in Seq(Literals) /\ Len(path) \in Nat /\ Len(path) >= 1
    BY DEF PlainPath
  <2>2. path[Len(path)] \in Literals
    BY <2>1
  <2>3. path[Len(path)] # Blank /\ path[Len(path)] # End
    BY <2>2, PlainSegments
  <2>4. N = Append(path, Blank) /\ WithSlash(N) = N
    BY SlashedOnce
  <2>5. Len(Append(path, Blank)) = Len(path) + 1 /\ Append(path, Blank)[Len(path) + 1] = Blank
    BY <2>1
  <2> HIDE DEF N
  <2> QED
    BY <2>1, <2>3, <2>4, <2>5
<1>2. /\ \A x \in M : x.route \in Routes
      /\ IsFiniteSet(M)
      /\ \A x, y \in M : Within(x.route, y.route) \/ Within(y.route, x.route)
      /\ \A x, y \in M : Within(x.route, y.route) /\ Within(y.route, x.route) => x = y
      /\ GetOn(Root) \in M
  BY ServingPages
<1>3. /\ M = {x \in patterns : x.method = "GET" /\ PathMatches(x.route, N)}
      /\ P = {x \in patterns : x.method = "GET" /\ PathMatches(x.route, path)}
  BY DEF Serving
<1>4. z \in M /\ \A y \in M : Within(z.route, y.route)
  <2> HIDE DEF M
  <2>1. PICK m \in M : \A y \in M : Within(m.route, y.route)
    BY <1>2, MostSpecific
  <2> QED
    BY <1>3, <2>1, ServedIsLeast
<1> HIDE DEF N, M, P, z, found
<1>5. \A x \in P : Multi(x.route) /\ x \in M
  <2> TAKE x \in P
  <2>1. x.route \in Routes /\ (Multi(x.route) \/ x.route[Len(x.route)] = End)
    BY <1>3, RegisteredEnds
  <2>2. PathMatches(x.route, path)
    BY <1>3
  <2>3. Multi(x.route)
    <3>1. SUFFICES ASSUME ~Multi(x.route) PROVE FALSE
      OBVIOUS
    <3>2. Len(path) = Len(x.route) /\ Covers(x.route, path, Len(path))
      BY <2>1, <2>2, <3>1, MatchesPlain
    <3>3. Admits(End, path[Len(path)])
      <4>1. Len(path) \in 1..Len(path)
        BY <1>1
      <4> QED
        BY <2>1, <3>1, <3>2, <4>1 DEF Covers
    <3> QED
      BY <1>1, <3>3 DEF Admits, End, Var
  <2>4. PathMatches(x.route, N)
    BY <2>1, <2>2, <2>3, RequestOfWide DEF N
  <2> QED
    BY <1>3, <2>3, <2>4
<1>6. found \in P /\ \A y \in P : Within(found.route, y.route)
  <2>1. GetOn(Root) \in P
    <3>1. GetOn(Root) \in patterns /\ GetOn(Root).method = "GET" /\ GetOn(Root).route = Root
      BY <1>2, <1>3 DEF GetOn
    <3> QED
      BY <1>3, <3>1, RequestOfRoot
  <2>2. IsFiniteSet(P)
    BY <1>2, <1>5, FS_Subset
  <2>3. PICK m \in P : \A y \in P : Within(m.route, y.route)
    BY <1>2, <1>5, <2>1, <2>2, MostSpecific
  <2> QED
    BY <1>3, <2>3, ServedIsLeast DEF found
<1>7. ~MatchesJust(found, path)
  BY <1>1, <1>5, <1>6 DEF MatchesJust, Blank
<1>8. CASE MatchesJust(z, N) /\ asked = path
  BY <1>7, <1>8 DEF Routed, found, z, N
<1>9. CASE ~MatchesJust(z, N) /\ asked = path
  <2>1. z.route \in Routes /\ PathMatches(z.route, N)
    BY <1>2, <1>3, <1>4
  <2>2. z # NoPattern
    <3>1. NoPattern.route = <<>>
      BY DEF NoPattern
    <3>2. z.route # <<>>
      BY <2>1 DEF Routes
    <3> QED
      BY <3>1, <3>2
  <2>3. Multi(z.route) /\ Len(z.route) # Len(path) + 1
    BY <1>1, <1>9, <2>2 DEF MatchesJust, Blank
  <2>4. Len(path) >= Len(z.route) /\ Covers(z.route, path, Len(z.route) - 1)
    <3>1. Len(path) + 1 >= Len(z.route) /\ Covers(z.route, path, Len(z.route) - 1)
      BY <2>1, <2>3, MatchesPlain DEF N
    <3>2. Len(z.route) \in Nat
      BY <2>1, RouteShape
    <3> QED
      BY <1>1, <2>3, <3>1, <3>2
  <2>5. z \in P
    <3>1. PathMatches(z.route, path)
      BY <2>1, <2>3, <2>4, MatchesPlain
    <3> QED
      BY <1>3, <1>4, <3>1
  <2>6. found = z
    BY <1>2, <1>4, <1>5, <1>6, <2>5
  <2> QED
    BY <1>9, <2>6 DEF Routed, found, z, N
<1>10. CASE asked = N
  BY <1>1, <1>10 DEF Routed, z, N
<1> QED
  BY <1>8, <1>9, <1>10 DEF N, z

------------------------------------------------------------------------------
(* What was claimed is a pattern the router takes, and all that a running  *)
(* server registered is on it, nothing in the way of anything.             *)
ServeInv ==
    /\ phase = "routes" /\ errs = {} =>
          Index \in Pages /\ \A c \in patterns : IsPatternOfMux(c.route)
    /\ phase \in {"accepted", "serving", "panicked"} =>
          Index \in Pages /\ \A p \in Pages : IsPatternOfMux(app.routeOf[p])
    /\ phase = "serving" =>
          /\ AllRegistered
          /\ \A x, y \in patterns : x # y => ~Conflict(x, y)

LEMMA PageClaimed ==
    ASSUME WellClaimed, NEW p \in Pages
    PROVE  PageClaim(p) \in Elements(AllClaims)
<1> DEFINE ss == [i \in DOMAIN app.pages |-> Claims(app.pages[i])]
           F == SE!FlattenSeq(ss)
<1>1. app \in Applications /\ app.pages \in Seq(Pages) /\ Elements(app.pages) = Pages
  BY DeclarationFacts DEF WellClaimed
<1>2. \A q \in Pages : Claims(q) \in Seq(Pattern) /\ PageClaim(q) \in Elements(Claims(q))
  BY ClaimsOfPage DEF WellClaimed, Elements
<1>3. /\ ss \in Seq(Seq(Pattern)) /\ DOMAIN ss = DOMAIN app.pages
      /\ \A i \in DOMAIN app.pages : ss[i] = Claims(app.pages[i])
  <2>1. /\ DOMAIN app.pages = 1..Len(app.pages) /\ Len(app.pages) \in Nat
        /\ \A i \in DOMAIN app.pages : app.pages[i] \in Pages
    BY <1>1
  <2>2. ss \in [1..Len(app.pages) -> Seq(Pattern)]
    BY <1>2, <2>1
  <2> QED
    BY <2>1, <2>2, FunctionIsSeq
<1>4. app.actions \in Seq(Pattern)
  <2>1. ActionType \in SUBSET Pattern /\ app.actions \in Seq(ActionType)
    BY <1>1, RouteFacts
  <2> QED
    BY <2>1, SeqOfLarger
<1>5. AllClaims = F \o app.actions
  BY DEF AllClaims
<1> HIDE DEF ss
<1>6. /\ F \in Seq(Pattern)
      /\ \A x : x \in Elements(F) <=> \E i \in DOMAIN ss : x \in Elements(ss[i])
  BY <1>3, FlattenedElements
<1> HIDE DEF F
<1>7. Elements(AllClaims) = Elements(F) \cup Elements(app.actions)
  BY <1>4, <1>5, <1>6, JoinedElements
<1>8. PICK i \in DOMAIN app.pages : app.pages[i] = p
  BY <1>1 DEF Elements
<1>9. PageClaim(p) \in Elements(ss[i])
  BY <1>2, <1>3, <1>8
<1> QED
  BY <1>3, <1>6, <1>7, <1>8, <1>9

LEMMA ReturnKeepsServe ==
    ASSUME PassesInv, RoutesInv, ServeInv, ParseReturns
    PROVE  ServeInv'
<1>1. /\ phase = "routes" /\ phase' \in {"accepted", "refused"} /\ app' = app
      /\ unread = <<>> /\ (phase' = "accepted" => errs = {})
  BY DEF ParseReturns
<1>2. Pages' = Pages
  BY <1>1 DEF Pages
<1>3. ASSUME phase' = "accepted"
      PROVE  Index \in Pages /\ \A p \in Pages : IsPatternOfMux(app.routeOf[p])
  <2>1. WellClaimed
    BY <1>1, <1>3 DEF PassesInv, RoutesInv, WellClaimed
  <2>2. PICK done \in Seq(Pattern) : AllClaims = done \o unread /\ patterns = Elements(done)
    BY <1>1, <1>3 DEF RoutesInv
  <2>3. AllClaims = done
    BY <1>1, <2>2
  <2>4. \A p \in Pages : PageClaim(p) \in patterns /\ PageClaim(p).route = app.routeOf[p]
    BY <2>1, <2>2, <2>3, PageClaimed DEF PageClaim
  <2> QED
    BY <1>1, <1>3, <2>4 DEF ServeInv
<1> QED
  BY <1>1, <1>2, <1>3 DEF ServeInv

LEMMA ConflictSymmetric == \A x, y : Conflict(x, y) <=> Conflict(y, x)
<1>1. \A r, q : Share(r, q) => Share(q, r)
  BY DEF Share, Meet
<1> QED
  BY <1>1 DEF Conflict

LEMMA SetupKeepsServe ==
    ASSUME PassesInv, RoutesInv, ServeInv, SetupHandlers
    PROVE  ServeInv'
<1> DEFINE refused(all) ==
               {i \in DOMAIN all : ~Registrable({all[j] : j \in 1..(i - 1)}, all[i])}
<1>1. PICK assets \in {<<>>, <<AssetsPattern>>} :
        LET all == Registrations \o assets
        IN  /\ app.assets = <<>> => assets = <<>>
            /\ phase' = IF refused(all) = {} THEN "serving" ELSE "panicked"
            /\ patterns' = {all[i] : i \in {i \in DOMAIN all : \A j \in refused(all) : i < j}}
  BY DEF SetupHandlers
<1>2. /\ phase = "accepted" /\ app' = app /\ owned' = owned /\ events' = events
  BY DEF SetupHandlers
<1>3. Pages' = Pages /\ Registrations' = Registrations /\ AssetsPattern' = AssetsPattern
  <2>1. app' = app /\ owned' = owned /\ events' = events
    BY <1>2
  <2>2. Pages' = Pages /\ Registrations' = Registrations
    BY <2>1 DEF Pages, Registrations, PagePatterns, HasStream, HasAnonStream, EventsOf,
                ActionsOf, Plays, Role
  <2>3. AssetsPattern' = AssetsPattern
    BY <2>1 DEF AssetsPattern
  <2> QED
    BY <2>2, <2>3
<1>4. WellClaimed
  BY <1>2 DEF PassesInv, RoutesInv, WellClaimed
<1> DEFINE all == Registrations \o assets
           N == Len(all)
<1>5. /\ all \in Seq(Pattern) /\ N \in Nat /\ DOMAIN all = 1..N
      /\ \/ Elements(all) = Elements(Registrations)
         \/ app.assets # <<>> /\ Elements(all) = Elements(Registrations) \cup {AssetsPattern}
  <2>1. Registrations \in Seq(Pattern)
    BY <1>4, RegistrationsListed
  <2>2. CASE assets = <<>>
    <3>1. all = Registrations
      BY <2>1, <2>2
    <3> HIDE DEF all
    <3> QED
      BY <2>1, <3>1
  <2>3. CASE assets = <<AssetsPattern>> /\ app.assets # <<>>
    <3>1. AssetsPattern \in Pattern
      BY <1>4, <2>3, StaticFiles DEF WellClaimed
    <3>2. assets \in Seq(Pattern) /\ DOMAIN assets = {1} /\ assets[1] = AssetsPattern
      BY <2>3, <3>1
    <3>3. Elements(assets) = {AssetsPattern}
      BY <3>2 DEF Elements
    <3>4. all \in Seq(Pattern) /\ Elements(all) = Elements(Registrations) \cup Elements(assets)
      BY <2>1, <3>2, JoinedElements
    <3> HIDE DEF all
    <3> QED
      BY <2>3, <3>3, <3>4
  <2> QED
    BY <1>1, <2>2, <2>3
<1>6. /\ phase' = IF refused(all) = {} THEN "serving" ELSE "panicked"
      /\ patterns' = {all[i] : i \in {i \in DOMAIN all : \A j \in refused(all) : i < j}}
  BY <1>1
<1> HIDE DEF all, N
<1>7. ASSUME refused(all) = {}
      PROVE  /\ patterns' = Elements(all)
             /\ \A x, y \in Elements(all) : x # y => ~Conflict(x, y)
  <2>1. \A i \in 1..N : \A j \in 1..(i - 1) : ~Conflict(all[i], all[j])
    BY <1>5, <1>7 DEF Registrable
  <2>2. ASSUME NEW i \in 1..N, NEW j \in 1..N, i # j PROVE ~Conflict(all[i], all[j])
    <3>1. i \in 1..(j - 1) \/ j \in 1..(i - 1)
      BY <1>5, <2>2
    <3>2. CASE j \in 1..(i - 1)
      BY <2>1, <3>2
    <3>3. CASE i \in 1..(j - 1)
      <4>1. ~Conflict(all[j], all[i])
        BY <2>1, <3>3
      <4> QED
        BY <4>1, ConflictSymmetric
    <3> QED
      BY <3>1, <3>2, <3>3
  <2>3. ASSUME NEW x \in Elements(all), NEW y \in Elements(all), x # y PROVE ~Conflict(x, y)
    <3>1. PICK i \in 1..N : x = all[i]
      BY <1>5 DEF Elements
    <3>2. PICK j \in 1..N : y = all[j]
      BY <1>5 DEF Elements
    <3> QED
      BY <2>2, <2>3, <3>1, <3>2
  <2>4. patterns' = Elements(all)
    <3>1. patterns' = {all[i] : i \in {i \in DOMAIN all : \A j \in refused(all) : i < j}}
      BY <1>6
    <3> HIDE DEF refused
    <3> QED
      BY <1>7, <3>1 DEF Elements
  <2> QED
    BY <2>3, <2>4
<1>8. phase' = "serving" => refused(all) = {}
  BY <1>6
<1>9. phase' \in {"serving", "panicked"}
  BY <1>6
<1>10. Index \in Pages /\ \A p \in Pages : IsPatternOfMux(app.routeOf[p])
  BY <1>2 DEF ServeInv
<1>11. ASSUME phase' = "serving"
       PROVE  /\ AllRegistered'
              /\ (\A x, y \in patterns : x # y => ~Conflict(x, y))'
  <2>1. Elements(Registrations)' = Elements(Registrations)
    BY <1>3 DEF Elements
  <2>2. AllRegistered'
    BY <1>2, <1>3, <1>5, <1>7, <1>8, <1>11, <2>1 DEF AllRegistered
  <2> QED
    BY <1>7, <1>8, <1>11, <2>2
<1> QED
  BY <1>2, <1>3, <1>9, <1>10, <1>11 DEF ServeInv

LEMMA ServeInvariance == Spec => []ServeInv
<1>1. Init => ServeInv
  BY DEF Init, ServeInv
<1>2. PassesInv /\ RoutesInv /\ ServeInv /\ [Next]_vars => ServeInv'
  <2> SUFFICES ASSUME PassesInv, RoutesInv, ServeInv, [Next]_vars PROVE ServeInv'
    OBVIOUS
  <2>1. CASE ClaimEvent \/ AttachMethods \/ FlattenNext \/ FlattenDone
    <3>1. phase' \in {"events", "flatten"}
      BY <2>1 DEF ClaimEvent, AttachMethods, FlattenNext, FlattenDone
    <3> QED
      BY <3>1 DEF ServeInv
  <2>2. CASE RequireHandlers
    <3>1. phase = "flatten" /\ phase' = "routes" /\ patterns' = patterns /\ app' = app
      BY <2>2 DEF RequireHandlers
    <3>2. patterns' = {} /\ Pages' = Pages
      BY <3>1 DEF RoutesInv, Pages
    <3>3. errs' = {} => Index \in Pages
      BY <2>2 DEF RequireHandlers
    <3> QED
      BY <3>1, <3>2, <3>3 DEF ServeInv
  <2>3. CASE ClaimRoute
    <3>1. phase = "routes" /\ phase' = "routes" /\ app' = app
      BY <2>3 DEF ClaimRoute
    <3>2. Pages' = Pages
      BY <3>1 DEF Pages
    <3>3. ASSUME errs' = {}
          PROVE  /\ errs = {} /\ IsPatternOfMux(Head(unread).route)
                 /\ patterns' = patterns \cup {Head(unread)}
      BY <2>3, <3>3 DEF ClaimRoute, Registrable
    <3> QED
      BY <3>1, <3>2, <3>3 DEF ServeInv
  <2>4. CASE ParseReturns
    BY <2>4, ReturnKeepsServe
  <2>5. CASE SetupHandlers
    BY <2>5, SetupKeepsServe
  <2>6. CASE UNCHANGED vars
    <3>1. /\ phase' = phase /\ app' = app /\ owned' = owned /\ patterns' = patterns
          /\ events' = events /\ errs' = errs
      BY <2>6 DEF vars
    <3>2. Pages' = Pages /\ Registrations' = Registrations
      BY <3>1 DEF Pages, Registrations, PagePatterns, HasStream, HasAnonStream, EventsOf,
                  ActionsOf, Plays, Role
    <3>3. AssetsPattern' = AssetsPattern
      BY <3>1 DEF AssetsPattern
    <3>4. Elements(Registrations)' = Elements(Registrations)
      BY <3>2 DEF Elements
    <3>5. AllRegistered' <=> AllRegistered
      BY <3>1, <3>2, <3>4, <3>3 DEF AllRegistered
    <3> QED
      BY <3>1, <3>2, <3>5 DEF ServeInv
  <2> QED
    BY <2>1, <2>2, <2>3, <2>4, <2>5, <2>6 DEF Next
<1> QED
  BY <1>1, <1>2, PassesInvariance, RoutesInvariance, PTL DEF Spec

(* What the declared routes say of a request is what the server does: the  *)
(* page whose route matches best serves it, with and without a slash at    *)
(* its end, and no stream, no action and no {$} that the generated server  *)
(* adds stands in its way.  The static files are served as a declared      *)
(* route is: what is under their prefix and no page's own is theirs.       *)
THEOREM ReachesItsPageHolds == Spec => []ReachesItsPage
<1>1. PassesInv /\ RoutesInv /\ ServeInv => ReachesItsPage
  <2> SUFFICES ASSUME PassesInv, RoutesInv, ServeInv, phase = "serving",
                      NEW path \in {p \in Paths : Len(p) < Depth /\ p[Len(p)] # ""},
                      "_$" \notin {path[i] : i \in DOMAIN path},
                      NEW asked \in {path, WithSlash(path)}
               PROVE  LET exact == Served(Expected, "GET", path)
                          best == IF Multi(exact.route)
                                  THEN Served(Expected, "GET", WithSlash(path)) ELSE exact
                      IN  Routed(patterns, "GET", Normalised(asked, app.assets)).route =
                             Registered(best)
    BY DEF ReachesItsPage, Expected, Registered
  <2> DEFINE sent == Normalised(asked, app.assets)
  <2>1. Running
    BY DEF PassesInv, RoutesInv, ServeInv, WellClaimed, Running
  <2>2. path \in Paths /\ path[Len(path)] # Blank
    BY DEF Blank
  <2>3. PlainPath(path)
    BY <2>2, PathsArePlain
  <2>4. sent = path \/ sent = WithSlash(path)
    <3>1. WithSlash(WithSlash(path)) = WithSlash(path)
      BY <2>3, SlashedOnce
    <3> QED
      BY <3>1 DEF Normalised
  <2> HIDE DEF sent
  <2>5. Routed(patterns, "GET", sent) = Served(patterns, "GET", WithSlash(path))
    BY <2>1, <2>3, <2>4, RoutedIsServed
  <2> QED
    BY <2>1, <2>3, <2>5, ServedAsDeclared DEF sent
<1> QED
  BY <1>1, PassesInvariance, RoutesInvariance, ServeInvariance, PTL
=============================================================================
