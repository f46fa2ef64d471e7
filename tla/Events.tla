------------------------------- MODULE Events -------------------------------
(***************************************************************************)
(* What the tool chain derives from the events an application declares:    *)
(* the subjects an event occupies, the patterns a page's stream subscribes *)
(* by, the switch that routes what arrives to an OnXXX method.             *)
(*                                                                         *)
(* An event is its subject and the kinds of its subject fields: "user" for *)
(* datapages.SubjectUser, "plain" for datapages.Subject, and the name of a *)
(* signal for a datapages.Subject that is tagged with one.                 *)
(* A stream is of a page, given by the events it handles in the order of   *)
(* its OnXXX methods, of a user (Guest when nobody is signed in) and of    *)
(* the client's value of every signal.                                     *)
(***************************************************************************)
EXTENDS Subjects

CONSTANT Signals   \* the names of the signals subject fields are tagged with

User  == "user"
Plain == "plain"
Guest == ""

EventType == [name : STRING, subject : Seq(STRING), fields : Seq(STRING)]

ASSUME SignalsAssumption == User \notin Signals /\ Plain \notin Signals

IsPrivate(e)      == User \in {e.fields[i] : i \in DOMAIN e.fields}
IsSignalScoped(e) == \E i \in DOMAIN e.fields : e.fields[i] \in Signals
HasFields(e)      == e.fields # <<>>

(* s + "." is a prefix of subject; and s + "." is a prefix of t + ".".     *)
Below(subject, s) == Len(subject) > Len(s) /\ SubSeq(subject, 1, Len(s)) = s
AtOrBelow(t, s)   == Len(t) >= Len(s) /\ SubSeq(t, 1, Len(s)) = s

------------------------------------------------------------------------------
(* Claims: an event with subject fields occupies all below its subject, an *)
(* event without them occupies its subject.                                *)

Occupies(e, subject) ==
    IF HasFields(e) THEN Below(subject, e.subject) ELSE subject = e.subject

(* Mutant: only the one direction of two prefixes is compared.             *)
Overlaps_OneWay(e, f) ==
    \/ HasFields(e) /\ HasFields(f) /\ AtOrBelow(e.subject, f.subject)
    \/ HasFields(e) /\ ~HasFields(f) /\ Below(f.subject, e.subject)
    \/ ~HasFields(e) /\ HasFields(f) /\ Below(e.subject, f.subject)

(* Of events with different subjects: equal ones are refused before.       *)
Overlaps(e, f) ==
    \/ /\ HasFields(e) /\ HasFields(f)
       /\ AtOrBelow(e.subject, f.subject) \/ AtOrBelow(f.subject, e.subject)
    \/ HasFields(e) /\ ~HasFields(f) /\ Below(f.subject, e.subject)
    \/ ~HasFields(e) /\ HasFields(f) /\ Below(e.subject, f.subject)

------------------------------------------------------------------------------
(* Subscriptions of a page with the handlers H.                            *)

EvSubj(e) == e.subject \o [i \in DOMAIN e.fields |-> AnyToken]

(* Mutant: the user's position is a wildcard too.                          *)
UserSubject_Any(e, user) == EvSubj(e)

(* The first user field carries the user, the other fields are wildcards.  *)
UserSubject(e, user) ==
    LET isFirst(i) == /\ e.fields[i] = User
                      /\ \A j \in DOMAIN e.fields : j < i => e.fields[j] # User
    IN  e.subject \o [i \in DOMAIN e.fields |-> IF isFirst(i) THEN user ELSE AnyToken]

(* Every tagged field carries its signal's value, the others are wildcards.*)
SignalSubject(e, signals) ==
    e.subject \o [i \in DOMAIN e.fields |->
                    IF e.fields[i] \in Signals THEN signals[e.fields[i]] ELSE AnyToken]

Handled(H)      == {H[i] : i \in DOMAIN H}
PrivateOf(H)    == {e \in Handled(H) : IsPrivate(e)}
SignalScoped(H) == {e \in Handled(H) : IsSignalScoped(e)}
PublicOf(H)     == Handled(H) \ (PrivateOf(H) \cup SignalScoped(H))

(* Mutant: what is scoped by a signal is subscribed to with the public ones*)
(* as well.                                                                *)
SubscriptionOf_AllPublic(H, user, signals) ==
    LET public  == {EvSubj(e) : e \in Handled(H) \ PrivateOf(H)}
        private == {UserSubject(e, user) : e \in PrivateOf(H)}
        scoped(events) == {SignalSubject(e, signals) : e \in events}
    IN  IF PrivateOf(H) # {} /\ user = Guest
        THEN public \cup scoped(SignalScoped(H) \ PrivateOf(H))
        ELSE public \cup private \cup scoped(SignalScoped(H))

(* evSubjPageXXX.  The generator emits one function per kind of page: with *)
(* or without user-addressed events, signal-scoped ones and public ones; a *)
(* guest of a page with user-addressed events gets the list without them.  *)
SubscriptionOf(H, user, signals) ==
    LET public  == {EvSubj(e) : e \in PublicOf(H)}
        private == {UserSubject(e, user) : e \in PrivateOf(H)}
        scoped(events) == {SignalSubject(e, signals) : e \in events}
    IN  IF PrivateOf(H) # {} /\ user = Guest
        THEN public \cup scoped(SignalScoped(H) \ PrivateOf(H))
        ELSE public \cup private \cup scoped(SignalScoped(H))

(* Who gets a stream: a guest of a page with user-addressed events is sent *)
(* to the anonymous route if the page has other events, and refused if not.*)
OpensFor(H, user) ==
    user # Guest \/ PrivateOf(H) = {} \/ Handled(H) # PrivateOf(H)

(* The handlers the stream that is opened has a case for.                  *)
HandlersFor(H, user) == {i \in DOMAIN H : user = Guest => ~IsPrivate(H[i])}

------------------------------------------------------------------------------
(* Dispatch and arrival.                                                   *)

(* Dispatch publishes under the subject and the values of the fields, each *)
(* of which must be a token.                                               *)
SubjectOf(e, values) == e.subject \o values

MayDispatch(e, values) ==
    Len(values) = Len(e.fields) /\ \A i \in DOMAIN values : IsToken(values[i])

(* One case of the switch on a message's subject.                          *)
Tests(e, subject) ==
    IF HasFields(e) THEN Below(subject, e.subject) ELSE subject = EvSubj(e)

(* The cases that apply, of which the first is taken, for a stream's       *)
(* switch (the cases in the order of the handlers) and for the label of a  *)
(* metric, brokerSubjectKind (the cases in the order of the events).       *)
Cases(H, subject) == {i \in DOMAIN H : Tests(H[i], subject)}

None == [subject |-> <<>>, fields |-> <<>>]

First(H, cases) ==
    IF cases = {} THEN None ELSE H[CHOOSE i \in cases : \A j \in cases : i <= j]

FirstCase(H, subject) == First(H, Cases(H, subject))

TakenBy(H, user, subject) == First(H, Cases(H, subject) \cap HandlersFor(H, user))

(* What the stream should be sent: the events whose user field is its user *)
(* and whose tagged fields are its client's signals.                       *)
Concerns(e, values, user, signals) ==
    \A i \in DOMAIN e.fields :
        /\ e.fields[i] = User => values[i] = user
        /\ e.fields[i] \in Signals => values[i] = signals[e.fields[i]]
=============================================================================
