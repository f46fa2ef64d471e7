------------------------------- MODULE Broker -------------------------------
(***************************************************************************)
(* What a messaging.Broker promises to the streams that subscribe to it,   *)
(* whatever carries the messages.                                          *)
(*                                                                         *)
(* A published message is owed, from one instant on, to exactly the        *)
(* subscriptions open at that instant with a matching subject.  Each of    *)
(* them is offered it once: the message enters its buffer or, when the     *)
(* buffer is full, is dropped.  Nothing is offered to a closed             *)
(* subscription, and what its buffer held at the close can still be read.  *)
(***************************************************************************)
EXTENDS Subjects

CONSTANTS Subs,        \* the subscriptions that may be made
          TopicSets,   \* the sets of subjects a subscription may ask for
          Msgs,        \* the messages
          SubjectOf,   \* the subject each message is published to
          Capacity,    \* what a subscription buffers
          Lossy        \* TRUE: a message may be lost on its way

VARIABLES topics,      \* topics[s]: the subjects s asked for
          state,       \* state[s]: none, open, closing or closed
          buffer,      \* buffer[s]: what s has received and not yet read
          owed         \* the pairs <<m, s>> of a message still to be offered to s

vars == <<topics, state, buffer, owed>>

Receivers(m) ==
    {s \in Subs : state[s] = "open" /\ \E t \in topics[s] : Matches(t, SubjectOf[m])}

OwedTo(s) == {<<m, s>> : m \in Msgs}

Init ==
    /\ topics = [s \in Subs |-> {}]
    /\ state  = [s \in Subs |-> "none"]
    /\ buffer = [s \in Subs |-> <<>>]
    /\ owed   = {}

Subscribe(s, ts) ==
    /\ state[s] = "none"
    /\ state' = [state EXCEPT ![s] = "open"]
    /\ topics' = [topics EXCEPT ![s] = ts]
    /\ UNCHANGED <<buffer, owed>>

(* A message is published anew only when nobody is owed its last copy.     *)
Publish(m) ==
    /\ \A s \in Subs : <<m, s>> \notin owed
    /\ \E reached \in SUBSET Receivers(m) :
          /\ Lossy \/ reached = Receivers(m)
          /\ owed' = owed \cup {<<m, s>> : s \in reached}
    /\ UNCHANGED <<topics, state, buffer>>

Offer(m, s) ==
    /\ <<m, s>> \in owed
    /\ owed' = owed \ {<<m, s>>}
    /\ buffer' = IF Len(buffer[s]) < Capacity
                 THEN [buffer EXCEPT ![s] = Append(@, m)]
                 ELSE buffer
    /\ UNCHANGED <<topics, state>>

Lose(m, s) ==
    /\ <<m, s>> \in owed
    /\ Lossy \/ state[s] = "closing"
    /\ owed' = owed \ {<<m, s>>}
    /\ UNCHANGED <<topics, state, buffer>>

Receive(s) ==
    /\ buffer[s] # <<>>
    /\ buffer' = [buffer EXCEPT ![s] = Tail(@)]
    /\ UNCHANGED <<topics, state, owed>>

(* Close is asked for, and then done: from the first nothing new is owed   *)
(* and what is owed may be forgotten, from the second nothing is owed.     *)
CloseBegin(s) ==
    /\ state[s] = "open"
    /\ state' = [state EXCEPT ![s] = "closing"]
    /\ \E forgotten \in SUBSET (owed \cap OwedTo(s)) : owed' = owed \ forgotten
    /\ UNCHANGED <<topics, buffer>>

CloseEnd(s) ==
    /\ state[s] = "closing"
    /\ state' = [state EXCEPT ![s] = "closed"]
    /\ owed' = owed \ OwedTo(s)
    /\ UNCHANGED <<topics, buffer>>

Next ==
    \/ \E s \in Subs, ts \in TopicSets : Subscribe(s, ts)
    \/ \E s \in Subs : Receive(s) \/ CloseBegin(s) \/ CloseEnd(s)
    \/ \E m \in Msgs : Publish(m)
    \/ \E m \in Msgs, s \in Subs : Offer(m, s) \/ Lose(m, s)

Spec == Init /\ [][Next]_vars
=============================================================================
