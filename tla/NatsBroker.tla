----------------------------- MODULE NatsBroker -----------------------------
(***************************************************************************)
(* modules/messaging/natscore: the broker backed by core NATS.             *)
(*                                                                         *)
(* Subscribe makes one NATS subscription per subject; their callbacks,     *)
(* which the client library runs in a goroutine per NATS subscription,     *)
(* share one channel.  The library may still start a callback after        *)
(* Unsubscribe, so that closing the channel needs a protocol of its own: a *)
(* flag that turns later callbacks away and a WaitGroup that awaits those  *)
(* that passed it.                                                         *)
(*                                                                         *)
(* NATS itself is external.  A connection sends what it is asked to, SUB,  *)
(* UNSUB and PUB, in order and some time after the call has returned; the  *)
(* server takes the commands of different connections in any order.        *)
(***************************************************************************)
EXTENDS Subjects, FiniteSets

CONSTANTS Subs,       \* the subscriptions, one for each call of Subscribe
          TopicSets,  \* the sets of subjects a subscription may ask for
          Msgs,       \* the messages; one is in flight at most once
          SubjectOf,  \* the subject a message is published to
          Conns,      \* the connections of all the processes
          Local,      \* the connection the subscriptions are made on
          ChanBuffer, \* conf.ChanBuffer
          None        \* no message

ASSUME ConnsAssumption == Local \in Conns
ASSUME ChanBufferAssumption == ChanBuffer \in Nat \ {0}
ASSUME NoneAssumption == None \notin Msgs

Topics  == UNION TopicSets
NatsSubs == Subs \X Topics

VARIABLES
    chan,      \* chan[s]: the channel is nil, open or closed
    buffer,    \* buffer[s]: the messages in the channel
    topics,    \* topics[s]: the subjects s asked for
    todo,      \* todo[s]: those the loop of Subscribe has not come to
    spc,       \* spc[s]: where the call of Subscribe is
    cpc,       \* cpc[s]: where closeAll is; the flag closing is set unless "no"
    inflight,  \* inflight[s]: the count of the WaitGroup
    live,      \* the NATS subscriptions made and not unsubscribed
    pending,   \* pending[n]: what has arrived for NATS subscription n
    callback,  \* callback[n]: the message its callback has been started with
    passed,    \* the NATS subscriptions whose callback has passed the flag
    out,       \* out[c]: what connection c has still to send
    server,    \* the NATS subscriptions the server knows
    audience   \* audience[m]: who had subscribed before m was published (history)

svars    == <<topics, todo, spc>>
library  == <<live, pending>>
cbvars   == <<callback, passed, inflight>>
network  == <<out, server, audience>>
vars     == <<chan, buffer, svars, cpc, cbvars, library, network>>

Init ==
    /\ chan = [s \in Subs |-> "nil"]
    /\ buffer = [s \in Subs |-> <<>>]
    /\ topics = [s \in Subs |-> {}]
    /\ todo = [s \in Subs |-> {}]
    /\ spc = [s \in Subs |-> "new"]
    /\ cpc = [s \in Subs |-> "no"]
    /\ inflight = [s \in Subs |-> 0]
    /\ live = {}
    /\ pending = [n \in NatsSubs |-> <<>>]
    /\ callback = [n \in NatsSubs |-> None]
    /\ passed = {}
    /\ out = [c \in Conns |-> <<>>]
    /\ server = {}
    /\ audience = [m \in Msgs |-> {}]

Sub(n)   == [op |-> "sub", of |-> n]
Unsub(n) == [op |-> "unsub", of |-> n]
Pub(m)   == [op |-> "pub", of |-> m]

Commands == {Sub(n) : n \in NatsSubs} \cup {Unsub(n) : n \in NatsSubs} \cup {Pub(m) : m \in Msgs}

Send(c, command) == out' = [out EXCEPT ![c] = Append(@, command)]

------------------------------------------------------------------------------
SubscribeCall(s, ts) ==
    /\ spc[s] = "new"
    /\ chan' = [chan EXCEPT ![s] = "open"]
    /\ topics' = [topics EXCEPT ![s] = ts]
    /\ todo' = [todo EXCEPT ![s] = ts]
    /\ spc' = [spc EXCEPT ![s] = "loop"]
    /\ UNCHANGED <<buffer, cpc, cbvars, library, network>>

(* nc.Subscribe returns once the library has the subscription and SUB is   *)
(* in the connection's write buffer.                                       *)
SubscribeOne(s, t) ==
    /\ spc[s] = "loop"
    /\ t \in todo[s]
    /\ todo' = [todo EXCEPT ![s] = @ \ {t}]
    /\ live' = live \cup {<<s, t>>}
    /\ Send(Local, Sub(<<s, t>>))
    /\ UNCHANGED <<chan, buffer, topics, spc, cpc, cbvars, pending, server, audience>>

(* Mutant: Subscribe returns with some of the subjects left out.           *)
SubscribeReturn_Early(s) ==
    /\ spc[s] = "loop"
    /\ spc' = [spc EXCEPT ![s] = "done"]
    /\ UNCHANGED <<chan, buffer, topics, todo, cpc, cbvars, library, network>>

SubscribeReturn(s) ==
    /\ spc[s] = "loop"
    /\ todo[s] = {}
    /\ spc' = [spc EXCEPT ![s] = "done"]
    /\ UNCHANGED <<chan, buffer, topics, todo, cpc, cbvars, library, network>>

(* nc.Subscribe fails: what has been made is closed.                       *)
SubscribeFail(s) ==
    /\ spc[s] = "loop"
    /\ todo[s] # {}
    /\ spc' = [spc EXCEPT ![s] = "failed"]
    /\ cpc' = [cpc EXCEPT ![s] = "unsub"]
    /\ UNCHANGED <<chan, buffer, topics, todo, cbvars, library, network>>

------------------------------------------------------------------------------
(* closeAll, of which once lets one call through: the flag first, then the *)
(* NATS subscriptions, then the callbacks, then the channel.               *)
Close(s) ==
    /\ spc[s] = "done"
    /\ cpc[s] = "no"
    /\ cpc' = [cpc EXCEPT ![s] = "unsub"]
    /\ UNCHANGED <<chan, buffer, svars, cbvars, library, network>>

(* The library forgets the subscription and what has arrived for it.       *)
CloseUnsubscribe(s, t) ==
    /\ cpc[s] = "unsub"
    /\ <<s, t>> \in live
    /\ live' = live \ {<<s, t>>}
    /\ pending' = [pending EXCEPT ![<<s, t>>] = <<>>]
    /\ Send(Local, Unsub(<<s, t>>))
    /\ UNCHANGED <<chan, buffer, svars, cpc, cbvars, server, audience>>

(* Mutant: closeAll goes on with NATS subscriptions left.                  *)
CloseWait_Early(s) ==
    /\ cpc[s] = "unsub"
    /\ cpc' = [cpc EXCEPT ![s] = "wait"]
    /\ UNCHANGED <<chan, buffer, svars, cbvars, library, network>>

CloseWait(s) ==
    /\ cpc[s] = "unsub"
    /\ \A t \in Topics : <<s, t>> \notin live
    /\ cpc' = [cpc EXCEPT ![s] = "wait"]
    /\ UNCHANGED <<chan, buffer, svars, cbvars, library, network>>

(* Mutant: the channel is closed without waiting for the callbacks.        *)
CloseChan_NoWait(s) ==
    /\ cpc[s] = "wait"
    /\ chan' = [chan EXCEPT ![s] = "closed"]
    /\ cpc' = [cpc EXCEPT ![s] = "closed"]
    /\ UNCHANGED <<buffer, svars, cbvars, library, network>>

CloseChan(s) ==
    /\ cpc[s] = "wait"
    /\ inflight[s] = 0
    /\ chan' = [chan EXCEPT ![s] = "closed"]
    /\ cpc' = [cpc EXCEPT ![s] = "closed"]
    /\ UNCHANGED <<buffer, svars, cbvars, library, network>>

------------------------------------------------------------------------------
(* The library takes the next message of a subscription and starts the     *)
(* callback, one at a time.  It looks whether the subscription is still    *)
(* there before, so that Unsubscribe may come in between.                  *)
CallbackStart(s, t) ==
    LET n == <<s, t>>
    IN  /\ n \in live
        /\ callback[n] = None
        /\ pending[n] # <<>>
        /\ callback' = [callback EXCEPT ![n] = Head(pending[n])]
        /\ pending' = [pending EXCEPT ![n] = Tail(@)]
        /\ UNCHANGED <<chan, buffer, svars, cpc, passed, inflight, live, network>>

(* Mutant: the callback does not look at the flag.                         *)
CallbackRegister_NoFlag(s, t) ==
    LET n == <<s, t>>
    IN  /\ callback[n] # None /\ n \notin passed
        /\ passed' = passed \cup {n}
        /\ inflight' = [inflight EXCEPT ![s] = @ + 1]
        /\ UNCHANGED <<callback, chan, buffer, svars, cpc, library, network>>

(* Under the lock: turned away when closing is set, registered otherwise.  *)
CallbackRegister(s, t) ==
    LET n == <<s, t>>
    IN  /\ callback[n] # None /\ n \notin passed
        /\ IF cpc[s] # "no"
           THEN /\ callback' = [callback EXCEPT ![n] = None]
                /\ UNCHANGED <<passed, inflight>>
           ELSE /\ passed' = passed \cup {n}
                /\ inflight' = [inflight EXCEPT ![s] = @ + 1]
                /\ UNCHANGED callback
        /\ UNCHANGED <<chan, buffer, svars, cpc, library, network>>

(* Mutants: a path without Done; a full channel gives up its oldest message*)
(* for the new one.                                                        *)
CallbackSend_NoDone(s, t) ==
    LET n == <<s, t>>
    IN  /\ n \in passed
        /\ buffer' = IF Len(buffer[s]) < ChanBuffer
                     THEN [buffer EXCEPT ![s] = Append(@, callback[n])]
                     ELSE buffer
        /\ passed' = passed \ {n}
        /\ callback' = [callback EXCEPT ![n] = None]
        /\ inflight' = IF buffer' = buffer THEN inflight
                       ELSE [inflight EXCEPT ![s] = @ - 1]
        /\ UNCHANGED <<chan, svars, cpc, library, network>>

CallbackSend_DropsOldest(s, t) ==
    LET n == <<s, t>>
    IN  /\ n \in passed
        /\ buffer' = [buffer EXCEPT ![s] =
               IF Len(@) < ChanBuffer THEN Append(@, callback[n])
                                      ELSE Append(Tail(@), callback[n])]
        /\ passed' = passed \ {n}
        /\ callback' = [callback EXCEPT ![n] = None]
        /\ inflight' = [inflight EXCEPT ![s] = @ - 1]
        /\ UNCHANGED <<chan, svars, cpc, library, network>>

(* The send that does not block, and inflight.Done.                        *)
CallbackSend(s, t) ==
    LET n == <<s, t>>
    IN  /\ n \in passed
        /\ buffer' = IF Len(buffer[s]) < ChanBuffer
                     THEN [buffer EXCEPT ![s] = Append(@, callback[n])]
                     ELSE buffer
        /\ passed' = passed \ {n}
        /\ callback' = [callback EXCEPT ![n] = None]
        /\ inflight' = [inflight EXCEPT ![s] = @ - 1]
        /\ UNCHANGED <<chan, svars, cpc, library, network>>

Receive(s) ==
    /\ buffer[s] # <<>>
    /\ buffer' = [buffer EXCEPT ![s] = Tail(@)]
    /\ UNCHANGED <<chan, svars, cpc, cbvars, library, network>>

------------------------------------------------------------------------------
(* Publish returns once PUB is in the write buffer.  A message is used     *)
(* again when nothing is left of its last publish.                         *)
InFlight(m) ==
    \/ \E c \in Conns : \E i \in DOMAIN out[c] : out[c][i] = Pub(m)
    \/ \E n \in NatsSubs : callback[n] = m \/ \E i \in DOMAIN pending[n] : pending[n][i] = m

Wants(s, m) == \E t \in topics[s] : Matches(t, SubjectOf[m])

Publish(c, m) ==
    /\ ~InFlight(m)
    /\ Send(c, Pub(m))
    /\ audience' = [audience EXCEPT
            ![m] = {s \in Subs : spc[s] = "done" /\ cpc[s] = "no" /\ Wants(s, m)}]
    /\ UNCHANGED <<chan, buffer, svars, cpc, cbvars, library, server>>

(* The server takes the next command of a connection.  A message reaches   *)
(* each NATS subscription the server and the library both have.            *)
ServerTakes(c) ==
    /\ out[c] # <<>>
    /\ LET command == Head(out[c])
           n == command.of
       IN  \/ /\ command.op = "sub"
              /\ server' = server \cup {n}
              /\ UNCHANGED pending
           \/ /\ command.op = "unsub"
              /\ server' = server \ {n}
              /\ UNCHANGED pending
           \/ /\ command.op = "pub"
              /\ pending' = [x \in NatsSubs |->
                    IF x \in server \cap live /\ Matches(x[2], SubjectOf[command.of])
                    THEN Append(pending[x], command.of)
                    ELSE pending[x]]
              /\ UNCHANGED server
    /\ out' = [out EXCEPT ![c] = Tail(@)]
    /\ UNCHANGED <<chan, buffer, svars, cpc, cbvars, live, audience>>

------------------------------------------------------------------------------
SubscribeRun(s) == SubscribeReturn(s) \/ \E t \in Topics : SubscribeOne(s, t)
CloseRun(s) == \/ CloseWait(s) \/ CloseChan(s)
               \/ \E t \in Topics : CloseUnsubscribe(s, t)
CallbackRun(s, t) == CallbackStart(s, t) \/ CallbackRegister(s, t) \/ CallbackSend(s, t)

Next ==
    \/ \E s \in Subs : \/ SubscribeRun(s) \/ SubscribeFail(s)
                       \/ Close(s) \/ CloseRun(s) \/ Receive(s)
                       \/ \E ts \in TopicSets : SubscribeCall(s, ts)
                       \/ \E t \in Topics : CallbackRun(s, t)
    \/ \E c \in Conns : ServerTakes(c) \/ \E m \in Msgs : Publish(c, m)

Spec == Init /\ [][Next]_vars

(* A closer and a callback that have begun run on.                         *)
Fairness ==
    /\ \A s \in Subs : WF_vars(CloseRun(s))
    /\ \A s \in Subs, t \in Topics :
          WF_vars(CallbackRegister(s, t) \/ CallbackSend(s, t))

FairSpec == Spec /\ Fairness

------------------------------------------------------------------------------
TypeOK ==
    /\ chan \in [Subs -> {"nil", "open", "closed"}]
    /\ buffer \in [Subs -> Seq(Msgs)]
    /\ \A s \in Subs : Len(buffer[s]) <= ChanBuffer
    /\ topics \in [Subs -> TopicSets \cup {{}}]
    /\ todo \in [Subs -> SUBSET Topics]
    /\ spc \in [Subs -> {"new", "loop", "done", "failed"}]
    /\ cpc \in [Subs -> {"no", "unsub", "wait", "closed"}]
    /\ inflight \in [Subs -> Nat]
    /\ live \subseteq NatsSubs
    /\ pending \in [NatsSubs -> Seq(Msgs)]
    /\ callback \in [NatsSubs -> Msgs \cup {None}]
    /\ passed \subseteq NatsSubs
    /\ out \in [Conns -> Seq(Commands)]
    /\ server \subseteq NatsSubs
    /\ audience \in [Msgs -> SUBSET Subs]

(* A callback never sends on a closed channel, though the library may      *)
(* start one after Unsubscribe.                                            *)
NoSendOnClosed == \A n \in passed : chan[n[1]] = "open"

(* "WaitGroup requires that no new Add happens once Wait may be running."  *)
NoAddDuringWait ==
    [][\A s \in Subs : cpc[s] = "wait" => inflight'[s] <= inflight[s]]_vars

(* A Subscribe that fails halfway and a Close leave no NATS subscription.  *)
NothingLeftOpen ==
    \A s \in Subs : chan[s] = "closed" => \A t \in Topics : <<s, t>> \notin live

(* A Close that has begun closes the channel, whatever keeps arriving.     *)
CloseReturns == \A s \in Subs : cpc[s] # "no" ~> chan[s] = "closed"

(* What is published after Subscribe has returned reaches the subscription,*)
(* unless it is closed meanwhile.                                          *)
ReachesTheSubscribed ==
    [][\A c \in Conns, m \in Msgs :
         (out[c] # <<>> /\ Head(out[c]) = Pub(m) /\ out'[c] = Tail(out[c])) =>
            \A s \in audience[m] :
                cpc[s] # "no" \/ \E t \in Topics :
                    Len(pending'[<<s, t>>]) > Len(pending[<<s, t>>])]_vars

(***************************************************************************)
(* The broker implements Broker.  A message is owed from the instant the   *)
(* server routes it; once closing is set, only callbacks that passed the   *)
(* flag can still deliver.                                                 *)
(***************************************************************************)
stateBar == [s \in Subs |-> CASE chan[s] = "nil" -> "none"
                              [] chan[s] = "closed" -> "closed"
                              [] OTHER -> IF cpc[s] = "no" THEN "open" ELSE "closing"]

Holds(s, m) ==
    \E t \in Topics :
        \/ <<s, t>> \in passed /\ callback[<<s, t>>] = m
        \/ /\ cpc[s] = "no"
           /\ \/ callback[<<s, t>>] = m
              \/ \E i \in DOMAIN pending[<<s, t>>] : pending[<<s, t>>][i] = m

(* "Delivery is at-most-once": once a subscription has been given a        *)
(* message, no other copy of it is on its way there.                       *)
DeliveredOnce ==
    [][\A s \in Subs, m \in Msgs :
         buffer'[s] = Append(buffer[s], m) => ~Holds(s, m)']_vars

owedBar == {o \in Msgs \X Subs : Holds(o[2], o[1])}

Abstract == INSTANCE Broker WITH
    Capacity <- ChanBuffer,
    Lossy    <- TRUE,
    state    <- stateBar,
    owed     <- owedBar

ImplementsBroker == Abstract!Spec
=============================================================================
