----------------------------- MODULE InmemBroker -----------------------------
(***************************************************************************)
(* modules/messaging/inmem: the in-memory message broker.                  *)
(*                                                                         *)
(* Publishers walk the subscription tables under the read lock and send to *)
(* each match without blocking.  Subscribe and Close change the tables     *)
(* under the write lock; Close closes the channel after it has let go of   *)
(* the lock.  A send on a closed channel would crash the process, and only *)
(* the lock keeps a publisher that has already collected its matches from  *)
(* doing that.                                                             *)
(*                                                                         *)
(* What happens between Lock and Unlock is one step, since nothing else    *)
(* touches the tables meanwhile; each send of a publish is a step of its   *)
(* own, since publishers, readers and closers run between two of them.     *)
(***************************************************************************)
EXTENDS Subjects, SequencesExt, FiniteSets

CONSTANTS Subs,        \* the subscriptions, one for each call of Subscribe
          Publishers,  \* the goroutines that publish
          Closers,     \* the goroutines that close subscriptions
          Published,   \* the subjects published to
          TopicSets,   \* the sets of subjects a subscription may ask for
          ChanBuffer,  \* chanBuffer: the capacity of a subscription's channel
          None         \* no goroutine, no message

ASSUME ChanBufferAssumption == ChanBuffer \in Nat \ {0}
ASSUME NoneAssumption == None \notin Subs \cup Closers
ASSUME ThreadsAssumption == Subs \cap Closers = {}
ASSUME SubsAssumption == IsFiniteSet(Subs)

Msgs   == [from : Publishers, subject : Published]
Topics == UNION TopicSets

VARIABLES
    subs,       \* b.subs: from a literal subject to the subscriptions holding it
    wildcards,  \* b.wildcards: the same for the patterns
    readers,    \* b.lock: the publishers that hold it for reading
    writer,     \* b.lock: the goroutine that called Lock and is not done
    chan,       \* chan[s]: s.ch is nil, open or closed
    buffer,     \* buffer[s]: the messages in s.ch
    topics,     \* topics[s]: s.topics
    closed,     \* closed[s]: s.closed
    closeMu,    \* closeMu[s]: the holder of s.closeMu
    spc,        \* spc[s]: where the call of Subscribe that makes s is
    ppc,        \* ppc[p]: where publisher p is in Publish
    msg,        \* msg[p]: the message p publishes
    matched,    \* matched[p]: the subscriptions p has still to send to
    cpc,        \* cpc[c]: where closer c is in Close
    target      \* target[c]: the subscription c closes

tables == <<subs, wildcards>>
lock   == <<readers, writer>>
svars  == <<spc, topics>>
pvars  == <<ppc, msg, matched>>
cvars  == <<closed, closeMu, cpc, target>>
vars   == <<tables, lock, chan, buffer, svars, pvars, cvars>>

Literals(ts) == {t \in ts : ~IsPattern(t)}
Patterns(ts) == {t \in ts : IsPattern(t)}

Holders(table, t) == IF t \in DOMAIN table THEN table[t] ELSE {}

(* Mutant: Close leaves the empty inner map of a subject behind.           *)
Unlink_KeepsEmpty(table, ts, s) ==
    [t \in DOMAIN table |-> IF t \in ts THEN table[t] \ {s} ELSE table[t]]

(* Subscribe makes the inner map of a subject at its first holder, Close   *)
(* deletes it with its last.                                               *)
Link(table, ts, s) ==
    [t \in DOMAIN table \cup ts |->
        Holders(table, t) \cup (IF t \in ts THEN {s} ELSE {})]

Unlink(table, ts, s) ==
    [t \in {u \in DOMAIN table : ~(u \in ts /\ table[u] \subseteq {s})} |->
        IF t \in ts THEN table[t] \ {s} ELSE table[t]]

(***************************************************************************)
(* The slices a publish may collect: maps are iterated in any order, the   *)
(* literal holders come first, and a subscription that is already in the   *)
(* slice is not appended again.                                            *)
(***************************************************************************)
ViaPattern(subject) ==
    UNION {wildcards[t] : t \in {u \in DOMAIN wildcards : Matches(u, subject)}}

(* Mutant: a subscription is appended once more for its pattern.           *)
MatchSlices_Twice(subject) ==
    {s[1] \o s[2] : s \in SetToSeqs(Holders(subs, subject))
                             \X SetToSeqs(ViaPattern(subject))}

MatchSlices(subject) ==
    LET direct   == Holders(subs, subject)
        indirect == ViaPattern(subject) \ direct
    IN  {s[1] \o s[2] : s \in SetToSeqs(direct) \X SetToSeqs(indirect)}

------------------------------------------------------------------------------
Init ==
    /\ subs = [t \in {} |-> {}]
    /\ wildcards = [t \in {} |-> {}]
    /\ readers = {}
    /\ writer = None
    /\ chan = [s \in Subs |-> "nil"]
    /\ buffer = [s \in Subs |-> <<>>]
    /\ topics = [s \in Subs |-> {}]
    /\ closed = [s \in Subs |-> FALSE]
    /\ closeMu = [s \in Subs |-> None]
    /\ spc = [s \in Subs |-> "new"]
    /\ ppc = [p \in Publishers |-> "idle"]
    /\ msg = [p \in Publishers |-> None]
    /\ matched = [p \in Publishers |-> <<>>]
    /\ cpc = [c \in Closers |-> "idle"]
    /\ target = [c \in Closers |-> None]

------------------------------------------------------------------------------
(* Mutant: the tables are changed while publishers are reading them.       *)
LastReaderLeft_Unlocked == TRUE

(* sync.RWMutex: Lock first announces the writer, which keeps new readers  *)
(* and other writers out, and then waits for the readers to leave.         *)
Announce(t) == writer = None /\ writer' = t
LastReaderLeft == readers = {}

(* Subscribe: make the channel, then ask for the write lock.               *)
SubscribeLock(s, ts) ==
    /\ spc[s] = "new"
    /\ Announce(s)
    /\ chan' = [chan EXCEPT ![s] = "open"]
    /\ topics' = [topics EXCEPT ![s] = ts]
    /\ spc' = [spc EXCEPT ![s] = "link"]
    /\ UNCHANGED <<tables, readers, buffer, pvars, cvars>>

SubscribeLink(s) ==
    /\ spc[s] = "link"
    /\ LastReaderLeft
    /\ subs' = Link(subs, Literals(topics[s]), s)
    /\ wildcards' = Link(wildcards, Patterns(topics[s]), s)
    /\ writer' = None
    /\ spc' = [spc EXCEPT ![s] = "done"]
    /\ UNCHANGED <<readers, chan, buffer, topics, pvars, cvars>>

------------------------------------------------------------------------------
PublishCall(p, subject) ==
    /\ ppc[p] = "idle"
    /\ ppc' = [ppc EXCEPT ![p] = "rlock"]
    /\ msg' = [msg EXCEPT ![p] = [from |-> p, subject |-> subject]]
    /\ UNCHANGED <<tables, lock, chan, buffer, svars, matched, cvars>>

(* RLock, and the collection of the matches.                               *)
PublishCollect(p) ==
    /\ ppc[p] = "rlock"
    /\ writer = None
    /\ matched' \in {[matched EXCEPT ![p] = m] : m \in MatchSlices(msg[p].subject)}
    /\ readers' = readers \cup {p}
    /\ ppc' = [ppc EXCEPT ![p] = "send"]
    /\ UNCHANGED <<tables, writer, chan, buffer, svars, msg, cvars>>

(* Mutants: the bound of the channel is off by one; a full channel blocks. *)
PublishSend_OneMore(p) ==
    /\ ppc[p] = "send" /\ matched[p] # <<>>
    /\ LET s == Head(matched[p])
       IN  buffer' = IF Len(buffer[s]) <= ChanBuffer
                     THEN [buffer EXCEPT ![s] = Append(@, msg[p])]
                     ELSE buffer
    /\ matched' = [matched EXCEPT ![p] = Tail(@)]
    /\ UNCHANGED <<tables, lock, chan, svars, ppc, msg, cvars>>

PublishSend_Blocking(p) ==
    /\ ppc[p] = "send" /\ matched[p] # <<>>
    /\ LET s == Head(matched[p])
       IN  /\ Len(buffer[s]) < ChanBuffer
           /\ buffer' = [buffer EXCEPT ![s] = Append(@, msg[p])]
    /\ matched' = [matched EXCEPT ![p] = Tail(@)]
    /\ UNCHANGED <<tables, lock, chan, svars, ppc, msg, cvars>>

(* One iteration of the send loop.  A full channel does not block it.      *)
PublishSend(p) ==
    /\ ppc[p] = "send"
    /\ matched[p] # <<>>
    /\ LET s == Head(matched[p])
       IN  buffer' = IF Len(buffer[s]) < ChanBuffer
                     THEN [buffer EXCEPT ![s] = Append(@, msg[p])]
                     ELSE buffer
    /\ matched' = [matched EXCEPT ![p] = Tail(@)]
    /\ UNCHANGED <<tables, lock, chan, svars, ppc, msg, cvars>>

(* Mutant: a return path without RUnlock.                                  *)
PublishReturn_KeepsLock(p) ==
    /\ ppc[p] = "send" /\ matched[p] = <<>>
    /\ ppc' = [ppc EXCEPT ![p] = "idle"]
    /\ msg' = [msg EXCEPT ![p] = None]
    /\ UNCHANGED <<tables, lock, chan, buffer, svars, matched, cvars>>

PublishReturn(p) ==
    /\ ppc[p] = "send"
    /\ matched[p] = <<>>
    /\ readers' = readers \ {p}
    /\ ppc' = [ppc EXCEPT ![p] = "idle"]
    /\ msg' = [msg EXCEPT ![p] = None]
    /\ UNCHANGED <<tables, writer, chan, buffer, svars, matched, cvars>>

------------------------------------------------------------------------------
(* The holder of the subscription reads its channel, also after the close. *)
Receive(s) ==
    /\ buffer[s] # <<>>
    /\ buffer' = [buffer EXCEPT ![s] = Tail(@)]
    /\ UNCHANGED <<tables, lock, chan, svars, pvars, cvars>>

------------------------------------------------------------------------------
(* Mutant: an atomic flag in place of the mutex held throughout.           *)
CloseFirst_FlagOnly(c, s) ==
    /\ cpc[c] = "idle" /\ spc[s] = "done" /\ ~closed[s]
    /\ closed' = [closed EXCEPT ![s] = TRUE]
    /\ target' = [target EXCEPT ![c] = s]
    /\ cpc' = [cpc EXCEPT ![c] = "lock"]
    /\ UNCHANGED <<tables, lock, chan, buffer, svars, pvars, closeMu>>

(* Close: the first caller sets the flag, the others find it set and have  *)
(* nothing to do; closeMu is held throughout.                              *)
CloseFirst(c, s) ==
    /\ cpc[c] = "idle"
    /\ spc[s] = "done"
    /\ closeMu[s] = None
    /\ ~closed[s]
    /\ closed' = [closed EXCEPT ![s] = TRUE]
    /\ closeMu' = [closeMu EXCEPT ![s] = c]
    /\ target' = [target EXCEPT ![c] = s]
    /\ cpc' = [cpc EXCEPT ![c] = "lock"]
    /\ UNCHANGED <<tables, lock, chan, buffer, svars, pvars>>

CloseLock(c) ==
    /\ cpc[c] = "lock"
    /\ Announce(c)
    /\ cpc' = [cpc EXCEPT ![c] = "unlink"]
    /\ UNCHANGED <<tables, readers, chan, buffer, svars, pvars, closed, closeMu, target>>

CloseUnlink(c) ==
    /\ cpc[c] = "unlink"
    /\ LastReaderLeft
    /\ LET s == target[c]
       IN  /\ subs' = Unlink(subs, Literals(topics[s]), s)
           /\ wildcards' = Unlink(wildcards, Patterns(topics[s]), s)
    /\ writer' = None
    /\ cpc' = [cpc EXCEPT ![c] = "close"]
    /\ UNCHANGED <<readers, chan, buffer, svars, pvars, closed, closeMu, target>>

CloseChan(c) ==
    /\ cpc[c] = "close"
    /\ chan' = [chan EXCEPT ![target[c]] = "closed"]
    /\ closeMu' = [closeMu EXCEPT ![target[c]] = None]
    /\ target' = [target EXCEPT ![c] = None]
    /\ cpc' = [cpc EXCEPT ![c] = "idle"]
    /\ UNCHANGED <<tables, lock, buffer, svars, pvars, closed>>

------------------------------------------------------------------------------
Subscribe(s) == SubscribeLink(s) \/ \E ts \in TopicSets : SubscribeLock(s, ts)
PublishRun(p) == PublishCollect(p) \/ PublishSend(p) \/ PublishReturn(p)
CloseRun(c) == CloseLock(c) \/ CloseUnlink(c) \/ CloseChan(c)

Next ==
    \/ \E s \in Subs : Subscribe(s) \/ Receive(s)
    \/ \E p \in Publishers :
          PublishRun(p) \/ \E subject \in Published : PublishCall(p, subject)
    \/ \E c \in Closers :
          CloseRun(c) \/ \E s \in Subs : CloseFirst(c, s)

(* A goroutine inside a call keeps running; nobody has to make a call, or  *)
(* to read.  Publishers share the lock with each other, so that no call of *)
(* theirs waits for another's.                                             *)
Fairness ==
    /\ \A s \in Subs : WF_vars(SubscribeLink(s))
    /\ \A p \in Publishers : WF_vars(PublishRun(p))
    /\ \A c \in Closers : WF_vars(CloseRun(c))

Spec == Init /\ [][Next]_vars
FairSpec == Spec /\ Fairness
------------------------------------------------------------------------------
TypeOK ==
    /\ DOMAIN subs \subseteq Literals(Topics)
    /\ \A t \in DOMAIN subs : subs[t] \subseteq Subs
    /\ DOMAIN wildcards \subseteq Patterns(Topics)
    /\ \A t \in DOMAIN wildcards : wildcards[t] \subseteq Subs
    /\ readers \subseteq Publishers
    /\ writer \in Subs \cup Closers \cup {None}
    /\ chan \in [Subs -> {"nil", "open", "closed"}]
    /\ buffer \in [Subs -> Seq(Msgs)]
    /\ \A s \in Subs : Len(buffer[s]) <= ChanBuffer
    /\ topics \in [Subs -> TopicSets \cup {{}}]
    /\ closed \in [Subs -> BOOLEAN]
    /\ closeMu \in [Subs -> Closers \cup {None}]
    /\ spc \in [Subs -> {"new", "link", "done"}]
    /\ ppc \in [Publishers -> {"idle", "rlock", "send"}]
    /\ msg \in [Publishers -> Msgs \cup {None}]
    /\ \A p \in Publishers : ppc[p] # "idle" => msg[p] \in Msgs
    /\ matched \in [Publishers -> Seq(Subs)]
    /\ cpc \in [Closers -> {"idle", "lock", "unlink", "close"}]
    /\ target \in [Closers -> Subs \cup {None}]

(* A publisher never sends on a closed channel, however a Close runs while *)
(* it is between its matches and its last send.                            *)
NoSendOnClosed ==
    \A p \in Publishers : \A i \in DOMAIN matched[p] : chan[matched[p][i]] = "open"

(* s is in the tables: Subscribe has entered it, no Close has removed it.  *)
Linked(s) ==
    /\ spc[s] = "done"
    /\ chan[s] = "open"
    /\ \A c \in Closers : ~(target[c] = s /\ cpc[c] = "close")

(* The tables hold the linked subscriptions under each of their subjects,  *)
(* nothing else, and no empty inner map: a stream that comes and goes      *)
(* leaves nothing behind.                                                  *)
TablesExact ==
    \A t \in Topics :
        LET holders == {s \in Subs : Linked(s) /\ t \in topics[s]}
        IN  IF holders = {}
            THEN t \notin DOMAIN subs \cup DOMAIN wildcards
            ELSE Holders(IF IsPattern(t) THEN wildcards ELSE subs, t) = holders

(* Close is done for every caller when it is done for one: a Close that    *)
(* finds the flag set returns only after the channel has been closed.      *)
CloseIsFinal ==
    \A s \in Subs : closed[s] /\ closeMu[s] = None => chan[s] = "closed"

(***************************************************************************)
(* The broker implements Broker, losing nothing on the way: a publish takes*)
(* effect when it collects its matches, a close when it leaves the tables. *)
(***************************************************************************)
stateBar == [s \in Subs |-> IF spc[s] # "done" THEN "none"
                            ELSE IF Linked(s) THEN "open"
                            ELSE IF chan[s] = "closed" THEN "closed"
                            ELSE "closing"]
topicsBar == [s \in Subs |-> IF spc[s] = "done" THEN topics[s] ELSE {}]
owedBar == UNION {{<<msg[p], matched[p][i]>> : i \in DOMAIN matched[p]} : p \in Publishers}

Abstract == INSTANCE Broker WITH
    SubjectOf <- [m \in Msgs |-> m.subject],
    Capacity  <- ChanBuffer,
    Lossy     <- FALSE,
    topics    <- topicsBar,
    state     <- stateBar,
    owed      <- owedBar

ImplementsBroker == Abstract!Spec

(* Publish never waits for a subscriber: a call that has begun returns,    *)
(* whether or not anybody reads.                                           *)
PublishReturns == \A p \in Publishers : ppc[p] # "idle" ~> ppc[p] = "idle"

(* A Close that has begun closes the channel, however many publishers keep *)
(* coming: the announced writer holds new readers back.                    *)
CloseReturns == \A s \in Subs : closed[s] ~> chan[s] = "closed"
==============================================================================
