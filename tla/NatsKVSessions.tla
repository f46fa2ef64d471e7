--------------------------- MODULE NatsKVSessions ---------------------------
(***************************************************************************)
(* modules/sessions/natskv: the session manager backed by a NATS key-value *)
(* bucket, which several server processes may share.                       *)
(*                                                                         *)
(* The manager keeps nothing in memory.  A session is the last entry of    *)
(* its key; closing it writes a tombstone.  NotifyClosed looks the key up, *)
(* starts a watch and follows it in a goroutine; between any two of these  *)
(* steps the key may change.  CloseAllUserSessions lists the keys of a     *)
(* user with a watch of its own and deletes them one by one.               *)
(*                                                                         *)
(* The bucket and its watches are external.  A watch first replays the     *)
(* last entry of each key it matches and marks the end of that with nil.   *)
(* The bucket keeps one entry per key, so that a watch misses an entry     *)
(* that is overwritten before it has been sent.  Payloads are left out:    *)
(* an entry is "live" or a tombstone.                                      *)
(***************************************************************************)
EXTENDS Naturals, Sequences

CONSTANTS Keys,      \* the composite keys; the generator repeats none
          Users,
          Owner,     \* Owner[k]: the user k is a session of
          Watches,   \* the calls of NotifyClosed
          Closers,   \* the calls of CloseAllUserSessions
          Prefetch,  \* how many updates the library holds ready for a watch
          None       \* no key

ASSUME OwnerAssumption == Owner \in [Keys -> Users]
ASSUME PrefetchAssumption == Prefetch \in Nat \ {0, 1}
ASSUME NoneAssumption == None \notin Keys

VARIABLES
    kv,         \* kv[k]: the last entry of k: none, live or deleted
    watchOf,    \* watchOf[w]: the key of the session w asks about
    wpc,        \* wpc[w]: where NotifyClosed or its goroutine is
    unsent,     \* the watches that have not been sent the last entry of their key
    replaying,  \* the watches the nil has not been sent to
    updates,    \* updates[w]: watcher.Updates()
    ctxDone,    \* the watches whose context is done
    calls,      \* calls[w]: how often w has called its function
    epc,        \* epc[c]: where CloseAllUserSessions is
    listed,     \* listed[c]: the keys its watch has still to replay
    seen,       \* seen[c]: the entries it has still to delete
    failed,     \* the calls of CloseAllUserSessions with errs # nil
    cut,        \* those whose context ended before the list did
    wasClosed,  \* the keys that have been deleted (history)
    asked,      \* asked[c]: the sessions of the user when c was called (history)
    since       \* since[c]: the keys deleted since c was called (history)

bucket  == <<kv, wasClosed>>
wvars   == <<watchOf, wpc, unsent, replaying, updates, ctxDone, calls>>
evars   == <<epc, listed, seen, failed, cut, asked>>
vars    == <<bucket, wvars, evars, since>>

Init ==
    /\ kv = [k \in Keys |-> "none"]
    /\ watchOf = [w \in Watches |-> None]
    /\ wpc = [w \in Watches |-> "idle"]
    /\ unsent = {}
    /\ replaying = {}
    /\ updates = [w \in Watches |-> <<>>]
    /\ ctxDone = {}
    /\ calls = [w \in Watches |-> 0]
    /\ epc = [c \in Closers |-> "idle"]
    /\ listed = [c \in Closers |-> {}]
    /\ seen = [c \in Closers |-> {}]
    /\ failed = {}
    /\ cut = {}
    /\ wasClosed = {}
    /\ asked = [c \in Closers |-> {}]
    /\ since = [c \in Closers |-> {}]

NotFound(k) == kv[k] # "live"
Watching(k) == {w \in Watches : watchOf[w] = k /\ wpc[w] \in {"loop", "check"}}

(* kv.Put and kv.Delete: an entry for the bucket and for every watch.      *)
Put(k) ==
    /\ kv' = [kv EXCEPT ![k] = "live"]
    /\ unsent' = unsent \cup Watching(k)
    /\ UNCHANGED <<wasClosed, since>>

Delete(k) ==
    /\ kv' = [kv EXCEPT ![k] = "deleted"]
    /\ unsent' = unsent \cup Watching(k)
    /\ wasClosed' = wasClosed \cup {k}
    /\ since' = [c \in Closers |->
                    IF epc[c] = "list" THEN since[c] \cup {k} ELSE since[c]]

------------------------------------------------------------------------------
CreateSession(k) ==
    /\ kv[k] = "none"
    /\ Put(k)
    /\ UNCHANGED <<watchOf, wpc, replaying, updates, ctxDone, calls, evars>>

(* The token is one that CreateSession returned.                           *)
SaveSession(k) ==
    /\ kv[k] # "none"
    /\ Put(k)
    /\ UNCHANGED <<watchOf, wpc, replaying, updates, ctxDone, calls, evars>>

CloseSession(k) ==
    /\ kv[k] # "none"
    /\ Delete(k)
    /\ UNCHANGED <<watchOf, wpc, replaying, updates, ctxDone, calls, evars>>

------------------------------------------------------------------------------
Told(w) == calls' = [calls EXCEPT ![w] = @ + 1]
WatchGoto(w, label) == wpc' = [wpc EXCEPT ![w] = label]

(* The goroutine returns and stops its watch.                              *)
Returns(w) ==
    /\ WatchGoto(w, "done")
    /\ updates' = [updates EXCEPT ![w] = <<>>]
    /\ unsent' = unsent \ {w}
    /\ replaying' = replaying \ {w}

(* NotifyClosed up to its Get.  Any error but not-found falls through.     *)
NotifyClosed(w, k) ==
    /\ wpc[w] = "idle"
    /\ kv[k] # "none"
    /\ watchOf' = [watchOf EXCEPT ![w] = k]
    /\ \/ NotFound(k) /\ Told(w) /\ WatchGoto(w, "done")
       \/ WatchGoto(w, "watch") /\ UNCHANGED calls
    /\ UNCHANGED <<bucket, unsent, replaying, updates, ctxDone, evars, since>>

(* Every key asked about has an entry, live or tombstone, to be replayed.  *)
WatchStarts(w) ==
    /\ wpc[w] = "watch"
    /\ WatchGoto(w, "loop")
    /\ unsent' = unsent \cup {w}
    /\ replaying' = replaying \cup {w}
    /\ UNCHANGED <<bucket, watchOf, updates, ctxDone, calls, evars, since>>

WatchFails(w) ==
    /\ wpc[w] = "watch"
    /\ WatchGoto(w, "failed")
    /\ UNCHANGED <<bucket, watchOf, unsent, replaying, updates, ctxDone, calls,
                   evars, since>>

(* The library sends the last entry of the key, and nil after the first.   *)
Sent(w) ==
    IF w \in replaying THEN <<kv[watchOf[w]], "nil">> ELSE <<kv[watchOf[w]]>>

Deliver(w) ==
    /\ w \in unsent
    /\ wpc[w] \in {"loop", "check"}
    /\ Len(updates[w]) + 2 <= Prefetch
    /\ updates' = [updates EXCEPT ![w] = @ \o Sent(w)]
    /\ unsent' = unsent \ {w}
    /\ replaying' = replaying \ {w}
    /\ UNCHANGED <<bucket, watchOf, wpc, ctxDone, calls, evars, since>>

(* Mutants: tombstones are passed over; the goroutine goes on after one.   *)
NextUpdate_SkipsDeletes(w) ==
    /\ wpc[w] = "loop"
    /\ updates[w] # <<>>
    /\ updates' = [updates EXCEPT ![w] = Tail(@)]
    /\ IF Head(updates[w]) = "nil" THEN WatchGoto(w, "check") ELSE UNCHANGED wpc
    /\ UNCHANGED <<bucket, watchOf, unsent, replaying, ctxDone, calls, evars, since>>

NextUpdate_GoesOn(w) ==
    /\ wpc[w] = "loop"
    /\ updates[w] # <<>>
    /\ updates' = [updates EXCEPT ![w] = Tail(@)]
    /\ CASE Head(updates[w]) = "nil"     -> WatchGoto(w, "check") /\ UNCHANGED calls
         [] Head(updates[w]) = "deleted" -> Told(w) /\ UNCHANGED wpc
         [] Head(updates[w]) = "live"    -> UNCHANGED <<wpc, calls>>
    /\ UNCHANGED <<bucket, watchOf, unsent, replaying, ctxDone, evars, since>>

NextUpdate(w) ==
    /\ wpc[w] = "loop"
    /\ updates[w] # <<>>
    /\ IF Head(updates[w]) = "deleted"
       THEN Told(w) /\ Returns(w)
       ELSE /\ updates' = [updates EXCEPT ![w] = Tail(@)]
            /\ IF Head(updates[w]) = "nil" THEN WatchGoto(w, "check") ELSE UNCHANGED wpc
            /\ UNCHANGED <<calls, unsent, replaying>>
    /\ UNCHANGED <<bucket, watchOf, ctxDone, evars, since>>

(* The library closes the channel when the context is done; what is read   *)
(* from a closed channel is nil.                                           *)
UpdatesClosed(w) ==
    /\ wpc[w] = "loop"
    /\ w \in ctxDone
    /\ updates[w] = <<>>
    /\ WatchGoto(w, "check")
    /\ UNCHANGED <<bucket, watchOf, unsent, replaying, updates, ctxDone, calls,
                   evars, since>>

(* After nil the key is looked up once more, which may fail.               *)
Recheck(w) ==
    /\ wpc[w] = "check"
    /\ \/ NotFound(watchOf[w]) /\ Told(w) /\ Returns(w)
       \/ WatchGoto(w, "loop") /\ UNCHANGED <<calls, unsent, replaying, updates>>
    /\ UNCHANGED <<bucket, watchOf, ctxDone, evars, since>>

(* Mutant: the goroutine does not look at the context.                     *)
Stop_Never(w) == FALSE /\ UNCHANGED vars

Stop(w) ==
    /\ wpc[w] = "loop"
    /\ w \in ctxDone
    /\ Returns(w)
    /\ UNCHANGED <<bucket, watchOf, ctxDone, calls, evars, since>>

Cancel(w) ==
    /\ wpc[w] # "idle"
    /\ w \notin ctxDone
    /\ ctxDone' = ctxDone \cup {w}
    /\ UNCHANGED <<bucket, watchOf, wpc, unsent, replaying, updates, calls, evars, since>>

------------------------------------------------------------------------------
CloseAllUserSessions(c, u) ==
    LET own == {k \in Keys : Owner[k] = u}
    IN  /\ epc[c] = "idle"
        /\ epc' = [epc EXCEPT ![c] = "list"]
        /\ listed' = [listed EXCEPT ![c] = {k \in own : kv[k] # "none"}]
        /\ asked' = [asked EXCEPT ![c] = {k \in own : kv[k] = "live"}]
        /\ UNCHANGED <<bucket, wvars, seen, failed, cut, since>>

(* The library sends an entry of the list, other than a tombstone.         *)
List(c, k) ==
    /\ epc[c] = "list"
    /\ k \in listed[c]
    /\ listed' = [listed EXCEPT ![c] = @ \ {k}]
    /\ seen' = IF kv[k] = "live" THEN [seen EXCEPT ![c] = @ \cup {k}] ELSE seen
    /\ UNCHANGED <<bucket, wvars, epc, failed, cut, asked, since>>

CloseEntry(c, k) ==
    /\ epc[c] = "list"
    /\ k \in seen[c]
    /\ Delete(k)
    /\ seen' = [seen EXCEPT ![c] = @ \ {k}]
    /\ UNCHANGED <<watchOf, wpc, replaying, updates, ctxDone, calls,
                   epc, listed, failed, cut, asked>>

(* Mutant: the error of a delete is not kept.                              *)
CloseEntryFails_Forgotten(c, k) ==
    /\ epc[c] = "list"
    /\ k \in seen[c]
    /\ seen' = [seen EXCEPT ![c] = @ \ {k}]
    /\ UNCHANGED <<bucket, wvars, epc, listed, failed, cut, asked, since>>

(* A delete fails, having reached the bucket or not; the loop goes on.     *)
CloseEntryFails(c, k) ==
    /\ epc[c] = "list"
    /\ k \in seen[c]
    /\ seen' = [seen EXCEPT ![c] = @ \ {k}]
    /\ failed' = failed \cup {c}
    /\ Delete(k) \/ UNCHANGED <<bucket, unsent, since>>
    /\ UNCHANGED <<watchOf, wpc, replaying, updates, ctxDone, calls,
                   epc, listed, cut, asked>>

(* nil, and the end of the loop.                                           *)
CloseAllReturns(c) ==
    /\ epc[c] = "list"
    /\ listed[c] = {}
    /\ seen[c] = {}
    /\ epc' = [epc EXCEPT ![c] = "done"]
    /\ UNCHANGED <<bucket, wvars, listed, seen, failed, cut, asked, since>>

(* The context ends, the library closes the channel, and so does the loop: *)
(* what the list still held stays, and the call returns as if it were done.*)
CloseAllIsCut(c) ==
    /\ epc[c] = "list"
    /\ epc' = [epc EXCEPT ![c] = "done"]
    /\ cut' = cut \cup {c}
    /\ UNCHANGED <<bucket, wvars, listed, seen, failed, asked, since>>

------------------------------------------------------------------------------
WatchRun(w) ==
    WatchStarts(w) \/ WatchFails(w) \/ NextUpdate(w) \/ UpdatesClosed(w) \/ Recheck(w)

Next ==
    \/ \E k \in Keys : CreateSession(k) \/ SaveSession(k) \/ CloseSession(k)
    \/ \E w \in Watches, k \in Keys : NotifyClosed(w, k)
    \/ \E w \in Watches : WatchRun(w) \/ Deliver(w) \/ Stop(w) \/ Cancel(w)
    \/ \E c \in Closers, u \in Users : CloseAllUserSessions(c, u)
    \/ \E c \in Closers, k \in Keys :
          List(c, k) \/ CloseEntry(c, k) \/ CloseEntryFails(c, k)
    \/ \E c \in Closers : CloseAllReturns(c) \/ CloseAllIsCut(c)

Spec == Init /\ [][Next]_vars

(* The goroutines of the watches run and the library delivers.  A select   *)
(* picks at random among the cases that are ready, so that the one of the  *)
(* context is taken in the end however often the other is.                 *)
Fairness ==
    \A w \in Watches : WF_vars(WatchRun(w)) /\ WF_vars(Deliver(w)) /\ SF_vars(Stop(w))

FairSpec == Spec /\ Fairness
------------------------------------------------------------------------------
Entries == {"none", "live", "deleted", "nil"}

TypeOK ==
    /\ kv \in [Keys -> {"none", "live", "deleted"}]
    /\ watchOf \in [Watches -> Keys \cup {None}]
    /\ wpc \in [Watches -> {"idle", "watch", "loop", "check", "done", "failed"}]
    /\ unsent \subseteq Watches
    /\ replaying \subseteq Watches
    /\ updates \in [Watches -> Seq(Entries)]
    /\ ctxDone \subseteq Watches
    /\ calls \in [Watches -> Nat]
    /\ epc \in [Closers -> {"idle", "list", "done"}]
    /\ listed \in [Closers -> SUBSET Keys]
    /\ seen \in [Closers -> SUBSET Keys]
    /\ failed \subseteq Closers
    /\ cut \subseteq Closers
    /\ wasClosed \subseteq Keys
    /\ asked \in [Closers -> SUBSET Keys]
    /\ since \in [Closers -> SUBSET Keys]

(* The function of a stream closes a channel, so that a second call would  *)
(* crash the process; and it is called for a session that was closed only. *)
CalledOnceForClosed ==
    \A w \in Watches : /\ calls[w] <= 1
                       /\ calls[w] = 1 => watchOf[w] \in wasClosed

(* A session that is closed for good is reported to whoever asked, however *)
(* its close falls among the lookup, the watch, its replay and the second  *)
(* lookup, and whichever of the lookups fails.                             *)
CloseIsNoticed ==
    \A w \in Watches :
        (<>[](wpc[w] # "idle" /\ NotFound(watchOf[w]))) =>
            <>(calls[w] = 1 \/ w \in ctxDone \/ wpc[w] = "failed")

(* A watch whose context is done is stopped.                               *)
WatchStops ==
    \A w \in Watches : w \in ctxDone ~> wpc[w] \in {"done", "failed"}

(* A CloseAllUserSessions that reports no error, and whose context lasted, *)
(* has closed every session the user had when it was called, be it saved,  *)
(* closed or watched by others meanwhile.                                  *)
CloseAllIsComplete ==
    \A c \in Closers :
        epc[c] = "done" /\ c \notin failed \cup cut => asked[c] \subseteq since[c]

(* "SaveSession overwrites the session data for an existing token": a      *)
(* session that was closed is not brought back.                            *)
ClosedIsFinal ==
    \A k \in Keys : k \in wasClosed => kv[k] = "deleted"

(* The manager implements SessionManager, but may bring a session back.    *)
Abstract == INSTANCE SessionManager WITH
    Revives <- TRUE,
    live    <- {k \in Keys : kv[k] = "live"},
    closed  <- wasClosed,
    watched <- watchOf,
    told    <- calls

ImplementsManager == Abstract!Spec
=============================================================================
