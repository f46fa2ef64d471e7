------------------------------- MODULE Stream -------------------------------
(***************************************************************************)
(* The life of an SSE stream in a generated server: the GETStream handlers *)
(* and handleStreamRequest, composed with what they use, a broker as its   *)
(* contract describes it (Broker) and the in-memory session manager        *)
(* (InmemSessions).                                                        *)
(*                                                                         *)
(* One stream is one request.  Two goroutines serve it.  The handler       *)
(* authenticates, subscribes, sends the response head, runs StreamOpen,    *)
(* asks to be told when the session closes, starts the watcher and then    *)
(* runs the OnXXX methods for as long as the subscription's channel lasts. *)
(* The watcher waits for the session to close, the client to leave or the  *)
(* server to shut down, closes the subscription and runs StreamClose.      *)
(***************************************************************************)
EXTENDS Subjects, FiniteSets

CONSTANTS Streams,          \* the stream requests
          Tokens, Users, Data, None,
          Msgs, SubjectOf,  \* the messages and the subjects they are dispatched to
          Capacity, Lossy,
          NotifyMayFail     \* TRUE: the session manager may fail to set up a watch

Guest == ""                 \* the user ID of a request without a session

(* The events of the application: one everybody receives and one that is   *)
(* addressed to a user (evSubj of a page).                                 *)
Broadcast == <<"broadcast">>
Notice(u) == <<"notice", u>>
EvSubj(u) == IF u = Guest THEN {Broadcast} ELSE {Broadcast, Notice(u)}

VARIABLES
    topics, state, buffer, owed,                   \* the broker
    sessions, issued, watchOf, registered, due, ctxDone, calls,   \* the manager
    pc,        \* pc[s]: where the handler goroutine is
    wpc,       \* wpc[s]: where the watcher goroutine is
    user,      \* user[s]: the user ID of the session the handler read
    key,       \* key[s]: the token of that session
    current,   \* current[s]: the message an OnXXX method is handling
    head,      \* the streams whose response head has been sent
    opened,    \* the streams whose StreamOpen has returned without an error
    shutdown   \* the shutdown channel is closed

broker   == <<topics, state, buffer, owed>>
manager  == <<sessions, issued, watchOf, registered, due, ctxDone, calls>>
handler  == <<pc, user, key, current, head, opened>>
vars     == <<broker, manager, handler, wpc, shutdown>>

(* The models' None is none of the values it stands in for.                *)
ASSUME MsgsAssumption == None \notin Msgs /\ Capacity \in Nat

B == INSTANCE Broker WITH Subs <- Streams,
                          TopicSets <- {EvSubj(u) : u \in Users \cup {Guest}}
SM == INSTANCE InmemSessions WITH Watches <- Streams

ASSUME SessionsAssumption == None \notin SM!Records \cup Tokens

Init ==
    /\ B!Init
    /\ SM!Init
    /\ pc = [s \in Streams |-> "new"]
    /\ wpc = [s \in Streams |-> "none"]
    /\ user = [s \in Streams |-> Guest]
    /\ key = [s \in Streams |-> None]
    /\ current = [s \in Streams |-> None]
    /\ head = {}
    /\ opened = {}
    /\ shutdown = FALSE

Goto(s, label) == pc' = [pc EXCEPT ![s] = label]
WatcherGoto(s, label) == wpc' = [wpc EXCEPT ![s] = label]

(* net/http cancels the request's context when its handler returns.        *)
Return(s) == Goto(s, "returned") /\ ctxDone' = ctxDone \cup {s}

------------------------------------------------------------------------------
(* The user of the session a cookie names; a cookie that names none, or    *)
(* one that is gone, makes the request a guest's.                          *)
SessionUser(t) == IF t = None \/ sessions[t] = None THEN Guest ELSE sessions[t].user

(* Mutant: the ID of the user is not checked.                              *)
UserRouteAdmits_AnyUser(u) == u # Guest

(* Each page has a route for users and one for guests.  A request on the   *)
(* other's is redirected or refused, and so is a user whose ID could not   *)
(* be a token of a subject.                                                *)
UserRouteAdmits(u) == u # Guest /\ IsToken(u)
AnonRouteAdmits(u) == u = Guest

Admitted(route, u) == IF route = "user" THEN UserRouteAdmits(u) ELSE AnonRouteAdmits(u)

(* A request that is not Datastar's, signals that cannot be read or filled *)
(* into a subject, a session that cannot be looked up or has no CSRF token.*)
RequestRefused(s) ==
    /\ pc[s] = "new"
    /\ Return(s)
    /\ UNCHANGED <<broker, sessions, issued, watchOf, registered, due, calls,
                   wpc, user, key, current, head, opened, shutdown>>

Request(s, route, t) ==
    /\ pc[s] = "new"
    /\ IF Admitted(route, SessionUser(t))
       THEN /\ Goto(s, "admitted")
            /\ user' = [user EXCEPT ![s] = SessionUser(t)]
            /\ key' = [key EXCEPT ![s] = IF SessionUser(t) = Guest THEN None ELSE t]
            /\ UNCHANGED manager
       ELSE /\ Return(s)
            /\ UNCHANGED <<user, key, sessions, issued, watchOf, registered, due, calls>>
    /\ UNCHANGED <<broker, wpc, current, head, opened, shutdown>>

(* Mutant: the head is sent first.                                         *)
Subscribe_AfterHead(s) ==
    /\ pc[s] = "admitted"
    /\ \/ s \in head /\ B!Subscribe(s, EvSubj(user[s])) /\ Goto(s, "opening")
          /\ UNCHANGED head
       \/ s \notin head /\ head' = head \cup {s} /\ UNCHANGED <<broker, pc>>
    /\ UNCHANGED <<manager, wpc, user, key, current, opened, shutdown>>

Subscribe(s) ==
    /\ pc[s] = "admitted"
    /\ B!Subscribe(s, EvSubj(user[s]))
    /\ Goto(s, "subscribed")
    /\ UNCHANGED <<manager, wpc, user, key, current, head, opened, shutdown>>

SubscribeFails(s) ==
    /\ pc[s] = "admitted"
    /\ Return(s)
    /\ UNCHANGED <<broker, sessions, issued, watchOf, registered, due, calls,
                   wpc, user, key, current, head, opened, shutdown>>

(* NewSSE sends the head: from here the client takes the stream for open.  *)
SendHead(s) ==
    /\ pc[s] = "subscribed"
    /\ head' = head \cup {s}
    /\ Goto(s, "opening")
    /\ UNCHANGED <<broker, manager, wpc, user, key, current, opened, shutdown>>

StreamOpen(s) ==
    /\ pc[s] = "opening"
    /\ opened' = opened \cup {s}
    /\ Goto(s, "opened")
    /\ UNCHANGED <<broker, manager, wpc, user, key, current, head, shutdown>>

(* Mutant: the error path returns without closing the subscription.        *)
StreamOpenFails_KeepsSubscription(s) ==
    /\ pc[s] = "opening"
    /\ Return(s)
    /\ UNCHANGED <<broker, sessions, issued, watchOf, registered, due, calls,
                   wpc, user, key, current, head, opened, shutdown>>

(* StreamOpen returns an error: the handler closes the subscription.       *)
StreamOpenFails(s) ==
    /\ pc[s] = "opening"
    /\ B!CloseBegin(s)
    /\ Goto(s, "failing")
    /\ UNCHANGED <<manager, wpc, user, key, current, head, opened, shutdown>>

Abandon(s) ==
    /\ pc[s] = "failing"
    /\ B!CloseEnd(s)
    /\ Return(s)
    /\ UNCHANGED <<sessions, issued, watchOf, registered, due, calls,
                   wpc, user, key, current, head, opened, shutdown>>

(* A guest has no session to watch.                                        *)
WatchSession(s) ==
    /\ pc[s] = "opened"
    /\ IF user[s] = Guest THEN UNCHANGED manager ELSE SM!NotifyClosed(s, key[s])
    /\ Goto(s, "watching")
    /\ UNCHANGED <<broker, wpc, user, key, current, head, opened, shutdown>>

WatchSessionFails(s) ==
    /\ NotifyMayFail
    /\ pc[s] = "opened"
    /\ user[s] # Guest
    /\ Return(s)
    /\ UNCHANGED <<broker, sessions, issued, watchOf, registered, due, calls,
                   wpc, user, key, current, head, opened, shutdown>>

StartWatcher(s) ==
    /\ pc[s] = "watching"
    /\ WatcherGoto(s, "select")
    /\ Goto(s, "loop")
    /\ UNCHANGED <<broker, manager, user, key, current, head, opened, shutdown>>

------------------------------------------------------------------------------
(* for msg := range ch                                                     *)
NextMessage(s) ==
    /\ pc[s] = "loop"
    /\ B!Receive(s)
    /\ current' = [current EXCEPT ![s] = Head(buffer[s])]
    /\ Goto(s, "handling")
    /\ UNCHANGED <<manager, wpc, user, key, head, opened, shutdown>>

Handled(s) ==
    /\ pc[s] = "handling"
    /\ current' = [current EXCEPT ![s] = None]
    /\ Goto(s, "loop")
    /\ UNCHANGED <<broker, manager, wpc, user, key, head, opened, shutdown>>

LoopEnds(s) ==
    /\ pc[s] = "loop"
    /\ state[s] = "closed"
    /\ buffer[s] = <<>>
    /\ Return(s)
    /\ UNCHANGED <<broker, sessions, issued, watchOf, registered, due, calls,
                   wpc, user, key, current, head, opened, shutdown>>

------------------------------------------------------------------------------
(* What the select of the watcher waits for; the function given to         *)
(* NotifyClosed closes the channel of the first case.                      *)
Ended(s) == calls[s] > 0 \/ s \in ctxDone \/ shutdown

(* Mutant: StreamClose runs before the subscription is closed.             *)
WatcherWakes_HookFirst(s) ==
    /\ wpc[s] = "select"
    /\ Ended(s)
    /\ WatcherGoto(s, "hook")
    /\ UNCHANGED <<broker, manager, handler, shutdown>>

WatcherWakes(s) ==
    /\ wpc[s] = "select"
    /\ Ended(s)
    /\ B!CloseBegin(s)
    /\ WatcherGoto(s, "closing")
    /\ UNCHANGED <<manager, handler, shutdown>>

WatcherCloses(s) ==
    /\ wpc[s] = "closing"
    /\ B!CloseEnd(s)
    /\ WatcherGoto(s, "hook")
    /\ UNCHANGED <<manager, handler, shutdown>>

StreamClose(s) ==
    /\ wpc[s] = "hook"
    /\ WatcherGoto(s, "done")
    /\ UNCHANGED <<broker, manager, handler, shutdown>>

------------------------------------------------------------------------------
(* Around the streams: users sign in and out, events are dispatched and    *)
(* delivered, clients leave and the server is shut down.  The application  *)
(* may create sessions at the manager itself, which takes user IDs that no *)
(* subject admits.                                                         *)
Sessions(t) ==
    /\ \/ \E rec \in SM!Records : SM!CreateSession(t, rec)
       \/ SM!CloseSession(t)
    /\ UNCHANGED <<broker, handler, wpc, shutdown>>

Watch(s) ==
    /\ SM!Notify(s) \/ SM!Forget(s)
    /\ UNCHANGED <<broker, handler, wpc, shutdown>>

Dispatch(m) == B!Publish(m) /\ UNCHANGED <<manager, handler, wpc, shutdown>>

Deliver(m, s) ==
    /\ B!Offer(m, s) \/ B!Lose(m, s)
    /\ UNCHANGED <<manager, handler, wpc, shutdown>>

ClientLeaves(s) ==
    /\ pc[s] # "new"
    /\ SM!Cancel(s)
    /\ UNCHANGED <<broker, handler, wpc, shutdown>>

Shutdown ==
    /\ ~shutdown
    /\ shutdown' = TRUE
    /\ UNCHANGED <<broker, manager, handler, wpc>>

------------------------------------------------------------------------------
Handler(s) ==
    \/ Subscribe(s) \/ SubscribeFails(s) \/ SendHead(s)
    \/ StreamOpen(s) \/ StreamOpenFails(s) \/ Abandon(s)
    \/ WatchSession(s) \/ WatchSessionFails(s) \/ StartWatcher(s)
    \/ NextMessage(s) \/ Handled(s) \/ LoopEnds(s)

Watcher(s) == WatcherWakes(s) \/ WatcherCloses(s) \/ StreamClose(s)

Next ==
    \/ \E s \in Streams, route \in {"user", "anon"}, t \in issued \cup {None} :
          Request(s, route, t)
    \/ \E s \in Streams : \/ RequestRefused(s) \/ Handler(s) \/ Watcher(s)
                          \/ Watch(s) \/ ClientLeaves(s)
    \/ \E t \in Tokens : Sessions(t)
    \/ \E m \in Msgs : Dispatch(m)
    \/ \E m \in Msgs, s \in Streams : Deliver(m, s)
    \/ Shutdown

(* The goroutines of a stream run on, which includes that the hooks and    *)
(* the OnXXX methods return; a session's closer finishes its notifications.*)
(* Nobody has to sign out, leave, dispatch or shut down.                   *)
Fairness ==
    \A s \in Streams : WF_vars(Handler(s)) /\ WF_vars(Watcher(s)) /\ WF_vars(Watch(s))

Spec == Init /\ [][Next]_vars
FairSpec == Spec /\ Fairness
------------------------------------------------------------------------------
TypeOK ==
    /\ topics \in [Streams -> {EvSubj(u) : u \in Users \cup {Guest}} \cup {{}}]
    /\ state \in [Streams -> {"none", "open", "closing", "closed"}]
    /\ buffer \in [Streams -> Seq(Msgs)]
    /\ \A s \in Streams : Len(buffer[s]) <= Capacity
    /\ owed \subseteq Msgs \X Streams
    /\ SM!TypeOK
    /\ pc \in [Streams -> {"new", "admitted", "subscribed", "opening", "failing",
                           "opened", "watching", "loop", "handling", "returned"}]
    /\ wpc \in [Streams -> {"none", "select", "closing", "hook", "done"}]
    /\ user \in [Streams -> Users \cup {Guest}]
    /\ key \in [Streams -> Tokens \cup {None}]
    /\ current \in [Streams -> Msgs \cup {None}]
    /\ head \subseteq Streams
    /\ opened \subseteq head
    /\ shutdown \in BOOLEAN

(* "A client learns the stream is open by reading that head and may        *)
(* dispatch immediately after": from the head on the stream is subscribed, *)
(* until something ends it.                                                *)
SubscribedSinceHead ==
    \A s \in head : state[s] = "open" \/ Ended(s) \/ pc[s] = "failing"

(* What is addressed to one user reaches no stream of another user or of a *)
(* guest, neither its buffer nor a handler.                                *)
AddressedOnly ==
    \A s \in Streams, m \in Msgs :
        (current[s] = m \/ \E i \in DOMAIN buffer[s] : buffer[s][i] = m) =>
            SubjectOf[m] \in {Broadcast} \cup {Notice(u) : u \in {user[s]} \ {Guest}}

(* Once StreamClose begins nothing more is delivered to the stream.        *)
QuietAfterClose ==
    [][\A s \in Streams :
          wpc[s] \in {"hook", "done"} => Len(buffer'[s]) <= Len(buffer[s])]_vars

(* A session that ends, be it between the handshake and NotifyClosed, a    *)
(* client that leaves and a shutdown each end the stream.                  *)
SessionGone(s) == user[s] # Guest /\ SM!Gone(key[s])

EndedStreamReturns ==
    \A s \in Streams :
        (pc[s] # "new" /\ (SessionGone(s) \/ s \in ctxDone \/ shutdown))
            ~> pc[s] = "returned"

(* A stream leaves nothing behind: its subscription is closed, and what    *)
(* StreamOpen set up StreamClose takes down.                               *)
StreamCleansUp ==
    \A s \in Streams :
        pc[s] = "returned" ~> /\ state[s] \in {"none", "closed"}
                              /\ s \in opened => wpc[s] = "done"

(* StreamClose is going to run for every stream whose StreamOpen did.      *)
StreamCloseFollowsOpen ==
    \A s \in opened : pc[s] = "returned" => wpc[s] # "none"
=============================================================================
