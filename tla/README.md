# Verification of datapages

TLA+ models of datapages, a Go framework that generates a web server from an
application's page types, with the TLC configurations that check them and the
TLAPS proofs of what matters most.

Two parts of datapages are modelled. The first is what happens at run time:
message brokers with bounded channels, session managers that report closures,
the generated stream handlers that tie both to a connection that may go away at
any time, the handlers of pages and actions with their session cookies and CSRF
tokens, and the life of the server from its start to its shutdown. That part is
concurrent and hard to test. The second is what the tool chain guarantees to
that server: the passes of the parser that relate the declarations of an
application to each other, and the decisions the generator takes from them
(subjects, subscriptions, routes). It is sequential, and hard to test for the
number of combinations. The text processing of both is not modelled.

## Inventory

| Component | Code | State | Operations | Module |
|---|---|---|---|---|
| messaging contract | `modules/messaging` | subscriptions, their channels, what is on its way | Subscribe, Publish, receive, Close | `Broker` (abstract) |
| in-memory broker | `modules/messaging/inmem` | tables of literals and patterns, an RWMutex, per subscription a channel, a flag and a mutex | the same | `InmemBroker` |
| NATS broker | `modules/messaging/natscore` | per subscription a channel, a flag, a WaitGroup; the client library and the server | the same, and the library's callbacks | `NatsBroker` |
| subject rules | `runtime/subject`, `internal/subject` | none | IsToken, Matches; Claim.Overlaps | `Subjects`, `Events` |
| session manager contract | `modules/sessions` | the sessions, who asked for the end of which | create, save, close, NotifyClosed | `SessionManager` (abstract) |
| in-memory sessions | `modules/sessions/inmem` | sessions and listeners by token, a mutex | CreateSession, SaveSession, CloseSession, CloseAllUserSessions, NotifyClosed | `InmemSessions` |
| NATS key-value sessions | `modules/sessions/natskv` | none in memory; entries in a bucket, watches on it | the same | `NatsKVSessions` |
| stream handlers | `internal/generator/write_app.go`, `write_app_handlers.go` (the code they emit) | per stream two goroutines, the subscription, the hooks | the handshake, the event loop, the watcher | `Stream` |
| authentication | `runtime/auth`, `modules/csrf` | cookies, CSRF tokens | ReadSession, CheckCSRF, CreateSession, CloseSession | `Server` |
| HTTP core | `runtime/httpserve` | shutdown channel, run context, errgroup, the Once | ListenAndServe, Shutdown, ServeHTTP | `HttpCore`; the normalised path in `Routes` |
| page and action handlers | `write_app.go`, `write_app_handlers.go` (the code they emit) | none beyond a request | GET and POST handlers, error pages, RecoverError | `Server` |
| route patterns | `internal/routepattern`, the patterns `write_app.go` registers | none | EndsInWildcard, WithTrailingSlash, the patterns of pages, streams, actions | `Routes` |
| parser | `internal/parser` | the application as far as it is read, the errors | its passes | `Parser` |
| generator's decisions | `helpers.go`, `write_app.go` | none | subscriptions, the switch of a stream, registrations | `Events`, `Routes`, `Parser` |
| request reading, metrics, SSE, HTML helpers | `runtime/httpread`, `prom`, `sse`, `hrefcheck`, `htmlattr` | counters | pure functions | not modelled |
| template checks, command line, server scan | `internal/...`, `cmd/...` | files, Go packages | sequential passes | not modelled |

How they interact. A generated server holds one broker and, if its application
has sessions, one session manager. A stream request subscribes to the subjects
of its page, sends the response head, runs the application's `StreamOpen`, asks
the manager to be told when its session closes, starts a watcher goroutine and
then runs the `OnXXX` methods for what its channel brings. The watcher waits
for the session to close, the client to leave or the server to shut down,
closes the subscription, which ends the handler's loop, and runs `StreamClose`.
Actions of other requests publish to the broker, sign users out and in, and may
run on the same session at the same time. With NATS the publisher may be in
another process. Shutdown closes one channel that every watcher waits on, and
waits for the requests in progress, of which the streams are the long ones.

What the parser accepts the generator turns into the server: an event's subject
becomes the patterns its page's streams subscribe to and the cases of the switch
that routes what arrives, and a page's route becomes the patterns of the page
and of its streams. The parser refuses what would make these ambiguous
(overlapping subjects, conflicting routes, methods embedded twice), and the
server relies on it without checking again, except that `http.ServeMux` panics
and that generated code may not compile. Static files are served from the same
router as pages; the parser does not relate the two.

What is hard in it, each listed with its line under `hazards` in
`PROJECT.json`: sends that race closes; locks a
slow reader could hold; a subscription that overlaps itself; SUB commands that
are still in a write buffer; a session that closes between two steps of the
handshake; error paths that have to undo what was set up; two goroutines that
run the hooks and the handlers of one stream; IDs that become part of a
subject pattern; a cookie whose session another tab has closed; a store that
fails with its effect done; two Shutdowns at once, or one before the start;
pairs of declarations that are each fine.

## Modules

**`Subjects`** has the operators on subjects. A subject is the sequence of the
tokens between its dots; a wildcard is always a token of its own (the code
also takes "a*" for a pattern, which then matches only itself; no generated
subject has one).

**`Broker`** is the abstract specification: what a subscriber and a publisher
may rely on whatever the broker. A publish owes its message once to each
subscription open at that moment with a matching subject; what is owed is put
into the subscription's bounded buffer, or dropped if that is full or the
subscription has begun to close, in any order among publishes; after Close has
returned nothing more arrives. `Lossy` says whether a message may also be lost
without either reason, as core NATS may. It is not checked alone: it is the
PROPERTY the two brokers are checked against and the broker of `Stream`.

**`InmemBroker`** keeps the two tables, `sync.RWMutex` (a writer announces
itself, keeps new readers out, then waits for readers to leave), the
subscriptions' channels and `closeMu`. A critical section is one step; each
send of a publish is a step of its own, because readers and closers run between
sends. `MatchSlices` gives every order in which Go may walk the maps.
`CloseFirst`, `CloseLock`, `CloseUnlink` and `CloseChan` are Close; the channel
is closed after the lock has been given up.

**`NatsBroker`** has `closeAll` (the flag, Unsubscribe of each subject, Wait,
close of the channel), Subscribe's loop with its failure path, and the
callbacks in three steps: the library starts one (which it may also do after
Unsubscribe), it passes the flag and registers, it sends and is done. External
are the library's queues (`pending`, `callback`), the write buffer of each
connection (`out`) and the server (`server`), which takes the commands of one
connection in order and those of several in any order.

**`SessionManager`** is the abstract specification of a session manager: a
session exists from its creation to its first close, and whoever has asked for
its end is told once at most, in the call or later, and only of a session that
has been closed. `Revives` says whether a save may bring a closed session back,
the one thing the two managers differ in. The contract does not say that a
listener is told in the end: that is a property of the managers
(`NothingMissed`, `CloseIsNoticed`). Like `Broker` it has no run of its own but
is the PROPERTY the two managers are checked against.

**`InmemSessions`** has the tokens' sessions and the listeners. What a closer
calls after giving up the lock is in `due` until `Notify` calls it or skips it,
its context being done. The goroutine each NotifyClosed starts is `Forget`. A
token is created once: the generator's tokens are taken to be unique.

**`NatsKVSessions`** has for each key the last entry of the bucket, live or a
tombstone. `NotifyClosed`, `WatchStarts`, `NextUpdate`, `Recheck` and `Stop`
are the lookup, the watch and the goroutine; `CloseAllUserSessions`,
`CloseEntry`, `CloseEntryFails`, `CloseAllReturns` and `CloseAllIsCut` the
loop over a user's sessions. External are the writes themselves and what the
client library sends to a watch (`Deliver`, `List`): the bucket keeps one
entry per key, its default, so that a slow watch misses what is overwritten,
and the library closes a watch's channel when its context ends. `wasClosed`,
`asked` and `since` are histories for the properties.

**`Stream`** composes `Broker` and `InmemSessions` (both by INSTANCE) with the
two goroutines of every stream. `pc[s]` follows the handler from its request
through the handshake to the loop and its return, `wpc[s]` the watcher. One
page stands for all: it has an event for everybody and one addressed to its
user, hence a route for users and one for guests. The user ID "*" is among the
users although `auth.Manager.CreateSession` would refuse it: an application may
create sessions at the manager itself, and a persistent store may hold what an
older version put there. That is what `checkUserSubject` is for.

**`HttpCore`** is `ListenAndServe` and `Shutdown`: the run context, the
errgroup with a goroutine per `http.Server` and the coordinator that calls
Shutdown when the run context ends, and the steps of a Shutdown (`ShutdownOnce`,
`CloseShutdownCh`, `ShutMetrics`, `ShutHttp`, `Drained` or `GivesUp`). The
application may call Shutdown at any time, before ListenAndServe included.
`runCancel` is written and read without synchronisation: `CancelRead` lets a
Shutdown that runs beside the start see either value. External are the two
`http.Server`s.

**`Server`** composes `HttpCore` and `InmemSessions` with the requests of one
browser. A request goes through `Arrive` (the method and Datastar checks),
`Authenticate` (`ReadSession` with its CSRF check), `Method` (reading signals
and path, the application's method), `CloseSession`, `CreateSession` and the
answer, or through `HttpErrIntern` to the page for errors or `RecoverError`. `jar`
is the browser's cookie, `tab` the session whose CSRF token the page in the tab
has; answers may be delivered in any order or lost. A handler is a record of
what the generator knows of it (method, level, whether it takes the session and
an event stream, what it returns), an application a set of them with what it
has for errors. Every call of the session store may fail, with or without its
effect, as `natskv` can. Expiry of a session is a step.

**`Events`** has the claims of events and `Overlaps`, the subscriptions of a
page (`SubscriptionOf`, one shape per kind of page), who gets a stream, and the
switch that routes a message (`FirstCase`). **`Routes`** has routes as sequences
of segments, `internal/routepattern`, the patterns the generator registers and,
external, `http.ServeMux`: which patterns conflict, which serves a request and
when a path is redirected to the one with a slash (`Routed`). `Normalised` is the
slash `ServeHTTP` adds, not to paths under the prefix of the static files.
`MCParser` checks by ASSUME that the comparisons of patterns are those of the
sets of paths they match, on all small patterns.

**`Parser`** runs the passes of `Parse` over the declarations of an application
(`ClaimEvent`, `AttachMethods`, `FlattenNext`, `FlattenDone`, `RequireHandlers`,
`ClaimRoute`, `ParseReturns`) and the start of the generated server
(`SetupHandlers`), with the route that `Init` adds for the static files if the
server is given any. A method has a Go name and a role: `flattenPage` tells
actions apart by what follows the HTTP method in their name and `OnXXX` methods
by their event (`Role`), while generated code calls them by name, and Go promotes
names (`Promoters`). The errors the passes report are the names the code gives
them; declarations that are malformed on their own are left out.

The `MC...` modules give the constants small values. Operators whose name
carries a suffix (`PublishSend_Blocking`) are variants with a plausible bug:
each is put in the place of the definition it is named after to see that the
property it threatens would notice. They are no part of any specification.

## Runs

| Run | Instance | Question |
|---|---|---|
| `inmem_broker` | 2 publishers, 2 subscriptions, 2 closers, channel of 1; subjects matched by a literal, by a pattern and by both | Is the broker safe, exact, free of waits without end, and does it implement `Broker`? |
| `inmem_sessions` | 2 tokens, 2 users, 2 listeners | Does every close reach every listener, once, and does the manager implement `SessionManager` without `Revives`? |
| `stream_pair` | 2 streams of one session | Does everything that ends a stream end it, cleanly? |
| `stream_events` | 1 stream, 3 events, a user whose ID is a wildcard, a manager that may fail | Does a stream get only what is its own, and nothing after its close? |
| `nats_broker` | 1 subscription of up to 2 subjects, 2 messages, one connection | Is the close protocol safe, and does what is published after Subscribe arrive? |
| `kv_sessions` | 2 sessions of one user, 1 listener, 1 CloseAllUserSessions | Is a close for good noticed, once, does closing all leave none out, and does the manager implement `SessionManager` with `Revives`? |
| `kv_resurrects` | the same | violated: a saved session comes back after its close |
| `stream_notify_fails` | 1 stream | violated: an error path skips `StreamClose` |
| `nats_remote` | as `nats_broker` and a second connection | violated: a publish elsewhere overtakes the SUB |
| `server` | one browser with 2 requests at a time, 4 applications, 2 tokens, a metrics server, 1 Shutdown of the application's | Does no action run without its session's CSRF token, do cookie and store agree, is a request answered once, and does the server stop whole and for good? |
| `parser` | families of small applications: pairs and triples of events, a page with three types that embed each other and declare methods of equal names or roles, three pages with streams and actions, pages beside static files | Is what the parser accepts unambiguous in the server that is generated? |
| `private_signal` | one event with a user field and a signal field | violated: a stream is sent what is not for it |

The bounds and why they are enough. Two publishers and two closers contend for
each lock in every pairing (reader and reader, reader and writer, writer and
writer), and the lock gives a third no position that two do not reach. The two
closers may meet at one subscription, which the API admits although generated
code closes each from one goroutine. Two subscriptions suffice for one to be closed
while another is served. Channels of one message are full after one send, so
drop and delivery both happen. Publishers publish again and again; subscriptions
are made once each, as in the code, so nothing unbounded needs a cap. In
`nats_broker` a message is in flight at most once at a time, which bounds the
library's queues. Two streams of one session share what streams can share, its
listeners and the events of its user. A message is a model value, and of
payloads nothing depends on their content.

In `server` the four applications of `MCApps` share the instance: two requests
meet on a page that may sign in and an action that takes nothing of the session,
on an action that may sign out and in, and on a server that is told to stop; all eight kinds of
handler are tried one at a time, with the page for errors and without
RecoverError. `atATime` is the bound on requests. Two tokens are the session a
request came with and the one another has created meanwhile. Proofs remove
these bounds for all of its safety properties. In `parser` two events decide
whether two claims overlap; the triples are for a claim that overlaps the second
of two others. Subjects and routes are of up to two segments before the
generator adds its own, so that of two one may be the other, lie below it or
beside it, or match a part of its paths (`/a/{x}/{r...}`, `/{$}`); `Depth` 4 is two segments and the `_$/anon` of a stream, and paths
are checked up to `Depth` less the segment that normalising adds. Every accepted
event meets every order of handlers, every user and every signal of `Values`.
Types that embed each other are enumerated for three abstract types in the
shapes where breadth and depth first differ, with every way of declaring GET, a
hook, one of two actions of one role, or an `OnXXX` method of either of two
events under its own or the other's name. The prefixes of static files are of
one or two literals, equal to a page's route, above, below or beside it.

Deadlock. TLC checks for it except where the system stops: `parser` and
`private_signal` (the tool returns, the generated server is up or has panicked)
and `server` (a server that has been shut down stays so).

Fairness. Goroutines that can run do run, so the steps that complete an
operation once begun are weakly fair per goroutine: a publisher with the read
lock goes on, a writer that waits for readers is let in, a callback finishes, a
listener is called, a hook or an `OnXXX` method returns. Weak fairness is
enough for the locks: a writer that has announced itself keeps new readers out,
so that its guard, once true, stays true. What clients, applications and
operators do is never fair: nobody has to publish, read, close, sign out, leave
or shut down. NATS delivery is fair in
so far as the connection is up. In `Server` the goroutines of ListenAndServe and
the steps of a Shutdown are fair, and so is the end of the coordinator's
context, which the code gives ten seconds; the context of a Shutdown of the
application's may have no end, a handler may never return, and no client has to
do anything. `Parser` has safety properties only. One step is strongly fair, `Stop` of
`NatsKVSessions`: a closed channel of updates is ready again after each lookup,
and Go's select picks at random among the cases that are ready.

## What the violated runs show

Four statements of the documentation are not what the code does; `findings`
in `PROJECT.json` quotes the lines.

* A stream whose `NotifyClosed` fails returns without closing its subscription
  and without ever running `StreamClose`, although `StreamOpen` ran
  (`stream_notify_fails`). The state an application registers in `StreamOpen`
  stays, and the broker goes on filling the channel. With the in-memory manager
  NotifyClosed cannot fail; with the NATS one it can.
* The comment in `handleStreamRequest` holds for one server process and not for
  several over NATS (`nats_remote`): Subscribe does not wait for the server.
* `SaveSession` of the NATS manager brings a closed session back
  (`kv_resurrects`); the in-memory one does not (`ClosedIsFinal`, proved).
  `CloseIsNoticed` is stated for closes that last for the same reason: a
  session that is closed and saved again before a watch has been sent the
  tombstone is never reported. In the contract both implement it is `Revives`.
* An event with both a field for a user and one for a signal, as the
  documentation's EventRoomUpdate, is subscribed to by two patterns that each
  leave the other's position open (`private_signal`): a stream is sent other
  users' events that carry its signal. The run `parser` leaves such events out
  and shows that all other mixes of fields are right.

Three of the four are why a theorem has a hypothesis: without a second connection
`ReachesTheSubscribed` holds, without a failing NotifyClosed
`StreamCloseFollowsOpen`, and without events that are addressed twice
`SentWhatConcernsIt`.

What the models exempt, each named in the property or action that does so:

* `StreamClose` runs on the watcher's goroutine while the handler's may still
  be inside an `OnXXX` method or have buffered messages to handle. `QuietAfterClose`
  is that nothing new reaches the stream after its close, no more. The
  pattern recommended for stream IDs, dropping in `StreamClose` the state that
  `OnXXX` reads, needs an `OnXXX` that copes with its absence.
* `CloseAllUserSessions` returns no error when its context ends halfway
  (`CloseAllIsCut`).
* The parser claims the routes of pages and actions as they are declared, and the
  server registers them closed by `{$}`, with those of the streams and of the
  static files beside them. `DeclaredRoutesRegister` is about pages and actions
  of literals and `{name}` among themselves, `ReachesItsPage` about a server that
  has come up. What they leave aside makes the server panic: a page whose route
  is that of another's stream, a page `/{name}` beside static files at
  `/static/`, some declared routes that end in a slash, `{$}` or `{name...}`. The
  comment at `parser.go:1342` says that the parser's answer is the one the server
  gets.
* A path under the prefix of the static files is given no slash, so that a page
  `/static/foo` beside files at `/static/` is not matched as it is asked for.
  It is reached all the same: `http.ServeMux` redirects to a path with a slash
  that a pattern is for exactly, before it serves what is below a prefix
  (`Routed`). `ReachesItsPage` counts the redirect as reaching the page.
* Calls in generated code that do not compile: `TakenFromThePromoted` says where a
  call goes only if one type declares its name at the least depth, for the role it
  is called in. The parser accepts pages with other calls. A page's `OnFoo` for
  one event and an embedded `OnFoo` for another are both taken, as flattenPage
  looks at the events only (`parser.go:1273`); the generated switch calls `OnFoo`
  with either event (`write_app_handlers.go:1081`), Go's promotion finds the page's
  own, and the types of the arguments differ. Two embedded types that declare one
  action at the same depth are accepted too (`parser.go:1203`), and the selector
  is ambiguous.
* An event with a user and a signal field is subscribed to by two patterns, which
  may match one message. `natscore` makes a NATS subscription of each and delivers
  such a message twice, although its package comment promises at most once; the
  in-memory broker delivers it once. `SentOnce` and the run `nats_broker` are about
  events that are addressed once.
* A page's `POSTSave` hides an embedded type's `PUTSave`: flattenPage tells
  actions apart by what follows the HTTP method (`parser.go:1204`), and the
  embedded action is neither served nor reported. `TakenFromThePromoted` asks for
  a method for every role, not for every name.
* A request may be answered twice in the cases `AnsweredTwice` lists: an App's
  action goes on after a failing CreateSession (`write_app.go:1569` has no
  return), a page for errors reads the session after its status has gone out,
  and without RecoverError the error of an action with an event stream is
  written into that stream.
* A Shutdown before ListenAndServe finds `runCancel` unset; the servers then
  refuse to serve while ListenAndServe waits for its caller's context
  (`missed`, exempted by `ServingEnds`).
* Two requests that carry one stale cookie: the answer to one may clear the
  cookie that the other has just set (`auth.go:139`). `CookieFollowsStore` is
  about what an answer says of the session its request carried.
* A CreateSession that stores the session and then fails, or whose answer is
  lost, leaves a session without a browser.
* A page whose GET does not take the session renders no CSRF token: the actions
  its visitors send are refused if they are signed in. `NoForgedAction` says
  nothing of actions that are refused.

## Proofs

TLAPS checks every theorem for all values of the constants, from the named
assumptions of the modules and what a theorem itself states as its hypothesis.

**`InmemBroker_proofs`**: for any sets of publishers, subscriptions (finitely
many), closers and subjects, and any capacity, `TypeOK`, `NoSendOnClosed`,
`TablesExact` and `CloseIsFinal` hold always. None of the last three is
inductive. The inductive invariant `IInv` is the conjunction of

* `TypeOK`;
* `ChanInv`, the life of a channel: nil until Subscribe makes it, open until
  the one closer that found the flag unset closes it, with the positions of
  Subscribe and Close it goes with;
* `MutexInv`: who holds `closeMu` is the closer that is past `CloseFirst`, for
  the subscription it closes;
* `TablesInv`: the tables, as functions, hold just the linked subscriptions, so
  that Unlink and Link can be computed exactly;
* `LockInv`: the announced writer is the goroutine waiting to change the
  tables, and nobody reads while it changes them;
* `MatchedInv`: a publisher that has still to send holds the read lock, and
  what it has still to send to is linked. A close cannot unlink those, needing
  the write lock for it, and closes the channel only after; that is the whole
  argument for `NoSendOnClosed`.

The lemmas before it are about what the tables' operators do (`LinkHolders`,
`UnlinkHolders`, `LinkDomain`, `UnlinkDomain`) and that what MatchSlices returns
are sequences of holders. The same module proves that the broker implements the
abstract `Broker` (`BrokerImplemented`). A publish of the contract owes its
message to each matching subscription once, and a send pays: that needs, besides
`IInv`, that no publisher has a subscription twice among its matches (`OnceInv`,
from `MatchSlicesExact`: every order in which Go may walk the maps gives each
holder once), whose message it is sending (`FromInv`) and that a subscription
has asked for one of `TopicSets` (`AskedInv`). Each group of steps has a lemma
(`SubscribeRefines`, `PublishRefines`, `CloseRefines`).

**`InmemSessions_proofs`**: `TypeOK`, `CalledOnceForClosed`, `NothingMissed`
and `ClosedIsFinal` for any tokens, users and listeners. Its invariant adds that
a registered listener's session is live or its context done (`CoverInv`), that
what is registered or due has not been called (`WatchInv`), and that no session
exists under a token that was never issued (`SessionInv`). On the same invariant
rests that the manager implements `SessionManager` (`ManagerImplemented`).

**`NatsKVSessions_proofs`**: `TypeOK`, `CalledOnceForClosed` and
`CloseAllIsComplete` for any sessions, users, listeners and calls. The
invariant follows a tombstone (`TombstoneInv`: in the bucket or in a channel of
updates it is of a session that was closed), the calls of a listener
(`CallsInv`) and every session a CloseAllUserSessions has to close
(`CloseAllInv`: closed since the call, or live and on one of its two lists).
That the manager implements `SessionManager` (`ManagerImplemented`) needs too
that what was closed or is on a list to be closed has an entry, so that nothing
is created twice or closed that never was, and that a watch names a key only
once it has been asked for (`EntryInv`).

**`NatsBroker_proofs`**: `TypeOK`, `NoSendOnClosed`, `NothingLeftOpen` and
`NoAddDuringWait`, for any subscriptions, messages and connections. The
invariant has the WaitGroup count the callbacks that have passed the flag
(`CountInv`), ties the positions of Subscribe and closeAll to the channel and to
what is still subscribed (`LifeInv`) and a callback to a message
(`CallbackInv`); a channel is closed only when the count is zero, and no
callback passes the flag once it is set. The module proves too that the broker
implements the abstract `Broker` (`BrokerImplemented`): a message is owed from
the server's routing on, a send or a drop pays, and a close that sets its flag
forgets what no callback is sending. A broker that pays once needs that a
message is on its way to a subscription at one place at most: in one NATS
subscription's queue or its callback, or in one write buffer still to be routed
(`OnceInv`, with `TopicsInv`, that NATS subscriptions are to subjects asked
for). It holds under the hypothesis `SubjectsApart`, that no message matches two
subjects of one subscription; without it NATS delivers twice. For pages whose
events are addressed once it is what `SentOnce` of `Parser` says. The parser
accepts others: an event with a user and a signal field may have two patterns
that match one message, and of such a page the contract does not hold over NATS.
Under the same hypothesis delivery is at most once (`DeliveredOnceHolds`).

That a message published after Subscribe has returned reaches the subscription
follows a SUB through the write buffer of its connection: while nobody closes the
subscription, what the library has of it is at the server or on its way there
(`KnownInv`), and a message behind it in the buffer finds there, or in front of
it, a NATS subscription that matches (`AheadInv`); nobody else sends SUB or UNSUB
(`SendersInv`). `ReachesWithinTheProcess` says so of the connection of the
subscriptions, for any number of others beside it; where it is the only one this
is `ReachesTheSubscribed`.

**`Stream_proofs`**: `TypeOK`, `SubscribedSinceHead` and `AddressedOnly` for any
streams, users, messages and subjects, whether or not the broker loses messages
and the manager fails. The invariant says per stream where the two goroutines
may be relative to each other and to the subscription (`PhaseInv`), that a
user's ID is a token (`UserInv`, what `checkUserSubject` is for) and that all
that is owed, buffered or being handled was asked for (`OwnInv`). On it rests
that every step of the composition is one the broker's contract and the session
manager allow (`UsesBroker`, `UsesManager`), so that what holds of these holds
in the composition: `ClosedOnce` takes `CalledOnceForClosed` over from the
manager by instantiating its proof module. `QuietAfterClose`, an action
property, needs `QuietInv`: a watcher that has come to `StreamClose` has closed
the subscription, and the broker owes a closed one nothing. No step of the
broker's contract undoes that (`ClosedForGood`). `StreamCloseFollowsOpen` is
proved for a manager that does not fail: past NotifyClosed nothing is left that
keeps the watcher from being started (`OpenedInv`). `EndReachesWatcher` is the
safety in the liveness property `EndedStreamReturns`: a watcher whose session is
gone has been woken or is in the list of a closer. It takes the manager's
`NothingMissed` over, again by `UsesManager`, and adds that the watch is one of
the stream's own session (`WatchedInv`).

**`HttpCore_proofs`** and **`Server_proofs`**: `StopsWhole` for any number of
Shutdowns and requests (`OnceInv`: the Once and the channel; `DrainInv`: who
waits for requests has closed the listener; `GroupInv`: what the return of a
goroutine tells), and for any applications, requests and tokens
`CookieFollowsStore`, `AnsweredOnce`, `NoForgedAction` and, through the
instantiated proof of HttpCore, `ServerStopsWhole`. The invariant of `Server`
is a conjunction over the requests: `AuthInv` (an action goes on only when it
has been let pass or its session is over), `CookieInv`, `HeadsInv` (how many
statuses can have gone out at each position) and `EarlyInv`.

**`Parser_proofs`** is about any applications. What a single declaration has
been checked for before the passes are `Parser`'s assumptions
`ApplicationsAssumption`, `DeclarationsAssumption` (finitely many types, embedded
types declared, each page listed once: package loading and `ctx.pages`),
`RoutesDeclaredAssumption` (routes begin with a slash, `PageIndex` is at "/", an
action is for POST, PUT, PATCH or DELETE: `parseRoute`,
`firstPassPageOrAbstractType` and `methodkind`) and `AssetsAssumption` (the prefix
of the static files has literal segments only, one at least, and ends in a slash:
`validate.AssetsURLPrefix`). It has four parts.

* Events. `OverlapsExactly`: the code's comparison of prefixes is true exactly
  if some subject belongs to both events. `EventsInvariance`: no two accepted
  events overlap. From both `CountedAsDispatched`, and with what it takes to
  match a pattern token by token (`MatchesExactly`) `HandledAsDispatched`,
  `SentWhatConcernsIt` and `SentOnce`: of the patterns of a page, the one that a
  dispatch matches is the one its own event gave. These have hypotheses the
  parser does not enforce. `SubjectsPlain`: no subject of an event contains a
  wildcard. `AddressedOnce`, for the last two: an event has at most one of a
  user field and a signal field, and one user field; with both, `private_signal`
  is a counterexample, and with two the subscription of `write_app.go:862` leaves
  one open. `MCParser` has applications that meet both hypotheses.
* Embedding. `PassesInv` says of `flattenPage` while it runs that its queue is
  a layer of the types at some depth followed by a part of the next one, that
  it has visited all nearer ones, that the page has a method for each role
  declared by what has been visited, taken from a type at the least depth that
  declares one, and that nothing but actions is overridden unless an error has been
  reported (`PassesInvariance`). When the
  queue is empty, every type the page embeds has been reached, because with
  finitely many types nothing is embedded deeper than there are types
  (`DeepWithinLevels`); types that embed each other in a cycle are included.
  `TakenFromThePromoted` follows: the least depth of a role is no deeper than that
  of a name that plays it, so that a sole promoter which plays the role is where
  the method was taken from.
* Routes. `RoutesInv`: the router of `validateRouteConflicts` holds just the
  claims made so far, and no two of an accepted application conflict
  (`RoutesInvariance`). The server registers other patterns than those: pages
  closed by `{$}`, the index page as "/", actions per method. That routes of
  literals and `{name}` that are apart stay apart when they are closed
  (`ClosedAlike`, `ConflictOfRoutes`), and that "/" is wider than all and so in
  nobody's way (`RootIsWider`), gives `DeclaredRoutesRegister`. Streams and static
  files, which nobody claims, are not in it.
* Requests. Among patterns that match a path and do not conflict one is within
  all others, and that is the one the router serves (`ServedIsLeast`). A server
  that came up has registered just its `Registrations`, and the route of the
  static files if it was given any, none in another's way (`ServeInv`). Closing the
  routes of pages and normalising the path keep which of the pages' patterns match
  and which is least; of the streams and actions none matches a GET whose path has
  no `_$`. The static files count as a route that is declared (`StaticFiles`);
  below their prefix, where no slash is added, the router's redirect leads to
  what the path with the slash is served by (`SlashedOnce`, `RoutedIsServed`).
  Hence `ReachesItsPage`, for all
  routes, those that end in a slash, `{$}` or `{name...}` included. A path that
  only a wildcard matches as it is is compared with its slash added, as the
  server sees it: the best match may then be a wildcard one segment below.

The library's induction theorems cannot be used, so induction goes by sets:
a set of numbers that is not empty has a least one (`LeastNat`), hence one that
holds 0 and all successors is `Nat` (`SetInduction`). Recursive functions of the model and the
community modules' folds are unfolded once (`DeepUnfolds`, `FlattenJoins`) and reasoned
about by such sets.

Only model-checked: liveness, which is out of the prover's reach
(`PublishReturns`, `CloseReturns`, `WatchesAreReleased`, `CloseIsNoticed`,
`WatchStops`, `EndedStreamReturns`, `StreamCleansUp`, `ServingEnds`). Every
invariant and every action property of a passing run is proved.
The type invariants of the run-time modules are proved; only the run `inmem_broker`
checks one as well, for the capacity of the channels.

## Not modelled

HTML and JSON, rendering, encryption, logging, metrics; the text the generator
writes other than the stream, page and action code; of the parser the checks of
a single declaration (signatures, tags, names, comments), type resolution and
loading of packages; template checks, command line and the scan of main's
calls, all of them sequential passes over source text; panics in application
code, and what net/http does with them. Expiry of a session while its stream is
open has no effect in the code, and none is modelled. The component notes in
`PROJECT.json` give the reason for each.

By lines the models cover a small share of the repository. Most of its Go is not
the program's own logic: 44000 of 70000 lines are examples and acceptance
applications, half of them generated by the generator that is modelled (so that
they are further copies of the code `Stream` and `Server` translate), and most
of the parser's 12000 is the resolution of Go types and its error messages.

## Plan

Done: the run time, what the tool chain guarantees to it, and their proofs as
above. What could follow: `Server` and `Stream` composed, so that a sign-out
action ends the streams of its session; both use the session manager as their
module says, which is what the composition would rest on.

Order of composition: `Subjects` below `Broker` and `Events`; `Broker` below the
two implementations and `Stream`; `SessionManager` below both session managers;
`InmemSessions` below `Stream` and `Server`;
`HttpCore` below `Server`; `Events` and `Routes` below `Parser`. No module uses
a RECURSIVE operator, so that all can be proved about.
