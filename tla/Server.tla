------------------------------- MODULE Server -------------------------------
(***************************************************************************)
(* The generated server as one browser meets it: the requests of its tabs, *)
(* from the cookie they carry to the answer that changes it, on a server   *)
(* that comes up and goes down (HttpCore) and keeps its sessions with a    *)
(* session manager (InmemSessions, whose store may fail here as the one    *)
(* that NATS keeps does).  It is composed of                               *)
(*   runtime/auth       ReadSession, CheckCSRF, CreateSession, CloseSession *)
(*   internal/generator the handlers of pages, of actions, and the ways     *)
(*                      they report an error                               *)
(*                                                                         *)
(* A session token stands for the cookie and, as the CSRF token is         *)
(* computed from it and from nothing else, for the CSRF token as well.     *)
(* What is local to a request is done with the step that precedes it.      *)
(***************************************************************************)
EXTENDS Naturals, FiniteSets

CONSTANTS Apps,       \* the applications, see AppsAssumption
          Requests,   \* the requests that may be in progress at a time
          Tokens, Users, Data, None,
          HasMetrics, Callers

VARIABLES
    app,      \* the application that is served
    req,      \* req[r]: the request r
    jar,      \* the session cookie of the browser
    tab,      \* the session whose CSRF token the page in the tab sends
    expired,  \* the sessions whose time is over
    main, runCtx, runCancel, group, listener, once, closes, down, gaveUp, missed, active,
    sessions, issued, watchOf, registered, due, ctxDone, calls

C == INSTANCE HttpCore
M == INSTANCE InmemSessions WITH Watches <- {}

core    == <<main, runCtx, runCancel, group, listener, once, closes, down, gaveUp,
             missed, active>>
manager == <<sessions, issued, watchOf, registered, due, ctxDone, calls>>
vars    == <<app, req, jar, tab, expired, core, manager>>

Outputs == {"closeSession", "newSession"}

(* What the generator knows of a handler.                                  *)
Handlers ==
    [verb  : {"GET", "POST"},
     level : {"page", "app"},      \* the type the method belongs to
     reads : BOOLEAN,              \* it takes the session, or its page's head does
     sse   : BOOLEAN,              \* it takes an event stream
     out   : SUBSET Outputs,
     lost  : BOOLEAN]              \* the index page, for a URL of no page: with the page for
                                   \* errors, which takes the session if it does

(* An application: its handlers and what it has for errors; and, to bound  *)
(* the instances, whether the server it runs on is ever told to stop, and  *)
(* the requests a browser makes of it at a time.                           *)
ASSUME AppsAssumption ==
    \A a \in Apps :
        /\ a.handlers \subseteq Handlers
        /\ {a.page500, a.recover, a.stops} \subseteq BOOLEAN
        /\ a.atATime \in Nat
        /\ \A h \in a.handlers :
              /\ h.sse => h.out = {} /\ h.verb = "POST" /\ h.level = "page"
              /\ h.verb = "GET" => h.level = "page" /\ "closeSession" \notin h.out
              /\ h.lost => h.verb = "GET" /\ h.out = {}

Keep  == "keep"    \* the response leaves the cookie alone
Clear == "clear"   \* the response clears it

ASSUME CallersAssumption == C!CallersApart
ASSUME NamesAssumption   == {Keep, Clear, None} \cap Tokens = {} /\ None \notin {Keep, Clear}

Fresh(h, ds, cookie, csrf) ==
    [at |-> "idle", handler |-> h, ds |-> ds, cookie |-> cookie, csrf |-> csrf,
     as |-> None, put |-> Keep, did |-> None, heads |-> 0]

Idle == Fresh(None, FALSE, None, FALSE)

Init ==
    /\ app \in Apps
    /\ req = [r \in Requests |-> Idle]
    /\ jar = None /\ tab = None
    /\ expired = {}
    /\ C!Init
    /\ M!Init

------------------------------------------------------------------------------
(* What becomes of a request q.                                            *)

Goto(q, label) == [q EXCEPT !.at = label]

(* Writes a status, and there is nothing more to do.                       *)
Answer(q) == [q EXCEPT !.at = "answered", !.heads = @ + 1]

(* A cookie set after the head has gone out is dropped.                    *)
SetSessionCookie(q, value) == IF q.heads = 0 THEN [q EXCEPT !.put = value] ELSE q

(* The store has done it, and the cookie is to say so.                     *)
SessionChanged(q, value) == [SetSessionCookie(q, value) EXCEPT !.did = value]

(* The head of an event stream goes out before the method runs.            *)
OpenStream(q) == IF q.handler.sse THEN [q EXCEPT !.heads = 1] ELSE q

(* Mutant: only a handler that reads the session checks the CSRF token.    *)
ReadsSession_IfAsked(h) == h.reads \/ "closeSession" \in h.out

ReadsSession(h) == h.reads \/ "closeSession" \in h.out \/ h.verb = "POST"

CheckCSRF(q) == q.handler.verb = "GET" \/ q.csrf

(* Mutant: the cookie is cleared when the store fails.                     *)
ReadSession_ClearsOnError(q, next) ==
    LET fails  == Answer(SetSessionCookie(q, Clear))
        signed == [q EXCEPT !.as = q.cookie]
    IN  CASE q.cookie = None -> {Goto(q, next)}
          [] q.cookie # None /\ (sessions[q.cookie] = None \/ q.cookie \in expired) ->
                 {fails, Goto(SetSessionCookie(q, Clear), next)}
          [] OTHER ->
                 {fails, IF CheckCSRF(signed) THEN Goto(signed, next) ELSE Answer(signed)}

(* A store that fails keeps the cookie; a session that is gone or expired  *)
(* clears it, and the request goes on as a guest's.                        *)
ReadSession(q, next) ==
    LET fails  == Answer(q)
        signed == [q EXCEPT !.as = q.cookie]
    IN  CASE q.cookie = None -> {Goto(q, next)}
          [] q.cookie # None /\ (sessions[q.cookie] = None \/ q.cookie \in expired) ->
                 {fails, Goto(SetSessionCookie(q, Clear), next)}
          [] OTHER ->
                 {fails, IF CheckCSRF(signed) THEN Goto(signed, next) ELSE Answer(signed)}

(* httpErrIntern: a page load is given the page for errors; a Datastar     *)
(* request RecoverError and an event stream to use; or a status.           *)
HttpErrIntern(q) ==
    IF app.page500 /\ ~q.ds
    THEN [q EXCEPT !.at = "page500", !.heads = @ + 1]
    ELSE IF app.recover
         THEN [q EXCEPT !.at = "answered", !.heads = IF @ = 0 THEN 1 ELSE @]
         ELSE Answer(q)

(* A redirect, or the document: what it is matters to the browser alone.   *)
(* An event stream and the page for a URL of no page have had their head.  *)
Write(q) ==
    [q EXCEPT !.at = "written", !.heads = IF q.handler.sse \/ q.handler.lost THEN @ ELSE @ + 1]

AfterClose(q)  == IF "newSession" \in q.handler.out THEN Goto(q, "create") ELSE Write(q)
AfterMethod(q) == IF "closeSession" \in q.handler.out THEN Goto(q, "close") ELSE AfterClose(q)

Becomes(r, q) == req' = [req EXCEPT ![r] = q]

------------------------------------------------------------------------------
(* The request for handler h, as Datastar or without it.  It has the CSRF  *)
(* token of the tab's page if it comes from there: another site's page has *)
(* none, and only a Datastar request carries it.                           *)
Sent(h, ds, own) ==
    Fresh(h, ds, jar, own /\ ds /\ h.verb = "POST" /\ jar # None /\ tab = jar)

(* For a URL of no page the status is written first.                       *)
Begin(q) ==
    IF q.handler.lost THEN [q EXCEPT !.at = "render404", !.heads = @ + 1] ELSE Goto(q, "method")

(* checkIsDSReq, and whether the handler reads the session.                *)
Enter(q) ==
    CASE q.handler.sse /\ ~q.ds -> Answer(q)
      [] ~(q.handler.sse /\ ~q.ds) /\ ReadsSession(q.handler) -> Goto(q, "auth")
      [] OTHER -> Begin(q)

(* A tab loads a page or sends an action, or another site does.            *)
Arrive(r) ==
    /\ req[r].at = "idle" /\ Cardinality(active) < app.atATime
    /\ \E h \in app.handlers, ds \in BOOLEAN, own \in BOOLEAN : Becomes(r, Enter(Sent(h, ds, own)))
    /\ C!RequestBegins(r)
    /\ UNCHANGED <<app, jar, tab, expired, manager>>

Authenticate(r) ==
    /\ req[r].at = "auth"
    /\ \E q \in ReadSession(req[r], "method") : Becomes(r, IF q.at = "method" THEN Begin(q) ELSE q)
    /\ UNCHANGED <<app, jar, tab, expired, core, manager>>

(* render404 reads the session again.                                      *)
Render404(r) ==
    /\ req[r].at = "render404"
    /\ IF req[r].handler.reads THEN \E q \in ReadSession(req[r], "method") : Becomes(r, q)
                               ELSE Becomes(r, Goto(req[r], "method"))
    /\ UNCHANGED <<app, jar, tab, expired, core, manager>>

(* Signals or a path that cannot be read are a 400; an event stream is     *)
(* opened, and the application's method runs.                              *)
Method(r) ==
    /\ req[r].at = "method"
    /\ LET q == OpenStream(req[r])
       IN  \/ ~q.handler.lost /\ Becomes(r, Answer(req[r]))
           \/ Becomes(r, HttpErrIntern(q))
           \/ Becomes(r, AfterMethod(q))
    /\ UNCHANGED <<app, jar, tab, expired, core, manager>>

(* Mutant: after an error the handler goes on.                             *)
CloseSession_GoesOn(r) ==
    /\ req[r].at = "close"
    /\ \/ /\ Becomes(r, AfterClose(req[r]))
          /\ UNCHANGED manager
       \/ /\ Becomes(r, AfterClose(SessionChanged(req[r], Clear)))
          /\ M!CloseTokens({req[r].as} \ {None})
       \/ /\ Becomes(r, AfterClose(HttpErrIntern(req[r])))
          /\ UNCHANGED manager
    /\ UNCHANGED <<app, jar, tab, expired, core>>

(* A store that fails may have removed the session all the same.           *)
CloseSession(r) ==
    /\ req[r].at = "close"
    /\ \/ /\ Becomes(r, AfterClose(req[r]))   \* the method did not ask for it
          /\ UNCHANGED manager
       \/ /\ Becomes(r, AfterClose(SessionChanged(req[r], Clear)))
          /\ M!CloseTokens({req[r].as} \ {None})
       \/ /\ Becomes(r, HttpErrIntern(req[r]))
          /\ M!CloseTokens({req[r].as} \ {None}) \/ UNCHANGED manager
    /\ UNCHANGED <<app, jar, tab, expired, core>>

(* After an error a page's handler returns; an action's of the App does    *)
(* not.                                                                    *)
CreateFails(q) ==
    IF q.handler.level = "app" /\ HttpErrIntern(q).at = "answered"
    THEN Write(HttpErrIntern(q)) ELSE HttpErrIntern(q)

(* A store that fails may have stored the session all the same.            *)
CreateSession(r) ==
    /\ req[r].at = "create"
    /\ \/ /\ Becomes(r, Write(req[r]))   \* the method did not ask for it
          /\ UNCHANGED manager
       \/ /\ Becomes(r, CreateFails(req[r]))
          /\ UNCHANGED manager
       \/ \E t \in Tokens, rec \in M!Records :
             /\ M!CreateSession(t, rec)
             /\ \/ Becomes(r, Write(SessionChanged(req[r], t)))
                \/ Becomes(r, CreateFails(req[r]))
    /\ UNCHANGED <<app, jar, tab, expired, core>>

(* handlePageError500GET: the handler of the page reads the session, as    *)
(* that of any page, and reports its own error with a status.              *)
Page500(r) ==
    /\ req[r].at = "page500"
    /\ \/ \E q \in ReadSession(req[r], "answered") : Becomes(r, q)
       \/ Becomes(r, Answer(req[r]))
    /\ UNCHANGED <<app, jar, tab, expired, core, manager>>

(* The answer reaches the browser: it sets the cookie and, unless Datastar *)
(* asked for it, takes the tab, with the CSRF token of the session if it   *)
(* is a document whose handler was given one.                              *)
Deliver(r) ==
    LET q        == req[r]
        document == q.at = "written" /\ q.handler.reads
    IN  /\ q.at \in {"written", "answered"}
        /\ jar' = CASE q.put = Keep -> jar [] q.put = Clear -> None [] OTHER -> q.put
        /\ IF q.ds THEN UNCHANGED tab ELSE tab' \in {None} \cup (IF document THEN {q.as} ELSE {})
        /\ Becomes(r, Idle)
        /\ C!RequestEnds(r)
        /\ UNCHANGED <<app, expired, manager>>

(* The answer is lost.                                                     *)
Lose(r) ==
    /\ req[r].at \in {"written", "answered"}
    /\ Becomes(r, Idle)
    /\ C!RequestEnds(r)
    /\ UNCHANGED <<app, jar, tab, expired, manager>>

Handle(r) ==
    \/ Authenticate(r) \/ Render404(r) \/ Method(r) \/ CloseSession(r) \/ CreateSession(r)
    \/ Page500(r)

------------------------------------------------------------------------------
Expire(t) ==
    /\ sessions[t] # None /\ t \notin expired
    /\ expired' = expired \cup {t}
    /\ UNCHANGED <<app, req, jar, tab, core, manager>>

(* The application closes a user's sessions, from another request.         *)
CloseAllUserSessions(u) ==
    /\ M!CloseAllUserSessions(u)
    /\ UNCHANGED <<app, req, jar, tab, expired, core>>

(* The server comes up, and if it is ever told to stop goes down; if it is *)
(* not, when its metrics server comes up is of no interest.                *)
ComesUp == C!MakeRunContext \/ C!StartGroup \/ C!Listen(C!Http)

Life ==
    /\ ComesUp \/ (app.stops /\ C!Life)
    /\ UNCHANGED <<app, req, jar, tab, expired, manager>>

Next ==
    \/ Life
    \/ \E r \in Requests : Arrive(r) \/ Handle(r) \/ Deliver(r) \/ Lose(r)
    \/ \E t \in Tokens : Expire(t)
    \/ \E u \in Users : CloseAllUserSessions(u)

Spec == Init /\ [][Next]_vars

(* The goroutines run on; the context the coordinator gives its Shutdown   *)
(* ends after ten seconds.  A Shutdown of the application's may have a     *)
(* context without an end, and a handler may never return.                 *)
Core(A) == A /\ UNCHANGED <<app, req, jar, tab, expired, manager>>
Fairness ==
    /\ WF_vars(Core(C!Goroutines))
    /\ \A c \in C!Shutdowns : WF_vars(Core(C!ShutdownSteps(c)))
    /\ WF_vars(Core(C!GivesUp(C!Coordinator)))

FairSpec == Spec /\ Fairness
------------------------------------------------------------------------------
(* The type invariant.                                                     *)
Request ==
    [at     : {"idle", "auth", "render404", "method", "close", "create", "page500",
               "written", "answered"},
     handler : Handlers \cup {None},
     ds     : BOOLEAN,
     cookie : Tokens \cup {None},
     csrf   : BOOLEAN,   \* it carries the CSRF token of the session the cookie names
     as     : Tokens \cup {None},
     put    : Tokens \cup {Keep, Clear},
     did    : Tokens \cup {None, Clear},
     heads  : Nat]

TypeOK ==
    /\ app \in Apps
    /\ req \in [Requests -> Request]
    /\ {jar, tab} \subseteq Tokens \cup {None}
    /\ expired \subseteq Tokens
    /\ issued \subseteq Tokens
    /\ sessions \in [Tokens -> M!Records \cup {None}]

(* No method of a state-changing action runs for a cookie whose session is *)
(* live unless the request carried the CSRF token of that very session:    *)
(* whatever the handler takes, whichever tab, old page or other site sent  *)
(* it, and whatever other requests did to the session meanwhile.           *)
NoForgedAction ==
    [][\A r \in Requests :
          LET q == req[r]
          IN  q.at = "method" /\ req'[r].at # "method" /\ q.handler.verb = "POST" =>
                 \/ q.cookie = None
                 \/ sessions[q.cookie] = None \/ q.cookie \in expired
                 \/ q.csrf]_vars

(* The cookie an answer sets agrees with what was done to the store: it is *)
(* cleared only if the session it named is gone or over, a failing store   *)
(* signs nobody out, and a session that was created or closed for the      *)
(* request is the browser's to keep or to forget.                          *)
CookieFollowsStore ==
    \A r \in Requests :
       LET q == req[r]
       IN  /\ q.put = Clear /\ q.cookie # None =>
                 sessions[q.cookie] = None \/ q.cookie \in expired
           /\ q.put \in Tokens => q.put \in issued /\ q.did = q.put
           /\ q.did \in Tokens \cup {Clear} => q.put = q.did

(* A request is answered once.  Not so where the code is known to write a  *)
(* second status: an App's action whose session cannot be stored goes on,  *)
(* the pages for errors read the session when their status has gone out,   *)
(* and without RecoverError an error is written into the event stream.     *)
AnsweredTwice(q) ==
    \/ q.handler.level = "app" /\ "newSession" \in q.handler.out
    \/ q.handler.lost
    \/ app.page500 /\ ~q.ds
    \/ q.handler.sse /\ ~app.recover

AnsweredOnce ==
    \A r \in Requests :
       LET q == req[r]
       IN  /\ q.at \in {"written", "answered"} => q.heads >= 1
           /\ q.heads > 1 => AnsweredTwice(q)

StopsWhole == C!StopsWhole

ServingEnds == C!ServingEnds
=============================================================================
