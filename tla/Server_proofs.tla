---------------------------- MODULE Server_proofs ----------------------------
(* Proofs about Server: for any applications, requests, tokens and users.  *)
EXTENDS Server, TLAPS

CP == INSTANCE HttpCore_proofs

------------------------------------------------------------------------------
(* The inductive invariant.                                                *)

Over(t) == sessions[t] = None \/ t \in expired

SessionInv ==
    /\ \A t \in Tokens : sessions[t] # None => t \in issued
    /\ jar # None => jar \in issued

(* What the request knows of the session its cookie names: an action goes  *)
(* on only when it has been let pass, or when that session was over.       *)
AuthInv(q) ==
    /\ q.cookie # None => q.cookie \in issued
    /\ q.as \in {None, q.cookie}
    /\ q.at \in {"method", "close", "create"} /\ ReadsSession(q.handler) /\ q.cookie # None =>
          (q.as = q.cookie /\ CheckCSRF(q)) \/ Over(q.cookie)

CookieInv(q) ==
    /\ q.put = Clear /\ q.cookie # None => Over(q.cookie)
    /\ q.put \in Tokens => q.put \in issued /\ q.did = q.put
    /\ q.did # None => q.put = q.did

(* How many heads have gone out, and what the position of a request tells  *)
(* of its handler.                                                         *)
HeadsInv(q) ==
    /\ q.at # "idle" => q.handler \in app.handlers
    /\ q.at \in {"auth", "close", "create"} => q.heads = 0
    /\ q.at = "method" => q.heads = IF q.handler.lost THEN 1 ELSE 0
    /\ q.at = "render404" => q.heads = 1 /\ q.handler.lost
    /\ q.at = "close" => "closeSession" \in q.handler.out
    /\ q.at = "create" => "newSession" \in q.handler.out
    /\ q.at = "page500" => q.heads >= 1 /\ app.page500 /\ ~q.ds
    /\ q.at \in {"written", "answered"} => q.heads >= 1
    /\ q.heads > 1 => AnsweredTwice(q)

(* Nothing has been done to the store before the method has returned.      *)
EarlyInv(q) ==
    /\ q.at \in {"auth", "render404", "method", "close"} => q.did = None
    /\ q.at \in {"auth", "render404", "method"} => q.put \in {Keep, Clear}

RequestInv(q) == AuthInv(q) /\ CookieInv(q) /\ HeadsInv(q) /\ EarlyInv(q)

IInv ==
    /\ TypeOK
    /\ SessionInv
    /\ \A r \in Requests : RequestInv(req[r])

------------------------------------------------------------------------------
(* What the operators on requests return.                                  *)

Same(q1, q) ==
    /\ q1 \in Request
    /\ q1.handler = q.handler /\ q1.ds = q.ds /\ q1.cookie = q.cookie /\ q1.csrf = q.csrf

LEMMA SetCookieLemma ==
    ASSUME NEW q \in Request, NEW value \in Tokens \cup {Keep, Clear}
    PROVE  LET q1 == SetSessionCookie(q, value)
           IN  /\ Same(q1, q) /\ q1.at = q.at /\ q1.as = q.as /\ q1.did = q.did
               /\ q1.heads = q.heads
               /\ q1.put = IF q.heads = 0 THEN value ELSE q.put
  BY DEF SetSessionCookie, Same, Request

Labels == {"idle", "auth", "render404", "method", "close", "create", "page500",
           "written", "answered"}

Moved(q1, q, label, n) ==
    /\ Same(q1, q) /\ q1.as = q.as /\ q1.put = q.put /\ q1.did = q.did
    /\ q1.at = label /\ q1.heads = n

LEMMA UpdateLemma ==
    ASSUME NEW q \in Request, NEW label \in Labels, NEW n \in Nat
    PROVE  Moved([q EXCEPT !.at = label, !.heads = n], q, label, n)
  BY DEF Moved, Same, Request, Labels

LEMMA GotoLemma ==
    ASSUME NEW q \in Request, NEW label \in Labels
    PROVE  Moved(Goto(q, label), q, label, q.heads)
  BY DEF Moved, Same, Request, Labels, Goto

LEMMA BeginLemma ==
    ASSUME NEW q \in Request
    PROVE  \/ q.handler.lost /\ Moved(Begin(q), q, "render404", q.heads + 1)
           \/ ~q.handler.lost /\ Moved(Begin(q), q, "method", q.heads)
<1>1. PICK n \in Nat : n = q.heads + 1
  BY DEF Request
<1>2. Moved([q EXCEPT !.at = "render404", !.heads = n], q, "render404", n)
  BY UpdateLemma DEF Labels
<1>3. Moved(Goto(q, "method"), q, "method", q.heads)
  BY GotoLemma DEF Labels
<1>4. CASE q.handler.lost
  <2>1. Begin(q) = [q EXCEPT !.at = "render404", !.heads = n]
    BY <1>1, <1>4 DEF Begin
  <2>. QED  BY <1>1, <1>2, <1>4, <2>1
<1>5. CASE ~q.handler.lost
  BY <1>3, <1>5 DEF Begin
<1>. QED  BY <1>4, <1>5

LEMMA AnswerLemma ==
    ASSUME NEW q \in Request
    PROVE  Moved(Answer(q), q, "answered", q.heads + 1)
<1>1. PICK n \in Nat : n = q.heads + 1
  BY DEF Request
<1>2. Answer(q) = [q EXCEPT !.at = "answered", !.heads = n]
  BY <1>1 DEF Answer
<1>3. Moved(Answer(q), q, "answered", n)
  BY <1>2, UpdateLemma DEF Labels
<1>. QED  BY <1>1, <1>3

(* The request is refused or answered with an error, or goes on: as a      *)
(* guest's, having no session, or as that of its session.                  *)
LEMMA ReadSessionLemma ==
    ASSUME NEW q \in Request, NEW next \in {"method", "answered"},
           q.as \in {None, q.cookie},
           NEW q1 \in ReadSession(q, next)
    PROVE  /\ Same(q1, q)
           /\ q1.did = q.did
           /\ q1.as \in {None, q.cookie}
           /\ \/ q1.at = "answered" /\ q1.heads = q.heads + 1
              \/ /\ q1.at = next /\ q1.heads = q.heads
                 /\ q.cookie # None => (q1.as = q.cookie /\ CheckCSRF(q1)) \/ Over(q.cookie)
           /\ \/ q1.put = q.put
              \/ q1.put = Clear /\ q.heads = 0 /\ q.cookie # None /\ Over(q.cookie)
<1>1. CASE q.cookie = None
  BY <1>1 DEF ReadSession, Goto, Same, Request
<1>2. CASE q.cookie # None /\ Over(q.cookie)
  <2>1. ReadSession(q, next) = {Answer(q), Goto(SetSessionCookie(q, Clear), next)}
    BY <1>2 DEF ReadSession, Over
  <2>2. CASE q1 = Answer(q)
    BY <2>2, AnswerLemma DEF Moved
  <2>3. CASE q1 = Goto(SetSessionCookie(q, Clear), next)
    BY <1>2, <2>3 DEF Goto, SetSessionCookie, Same, Request
  <2>. QED  BY <2>1, <2>2, <2>3
<1>3. CASE q.cookie # None /\ ~Over(q.cookie)
  <2>. DEFINE signed == [q EXCEPT !.as = q.cookie]
  <2>1. ReadSession(q, next) =
           {Answer(q), IF CheckCSRF(signed) THEN Goto(signed, next) ELSE Answer(signed)}
    BY <1>3 DEF ReadSession, Over
  <2>2. Same(signed, q) /\ signed.as = q.cookie /\ signed.did = q.did
        /\ signed.heads = q.heads /\ signed.put = q.put
    BY DEF Same, Request
  <2>3. CASE q1 = Answer(q)
    BY <2>3, AnswerLemma DEF Moved
  <2>4. CASE q1 = Goto(signed, next) /\ CheckCSRF(signed)
    <3>1. Same(q1, q) /\ q1.as = q.cookie /\ q1.did = q.did /\ q1.heads = q.heads
          /\ q1.put = q.put /\ q1.at = next
      BY <2>4 DEF Goto, Same, Request
    <3>2. CheckCSRF(q1)
      BY <2>2, <2>4, <3>1 DEF CheckCSRF, Same
    <3>. QED  BY <3>1, <3>2
  <2>5. CASE q1 = Answer(signed)
    BY <2>2, <2>5, AnswerLemma DEF Moved, Same
  <2>. QED  BY <2>1, <2>3, <2>4, <2>5
<1>. QED  BY <1>1, <1>2, <1>3

LEMMA HttpErrLemma ==
    ASSUME NEW q \in Request
    PROVE  LET q1 == HttpErrIntern(q)
           IN  \/ Moved(q1, q, "page500", q.heads + 1) /\ app.page500 /\ ~q.ds
               \/ Moved(q1, q, "answered", IF q.heads = 0 THEN 1 ELSE q.heads) /\ app.recover
               \/ Moved(q1, q, "answered", q.heads + 1) /\ ~app.recover
<1>1. PICK n \in Nat : n = q.heads + 1
  BY DEF Request
<1>2. CASE app.page500 /\ ~q.ds
  <2>1. HttpErrIntern(q) = [q EXCEPT !.at = "page500", !.heads = n]
    BY <1>1, <1>2 DEF HttpErrIntern
  <2>2. Moved(HttpErrIntern(q), q, "page500", n)
    BY <2>1, UpdateLemma DEF Labels
  <2>. QED  BY <1>1, <1>2, <2>2
<1>3. CASE ~(app.page500 /\ ~q.ds) /\ app.recover
  <2>1. PICK m \in Nat : m = IF q.heads = 0 THEN 1 ELSE q.heads
    BY DEF Request
  <2>2. HttpErrIntern(q) = [q EXCEPT !.at = "answered", !.heads = m]
    BY <1>3, <2>1 DEF HttpErrIntern
  <2>3. Moved(HttpErrIntern(q), q, "answered", m)
    BY <2>2, UpdateLemma DEF Labels
  <2>. QED  BY <1>3, <2>1, <2>3
<1>4. CASE ~(app.page500 /\ ~q.ds) /\ ~app.recover
  BY <1>4, AnswerLemma DEF HttpErrIntern
<1>. QED  BY <1>2, <1>3, <1>4

LEMMA WriteLemma ==
    ASSUME NEW q \in Request
    PROVE  Moved(Write(q), q, "written",
                 IF q.handler.sse \/ q.handler.lost THEN q.heads ELSE q.heads + 1)
<1>1. PICK n \in Nat : n = IF q.handler.sse \/ q.handler.lost THEN q.heads ELSE q.heads + 1
  BY DEF Request
<1>2. Write(q) = [q EXCEPT !.at = "written", !.heads = n]
  BY <1>1 DEF Write
<1>3. Moved(Write(q), q, "written", n)
  BY <1>2, UpdateLemma DEF Labels
<1>. QED  BY <1>1, <1>3

LEMMA ChangedLemma ==
    ASSUME NEW q \in Request, q.heads = 0, NEW value \in Tokens \cup {Clear}
    PROVE  LET q1 == SessionChanged(q, value)
           IN  /\ Same(q1, q) /\ q1.at = q.at /\ q1.as = q.as /\ q1.heads = 0
               /\ q1.put = value /\ q1.did = value
<1>1. PICK c \in Request : c = SetSessionCookie(q, value)
  BY SetCookieLemma DEF Same
<1>2. /\ Same(c, q) /\ c.at = q.at /\ c.as = q.as /\ c.heads = 0 /\ c.put = value
  BY <1>1, SetCookieLemma
<1>3. LET q1 == [c EXCEPT !.did = value]
      IN  /\ Same(q1, q) /\ q1.at = q.at /\ q1.as = q.as /\ q1.heads = 0
          /\ q1.put = value /\ q1.did = value
  BY <1>2 DEF Same, Request
<1>. QED  BY <1>1, <1>3 DEF SessionChanged

LEMMA OpenStreamLemma ==
    ASSUME NEW q \in Request
    PROVE  Moved(OpenStream(q), q, q.at, IF q.handler.sse THEN 1 ELSE q.heads)
<1>1. Moved([q EXCEPT !.heads = 1], q, q.at, 1)
  BY DEF Moved, Same, Request
<1>. QED  BY <1>1 DEF OpenStream, Moved, Same

------------------------------------------------------------------------------
(* Of a request that is in progress.                                       *)
LEMMA HandlerLemma ==
    ASSUME TypeOK, NEW q \in Request, HeadsInv(q), q.at # "idle"
    PROVE  /\ q.handler \in app.handlers
           /\ q.handler.sse => q.handler.out = {} /\ ~q.handler.lost /\ q.handler.verb = "POST"
           /\ q.handler.lost => q.handler.out = {} /\ ~q.handler.sse
  BY AppsAssumption DEF TypeOK, HeadsInv

(* The sessions that are over stay so, none being created anew.            *)
Grows ==
    /\ app' = app
    /\ issued \subseteq issued'
    /\ \A t \in issued : Over(t) => Over(t)'

LEMMA OthersLemma ==
    ASSUME NEW q \in Request, RequestInv(q), Grows
    PROVE  RequestInv(q)'
  BY DEF RequestInv, AuthInv, CookieInv, HeadsInv, EarlyInv, Grows, AnsweredTwice, Over

LEMMA QuietLemma ==
    ASSUME UNCHANGED <<app, expired, manager>>
    PROVE  Grows
  BY DEF Grows, Over, manager

LEMMA CloseTokensLemma ==
    ASSUME IInv, NEW ts \in SUBSET Tokens, M!CloseTokens(ts), UNCHANGED <<app, jar, expired>>
    PROVE  /\ Grows
           /\ SessionInv'
           /\ issued' \subseteq Tokens /\ sessions' \in [Tokens -> M!Records \cup {None}]
           /\ \A t \in ts : sessions'[t] = None
  BY DEF IInv, TypeOK, SessionInv, M!CloseTokens, Grows, Over

LEMMA CreateSessionLemma ==
    ASSUME IInv, NEW t \in Tokens, NEW rec \in M!Records, M!CreateSession(t, rec),
           UNCHANGED <<app, jar, expired>>
    PROVE  /\ Grows
           /\ SessionInv'
           /\ issued' \subseteq Tokens /\ sessions' \in [Tokens -> M!Records \cup {None}]
           /\ t \in issued'
  BY DEF IInv, TypeOK, SessionInv, M!CreateSession, Grows, Over

(* A step of one request.                                                  *)
LEMMA BecomesLemma ==
    ASSUME IInv, NEW r \in Requests, NEW q1 \in Request, Becomes(r, q1), RequestInv(q1)',
           Grows, SessionInv',
           {jar, tab}' \subseteq Tokens \cup {None}, expired' \subseteq Tokens,
           issued' \subseteq Tokens, sessions' \in [Tokens -> M!Records \cup {None}]
    PROVE  IInv'
<1>1. req' \in [Requests -> Request] /\ req' = [req EXCEPT ![r] = q1]
  BY DEF IInv, TypeOK, Becomes
<1>2. TypeOK'
  BY <1>1 DEF IInv, TypeOK, Grows
<1>3. ASSUME NEW p \in Requests PROVE RequestInv(req[p])'
  <2>1. CASE p = r
    <3>1. req'[p] = q1
      BY <1>1, <2>1 DEF IInv, TypeOK
    <3>. QED  BY <3>1 DEF RequestInv, AuthInv, CookieInv, HeadsInv, EarlyInv, AnsweredTwice, Over
  <2>2. CASE p # r
    <3>1. PICK q \in Request : q = req[p]
      BY DEF IInv, TypeOK
    <3>2. req'[p] = q
      BY <1>1, <2>2, <3>1 DEF IInv, TypeOK
    <3>3. RequestInv(q)
      BY <3>1 DEF IInv
    <3>4. RequestInv(q)'
      BY <3>3, OthersLemma
    <3>. QED
      BY <3>2, <3>4 DEF RequestInv, AuthInv, CookieInv, HeadsInv, EarlyInv, AnsweredTwice, Over
  <2>. QED  BY <2>1, <2>2
<1>. QED  BY <1>2, <1>3 DEF IInv

LEMMA QuietStepLemma ==
    ASSUME IInv, NEW r \in Requests, NEW q1 \in Request, Becomes(r, q1), RequestInv(q1),
           UNCHANGED <<app, jar, tab, expired, manager>>
    PROVE  IInv'
<1>1. Grows
  BY QuietLemma
<1>2. RequestInv(q1)'
  BY <1>1, OthersLemma
<1>3. SessionInv' /\ {jar, tab}' \subseteq Tokens \cup {None} /\ expired' \subseteq Tokens
      /\ issued' \subseteq Tokens /\ sessions' \in [Tokens -> M!Records \cup {None}]
  BY DEF IInv, TypeOK, SessionInv, manager
<1>. QED  BY <1>1, <1>2, <1>3, BecomesLemma

------------------------------------------------------------------------------
(* The steps of a request.                                                 *)

LEMMA AuthenticateStep ==
    ASSUME IInv, NEW r \in Requests, Authenticate(r)
    PROVE  IInv'
<1>1. PICK q \in Request : q = req[r]
  BY DEF IInv, TypeOK
<1>2. q.at = "auth" /\ RequestInv(q) /\ UNCHANGED <<app, jar, tab, expired, manager>>
  BY <1>1 DEF Authenticate, IInv
<1>3. PICK a \in ReadSession(q, "method") : Becomes(r, IF a.at = "method" THEN Begin(a) ELSE a)
  BY <1>1 DEF Authenticate
<1>4. /\ Same(a, q) /\ a.did = q.did /\ a.as \in {None, q.cookie}
      /\ \/ a.at = "answered" /\ a.heads = q.heads + 1
         \/ /\ a.at = "method" /\ a.heads = q.heads
            /\ q.cookie # None => (a.as = q.cookie /\ CheckCSRF(a)) \/ Over(q.cookie)
      /\ \/ a.put = q.put
         \/ a.put = Clear /\ q.heads = 0 /\ q.cookie # None /\ Over(q.cookie)
  BY <1>2, ReadSessionLemma DEF RequestInv, AuthInv
<1>5. CASE a.at = "method"
  <2>1. PICK b \in Request :
           /\ b = Begin(a)
           /\ \/ a.handler.lost /\ Moved(b, a, "render404", a.heads + 1)
              \/ ~a.handler.lost /\ Moved(b, a, "method", a.heads)
    BY <1>4, BeginLemma DEF Moved, Same
  <2>2. RequestInv(b)
    BY <1>2, <1>4, <1>5, <2>1, NamesAssumption
    DEF RequestInv, AuthInv, CookieInv, HeadsInv, EarlyInv, AnsweredTwice, Moved, Same, CheckCSRF
  <2>. QED  BY <1>2, <1>3, <1>5, <2>1, <2>2, QuietStepLemma
<1>6. CASE a.at # "method"
  <2>1. Becomes(r, a) /\ a \in Request
    BY <1>3, <1>4, <1>6 DEF Same
  <2>2. RequestInv(a)
    BY <1>2, <1>4, <1>6, NamesAssumption
    DEF RequestInv, AuthInv, CookieInv, HeadsInv, EarlyInv, AnsweredTwice, Same
  <2>. QED  BY <1>2, <2>1, <2>2, QuietStepLemma
<1>. QED  BY <1>5, <1>6

LEMMA Render404Step ==
    ASSUME IInv, NEW r \in Requests, Render404(r)
    PROVE  IInv'
<1>1. PICK q \in Request : q = req[r]
  BY DEF IInv, TypeOK
<1>2. q.at = "render404" /\ RequestInv(q) /\ UNCHANGED <<app, jar, tab, expired, manager>>
  BY <1>1 DEF Render404, IInv
<1>3. CASE \E a \in ReadSession(q, "method") : Becomes(r, a)
  <2>1. PICK a \in ReadSession(q, "method") : Becomes(r, a)
    BY <1>3
  <2>2. /\ Same(a, q) /\ a.did = q.did /\ a.as \in {None, q.cookie}
        /\ \/ a.at = "answered" /\ a.heads = q.heads + 1
           \/ /\ a.at = "method" /\ a.heads = q.heads
              /\ q.cookie # None => (a.as = q.cookie /\ CheckCSRF(a)) \/ Over(q.cookie)
        /\ \/ a.put = q.put
           \/ a.put = Clear /\ q.heads = 0 /\ q.cookie # None /\ Over(q.cookie)
    BY <1>2, ReadSessionLemma DEF RequestInv, AuthInv
  <2>3. RequestInv(a)
    BY <1>2, <2>2, NamesAssumption
    DEF RequestInv, AuthInv, CookieInv, HeadsInv, EarlyInv, AnsweredTwice, Same
  <2>. QED  BY <1>2, <2>1, <2>2, <2>3, QuietStepLemma DEF Same
<1>4. CASE ~q.handler.reads /\ Becomes(r, Goto(q, "method"))
  <2>1. PICK a \in Request : a = Goto(q, "method") /\ Moved(a, q, "method", q.heads)
    BY GotoLemma DEF Moved, Same, Labels
  <2>2. /\ q.handler.out = {} /\ q.handler.verb = "GET"
    BY <1>2, AppsAssumption DEF IInv, TypeOK, RequestInv, HeadsInv
  <2>3. ~ReadsSession(q.handler)
    BY <1>4, <2>2 DEF ReadsSession
  <2>4. RequestInv(a)
    BY <1>2, <1>4, <2>1, <2>3, NamesAssumption
    DEF RequestInv, AuthInv, CookieInv, HeadsInv, EarlyInv, AnsweredTwice, Moved, Same
  <2>. QED  BY <1>2, <1>4, <2>1, <2>4, QuietStepLemma
<1>. QED  BY <1>1, <1>3, <1>4 DEF Render404

LEMMA Page500Step ==
    ASSUME IInv, NEW r \in Requests, Page500(r)
    PROVE  IInv'
<1>1. PICK q \in Request : q = req[r]
  BY DEF IInv, TypeOK
<1>2. q.at = "page500" /\ RequestInv(q) /\ UNCHANGED <<app, jar, tab, expired, manager>>
  BY <1>1 DEF Page500, IInv
<1>3. CASE Becomes(r, Answer(q))
  <2>1. PICK a \in Request : a = Answer(q)
    BY AnswerLemma DEF Moved, Same
  <2>2. RequestInv(a)
    BY <1>2, <2>1, AnswerLemma
    DEF RequestInv, AuthInv, CookieInv, HeadsInv, EarlyInv, AnsweredTwice, Moved, Same, Request
  <2>. QED  BY <1>2, <1>3, <2>1, <2>2, QuietStepLemma
<1>4. CASE \E a \in ReadSession(q, "answered") : Becomes(r, a)
  <2>1. PICK a \in ReadSession(q, "answered") : Becomes(r, a)
    BY <1>4
  <2>2. /\ Same(a, q) /\ a.did = q.did /\ a.as \in {None, q.cookie}
        /\ a.at = "answered" /\ a.heads \in {q.heads, q.heads + 1}
        /\ \/ a.put = q.put
           \/ a.put = Clear /\ q.heads = 0 /\ q.cookie # None /\ Over(q.cookie)
    BY <1>2, ReadSessionLemma DEF RequestInv, AuthInv
  <2>3. RequestInv(a)
    BY <1>2, <2>2, NamesAssumption
    DEF RequestInv, AuthInv, CookieInv, HeadsInv, EarlyInv, AnsweredTwice, Same, Request
  <2>. QED  BY <1>2, <2>1, <2>2, <2>3, QuietStepLemma DEF Same
<1>. QED  BY <1>1, <1>3, <1>4 DEF Page500

(* A request that has been dealt with, by an error or its document.        *)
Settled(q) == AuthInv(q) /\ CookieInv(q) /\ q.handler \in app.handlers

LEMMA HttpErrInv ==
    ASSUME NEW q \in Request, Settled(q),
           q.heads = 0 \/ (q.heads = 1 /\ (q.handler.sse \/ q.handler.lost))
    PROVE  HttpErrIntern(q) \in Request /\ RequestInv(HttpErrIntern(q))
<1>1. PICK a \in Request : a = HttpErrIntern(q)
  BY HttpErrLemma DEF Moved, Same
<1>2. RequestInv(a)
  BY <1>1, HttpErrLemma
  DEF Settled, RequestInv, AuthInv, CookieInv, HeadsInv, EarlyInv, AnsweredTwice, Moved, Same,
      Request
<1>. QED  BY <1>1, <1>2

LEMMA WriteInv ==
    ASSUME NEW q \in Request, Settled(q),
           \/ q.heads = IF q.handler.sse \/ q.handler.lost THEN 1 ELSE 0
           \/ q.heads > 0 /\ AnsweredTwice(q)
    PROVE  Write(q) \in Request /\ RequestInv(Write(q))
<1>1. PICK a \in Request : a = Write(q)
  BY WriteLemma DEF Moved, Same
<1>2. RequestInv(a)
  BY <1>1, WriteLemma
  DEF Settled, RequestInv, AuthInv, CookieInv, HeadsInv, EarlyInv, AnsweredTwice, Moved, Same,
      Request
<1>. QED  BY <1>1, <1>2

(* What AfterMethod and AfterClose return: the next step at the store, or  *)
(* the document.                                                           *)
LEMMA AfterCloseLemma ==
    ASSUME NEW q \in Request
    PROVE  \/ "newSession" \in q.handler.out /\ Moved(AfterClose(q), q, "create", q.heads)
           \/ "newSession" \notin q.handler.out /\ AfterClose(q) = Write(q)
<1>1. Moved(Goto(q, "create"), q, "create", q.heads)
  BY GotoLemma DEF Labels
<1>. QED  BY <1>1 DEF AfterClose

LEMMA AfterMethodLemma ==
    ASSUME NEW q \in Request
    PROVE  \/ "closeSession" \in q.handler.out /\ Moved(AfterMethod(q), q, "close", q.heads)
           \/ "closeSession" \notin q.handler.out /\ AfterMethod(q) = AfterClose(q)
<1>1. Moved(Goto(q, "close"), q, "close", q.heads)
  BY GotoLemma DEF Labels
<1>. QED  BY <1>1 DEF AfterMethod

LEMMA MethodStep ==
    ASSUME IInv, NEW r \in Requests, Method(r)
    PROVE  IInv'
<1>1. PICK q0 \in Request : q0 = req[r]
  BY DEF IInv, TypeOK
<1>2. q0.at = "method" /\ RequestInv(q0) /\ UNCHANGED <<app, jar, tab, expired, manager>>
  BY <1>1 DEF Method, IInv
<1>3. TypeOK /\ HeadsInv(q0)
  BY <1>2 DEF IInv, RequestInv
<1>4. /\ q0.handler \in app.handlers
      /\ q0.handler.sse => q0.handler.out = {} /\ ~q0.handler.lost
      /\ q0.handler.lost => q0.handler.out = {} /\ ~q0.handler.sse
  BY <1>2, <1>3, HandlerLemma
<1>5. PICK q \in Request :
         q = OpenStream(q0) /\ Moved(q, q0, q0.at, IF q0.handler.sse THEN 1 ELSE q0.heads)
  BY OpenStreamLemma DEF Moved, Same
<1>6. Settled(q) /\ q.heads = IF q.handler.sse \/ q.handler.lost THEN 1 ELSE 0
  BY <1>2, <1>4, <1>5 DEF Settled, RequestInv, AuthInv, CookieInv, HeadsInv, Moved, Same, CheckCSRF
<1>7. CASE ~q.handler.lost /\ Becomes(r, Answer(q0))
  <2>1. PICK a \in Request : a = Answer(q0)
    BY AnswerLemma DEF Moved, Same
  <2>2. RequestInv(a)
    BY <1>2, <1>5, <1>7, <2>1, AnswerLemma
    DEF RequestInv, AuthInv, CookieInv, HeadsInv, EarlyInv, AnsweredTwice, Moved, Same
  <2>. QED  BY <1>2, <1>7, <2>1, <2>2, QuietStepLemma
<1>8. CASE Becomes(r, HttpErrIntern(q))
  <2>1. HttpErrIntern(q) \in Request /\ RequestInv(HttpErrIntern(q))
    BY <1>6, HttpErrInv
  <2>. QED  BY <1>2, <1>8, <2>1, QuietStepLemma
<1>9. CASE Becomes(r, AfterMethod(q))
  <2>1. CASE "closeSession" \in q.handler.out
    <3>1. PICK a \in Request : a = AfterMethod(q)
      BY <2>1, AfterMethodLemma DEF Moved, Same
    <3>2. RequestInv(a)
      BY <1>2, <1>4, <1>5, <2>1, <3>1, AfterMethodLemma
      DEF RequestInv, AuthInv, CookieInv, HeadsInv, EarlyInv, AnsweredTwice, Moved, Same, CheckCSRF
    <3>. QED  BY <1>2, <1>9, <3>1, <3>2, QuietStepLemma
  <2>2. CASE "closeSession" \notin q.handler.out /\ "newSession" \in q.handler.out
    <3>1. PICK a \in Request : a = AfterMethod(q) /\ Moved(a, q, "create", q.heads)
      BY <2>2, AfterMethodLemma, AfterCloseLemma DEF Moved, Same
    <3>2. RequestInv(a)
      BY <1>2, <1>4, <1>5, <2>2, <3>1
      DEF RequestInv, AuthInv, CookieInv, HeadsInv, EarlyInv, AnsweredTwice, Moved, Same, CheckCSRF
    <3>. QED  BY <1>2, <1>9, <3>1, <3>2, QuietStepLemma
  <2>3. CASE "closeSession" \notin q.handler.out /\ "newSession" \notin q.handler.out
    <3>1. AfterMethod(q) = Write(q)
      BY <2>3, AfterMethodLemma, AfterCloseLemma
    <3>2. Write(q) \in Request /\ RequestInv(Write(q))
      BY <1>6, WriteInv
    <3>. QED  BY <1>2, <1>9, <3>1, <3>2, QuietStepLemma
  <2>. QED  BY <2>1, <2>2, <2>3
<1>. QED  BY <1>1, <1>5, <1>7, <1>8, <1>9 DEF Method

LEMMA CloseSessionStep ==
    ASSUME IInv, NEW r \in Requests, CloseSession(r)
    PROVE  IInv'
<1>1. PICK q \in Request : q = req[r]
  BY DEF IInv, TypeOK
<1>2. q.at = "close" /\ RequestInv(q) /\ UNCHANGED <<app, jar, tab, expired>>
  BY <1>1 DEF CloseSession, IInv
<1>3. TypeOK /\ HeadsInv(q)
  BY <1>2 DEF IInv, RequestInv
<1>4. /\ q.handler \in app.handlers /\ q.heads = 0
      /\ ~q.handler.sse /\ ~q.handler.lost
      /\ "closeSession" \in q.handler.out
  BY <1>2, <1>3, HandlerLemma DEF HeadsInv
<1>5. Settled(q)
  BY <1>2, <1>4 DEF Settled, RequestInv
<1>6. {q.as} \ {None} \in SUBSET Tokens /\ {jar, tab}' \subseteq Tokens \cup {None}
      /\ expired' \subseteq Tokens
  BY <1>2, <1>3 DEF Request, TypeOK
<1>7. CASE Becomes(r, AfterClose(q)) /\ UNCHANGED manager
  <2>1. CASE "newSession" \in q.handler.out
    <3>1. PICK a \in Request : a = AfterClose(q) /\ Moved(a, q, "create", q.heads)
      BY <2>1, AfterCloseLemma DEF Moved, Same
    <3>2. RequestInv(a)
      BY <1>2, <1>4, <2>1, <3>1
      DEF RequestInv, AuthInv, CookieInv, HeadsInv, EarlyInv, AnsweredTwice, Moved, Same, CheckCSRF
    <3>. QED  BY <1>2, <1>7, <3>1, <3>2, QuietStepLemma
  <2>2. CASE "newSession" \notin q.handler.out
    <3>1. AfterClose(q) = Write(q) /\ Write(q) \in Request /\ RequestInv(Write(q))
      BY <1>4, <1>5, <2>2, AfterCloseLemma, WriteInv
    <3>. QED  BY <1>2, <1>7, <3>1, QuietStepLemma
  <2>. QED  BY <2>1, <2>2
<1>8. CASE Becomes(r, AfterClose(SessionChanged(q, Clear)))
           /\ M!CloseTokens({q.as} \ {None})
  <2>1. PICK c \in Request :
           /\ c = SessionChanged(q, Clear)
           /\ Same(c, q) /\ c.at = q.at /\ c.as = q.as /\ c.heads = 0
           /\ c.put = Clear /\ c.did = Clear
    BY <1>4, ChangedLemma DEF Same
  <2>2. /\ Grows /\ SessionInv'
        /\ issued' \subseteq Tokens /\ sessions' \in [Tokens -> M!Records \cup {None}]
        /\ \A t \in {q.as} \ {None} : sessions'[t] = None
    BY <1>2, <1>6, <1>8, CloseTokensLemma
  <2>3. q.cookie # None => q.cookie \in issued' /\ Over(q.cookie)'
    <3>1. ReadsSession(q.handler)
      BY <1>4 DEF ReadsSession
    <3>2. q.cookie # None => q.cookie \in issued /\ (q.as = q.cookie \/ Over(q.cookie))
      BY <1>2, <3>1 DEF RequestInv, AuthInv
    <3>. QED  BY <2>2, <3>2 DEF Grows, Over
  <2>4. PICK a \in Request :
           /\ a = AfterClose(c)
           /\ \/ "newSession" \in q.handler.out /\ Moved(a, c, "create", 0)
              \/ Moved(a, c, "written", 1)
    BY <1>4, <2>1, AfterCloseLemma, WriteLemma DEF Moved, Same
  <2>5. RequestInv(a)'
    BY <1>2, <1>4, <2>1, <2>2, <2>3, <2>4, NamesAssumption
    DEF RequestInv, AuthInv, CookieInv, HeadsInv, EarlyInv, AnsweredTwice, Moved, Same, Grows,
        CheckCSRF, Over, Request
  <2>. QED  BY <1>6, <1>8, <2>1, <2>2, <2>4, <2>5, BecomesLemma
<1>9. CASE Becomes(r, HttpErrIntern(q)) /\ UNCHANGED manager
  <2>1. HttpErrIntern(q) \in Request /\ RequestInv(HttpErrIntern(q))
    BY <1>4, <1>5, HttpErrInv
  <2>. QED  BY <1>2, <1>9, <2>1, QuietStepLemma
<1>10. CASE Becomes(r, HttpErrIntern(q)) /\ M!CloseTokens({q.as} \ {None})
  <2>1. PICK a \in Request : a = HttpErrIntern(q) /\ RequestInv(a)
    BY <1>4, <1>5, HttpErrInv
  <2>2. /\ Grows /\ SessionInv'
        /\ issued' \subseteq Tokens /\ sessions' \in [Tokens -> M!Records \cup {None}]
    BY <1>2, <1>6, <1>10, CloseTokensLemma
  <2>3. RequestInv(a)'
    BY <2>1, <2>2, OthersLemma
  <2>. QED  BY <1>6, <1>10, <2>1, <2>2, <2>3, BecomesLemma
<1>. QED  BY <1>1, <1>7, <1>8, <1>9, <1>10 DEF CloseSession

LEMMA CreateFailsInv ==
    ASSUME NEW q \in Request, Settled(q), q.heads = 0, "newSession" \in q.handler.out
    PROVE  CreateFails(q) \in Request /\ RequestInv(CreateFails(q))
<1>1. PICK a \in Request : a = HttpErrIntern(q) /\ RequestInv(a)
  BY HttpErrInv
<1>2. CASE q.handler.level = "app" /\ a.at = "answered"
  <2>1. Settled(a) /\ a.heads > 0 /\ AnsweredTwice(a)
    BY <1>1, <1>2, HttpErrLemma
    DEF Settled, RequestInv, Moved, Same, AnsweredTwice, HeadsInv, Request
  <2>2. CreateFails(q) = Write(a)
    BY <1>1, <1>2 DEF CreateFails
  <2>. QED  BY <2>1, <2>2, WriteInv
<1>3. CASE ~(q.handler.level = "app" /\ a.at = "answered")
  BY <1>1, <1>3 DEF CreateFails
<1>. QED  BY <1>2, <1>3

LEMMA CreateSessionStep ==
    ASSUME IInv, NEW r \in Requests, CreateSession(r)
    PROVE  IInv'
<1>1. PICK q \in Request : q = req[r]
  BY DEF IInv, TypeOK
<1>2. q.at = "create" /\ RequestInv(q) /\ UNCHANGED <<app, jar, tab, expired>>
  BY <1>1 DEF CreateSession, IInv
<1>3. TypeOK /\ HeadsInv(q)
  BY <1>2 DEF IInv, RequestInv
<1>4. /\ q.handler \in app.handlers /\ q.heads = 0
      /\ ~q.handler.sse /\ ~q.handler.lost
      /\ "newSession" \in q.handler.out
  BY <1>2, <1>3, HandlerLemma DEF HeadsInv
<1>5. Settled(q)
  BY <1>2, <1>4 DEF Settled, RequestInv
<1>6. {jar, tab}' \subseteq Tokens \cup {None} /\ expired' \subseteq Tokens
  BY <1>2, <1>3 DEF TypeOK
<1>7. PICK e \in Request : e = CreateFails(q) /\ RequestInv(e)
  BY <1>4, <1>5, CreateFailsInv
<1>8. CASE Becomes(r, Write(q)) /\ UNCHANGED manager
  <2>1. Write(q) \in Request /\ RequestInv(Write(q))
    BY <1>4, <1>5, WriteInv
  <2>. QED  BY <1>2, <1>8, <2>1, QuietStepLemma
<1>9. CASE Becomes(r, e) /\ UNCHANGED manager
  BY <1>2, <1>7, <1>9, QuietStepLemma
<1>10. ASSUME NEW t \in Tokens, NEW rec \in M!Records, M!CreateSession(t, rec),
              \/ Becomes(r, Write(SessionChanged(q, t)))
              \/ Becomes(r, e)
       PROVE  IInv'
  <2>1. /\ Grows /\ SessionInv'
        /\ issued' \subseteq Tokens /\ sessions' \in [Tokens -> M!Records \cup {None}]
        /\ t \in issued'
    BY <1>2, <1>10, CreateSessionLemma
  <2>2. CASE Becomes(r, e)
    <3>1. RequestInv(e)'
      BY <1>7, <2>1, OthersLemma
    <3>. QED  BY <1>6, <2>1, <2>2, <3>1, BecomesLemma
  <2>3. CASE Becomes(r, Write(SessionChanged(q, t)))
    <3>1. PICK c \in Request :
             /\ c = SessionChanged(q, t)
             /\ Same(c, q) /\ c.as = q.as /\ c.heads = 0
             /\ c.put = t /\ c.did = t
      BY <1>4, ChangedLemma DEF Same
    <3>2. PICK a \in Request : a = Write(c) /\ Moved(a, c, "written", 1)
      BY <1>4, <3>1, WriteLemma DEF Moved, Same
    <3>3. RequestInv(a)'
      BY <1>2, <1>4, <2>1, <3>1, <3>2, NamesAssumption
      DEF RequestInv, AuthInv, CookieInv, HeadsInv, EarlyInv, Moved, Same, Grows, Over
    <3>. QED  BY <1>6, <2>1, <2>3, <3>1, <3>2, <3>3, BecomesLemma
  <2>. QED  BY <1>10, <2>2, <2>3
<1>. QED  BY <1>1, <1>7, <1>8, <1>9, <1>10 DEF CreateSession

LEMMA SentLemma ==
    ASSUME TypeOK, NEW h \in app.handlers, NEW ds \in BOOLEAN, NEW own \in BOOLEAN
    PROVE  LET q == Sent(h, ds, own)
           IN  /\ q \in Request /\ q.at = "idle" /\ q.handler = h /\ q.cookie = jar
               /\ q.as = None /\ q.put = Keep /\ q.did = None /\ q.heads = 0
<1>1. h \in Handlers /\ jar \in Tokens \cup {None}
  BY AppsAssumption DEF TypeOK
<1>2. PICK csrf \in BOOLEAN :
         csrf = (own /\ ds /\ h.verb = "POST" /\ jar # None /\ tab = jar)
  OBVIOUS
<1>3. Sent(h, ds, own) = Fresh(h, ds, jar, csrf)
  BY <1>2 DEF Sent
<1>. QED  BY <1>1, <1>3 DEF Fresh, Request

LEMMA ArriveStep ==
    ASSUME IInv, NEW r \in Requests, Arrive(r)
    PROVE  IInv'
<1>1. PICK h \in app.handlers, ds \in BOOLEAN, own \in BOOLEAN :
         Becomes(r, Enter(Sent(h, ds, own)))
  BY DEF Arrive
<1>2. PICK q \in Request :
         /\ q = Sent(h, ds, own) /\ q.at = "idle" /\ q.handler = h /\ q.cookie = jar
         /\ q.as = None /\ q.put = Keep /\ q.did = None /\ q.heads = 0
  BY SentLemma DEF IInv
<1>3. /\ h.lost => ~h.sse /\ h.verb = "GET" /\ h.out = {}
      /\ h.sse => h.verb = "POST"
  BY AppsAssumption DEF IInv, TypeOK
<1>4. AuthInv(q) /\ CookieInv(q) /\ h \in app.handlers
  BY <1>2, NamesAssumption DEF IInv, SessionInv, AuthInv, CookieInv, Keep, Clear
<1>5. PICK a \in Request :
         /\ a = Enter(q)
         /\ \/ q.handler.sse /\ Moved(a, q, "answered", 1)
            \/ ReadsSession(h) /\ Moved(a, q, "auth", 0)
            \/ ~ReadsSession(h) /\ h.lost /\ Moved(a, q, "render404", 1)
            \/ ~ReadsSession(h) /\ ~h.lost /\ Moved(a, q, "method", 0)
  BY <1>2, AnswerLemma, GotoLemma, BeginLemma DEF Enter, Moved, Same, Labels
<1>6. RequestInv(a)
  BY <1>2, <1>3, <1>4, <1>5, NamesAssumption
  DEF RequestInv, AuthInv, CookieInv, HeadsInv, EarlyInv, AnsweredTwice, Moved, Same
<1>. QED  BY <1>1, <1>2, <1>5, <1>6, QuietStepLemma DEF Arrive

LEMMA IdleLemma == Idle \in Request /\ Idle.put = Keep /\ RequestInv(Idle)
  BY NamesAssumption
  DEF Idle, Fresh, Request, RequestInv, AuthInv, CookieInv, HeadsInv, EarlyInv, Keep, Clear

LEMMA DeliverStep ==
    ASSUME IInv, NEW r \in Requests, Deliver(r)
    PROVE  IInv'
<1>1. PICK q \in Request : q = req[r]
  BY DEF IInv, TypeOK
<1>2. RequestInv(q) /\ Becomes(r, Idle) /\ UNCHANGED <<app, expired, manager>>
  BY <1>1 DEF Deliver, IInv
<1>3. jar' = CASE q.put = Keep -> jar [] q.put = Clear -> None [] OTHER -> q.put
  BY <1>1 DEF Deliver
<1>4. q.put \in Tokens \cup {Keep, Clear} /\ q.as \in Tokens \cup {None} /\ Keep # Clear
  BY DEF Request, Keep, Clear
<1>5. jar' \in Tokens \cup {None} /\ (jar' # None => jar' \in issued)
  BY <1>2, <1>3, <1>4 DEF IInv, TypeOK, SessionInv, RequestInv, CookieInv
<1>6. tab' \in Tokens \cup {None}
  <2>1. IF q.ds THEN UNCHANGED tab
        ELSE tab' \in {None} \cup (IF q.at = "written" /\ q.handler.reads THEN {q.as} ELSE {})
    BY <1>1, Zenon DEF Deliver
  <2>2. tab \in Tokens \cup {None}
    BY DEF IInv, TypeOK
  <2>. QED  BY <1>4, <2>1, <2>2
<1>7. Grows
  BY <1>2, QuietLemma
<1>8. RequestInv(Idle)'
  BY NamesAssumption
  DEF Idle, Fresh, Request, RequestInv, AuthInv, CookieInv, HeadsInv, EarlyInv, Keep, Clear
<1>9. /\ SessionInv' /\ {jar, tab}' \subseteq Tokens \cup {None} /\ expired' \subseteq Tokens
      /\ issued' \subseteq Tokens /\ sessions' \in [Tokens -> M!Records \cup {None}]
  BY <1>2, <1>5, <1>6 DEF IInv, TypeOK, SessionInv, manager
<1>. QED  BY <1>2, <1>7, <1>8, <1>9, IdleLemma, BecomesLemma

LEMMA LoseStep ==
    ASSUME IInv, NEW r \in Requests, Lose(r)
    PROVE  IInv'
  BY IdleLemma, QuietStepLemma DEF Lose

(* A step of no request.                                                   *)
LEMMA ElsewhereLemma ==
    ASSUME IInv, UNCHANGED <<req, jar, tab>>, Grows, SessionInv',
           expired' \subseteq Tokens, issued' \subseteq Tokens,
           sessions' \in [Tokens -> M!Records \cup {None}]
    PROVE  IInv'
<1>1. TypeOK'
  BY DEF IInv, TypeOK, Grows
<1>2. ASSUME NEW r \in Requests PROVE RequestInv(req[r])'
  <2>1. PICK q \in Request : q = req[r] /\ q = req'[r]
    BY DEF IInv, TypeOK
  <2>2. RequestInv(q)'
    BY <2>1, OthersLemma DEF IInv
  <2>. QED
    BY <2>1, <2>2 DEF RequestInv, AuthInv, CookieInv, HeadsInv, EarlyInv, AnsweredTwice, Over
<1>. QED  BY <1>1, <1>2 DEF IInv

LEMMA StepIInv ==
    ASSUME IInv, [Next]_vars
    PROVE  IInv'
<1>1. ASSUME NEW r \in Requests, Arrive(r) \/ Handle(r) \/ Deliver(r) \/ Lose(r) PROVE IInv'
  BY <1>1, ArriveStep, AuthenticateStep, Render404Step, MethodStep, CloseSessionStep,
     CreateSessionStep, Page500Step, DeliverStep, LoseStep DEF Handle
<1>2. ASSUME NEW t \in Tokens, Expire(t) PROVE IInv'
  <2>1. Grows /\ SessionInv' /\ expired' \subseteq Tokens
    BY <1>2 DEF Expire, manager, Grows, Over, IInv, TypeOK, SessionInv
  <2>. QED  BY <1>2, <2>1, ElsewhereLemma DEF Expire, manager, IInv, TypeOK
<1>3. ASSUME NEW u \in Users, CloseAllUserSessions(u) PROVE IInv'
  <2>1. PICK ts \in SUBSET Tokens : M!CloseTokens(ts)
    BY <1>3 DEF CloseAllUserSessions, M!CloseAllUserSessions
  <2>2. /\ Grows /\ SessionInv'
        /\ issued' \subseteq Tokens /\ sessions' \in [Tokens -> M!Records \cup {None}]
    BY <1>3, <2>1, CloseTokensLemma DEF CloseAllUserSessions
  <2>. QED  BY <1>3, <2>2, ElsewhereLemma DEF CloseAllUserSessions, IInv, TypeOK
<1>4. CASE UNCHANGED <<app, req, jar, tab, expired, manager>>
  <2>1. Grows /\ SessionInv'
    BY <1>4, QuietLemma DEF IInv, SessionInv, manager
  <2>. QED  BY <1>4, <2>1, ElsewhereLemma DEF IInv, TypeOK, manager
<1>. QED  BY <1>1, <1>2, <1>3, <1>4 DEF Next, Life, vars

LEMMA InitIInv == ASSUME Init PROVE IInv
<1>1. TypeOK /\ SessionInv
  BY IdleLemma DEF Init, M!Init, TypeOK, SessionInv
<1>2. ASSUME NEW r \in Requests PROVE RequestInv(req[r])
  BY IdleLemma DEF Init
<1>. QED  BY <1>1, <1>2 DEF IInv

------------------------------------------------------------------------------
(* Every step keeps the requests, the browser's cookie and tab and the     *)
(* manager's sessions in their types.                                      *)
THEOREM TypeCorrect == Spec => []TypeOK
<1>1. Init => IInv
  BY InitIInv
<1>2. IInv /\ [Next]_vars => IInv'
  BY StepIInv
<1>3. IInv => TypeOK
  BY DEF IInv
<1>. QED  BY <1>1, <1>2, <1>3, PTL DEF Spec

(* Whatever the handlers of an application take and return, however many   *)
(* requests interleave and whenever the store fails: the cookie an answer  *)
(* sets agrees with what the store was told.                               *)
THEOREM CookieFollowsStoreHolds == Spec => []CookieFollowsStore
<1>1. Init => IInv
  BY InitIInv
<1>2. IInv /\ [Next]_vars => IInv'
  BY StepIInv
<1>3. IInv => CookieFollowsStore
  BY NamesAssumption DEF IInv, RequestInv, CookieInv, CookieFollowsStore, Over, TypeOK
<1>. QED  BY <1>1, <1>2, <1>3, PTL DEF Spec

(* Of every application, a request is answered once, the listed cases      *)
(* excepted.                                                               *)
THEOREM AnsweredOnceHolds == Spec => []AnsweredOnce
<1>1. Init => IInv
  BY InitIInv
<1>2. IInv /\ [Next]_vars => IInv'
  BY StepIInv
<1>3. IInv => AnsweredOnce
  BY DEF IInv, RequestInv, HeadsInv, AnsweredOnce
<1>. QED  BY <1>1, <1>2, <1>3, PTL DEF Spec

(* No action runs for a session that is live unless its request carried    *)
(* that session's CSRF token, for any handlers, tabs and interleavings.    *)
THEOREM NoForgedActionHolds == Spec => NoForgedAction
<1>. DEFINE A == \A r \in Requests :
                    LET q == req[r]
                    IN  q.at = "method" /\ req'[r].at # "method" /\ q.handler.verb = "POST" =>
                           \/ q.cookie = None
                           \/ sessions[q.cookie] = None \/ q.cookie \in expired
                           \/ q.csrf
<1>1. Init => IInv
  BY InitIInv
<1>2. IInv /\ [Next]_vars => IInv'
  BY StepIInv
<1>3. IInv => A
  BY DEF IInv, RequestInv, AuthInv, ReadsSession, CheckCSRF, Over
<1>. HIDE DEF A
<1>4. Spec => [][A]_vars
  BY <1>1, <1>2, <1>3, PTL DEF Spec
<1>. QED  BY <1>4 DEF NoForgedAction, A

------------------------------------------------------------------------------
(* A step of the server is one of the core's, or leaves the core alone.    *)
LEMMA CoreStep ==
    ASSUME [Next]_vars
    PROVE  [CP!Next]_(CP!vars)
<1>1. ASSUME NEW r \in Requests, Arrive(r) PROVE CP!Next
  BY <1>1 DEF Arrive, C!RequestBegins, CP!Next, CP!RequestBegins, C!Http, CP!Http
<1>2. ASSUME NEW r \in Requests, Deliver(r) \/ Lose(r) PROVE CP!Next
  BY <1>2 DEF Deliver, Lose, C!RequestEnds, CP!Next, CP!RequestEnds
<1>3. ASSUME NEW r \in Requests, Handle(r) PROVE UNCHANGED CP!vars
  BY <1>3 DEF Handle, Authenticate, Render404, Method, CloseSession, CreateSession, Page500,
              core, CP!vars
<1>4. ASSUME NEW t \in Tokens, Expire(t) PROVE UNCHANGED CP!vars
  BY <1>4 DEF Expire, core, CP!vars
<1>5. ASSUME NEW u \in Users, CloseAllUserSessions(u) PROVE UNCHANGED CP!vars
  BY <1>5 DEF CloseAllUserSessions, core, CP!vars
<1>6. CASE Life
  BY <1>6
  DEF Life, ComesUp, C!Life, C!Goroutines, C!ShutdownSteps, C!MakeRunContext, C!StartGroup,
      C!Listen, C!ParentEnds, C!ServerFails, C!ServerCloses, C!CoordinatorReturns,
      C!ListenAndServeReturns, C!ShutdownCalled, C!ShutdownOnce, C!CloseShutdownCh,
      C!ShutMetrics, C!ShutHttp, C!Drained, C!GivesUp, C!DownGoto, C!CancelRead, C!Servers,
      C!Group, C!Shutdowns, C!Http, C!Metrics, C!Coordinator, C!Free, C!Done,
      CP!Next, CP!Life, CP!Goroutines, CP!ShutdownSteps, CP!MakeRunContext, CP!StartGroup,
      CP!Listen, CP!ParentEnds, CP!ServerFails, CP!ServerCloses, CP!CoordinatorReturns,
      CP!ListenAndServeReturns, CP!ShutdownCalled, CP!ShutdownOnce, CP!CloseShutdownCh,
      CP!ShutMetrics, CP!ShutHttp, CP!Drained, CP!GivesUp, CP!DownGoto, CP!CancelRead, CP!Servers,
      CP!Group, CP!Shutdowns, CP!Http, CP!Metrics, CP!Coordinator, CP!Free, CP!Done
<1>7. CASE UNCHANGED vars
  BY <1>7 DEF vars, core, CP!vars
<1>. QED  BY <1>1, <1>2, <1>3, <1>4, <1>5, <1>6, <1>7 DEF Next

(* Whatever application it serves and whoever calls Shutdown, the server   *)
(* that has stopped is down as a whole.                                    *)
THEOREM ServerStopsWhole == Spec => []StopsWhole
<1>1. CP!CallersApart
  BY CallersAssumption
  DEF C!CallersApart, CP!CallersApart, C!Coordinator, CP!Coordinator, C!Free, CP!Free,
      C!Done, CP!Done
<1>2. Init => CP!IInv
  <2>1. Init => CP!Init
    BY DEF Init, C!Init, C!Group, C!Servers, C!Shutdowns, C!Http, C!Metrics, C!Coordinator,
           C!Free, CP!Init, CP!Group, CP!Servers, CP!Shutdowns, CP!Http, CP!Metrics,
           CP!Coordinator, CP!Free
  <2>. QED  BY <1>1, <2>1, CP!InitIInv
<1>3. CP!IInv /\ [Next]_vars => CP!IInv'
  BY <1>1, CoreStep, CP!StepIInv
<1>4. CP!IInv => StopsWhole
  <2>1. CP!IInv => CP!StopsWhole
    BY <1>1, CP!IInvStopsWhole
  <2>. QED
    BY <2>1 DEF StopsWhole, C!StopsWhole, CP!StopsWhole, C!Servers, CP!Servers, C!Http, CP!Http,
                C!Metrics, CP!Metrics, C!Coordinator, CP!Coordinator
<1>. QED  BY <1>2, <1>3, <1>4, PTL DEF Spec

=============================================================================
