------------------------------ MODULE MCServer ------------------------------
(* Small instances of Server, which TLC checks in one run.                 *)
EXTENDS Server

H(verb, level, reads, sse, out, lost) ==
    [verb |-> verb, level |-> level, reads |-> reads, sse |-> sse, out |-> out, lost |-> lost]

Home    == H("GET", "page", TRUE, FALSE, {"newSession"}, FALSE)
About   == H("GET", "page", FALSE, FALSE, {}, FALSE)
Lost    == H("GET", "page", TRUE, FALSE, {}, TRUE)
Nowhere == H("GET", "page", FALSE, FALSE, {}, TRUE)
Order   == H("POST", "page", FALSE, FALSE, {}, FALSE)
Live    == H("POST", "page", TRUE, TRUE, {}, FALSE)
Switch  == H("POST", "page", TRUE, FALSE, Outputs, FALSE)
SignIn  == H("POST", "app", FALSE, FALSE, {"newSession"}, FALSE)

(* Two requests at a time meet on a page that signs in and an action that  *)
(* takes nothing, and on one that signs out and in; one at a time may be   *)
(* of any kind, with both ways of reporting an error; and a server that is *)
(* told to stop serves a page and an event stream.                         *)
App(handlers, page500, recover, stops, atATime) ==
    [handlers |-> handlers, page500 |-> page500, recover |-> recover,
     stops |-> stops, atATime |-> atATime]

MCApps ==
    {App({Home, Order}, FALSE, TRUE, FALSE, 2),
     App({Switch}, FALSE, TRUE, FALSE, 2),
     App({Home, About, Lost, Nowhere, Order, Live, Switch, SignIn}, TRUE, FALSE, FALSE, 1),
     App({About, Live}, FALSE, FALSE, TRUE, 2)}
=============================================================================
