---------------------------- MODULE MCNatsBroker ----------------------------
(* Small instances of NatsBroker.                                          *)
EXTENDS NatsBroker

CONSTANTS m1, m2
MCMsgs == {m1, m2}
MCSubjectOf == [m \in MCMsgs |-> IF m = m1 THEN <<"a", "x">> ELSE <<"b">>]

(* A page with a private event of one user and a public one.              *)
MCTopicSets == { {<<"a", "*">>, <<"b">>} }
=============================================================================
