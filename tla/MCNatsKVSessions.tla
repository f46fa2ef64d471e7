-------------------------- MODULE MCNatsKVSessions --------------------------
(* Two sessions of one user.                                               *)
EXTENDS NatsKVSessions

MCOwner == [k \in Keys |-> CHOOSE u \in Users : TRUE]
=============================================================================
