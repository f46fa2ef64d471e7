-------------------------- MODULE MCInmemSessions --------------------------
(* Small instances of InmemSessions.                                       *)
EXTENDS InmemSessions

=============================================================================
