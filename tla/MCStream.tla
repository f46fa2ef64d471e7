------------------------------ MODULE MCStream ------------------------------
(* Small instances of Stream.                                              *)
EXTENDS Stream

CONSTANTS mNotice1, mNotice2, mBroadcast

(* A user, and one whose ID is a wildcard, as a store filled by something  *)
(* other than the server could hold.                                       *)
MCUsers == {"u1", AnyToken}

(* Two streams that share one session and one event.                       *)
PairUsers == {"u1"}
PairMsgs == {mNotice1}

(* One stream among events for everybody, for its user and for another.    *)
DataMsgs == {mNotice1, mNotice2, mBroadcast}

MCSubjectOf ==
    [m \in DataMsgs |-> CASE m = mNotice1   -> Notice("u1")
                          [] m = mNotice2   -> Notice("u2")
                          [] m = mBroadcast -> Broadcast]
=============================================================================
