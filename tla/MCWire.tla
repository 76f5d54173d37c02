------------------------------- MODULE MCWire -------------------------------
(* Instances of Wire for TLC. *)
EXTENDS Wire, TLC

\* The Heartbeat of the protocol has no payload.
MCPayload == [type \in Types |-> IF type = "Heartbeat" THEN 0 ELSE 1]
=============================================================================
