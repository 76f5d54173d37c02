-------------------------- MODULE MCSessionManager --------------------------
(* Instances of SessionManager for TLC. *)
EXTENDS SessionManager, TLC

CONSTANTS c1, c2, btc, eth, xyz, none

MCRows == (btc :> 1)
MCRowsTwo == (btc :> 2)

MCRowsBoth == (btc :> 1) @@ (eth :> 2)

MCSubscribe == {[type |-> "Subscribe", symbol |-> btc]}
MCRequests ==
  MCSubscribe \cup
  {[type |-> "Subscribe", symbol |-> xyz],
   [type |-> "Unsubscribe", symbol |-> none],
   [type |-> "Heartbeat", symbol |-> none],
   [type |-> "BadMagic", symbol |-> none]}
MCRequestsBoth == MCRequests \cup {[type |-> "Subscribe", symbol |-> eth]}

ConnSymmetry == Permutations(Conns)
=============================================================================
