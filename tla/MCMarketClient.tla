--------------------------- MODULE MCMarketClient ---------------------------
(* Instances of MarketClient for TLC. *)
EXTENDS MarketClient, MCWire

MCPayloadTwo == [type \in Types |-> 2 * MCPayload[type]]
=============================================================================
