-------------------------- MODULE MCGatewayRanking --------------------------
(***************************************************************************)
(* A small instance of GatewayRanking: the cheapest gateway of the         *)
(* migration, and its dearest with a fee that was raised from 290 to above *)
(* the 300 bps that the score takes for the maximum; latencies at the      *)
(* boundaries of the score (none, below 50 ms, the timeout).               *)
(***************************************************************************)
EXTENDS GatewayRanking

MCGateways == {"STRIPE", "UPI"}
MCCostBps == [STRIPE |-> 320, UPI |-> 50]
=============================================================================
