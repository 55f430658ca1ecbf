-------------------------- MODULE MCRoutingEngine --------------------------
(***************************************************************************)
(* Small instances of RoutingEngine: two payments that overlap on one      *)
(* gateway, or one payment over two.                                       *)
(***************************************************************************)
EXTENDS RoutingEngine

CONSTANTS g1, g2, p1, p2
=============================================================================
