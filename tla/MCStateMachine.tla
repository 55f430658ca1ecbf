--------------------------- MODULE MCStateMachine ---------------------------
(***************************************************************************)
(* A small instance of StateMachine: one transaction, two gateways, two    *)
(* overlapping callers that pass the kinds of metadata the code passes.    *)
(***************************************************************************)
EXTENDS StateMachine

CONSTANTS k1, g1, g2, c1, c2

MCMetas ==
  {[gateway |-> g1,   gatewayTxnId |-> Null,      incrementAttempt |-> TRUE],
   [gateway |-> g2,   gatewayTxnId |-> <<k1, g2>>, incrementAttempt |-> FALSE],
   [gateway |-> Null, gatewayTxnId |-> Null,      incrementAttempt |-> FALSE]}

=============================================================================
