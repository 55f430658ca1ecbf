---------------------------- MODULE PaymentDefs ----------------------------
(***************************************************************************)
(* The enumerations every component of the payment orchestrator shares:    *)
(* the transaction lifecycle and its allow-list of transitions, and the    *)
(* states of a gateway's circuit breaker.                                  *)
(***************************************************************************)
EXTENDS Naturals, Sequences

TransactionState ==
  {"INITIATED", "ROUTED", "PROCESSING", "RETRY_PENDING",
   "SUCCESS", "FAILED", "RECONCILED"}

(* The allow-list StateMachineService consults before every write.         *)
VALID_TRANSITIONS ==
  [s \in TransactionState |->
     CASE s = "INITIATED"     -> {"ROUTED"}
       [] s = "ROUTED"        -> {"PROCESSING"}
       [] s = "PROCESSING"    -> {"SUCCESS", "FAILED", "RETRY_PENDING"}
       [] s = "RETRY_PENDING" -> {"ROUTED", "FAILED"}
       [] s = "SUCCESS"       -> {"RECONCILED"}
       [] s = "FAILED"        -> {}
       [] s = "RECONCILED"    -> {}]

(* States with no way out, as the lifecycle comment declares them.         *)
Terminal == {"FAILED", "RECONCILED"}

(* States in which the payment has an outcome.                             *)
Settled == {"SUCCESS", "FAILED", "RECONCILED"}

CircuitState == {"CLOSED", "OPEN", "HALF_OPEN"}
=============================================================================
