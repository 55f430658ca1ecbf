-------------------------- MODULE MCPaymentSystem --------------------------
(***************************************************************************)
(* Small instances of PaymentSystem, with one idempotency key, so that     *)
(* every request is a duplicate of the others.                             *)
(***************************************************************************)
EXTENDS PaymentSystem, TLC

CONSTANTS k1, g1, g2, r1, r2

(* A webhook as real gateways send it, and one that carries the key.       *)
Event(k, g, type) ==
  [charge |-> <<k, g>>, eventType |-> type,
   gatewayTxnId |-> <<k, g>>, idempotencyKey |-> Null]
KeyedEvent(k, g, type) == [Event(k, g, type) EXCEPT !.idempotencyKey = k]

OneEvent == {Event(k1, g1, "succeeded")}
OneKeyedEvent == {KeyedEvent(k1, g1, "succeeded")}
KeyedEvents == {KeyedEvent(k1, g1, "succeeded"), Event(k1, g2, "succeeded")}
FailureEvent == {Event(k1, g1, "failed")}

Symmetry == Permutations(Requests)
=============================================================================
