--------------------------- MODULE GatewayNetwork ---------------------------
(***************************************************************************)
(* The payment gateways, outside the program (EXTERNAL).  Modelled from    *)
(* what the adapters and the webhook endpoints see of them: a charge is    *)
(* requested over HTTP, decided by the gateway at any later time, and may  *)
(* fail after it was accepted (the Razorpay, PayU and UPI adapters report  *)
(* success once an order, a page or a payment link exists); afterwards the *)
(* gateway may send webhooks about it, in any order and repeatedly.        *)
(***************************************************************************)
EXTENDS TransactionLedger

CONSTANT Events   \* the webhooks gateways may send

(* A webhook, by what the code reads of it: the charge it reports on, its  *)
(* type, the id extractGatewayTxnId finds and payload.idempotencyKey.      *)
WebhookEvent ==
  [charge         : GatewayTxnIds,
   eventType      : {"succeeded", "failed"},
   gatewayTxnId   : GatewayTxnIds \cup {Null},
   idempotencyKey : Keys \cup {Null}]

(* A gateway puts into a webhook the id it gave to the charge or none, and *)
(* the idempotency key of the payment or none; it names no other charge.   *)
(* What create() sends to the adapter is `${key}_${gateway}`, so a gateway *)
(* that echoes it carries no key the worker would find: the key here is    *)
(* what processEvent() is prepared for, and allows more than that.         *)
ASSUME EventsAssumption ==
  /\ Events \subseteq WebhookEvent
  /\ Null \notin Events
  /\ \A e \in Events : /\ e.gatewayTxnId \in {e.charge, Null}
                       /\ e.idempotencyKey \in {e.charge[1], Null}

VARIABLES
  charges,  \* what the gateway knows of each charge
  calls     \* how many times charge() was called for it

gatewayVars == <<charges, calls>>

ChargeStatus == {"none", "pending", "accepted", "declined", "reversed"}

GatewayInit ==
  /\ charges = [c \in GatewayTxnIds |-> "none"]
  /\ calls = [c \in GatewayTxnIds |-> 0]

(* The HTTP request of adapter.charge() reaches the gateway.               *)
Charge(c) ==
  /\ charges' = [charges EXCEPT ![c] = "pending"]
  /\ calls' = [calls EXCEPT ![c] = @ + 1]

(* The gateway decides a charge.                                           *)
Decide(c) ==
  /\ charges[c] = "pending"
  /\ \E s \in {"accepted", "declined"} : charges' = [charges EXCEPT ![c] = s]
  /\ UNCHANGED calls

(* An accepted charge fails after all: the customer never pays the order.  *)
Reverse(c) ==
  /\ charges[c] = "accepted"
  /\ charges' = [charges EXCEPT ![c] = "reversed"]
  /\ UNCHANGED calls

GatewayStep == \E c \in GatewayTxnIds : Decide(c) \/ Reverse(c)

WasAccepted(c) == charges[c] \in {"accepted", "reversed"}

(* The gateway has reason to send event e.                                 *)
MaySend(e) ==
  IF e.eventType = "succeeded"
  THEN WasAccepted(e.charge)
  ELSE charges[e.charge] \in {"declined", "reversed"}

GatewayTypeOK ==
  /\ charges \in [GatewayTxnIds -> ChargeStatus]
  /\ calls \in [GatewayTxnIds -> Nat]
=============================================================================
