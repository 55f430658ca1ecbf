------------------------- MODULE IdempotentPayments -------------------------
(***************************************************************************)
(* What the orchestrator promises a merchant, without locks, caches,       *)
(* queues or processes: a payment is created once per idempotency key, a   *)
(* gateway is asked at most once to charge for it, it is settled once, and *)
(* what a client is told of it is true, if perhaps out of date.            *)
(*                                                                         *)
(* PaymentSystem implements this specification under every fault it        *)
(* models.  A charge may still be started after the payment was settled:   *)
(* the request that committed PROCESSING does not look at the row again,   *)
(* and a webhook may have settled the payment meanwhile.                   *)
(***************************************************************************)
EXTENDS Naturals

CONSTANTS Keys, Gateways

VARIABLES
  outcome,  \* of the payment with each key, "none" before it is created
  charged,  \* how often a gateway was asked to charge for a key
  told      \* the outcomes clients were given for a key

vars == <<outcome, charged, told>>

Outcomes == {"none", "pending", "success", "failed", "reconciled"}

(* The outcomes a payment has had when it has outcome o.                   *)
UpTo(o) ==
  CASE o = "none"       -> {}
    [] o = "pending"    -> {"pending"}
    [] o = "success"    -> {"pending", "success"}
    [] o = "failed"     -> {"pending", "failed"}
    [] o = "reconciled" -> {"pending", "success", "reconciled"}

Init ==
  /\ outcome = [k \in Keys |-> "none"]
  /\ charged = [c \in Keys \X Gateways |-> 0]
  /\ told = [k \in Keys |-> {}]

Create(k) ==
  /\ outcome[k] = "none"
  /\ outcome' = [outcome EXCEPT ![k] = "pending"]
  /\ UNCHANGED <<charged, told>>

Charge(k, g) ==
  /\ outcome[k] # "none"
  /\ charged[<<k, g>>] = 0
  /\ charged' = [charged EXCEPT ![<<k, g>>] = 1]
  /\ UNCHANGED <<outcome, told>>

(* A payment fails or succeeds only after some gateway was asked.          *)
Settle(k, o) ==
  /\ outcome[k] = "pending"
  /\ \E g \in Gateways : charged[<<k, g>>] > 0
  /\ outcome' = [outcome EXCEPT ![k] = o]
  /\ UNCHANGED <<charged, told>>

Reconcile(k) ==
  /\ outcome[k] = "success"
  /\ outcome' = [outcome EXCEPT ![k] = "reconciled"]
  /\ UNCHANGED <<charged, told>>

Tell(k, o) ==
  /\ o \in UpTo(outcome[k])
  /\ told' = [told EXCEPT ![k] = @ \cup {o}]
  /\ UNCHANGED <<outcome, charged>>

Next ==
  \E k \in Keys :
    \/ Create(k)
    \/ \E g \in Gateways : Charge(k, g)
    \/ \E o \in {"success", "failed"} : Settle(k, o)
    \/ Reconcile(k)
    \/ \E o \in Outcomes : Tell(k, o)

Spec == Init /\ [][Next]_vars
=============================================================================
