---------------------------- MODULE MCWebhookPath ----------------------------
(***************************************************************************)
(* A small instance of WebhookPath: two payments on any of the four        *)
(* gateways; for the first, two webhooks with every field their gateway    *)
(* sends, one with a wrong signature, one without any id and one with      *)
(* nothing but the id the adapter stored and the idempotency key; for the  *)
(* second, one.                                                            *)
(***************************************************************************)
EXTENDS WebhookPath

CONSTANTS t1, t2

AllSet == [s \in Settings |-> "real"]

(* Stripe without its webhook secret, PayU, and UPI configured for the     *)
(* engine but not for its adapter.                                         *)
Partial ==
  [s \in Settings |->
     CASE s \in {"STRIPE_SECRET_KEY", "PAYU_MERCHANT_KEY", "UPI_VPA"} -> "real"
       [] s \in {"PAYU_SALT", "UPI_MERCHANT_ID"} -> "absent"
       [] s = "RAZORPAY_KEY_ID" -> "mock"
       [] OTHER -> "placeholder"]

MCEnvironments == {AllSet, Partial}

Sent ==
  [STRIPE   |-> {"id", "data.object.id"},
   RAZORPAY |-> {"event_id", "payment.entity.id", "payment.entity.order_id"},
   PAYU     |-> {"mihpayid", "txnid"},
   UPI      |-> {"id", "upi_txn_id"}]

Stored ==
  [STRIPE |-> {"data.object.id"}, RAZORPAY |-> {"payment.entity.order_id"},
   PAYU |-> {"txnid"}, UPI |-> {"upi_txn_id", "idempotencyKey"}]

Make(g, t, n, fields, signed) ==
  [gateway |-> g, txn |-> t, n |-> n, fields |-> fields, signed |-> signed]

MCWebhooks ==
  UNION {{Make(g, t1, 1, Sent[g], TRUE), Make(g, t1, 2, Sent[g], TRUE),
          Make(g, t1, 3, Sent[g], FALSE), Make(g, t1, 4, {}, TRUE),
          Make(g, t1, 5, Stored[g], TRUE), Make(g, t2, 1, Sent[g], TRUE)} :
         g \in GatewayProvider}
=============================================================================
