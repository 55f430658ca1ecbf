---------------------------- MODULE WebhookPath ----------------------------
(***************************************************************************)
(* From a gateway's webhook to the transaction it reconciles: the four     *)
(* endpoints of WebhooksController, ingest() with its unique index, the    *)
(* queue behind the shared Redis connection, and the worker's              *)
(* extractGatewayTxnId and lookup, against the ids the adapters stored.    *)
(*                                                                         *)
(* How requests, ingestion and worker interleave inside create(), ingest() *)
(* and processEvent() is the subject of PaymentSystem; here each of them   *)
(* is one step, a payment is tried on one gateway, and what counts is      *)
(* which payload fields meet which stored id.                              *)
(***************************************************************************)
EXTENDS GatewayAdapters, RedisConnection

CONSTANTS
  Txns,           \* payments, named by idempotency key
  Environments,   \* configurations the process may be started with
  Webhooks,       \* webhooks the gateways may send
  MaxDeliveries   \* bound on the deliveries in one behaviour

(* The payload fields the code reads.                                      *)
Fields ==
  {"id", "event_id", "data.object.id", "payment.entity.id",
   "payment.entity.order_id", "mihpayid", "txnid", "upi_txn_id",
   "idempotencyKey"}

(* A webhook: the charge it is about, its number among the webhooks on     *)
(* that charge, the fields it has, and whether its signature is right.     *)
Webhook ==
  [gateway : GatewayProvider, txn : Txns, n : Nat, fields : SUBSET Fields,
   signed : BOOLEAN]

ASSUME WebhookAssumption ==
  /\ Environments \subseteq [Settings -> SettingValue]
  /\ \A w \in Webhooks : w \in Webhook
  /\ \A v, w \in Webhooks :
       v.gateway = w.gateway /\ v.txn = w.txn /\ v.n = w.n => v = w
  /\ MaxDeliveries \in Nat

VARIABLES
  env,         \* the configuration, fixed at start
  rows,        \* transactions
  accepted,    \* charges that really exist at a gateway
  stored,      \* webhook_events
  processed,   \* those of them with processed = true
  replies,     \* what gateways were answered: pairs of webhook and answer
  deliveries,  \* deliveries so far
  worker       \* "idle", "waiting" for BRPOP, or "working" on an event

pathVars ==
  <<env, rows, accepted, stored, processed, replies, deliveries, worker>>
vars == <<pathVars, connVars>>

Row ==
  [gateway      : GatewayProvider,
   gatewayTxnId : ({"charge", "order", "txnid", "link", "mock"} \X Txns)
                    \cup {Null},
   currentState : {"SUCCESS", "FAILED", "RECONCILED"}]

Worker(at, w) == [at |-> at, event |-> w]

Init ==
  /\ env \in Environments
  /\ rows = [t \in Txns |-> Null]
  /\ accepted = {}
  /\ stored = {}
  /\ processed = {}
  /\ replies = {}
  /\ deliveries = 0
  /\ worker = Worker("idle", Null)
  /\ ConnInit

-----------------------------------------------------------------------------
(* A payment on a gateway the routing engine takes for configured.  A      *)
(* gateway whose reply was lost may have accepted the charge.              *)
Pay(t, g) ==
  \E amount \in Endings, reply \in Reply :
    LET adapter == GetAdapter(env, g)
        id == ChargeResult(adapter, amount, t, reply)
    IN
    /\ rows[t] = Null
    /\ IsGatewayConfigured(env, g)
    /\ rows' = [rows EXCEPT ![t] =
         [gateway |-> g, gatewayTxnId |-> id,
          currentState |-> IF id = Null THEN "FAILED" ELSE "SUCCESS"]]
    /\ \/ /\ reply \in {"accepted", "unreachable"}
          /\ ~IsSimulated(adapter, amount)
          /\ accepted' = accepted \cup {<<t, g>>}
       \/ /\ reply # "accepted" \/ IsSimulated(adapter, amount)
          /\ UNCHANGED accepted
    /\ UNCHANGED <<env, stored, processed, replies, deliveries, worker, connVars>>

-----------------------------------------------------------------------------
(* What the gateways put into the fields.                                  *)
FieldValue(w, f) ==
  CASE f \in {"id", "event_id"}        -> <<"event", w.txn, w.n>>
    [] f = "data.object.id"          -> <<"charge", w.txn>>
    [] f = "payment.entity.id"       -> <<"payment", w.txn>>
    [] f = "payment.entity.order_id" -> <<"order", w.txn>>
    [] f = "upi_txn_id"              -> <<"upi_txn", w.txn>>
    [] OTHER                         -> <<f, w.txn>>

Unknown == <<"unknown">>

ASSUME NullAssumption ==
  /\ Null \notin Row /\ Null \notin Webhooks
  /\ \A w \in Webhooks, f \in Fields : FieldValue(w, f) # Null

(* The first of some fields that the payload has: `a ?? b`, `a || b`.      *)
First(w, fields, otherwise) ==
  LET present == {i \in DOMAIN fields : fields[i] \in w.fields}
      first == CHOOSE i \in present : \A j \in present : i <= j
  IN IF present = {} THEN otherwise ELSE FieldValue(w, fields[first])

(* Mutant: the event is identified by the object it is about.              *)
EventIdOfObject(w) ==
  First(w, CASE w.gateway = "STRIPE"   -> <<"data.object.id">>
             [] w.gateway = "RAZORPAY" -> <<"payment.entity.id">>
             [] w.gateway = "PAYU"     -> <<"mihpayid", "txnid">>
             [] w.gateway = "UPI"      -> <<"upi_txn_id">>, Unknown)

(* The eventId each endpoint passes to ingest().                           *)
EventId(w) ==
  First(w, CASE w.gateway = "STRIPE" -> <<"id">>
             [] w.gateway = "PAYU"   -> <<"mihpayid", "txnid">>
             [] OTHER                -> <<"id", "event_id">>, Unknown)

(* A secret that is missing or a placeholder switches verification off.    *)
IsPlaceholder(g) ==
  LET secret == CASE g = "STRIPE" -> "STRIPE_WEBHOOK_SECRET"
                  [] g = "PAYU"   -> "PAYU_SALT"
                  [] OTHER        -> "RAZORPAY_KEY_SECRET"
  IN env[secret] \in Blank

(* The signature matches, where it is checked at all.                      *)
Verified(w) == IsPlaceholder(w.gateway) \/ w.signed

(* The unique index on (gateway, event_id).                                *)
IsTaken(w) ==
  \E v \in stored : v.gateway = w.gateway /\ EventId(v) = EventId(w)

Reply200(w, what) == replies' = replies \cup {<<w, what>>}

(* POST /webhooks/<gateway>: refused (with status 200), a duplicate, or    *)
(* stored and on its way to the queue.                                     *)
Deliver(w) ==
  /\ <<w.txn, w.gateway>> \in accepted
  /\ deliveries < MaxDeliveries
  /\ deliveries' = deliveries + 1
  /\ \/ /\ ~Verified(w)
        /\ Reply200(w, "refused")
        /\ UNCHANGED <<stored, connVars>>
     \/ /\ Verified(w) /\ IsTaken(w)
        /\ Reply200(w, "duplicate")
        /\ UNCHANGED <<stored, connVars>>
     \/ /\ Verified(w) /\ ~IsTaken(w)
        /\ stored' = stored \cup {w}
        /\ Issue("LPUSH", w)
        /\ UNCHANGED replies
  /\ UNCHANGED <<env, rows, accepted, processed, worker>>

(* The push is answered, and with it the webhook.                          *)
Pushed(w) ==
  /\ ServeLpush(w)
  /\ Reply200(w, "received")
  /\ UNCHANGED <<env, rows, accepted, stored, processed, deliveries, worker>>

-----------------------------------------------------------------------------
PollQueue ==
  /\ worker.at = "idle"
  /\ Issue("BRPOP", Null)
  /\ worker' = Worker("waiting", Null)
  /\ UNCHANGED <<env, rows, accepted, stored, processed, replies, deliveries>>

Popped(w) ==
  /\ ServeBrpop(w)
  /\ worker' = Worker("working", w)
  /\ UNCHANGED <<env, rows, accepted, stored, processed, replies, deliveries>>

PolledNothing ==
  /\ BrpopTimesOut
  /\ worker' = Worker("idle", Null)
  /\ UNCHANGED <<env, rows, accepted, stored, processed, replies, deliveries>>

(* Mutant: the event's own id is preferred to the object's.                *)
ExtractEventId(w) ==
  First(w, CASE w.gateway = "STRIPE"   -> <<"id", "data.object.id">>
             [] w.gateway = "RAZORPAY" -> <<"id", "payment.entity.id">>
             [] w.gateway = "PAYU"     -> <<"id", "mihpayid", "txnid">>
             [] w.gateway = "UPI"      -> <<"id", "upi_txn_id">>, Null)

ExtractGatewayTxnId(w) ==
  First(w, CASE w.gateway = "STRIPE"   -> <<"data.object.id", "id">>
             [] w.gateway = "RAZORPAY" ->
                  <<"payment.entity.id", "payment.entity.order_id", "id">>
             [] w.gateway = "PAYU"     -> <<"mihpayid", "txnid", "id">>
             [] w.gateway = "UPI"      -> <<"upi_txn_id", "id">>, Null)

(* Mutant: without `|| '___none___'` TypeORM drops the undefined condition *)
(* and every row matches.                                                  *)
MatchesWithoutSentinel(w) ==
  {t \in Txns : rows[t] # Null /\
     \/ rows[t].gatewayTxnId = ExtractGatewayTxnId(w)
     \/ "idempotencyKey" \in w.fields => t = w.txn}

(* findOne() by gateway id or by the payload's idempotencyKey.             *)
Matches(w) ==
  {t \in Txns : rows[t] # Null /\
     \/ rows[t].gatewayTxnId = ExtractGatewayTxnId(w)
     \/ "idempotencyKey" \in w.fields /\ t = w.txn}

(* Mutant: an event that matches nothing is not marked.                    *)
ProcessMatchedEvent ==
  LET w == worker.event IN
  /\ worker.at = "working"
  /\ \/ /\ ExtractGatewayTxnId(w) = Null \/ Matches(w) = {}
        /\ UNCHANGED <<rows, processed>>
     \/ /\ ExtractGatewayTxnId(w) # Null
        /\ \E t \in Matches(w) :
             rows' = [rows EXCEPT ![t] =
               IF @.currentState = "SUCCESS"
               THEN [@ EXCEPT !.currentState = "RECONCILED", !.gateway = w.gateway]
               ELSE @]
        /\ processed' = processed \cup {w}
  /\ worker' = Worker("idle", Null)
  /\ UNCHANGED <<env, accepted, stored, replies, deliveries, connVars>>

(* processEvent() with driveToReconciled(): without an id or a match there *)
(* is nothing to do, and the event counts as processed all the same; a     *)
(* FAILED or RECONCILED row stays, and as payments are one step here, the  *)
(* only other state to meet is SUCCESS.                                    *)
ProcessEvent ==
  LET w == worker.event IN
  /\ worker.at = "working"
  /\ \/ /\ ExtractGatewayTxnId(w) = Null \/ Matches(w) = {}
        /\ UNCHANGED rows
     \/ /\ ExtractGatewayTxnId(w) # Null
        /\ \E t \in Matches(w) :
             rows' = [rows EXCEPT ![t] =
               IF @.currentState = "SUCCESS"
               THEN [@ EXCEPT !.currentState = "RECONCILED", !.gateway = w.gateway]
               ELSE @]
  /\ processed' = processed \cup {w}
  /\ worker' = Worker("idle", Null)
  /\ UNCHANGED <<env, accepted, stored, replies, deliveries, connVars>>

-----------------------------------------------------------------------------
(* A payment request uses the connection, one command at a time.           *)
IsWaiting == \E i \in DOMAIN wire : wire[i].op = "SET"

RequestCommand ==
  /\ ~IsWaiting
  /\ Issue("SET", Null)
  /\ UNCHANGED pathVars

CommandAnswered == ServeOther /\ UNCHANGED pathVars

RedisStep ==
  \/ \E w \in Webhooks : Pushed(w) \/ Popped(w)
  \/ PolledNothing
  \/ CommandAnswered

Next ==
  \/ \E t \in Txns, g \in GatewayProvider : Pay(t, g)
  \/ \E w \in Webhooks : Deliver(w)
  \/ PollQueue \/ ProcessEvent \/ RequestCommand
  \/ RedisStep

Spec == Init /\ [][Next]_vars

(* Redis executes what it was sent, a timeout ends, and the worker's loop  *)
(* goes on.  Nothing is assumed of clients and gateways.                   *)
Fairness == WF_vars(RedisStep) /\ WF_vars(PollQueue) /\ WF_vars(ProcessEvent)

FairSpec == Spec /\ Fairness

-----------------------------------------------------------------------------
TypeOK ==
  /\ env \in Environments
  /\ rows \in [Txns -> Row \cup {Null}]
  /\ accepted \subseteq Txns \X GatewayProvider
  /\ processed \subseteq stored /\ stored \subseteq Webhooks
  /\ replies \subseteq Webhooks \X {"refused", "duplicate", "received"}
  /\ deliveries \in 0..MaxDeliveries
  /\ worker \in [at : {"idle", "waiting", "working"}, event : Webhooks \cup {Null}]

(* OWN WEBHOOK.  A payment is reconciled only by a webhook about its own   *)
(* charge, and by one with a right signature if the secret of that gateway *)
(* is configured, whatever fields its payload has or lacks                 *)
(* (WebhooksController, processEvent).                                     *)
ReconciledByOwnWebhook ==
  \A t \in Txns :
    rows[t] # Null /\ rows[t].currentState = "RECONCILED" =>
      \E w \in Webhooks : /\ w.txn = t /\ <<w, "received">> \in replies
                          /\ w.signed \/ IsPlaceholder(w.gateway)

(* DUPLICATES ARE REPETITIONS.  A webhook that has an event id of its own  *)
(* is never thrown away as the duplicate of another one.  That leaves out  *)
(* PayU, whose endpoint takes the id of the payment for the id of the      *)
(* event, so that a second status of a payment is a duplicate of the       *)
(* first, and payloads without any id, which all become 'unknown'.         *)
DuplicateIsRetry ==
  \A w \in Webhooks :
    /\ <<w, "duplicate">> \in replies
    /\ w.gateway # "PAYU" /\ EventId(w) # Unknown
    => w \in stored

(* NO PHANTOM CHARGE.  A payment that succeeded through an adapter with    *)
(* configured keys exists at the gateway, whatever its amount.  The one    *)
(* exception is Razorpay: among its simulated amounts are those that end   *)
(* in 99 and 00, for which the simulation has no failure, so that such a   *)
(* payment is a success nobody was charged for.                            *)
LiveSuccessIsReal ==
  \A t \in Txns :
    /\ rows[t] # Null /\ rows[t].currentState # "FAILED"
    /\ ~GetAdapter(env, rows[t].gateway).isMockMode
    /\ rows[t].gateway # "RAZORPAY"
    => <<t, rows[t].gateway>> \in accepted

(* The id a transaction was stored with is in the payload.                 *)
CarriesStoredId(w) ==
  /\ rows[w.txn] # Null
  /\ \E f \in w.fields : FieldValue(w, f) = rows[w.txn].gatewayTxnId

(* THE STORED ID IS FOUND.  A webhook whose payload has the id the adapter *)
(* stored reconciles the payment, unless Razorpay's payment id or PayU's   *)
(* mihpayid is there as well, which extractGatewayTxnId prefers to it.     *)
(* UPI's adapter stores the id of a payment link, which no field carries:  *)
(* of UPI this says nothing.                                               *)
StoredIdReconciles ==
  \A w \in processed :
    /\ CarriesStoredId(w)
    /\ w.fields \cap {"payment.entity.id", "mihpayid"} = {}
    => rows[w.txn].currentState = "RECONCILED"

(* THE QUEUE MOVES.  Stored webhooks are worked off although their LPUSH   *)
(* stands behind the worker's BRPOP on the same connection.                *)
StoredIsProcessed == stored # processed ~> stored = processed

(* REQUESTS GET THROUGH.  The idempotency commands of payment requests are *)
(* answered although they share the connection with the worker's polling.  *)
RequestsGetThrough == IsWaiting ~> ~IsWaiting

-----------------------------------------------------------------------------
(* What README.md says, and the code does not do.                          *)

(* "asynchronous webhook reconciliation across Stripe, Razorpay, PayU, and *)
(* UPI" (README.md:3): a processed webhook that names the stored id of its *)
(* payment has reconciled it.                                              *)
EveryGatewayReconciles ==
  \A w \in processed :
    CarriesStoredId(w) =>
      rows[w.txn].currentState = "RECONCILED"
=============================================================================
