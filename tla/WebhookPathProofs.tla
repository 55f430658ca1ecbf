-------------------------- MODULE WebhookPathProofs --------------------------
(***************************************************************************)
(* From a gateway's webhook to the transaction: the ids the adapters store *)
(* and the ids the worker extracts, for any payments, webhooks and         *)
(* configurations, and with any number of commands on the connection.      *)
(***************************************************************************)
EXTENDS WebhookPath, TLAPS

-----------------------------------------------------------------------------
(* The inductive invariant, in parts.                                      *)

(* A row has the id its adapter gives, and none exactly if it failed.      *)
StoredIds ==
  \A t \in Txns : rows[t] # Null =>
    /\ rows[t].gatewayTxnId \in
         {Null, <<"mock", t>>, <<GetAdapter(env, rows[t].gateway).id, t>>}
    /\ rows[t].currentState = "FAILED" <=> rows[t].gatewayTxnId = Null

(* A gateway has charges only of payments that were tried on it.           *)
ChargesHaveRows ==
  \A t \in Txns, g \in GatewayProvider :
    <<t, g>> \in accepted => rows[t] # Null /\ rows[t].gateway = g

(* Webhooks are stored about charges only, and once verified.              *)
StoredIsVerified ==
  \A w \in stored : <<w.txn, w.gateway>> \in accepted /\ Verified(w)

(* What is on its way through the connection.                              *)
Commands == [op : {"LPUSH", "BRPOP", "SET"}, arg : Webhooks \cup {Null}]

InTransit ==
  /\ wire \in Seq(Commands)
  /\ \A i \in 1..Len(wire) : wire[i].op = "LPUSH" => wire[i].arg \in stored
  /\ list \in Seq(Webhooks)
  /\ \A i \in 1..Len(list) : <<list[i], "received">> \in replies
  /\ worker.at = "working" => <<worker.event, "received">> \in replies
  /\ \A w \in Webhooks : <<w, "received">> \in replies => w \in stored

PathInv == TypeOK /\ StoredIds /\ ChargesHaveRows /\ StoredIsVerified /\ InTransit

-----------------------------------------------------------------------------
(* What the operators compute.                                             *)

(* Of up to three fields, First takes the first that is there.             *)
LEMMA FirstIsFirst ==
  ASSUME NEW w, NEW fields \in Seq(Fields), Len(fields) \in 0..3, NEW otherwise
  PROVE  \/ /\ \A i \in 1..Len(fields) : fields[i] \notin w.fields
            /\ First(w, fields, otherwise) = otherwise
         \/ \E i \in 1..Len(fields) :
              /\ fields[i] \in w.fields
              /\ \A j \in 1..Len(fields) : j < i => fields[j] \notin w.fields
              /\ First(w, fields, otherwise) = FieldValue(w, fields[i])
<1> DEFINE present == {i \in DOMAIN fields : fields[i] \in w.fields}
           first == CHOOSE i \in present : \A j \in present : i <= j
<1>1. DOMAIN fields = 1..Len(fields) /\ present \subseteq 1..3
  OBVIOUS
<1>2. CASE present = {}
  BY <1>1, <1>2 DEF First
<1>3. CASE present # {}
  <2>1. \E i \in present : \A j \in present : i <= j
    <3>1. CASE 1 \in present
      BY <1>1, <3>1
    <3>2. CASE 1 \notin present /\ 2 \in present
      BY <1>1, <3>2
    <3>3. CASE 1 \notin present /\ 2 \notin present
      BY <1>1, <1>3, <3>3
    <3> QED
      BY <3>1, <3>2, <3>3
  <2>2. first \in present /\ \A j \in present : first <= j
    BY <2>1
  <2>3. First(w, fields, otherwise) = FieldValue(w, fields[first])
    BY <1>3 DEF First
  <2> HIDE DEF first
  <2>4. /\ first \in 1..Len(fields) /\ fields[first] \in w.fields
        /\ \A j \in 1..Len(fields) : j < first => fields[j] \notin w.fields
    BY <1>1, <2>2
  <2> QED
    BY <2>3, <2>4
<1> QED
  BY <1>2, <1>3

(* The fields and the numbers of events in webhooks.                       *)
LEMMA WebhookTyped ==
  ASSUME NEW w \in Webhooks
  PROVE  /\ w.gateway \in GatewayProvider /\ w.txn \in Txns
         /\ w.fields \subseteq Fields
BY WebhookAssumption DEF Webhook

(* An id in a payload names the payment the webhook is about; and the kind *)
(* of id says which field it was in.                                       *)
LEMMA FieldNamesItsOwner ==
  ASSUME NEW w \in Webhooks, NEW f \in Fields, NEW k, NEW t,
         FieldValue(w, f) = <<k, t>>
  PROVE  /\ w.txn = t
         /\ k = "charge" => f = "data.object.id"
         /\ k = "order" => f = "payment.entity.order_id"
         /\ k = "txnid" => f = "txnid"
         /\ k # "link" /\ k # "mock"
<1>1. CASE f \in {"id", "event_id"}
  <2>1. FieldValue(w, f) = <<"event", w.txn, w.n>>
    BY <1>1 DEF FieldValue
  <2>2. Len(<<"event", w.txn, w.n>>) = 3 /\ Len(<<k, t>>) = 2
    OBVIOUS
  <2> QED
    BY <2>1, <2>2
<1>2. CASE f = "data.object.id"
  BY <1>2 DEF FieldValue
<1>3. CASE f = "payment.entity.id"
  BY <1>3 DEF FieldValue
<1>4. CASE f = "payment.entity.order_id"
  BY <1>4 DEF FieldValue
<1>5. CASE f = "upi_txn_id"
  BY <1>5 DEF FieldValue
<1>6. CASE f \in {"mihpayid", "txnid", "idempotencyKey"}
  BY <1>6 DEF FieldValue
<1> QED
  BY <1>1, <1>2, <1>3, <1>4, <1>5, <1>6 DEF Fields

(* The fields extractGatewayTxnId and the endpoints look at, in order.     *)
IdFields(g) ==
  CASE g = "STRIPE"   -> <<"data.object.id", "id">>
    [] g = "RAZORPAY" -> <<"payment.entity.id", "payment.entity.order_id", "id">>
    [] g = "PAYU"     -> <<"mihpayid", "txnid", "id">>
    [] g = "UPI"      -> <<"upi_txn_id", "id">>

(* They are at most three fields.                                          *)
LEMMA IdFieldsTyped ==
  ASSUME NEW g \in GatewayProvider
  PROVE  IdFields(g) \in Seq(Fields) /\ Len(IdFields(g)) \in 0..3
<1>1. CASE g = "STRIPE"
  <2>1. IdFields(g) = <<"data.object.id", "id">>
    BY <1>1 DEF IdFields
  <2> QED
    BY <2>1 DEF Fields
<1>2. CASE g = "RAZORPAY"
  <2>1. IdFields(g) = <<"payment.entity.id", "payment.entity.order_id", "id">>
    BY <1>2 DEF IdFields
  <2> QED
    BY <2>1 DEF Fields
<1>3. CASE g = "PAYU"
  <2>1. IdFields(g) = <<"mihpayid", "txnid", "id">>
    BY <1>3 DEF IdFields
  <2> QED
    BY <2>1 DEF Fields
<1>4. CASE g = "UPI"
  <2>1. IdFields(g) = <<"upi_txn_id", "id">>
    BY <1>4 DEF IdFields
  <2> QED
    BY <2>1 DEF Fields
<1> QED
  BY <1>1, <1>2, <1>3, <1>4 DEF GatewayProvider

(* extractGatewayTxnId takes the first of them.                            *)
LEMMA ExtractTakesFirst ==
  ASSUME NEW w \in Webhooks
  PROVE  ExtractGatewayTxnId(w) = First(w, IdFields(w.gateway), Null)
BY WebhookTyped DEF ExtractGatewayTxnId, IdFields, GatewayProvider

(* The worker extracts an id that the payload has, or none.                *)
LEMMA ExtractedIsCarried ==
  ASSUME NEW w \in Webhooks
  PROVE  \/ ExtractGatewayTxnId(w) = Null
         \/ \E f \in Fields : ExtractGatewayTxnId(w) = FieldValue(w, f)
<1> DEFINE fs == IdFields(w.gateway)
<1>1. fs \in Seq(Fields) /\ Len(fs) \in 0..3
  BY WebhookTyped, IdFieldsTyped
<1>2. \A i \in 1..Len(fs) : fs[i] \in Fields
  BY <1>1
<1> HIDE DEF fs
<1>3. ExtractGatewayTxnId(w) = First(w, fs, Null)
  BY ExtractTakesFirst DEF fs
<1> QED
  BY <1>1, <1>2, <1>3, FirstIsFirst

(* The id that Stripe's, Razorpay's or PayU's adapter stored, if the       *)
(* payload has it and none that is preferred to it, is the one extracted.  *)
LEMMA StoredIdIsExtracted ==
  ASSUME NEW w \in Webhooks, NEW f \in w.fields,
         FieldValue(w, f) = <<GetAdapter(env, w.gateway).id, w.txn>>,
         w.fields \cap {"payment.entity.id", "mihpayid"} = {}
  PROVE  ExtractGatewayTxnId(w) = FieldValue(w, f)
<1> DEFINE k == GetAdapter(env, w.gateway).id
<1>0. f \in Fields /\ w.gateway \in GatewayProvider
  BY WebhookTyped
<1>1. /\ k = "charge" => f = "data.object.id"
      /\ k = "order" => f = "payment.entity.order_id"
      /\ k = "txnid" => f = "txnid"
      /\ k # "link"
  BY <1>0, FieldNamesItsOwner
<1>2. /\ w.gateway = "STRIPE" => k = "charge"
      /\ w.gateway = "RAZORPAY" => k = "order"
      /\ w.gateway = "PAYU" => k = "txnid"
      /\ w.gateway = "UPI" => k = "link"
  BY DEF GetAdapter, Adapter, StripeAdapter, RazorpayAdapter, PayUAdapter,
         UpiAdapter
<1> HIDE DEF k
<1> DEFINE fs == IdFields(w.gateway)
<1>3. \E i \in 1..Len(fs) : /\ fs[i] = f
                            /\ \A j \in 1..Len(fs) : j < i => fs[j] \notin w.fields
  <2>1. CASE w.gateway = "STRIPE"
    <3>1. fs = <<"data.object.id", "id">> /\ f = "data.object.id"
      BY <1>1, <1>2, <2>1 DEF IdFields
    <3> HIDE DEF fs
    <3>2. 1 \in 1..Len(fs) /\ fs[1] = f
      BY <3>1
    <3> QED
      BY <3>1, <3>2
  <2>2. CASE w.gateway = "RAZORPAY"
    <3>1. /\ fs = <<"payment.entity.id", "payment.entity.order_id", "id">>
          /\ f = "payment.entity.order_id"
      BY <1>1, <1>2, <2>2 DEF IdFields
    <3> HIDE DEF fs
    <3>2. 2 \in 1..Len(fs) /\ fs[2] = f /\ fs[1] \notin w.fields
      BY <3>1
    <3> QED
      BY <3>1, <3>2
  <2>3. CASE w.gateway = "PAYU"
    <3>1. fs = <<"mihpayid", "txnid", "id">> /\ f = "txnid"
      BY <1>1, <1>2, <2>3 DEF IdFields
    <3> HIDE DEF fs
    <3>2. 2 \in 1..Len(fs) /\ fs[2] = f /\ fs[1] \notin w.fields
      BY <3>1
    <3> QED
      BY <3>1, <3>2
  <2> QED
    BY <1>0, <1>1, <1>2, <2>1, <2>2, <2>3 DEF GatewayProvider
<1>4. fs \in Seq(Fields) /\ Len(fs) \in 0..3
  BY <1>0, IdFieldsTyped
<1>5. ExtractGatewayTxnId(w) = First(w, fs, Null)
  BY ExtractTakesFirst
<1> HIDE DEF fs
<1>6. PICK i \in 1..Len(fs) : /\ fs[i] = f
                              /\ \A j \in 1..Len(fs) : j < i => fs[j] \notin w.fields
  BY <1>3
<1>7. PICK m \in 1..Len(fs) :
        /\ fs[m] \in w.fields
        /\ \A j \in 1..Len(fs) : j < m => fs[j] \notin w.fields
        /\ First(w, fs, Null) = FieldValue(w, fs[m])
  BY <1>4, <1>6, FirstIsFirst
<1>8. m = i
  BY <1>4, <1>6, <1>7
<1> QED
  BY <1>5, <1>6, <1>7, <1>8

(* Outside PayU an endpoint's event id is the number of the event among    *)
(* those on its charge, or 'unknown'.                                      *)
LEMMA EventIdIsNumber ==
  ASSUME NEW w \in Webhooks, w.gateway # "PAYU", EventId(w) # Unknown
  PROVE  EventId(w) = <<"event", w.txn, w.n>>
<1> DEFINE fs == IF w.gateway = "STRIPE" THEN <<"id">> ELSE <<"id", "event_id">>
<1>1. fs \in Seq(Fields) /\ Len(fs) \in 0..3
  <2>1. <<"id">> \in Seq(Fields) /\ Len(<<"id">>) \in 0..3
    BY DEF Fields
  <2>2. <<"id", "event_id">> \in Seq(Fields) /\ Len(<<"id", "event_id">>) \in 0..3
    BY DEF Fields
  <2> QED
    BY <2>1, <2>2
<1>2. \A i \in 1..Len(fs) : fs[i] \in {"id", "event_id"}
  OBVIOUS
<1>3. EventId(w) = First(w, fs, Unknown)
  <2>1. CASE w.gateway = "STRIPE"
    BY <2>1 DEF EventId
  <2>2. CASE w.gateway # "STRIPE"
    BY <2>2 DEF EventId
  <2> QED
    BY <2>1, <2>2
<1> HIDE DEF fs
<1>4. PICK i \in 1..Len(fs) : EventId(w) = FieldValue(w, fs[i])
  BY <1>1, <1>3, FirstIsFirst
<1> QED
  BY <1>2, <1>4 DEF FieldValue

(* A simulated success is one of Razorpay's, outside mock mode.            *)
LEMMA SimulationFails ==
  ASSUME NEW g \in GatewayProvider, g # "RAZORPAY", NEW a, NEW t, NEW reply,
         ~GetAdapter(env, g).isMockMode, IsSimulated(GetAdapter(env, g), a)
  PROVE  ChargeResult(GetAdapter(env, g), a, t, reply) = Null
BY DEF GatewayProvider, GetAdapter, Adapter, StripeAdapter, PayUAdapter,
       UpiAdapter, IsSimulated, ChargeResult

(* The kinds of ids adapters take from gateways.                           *)
LEMMA AdapterIds ==
  ASSUME NEW g \in GatewayProvider
  PROVE  GetAdapter(env, g).id \in {"charge", "order", "txnid", "link"}
BY DEF GatewayProvider, GetAdapter, Adapter, StripeAdapter, RazorpayAdapter,
       PayUAdapter, UpiAdapter

-----------------------------------------------------------------------------
(* What the steps that touch a transaction do to it.                       *)

(* The row a payment t through gateway g may leave.                        *)
NewRow(t, g, r) ==
  /\ r.gateway = g /\ r.currentState # "RECONCILED"
  /\ r.gatewayTxnId \in {Null, <<"mock", t>>, <<GetAdapter(env, g).id, t>>}
  /\ r.currentState = "FAILED" <=> r.gatewayTxnId = Null

(* A payment: its row appears, with the id of its adapter, and a success   *)
(* that was not simulated is known to the gateway.                         *)
LEMMA PayWrites ==
  ASSUME NEW t \in Txns, NEW g \in GatewayProvider, Pay(t, g)
  PROVE  \E r \in Row :
           /\ rows[t] = Null /\ rows' = [rows EXCEPT ![t] = r]
           /\ NewRow(t, g, r)
           /\ accepted' \in {accepted, accepted \cup {<<t, g>>}}
           /\ /\ r.currentState # "FAILED" /\ g # "RAZORPAY"
              /\ ~GetAdapter(env, g).isMockMode
              => <<t, g>> \in accepted'
<1>1. PICK a \in Endings, reply \in Reply :
        LET id == ChargeResult(GetAdapter(env, g), a, t, reply) IN
        /\ rows[t] = Null
        /\ rows' = [rows EXCEPT ![t] =
             [gateway |-> g, gatewayTxnId |-> id,
              currentState |-> IF id = Null THEN "FAILED" ELSE "SUCCESS"]]
        /\ \/ /\ reply \in {"accepted", "unreachable"}
              /\ ~IsSimulated(GetAdapter(env, g), a)
              /\ accepted' = accepted \cup {<<t, g>>}
           \/ /\ reply # "accepted" \/ IsSimulated(GetAdapter(env, g), a)
              /\ UNCHANGED accepted
  BY DEF Pay
<1> DEFINE id == ChargeResult(GetAdapter(env, g), a, t, reply)
           r == [gateway |-> g, gatewayTxnId |-> id,
                 currentState |-> IF id = Null THEN "FAILED" ELSE "SUCCESS"]
<1>2. id \in {Null, <<"mock", t>>, <<GetAdapter(env, g).id, t>>}
  BY DEF ChargeResult
<1>3. r.gateway = g /\ r.gatewayTxnId = id
      /\ r.currentState = IF id = Null THEN "FAILED" ELSE "SUCCESS"
  OBVIOUS
<1>4. /\ id # Null /\ g # "RAZORPAY" /\ ~GetAdapter(env, g).isMockMode
      => ~IsSimulated(GetAdapter(env, g), a)
  BY SimulationFails
<1>5. ~IsSimulated(GetAdapter(env, g), a) /\ reply # "accepted" => id = Null
  BY DEF ChargeResult
<1> HIDE DEF id
<1>6. r \in Row
  BY <1>2, AdapterIds DEF Row
<1>7. rows[t] = Null /\ rows' = [rows EXCEPT ![t] = r]
  BY <1>1 DEF id
<1> HIDE DEF r
<1>8. accepted' \in {accepted, accepted \cup {<<t, g>>}}
  BY <1>1
<1>9. id # Null /\ g # "RAZORPAY" /\ ~GetAdapter(env, g).isMockMode
      => <<t, g>> \in accepted'
  BY <1>1, <1>4, <1>5
<1>10. NewRow(t, g, r)
  BY <1>2, <1>3 DEF NewRow
<1> QED
  BY <1>3, <1>6, <1>7, <1>8, <1>9, <1>10

(* The lookup of processEvent finds the payment the webhook is about, if   *)
(* any.                                                                    *)
LEMMA MatchIsOwn ==
  ASSUME StoredIds, NEW w \in Webhooks, ExtractGatewayTxnId(w) # Null,
         NEW t \in Matches(w)
  PROVE  t = w.txn /\ t \in Txns /\ rows[t] # Null
<1>1. t \in Txns /\ rows[t] # Null
  BY DEF Matches
<1>2. ASSUME rows[t].gatewayTxnId = ExtractGatewayTxnId(w)
      PROVE  t = w.txn
  <2>1. PICK f \in Fields : ExtractGatewayTxnId(w) = FieldValue(w, f)
    BY ExtractedIsCarried
  <2>2. \E k : FieldValue(w, f) = <<k, t>>
    BY <1>1, <1>2, <2>1 DEF StoredIds
  <2> QED
    BY <2>2, FieldNamesItsOwner
<1> QED
  BY <1>1, <1>2 DEF Matches

(* The worker: nothing, or the payment the webhook is about is reconciled. *)
LEMMA ProcessWrites ==
  ASSUME PathInv, ProcessEvent
  PROVE  \E w \in Webhooks :
           /\ w = worker.event /\ <<w, "received">> \in replies
           /\ processed' = processed \cup {w}
           /\ w.txn \in Txns /\ rows[w.txn] # Null /\ rows[w.txn].gateway = w.gateway
           /\ \/ rows' = rows
              \/ /\ rows[w.txn].currentState = "SUCCESS"
                 /\ rows' = [rows EXCEPT ![w.txn] =
                               [rows[w.txn] EXCEPT !.currentState = "RECONCILED"]]
<1> DEFINE w == worker.event
<1>1. /\ w \in Webhooks /\ <<w, "received">> \in replies
      /\ rows \in [Txns -> Row \cup {Null}]
  BY DEF PathInv, InTransit, TypeOK, ProcessEvent
<1>2. w.txn \in Txns /\ w.gateway \in GatewayProvider
  BY <1>1, WebhookTyped
<1>3. rows[w.txn] # Null /\ rows[w.txn].gateway = w.gateway
  BY <1>1, <1>2 DEF PathInv, InTransit, StoredIsVerified, ChargesHaveRows
<1>4. rows[w.txn] \in Row
  BY <1>1, <1>2, <1>3
<1>5. processed' = processed \cup {w}
  BY DEF ProcessEvent
<1>6. \/ rows' = rows
      \/ /\ rows[w.txn].currentState = "SUCCESS"
         /\ rows' = [rows EXCEPT ![w.txn] =
                       [rows[w.txn] EXCEPT !.currentState = "RECONCILED"]]
  <2>1. CASE UNCHANGED rows
    BY <2>1
  <2>2. ASSUME ExtractGatewayTxnId(w) # Null, NEW t \in Matches(w),
               rows' = [rows EXCEPT ![t] =
                 IF @.currentState = "SUCCESS"
                 THEN [@ EXCEPT !.currentState = "RECONCILED",
                                !.gateway = w.gateway]
                 ELSE @]
        PROVE  <1>6!:
    <3>1. t = w.txn
      BY <1>1, <2>2, MatchIsOwn DEF PathInv
    <3>2. [rows[t] EXCEPT !.currentState = "RECONCILED", !.gateway = w.gateway]
            = [rows[t] EXCEPT !.currentState = "RECONCILED"]
      BY <1>3, <1>4, <3>1 DEF Row
    <3> QED
      BY <1>1, <1>2, <2>2, <3>1, <3>2
  <2> QED
    BY <2>1, <2>2 DEF ProcessEvent
<1> QED
  BY <1>1, <1>2, <1>3, <1>5, <1>6

-----------------------------------------------------------------------------
(* The inductive invariant is kept.                                        *)

(* Steps of the connection and of the worker's loop, which touch no        *)
(* transaction and store nothing.                                          *)
Transport ==
  \/ \E w \in Webhooks : Pushed(w) \/ Popped(w)
  \/ PolledNothing \/ CommandAnswered \/ PollQueue \/ RequestCommand

(* Transport touches no transaction and no webhook.                        *)
LEMMA TransportLeaves ==
  ASSUME Transport
  PROVE  UNCHANGED <<env, rows, accepted, stored, processed, deliveries>>
BY DEF Transport, Pushed, Popped, PolledNothing, CommandAnswered, PollQueue,
       RequestCommand, pathVars

(* A step is a payment, a delivery, the work on an event, or transport.    *)
LEMMA NextCases ==
  ASSUME Next
  PROVE  \/ \E t \in Txns, g \in GatewayProvider : Pay(t, g)
         \/ \E w \in Webhooks : Deliver(w)
         \/ ProcessEvent
         \/ Transport
BY DEF Next, RedisStep, Transport

(* A command leaves the connection at its head, and joins it at its end.   *)
LEMMA WireMoves ==
  ASSUME wire \in Seq(Commands)
  PROVE  /\ wire # << >> => /\ Head(wire) = wire[1] /\ Head(wire) \in Commands
                            /\ Tail(wire) \in Seq(Commands)
                            /\ Len(Tail(wire)) = Len(wire) - 1
                            /\ \A i \in 1..Len(Tail(wire)) :
                                 Tail(wire)[i] = wire[i + 1]
         /\ \A c \in Commands :
              /\ Append(wire, c) \in Seq(Commands)
              /\ Len(Append(wire, c)) = Len(wire) + 1
              /\ \A i \in 1..Len(wire) : Append(wire, c)[i] = wire[i]
              /\ Append(wire, c)[Len(wire) + 1] = c
OBVIOUS

(* So with the elements of the list.                                       *)
LEMMA ListMoves ==
  ASSUME list \in Seq(Webhooks)
  PROVE  /\ list # << >> => /\ Head(list) = list[1] /\ Head(list) \in Webhooks
                            /\ 1 \in 1..Len(list)
                            /\ Tail(list) \in Seq(Webhooks)
                            /\ Len(Tail(list)) = Len(list) - 1
                            /\ \A i \in 1..Len(Tail(list)) :
                                 Tail(list)[i] = list[i + 1]
         /\ \A w \in Webhooks :
              /\ Append(list, w) \in Seq(Webhooks)
              /\ Len(Append(list, w)) = Len(list) + 1
              /\ \A i \in 1..Len(list) : Append(list, w)[i] = list[i]
              /\ Append(list, w)[Len(list) + 1] = w
OBVIOUS

(* No step breaks the types.                                               *)
LEMMA TypeStep ==
  ASSUME PathInv, Next
  PROVE  TypeOK'
<1> USE DEF PathInv
<1>1. ASSUME NEW t \in Txns, NEW g \in GatewayProvider, Pay(t, g)
      PROVE  TypeOK'
  <2>1. UNCHANGED <<env, stored, processed, replies, deliveries, worker>>
    BY <1>1 DEF Pay
  <2>2. PICK r \in Row : /\ rows' = [rows EXCEPT ![t] = r]
                         /\ accepted' \in {accepted, accepted \cup {<<t, g>>}}
    BY <1>1, PayWrites
  <2> QED
    BY <2>1, <2>2 DEF TypeOK
<1>2. ASSUME NEW w \in Webhooks, Deliver(w)
      PROVE  TypeOK'
  <2>1. UNCHANGED <<env, rows, accepted, processed, worker>>
    BY <1>2 DEF Deliver
  <2>2. /\ deliveries' \in 0..MaxDeliveries
        /\ stored \subseteq stored' /\ stored' \subseteq Webhooks
    BY <1>2, WebhookAssumption DEF Deliver, TypeOK
  <2>3. replies' \subseteq Webhooks \X {"refused", "duplicate", "received"}
    BY <1>2 DEF Deliver, TypeOK, Reply200
  <2> QED
    BY <2>1, <2>2, <2>3 DEF TypeOK
<1>3. ASSUME ProcessEvent
      PROVE  TypeOK'
  <2>1. UNCHANGED <<env, accepted, stored, replies, deliveries>>
    BY <1>3 DEF ProcessEvent
  <2>2. worker' = Worker("idle", Null)
    BY <1>3 DEF ProcessEvent
  <2>3. PICK w \in Webhooks :
           /\ <<w, "received">> \in replies /\ processed' = processed \cup {w}
           /\ w.txn \in Txns /\ rows[w.txn] # Null
           /\ \/ rows' = rows
              \/ rows' = [rows EXCEPT ![w.txn] =
                            [rows[w.txn] EXCEPT !.currentState = "RECONCILED"]]
    BY <1>3, ProcessWrites
  <2>4. [rows[w.txn] EXCEPT !.currentState = "RECONCILED"] \in Row
    <3>1. rows[w.txn] \in Row
      BY <2>3 DEF TypeOK
    <3> QED
      BY <3>1 DEF Row
  <2>5. rows' \in [Txns -> Row \cup {Null}]
    BY <2>3, <2>4 DEF TypeOK
  <2>6. processed' \subseteq stored
    BY <2>3 DEF TypeOK, InTransit
  <2> QED
    BY <2>1, <2>2, <2>5, <2>6 DEF TypeOK, Worker
<1>4. ASSUME Transport
      PROVE  TypeOK'
  <2>1. UNCHANGED <<env, rows, accepted, stored, processed, deliveries>>
    BY <1>4, TransportLeaves
  <2>2. replies' \subseteq Webhooks \X {"refused", "duplicate", "received"}
    BY <1>4 DEF TypeOK, Transport, Pushed, Reply200, Popped, PolledNothing,
                CommandAnswered, PollQueue, RequestCommand, pathVars
  <2>3. worker' \in [at : {"idle", "waiting", "working"},
                     event : Webhooks \cup {Null}]
    BY <1>4 DEF TypeOK, Transport, Pushed, Popped, PolledNothing,
                CommandAnswered, PollQueue, RequestCommand, pathVars, Worker
  <2> QED
    BY <2>1, <2>2, <2>3 DEF TypeOK
<1> QED
  BY <1>1, <1>2, <1>3, <1>4, NextCases

(* Rows keep the ids of their adapters.                                    *)
LEMMA StoredIdsStep ==
  ASSUME PathInv, Next
  PROVE  StoredIds'
<1> USE DEF PathInv
<1>0. rows \in [Txns -> Row \cup {Null}]
  BY DEF TypeOK
<1>1. ASSUME NEW t \in Txns, NEW g \in GatewayProvider, Pay(t, g)
      PROVE  StoredIds'
  <2>1. UNCHANGED env
    BY <1>1 DEF Pay
  <2>2. PICK r \in Row : rows' = [rows EXCEPT ![t] = r] /\ NewRow(t, g, r)
    BY <1>1, PayWrites
  <2>3. \A u \in Txns : rows'[u] = IF u = t THEN r ELSE rows[u]
    BY <1>0, <2>2
  <2>4. \A u \in Txns \ {t} : rows'[u] = rows[u]
    BY <2>3
  <2>5. rows'[t] = r
    BY <2>3
  <2> QED
    BY <2>1, <2>2, <2>4, <2>5 DEF StoredIds, NewRow
<1>2. ASSUME ProcessEvent
      PROVE  StoredIds'
  <2>1. UNCHANGED env
    BY <1>2 DEF ProcessEvent
  <2>2. PICK w \in Webhooks :
           /\ w.txn \in Txns /\ rows[w.txn] # Null
           /\ \/ rows' = rows
              \/ /\ rows[w.txn].currentState = "SUCCESS"
                 /\ rows' = [rows EXCEPT ![w.txn] =
                               [rows[w.txn] EXCEPT !.currentState = "RECONCILED"]]
    BY <1>2, ProcessWrites
  <2>3. rows[w.txn] \in Row
    BY <1>0, <2>2
  <2> DEFINE r == [rows[w.txn] EXCEPT !.currentState = "RECONCILED"]
  <2>4. /\ r.gateway = rows[w.txn].gateway /\ r.currentState = "RECONCILED"
        /\ r.gatewayTxnId = rows[w.txn].gatewayTxnId
    BY <2>3 DEF Row
  <2> HIDE DEF r
  <2>5. CASE rows' = rows
    BY <2>1, <2>5 DEF StoredIds
  <2>6. CASE /\ rows[w.txn].currentState = "SUCCESS"
             /\ rows' = [rows EXCEPT ![w.txn] = r]
    <3>1. \A u \in Txns : rows'[u] = IF u = w.txn THEN r ELSE rows[u]
      BY <1>0, <2>6
    <3> QED
      BY <2>1, <2>2, <2>4, <2>6, <3>1 DEF StoredIds
  <2> QED
    BY <2>2, <2>5, <2>6 DEF r
<1>3. ASSUME UNCHANGED <<env, rows>>
      PROVE  StoredIds'
  BY <1>3 DEF StoredIds
<1>4. (\E w \in Webhooks : Deliver(w)) \/ Transport => UNCHANGED <<env, rows>>
  BY TransportLeaves DEF Deliver
<1> QED
  BY <1>1, <1>2, <1>3, <1>4, NextCases

(* A charge is made with its row, and the row keeps its gateway.           *)
LEMMA ChargesHaveRowsStep ==
  ASSUME PathInv, Next
  PROVE  ChargesHaveRows'
<1> USE DEF PathInv
<1>0. rows \in [Txns -> Row \cup {Null}]
  BY DEF TypeOK
<1>1. ASSUME NEW t \in Txns, NEW g \in GatewayProvider, Pay(t, g)
      PROVE  ChargesHaveRows'
  <2>1. PICK r \in Row :
          /\ rows[t] = Null /\ rows' = [rows EXCEPT ![t] = r] /\ NewRow(t, g, r)
          /\ accepted' \in {accepted, accepted \cup {<<t, g>>}}
    BY <1>1, PayWrites
  <2>2. rows'[t] = r /\ r # Null /\ \A u \in Txns \ {t} : rows'[u] = rows[u]
    BY <1>0, <2>1, NullAssumption
  <2>3. ASSUME NEW u \in Txns, NEW h \in GatewayProvider, <<u, h>> \in accepted'
        PROVE  rows'[u] # Null /\ rows'[u].gateway = h
    <3>1. CASE <<u, h>> \in accepted
      <4>1. rows[u] # Null /\ rows[u].gateway = h /\ u # t
        BY <2>1, <3>1 DEF ChargesHaveRows
      <4> QED
        BY <2>2, <4>1
    <3>2. CASE <<u, h>> \notin accepted
      <4>1. <<u, h>> = <<t, g>>
        BY <2>1, <2>3, <3>2
      <4> QED
        BY <2>1, <2>2, <4>1 DEF NewRow
    <3> QED
      BY <3>1, <3>2
  <2> QED
    BY <2>3 DEF ChargesHaveRows
<1>2. ASSUME ProcessEvent
      PROVE  ChargesHaveRows'
  <2>1. UNCHANGED accepted
    BY <1>2 DEF ProcessEvent
  <2>2. PICK w \in Webhooks :
           /\ w.txn \in Txns /\ rows[w.txn] # Null
           /\ \/ rows' = rows
              \/ rows' = [rows EXCEPT ![w.txn] =
                            [rows[w.txn] EXCEPT !.currentState = "RECONCILED"]]
    BY <1>2, ProcessWrites
  <2>3. rows[w.txn] \in Row
    BY <1>0, <2>2
  <2> DEFINE r == [rows[w.txn] EXCEPT !.currentState = "RECONCILED"]
  <2>4. r.gateway = rows[w.txn].gateway /\ r \in Row
    BY <2>3 DEF Row
  <2> HIDE DEF r
  <2>5. \A u \in Txns : rows[u] # Null => /\ rows'[u] # Null
                                          /\ rows'[u].gateway = rows[u].gateway
    BY <1>0, <2>2, <2>4, NullAssumption DEF r
  <2> QED
    BY <2>1, <2>5 DEF ChargesHaveRows
<1>3. ASSUME UNCHANGED <<accepted, rows>>
      PROVE  ChargesHaveRows'
  BY <1>3 DEF ChargesHaveRows
<1>4. (\E w \in Webhooks : Deliver(w)) \/ Transport => UNCHANGED <<accepted, rows>>
  BY TransportLeaves DEF Deliver
<1> QED
  BY <1>1, <1>2, <1>3, <1>4, NextCases

(* Only verified webhooks about charges are added.                         *)
LEMMA StoredIsVerifiedStep ==
  ASSUME PathInv, Next
  PROVE  StoredIsVerified'
<1>1. UNCHANGED env
  BY NextCases, TransportLeaves DEF Pay, Deliver, ProcessEvent
<1>2. accepted \subseteq accepted'
  BY NextCases, TransportLeaves DEF Pay, Deliver, ProcessEvent
<1>3. \A w \in stored' \ stored : Verified(w) /\ <<w.txn, w.gateway>> \in accepted
  BY NextCases, TransportLeaves DEF Pay, Deliver, ProcessEvent
<1>4. \A w : Verified(w) => Verified(w)'
  BY <1>1 DEF Verified, IsPlaceholder
<1> QED
  BY <1>2, <1>3, <1>4 DEF PathInv, StoredIsVerified

(* A command is issued: its argument, if it is pushed, is stored.          *)
LEMMA IssueKeeps ==
  ASSUME PathInv, NEW op \in {"LPUSH", "BRPOP", "SET"},
         NEW arg \in Webhooks \cup {Null}, Issue(op, arg),
         stored \subseteq stored', op = "LPUSH" => arg \in stored'
  PROVE  /\ (wire \in Seq(Commands))'
         /\ (\A i \in 1..Len(wire) : wire[i].op = "LPUSH" => wire[i].arg \in stored)'
         /\ UNCHANGED list
<1> DEFINE c == Command(op, arg)
<1>1. c \in Commands /\ c.op = op /\ c.arg = arg
  BY DEF Command, Commands
<1> HIDE DEF c
<1>2. wire \in Seq(Commands) /\ wire' = Append(wire, c) /\ UNCHANGED list
  BY DEF PathInv, InTransit, Issue, c
<1>3. /\ Append(wire, c) \in Seq(Commands)
      /\ Len(Append(wire, c)) = Len(wire) + 1
      /\ \A i \in 1..Len(wire) : Append(wire, c)[i] = wire[i]
      /\ Append(wire, c)[Len(wire) + 1] = c
  BY <1>1, <1>2, WireMoves
<1>4. Len(wire) \in Nat
  BY <1>2
<1>5. ASSUME NEW i \in 1..Len(wire'), wire'[i].op = "LPUSH"
      PROVE  wire'[i].arg \in stored'
  <2>1. CASE i \in 1..Len(wire)
    BY <1>2, <1>3, <1>5, <2>1 DEF PathInv, InTransit
  <2>2. CASE i = Len(wire) + 1
    BY <1>1, <1>2, <1>3, <1>5, <2>2
  <2> QED
    BY <1>2, <1>3, <1>4, <2>1, <2>2
<1> QED
  BY <1>2, <1>3, <1>5

(* A command is served.                                                    *)
LEMMA ServeKeeps ==
  ASSUME PathInv, wire # << >>, wire' = Tail(wire), UNCHANGED stored
  PROVE  /\ (wire \in Seq(Commands))'
         /\ (\A i \in 1..Len(wire) : wire[i].op = "LPUSH" => wire[i].arg \in stored)'
<1>1. wire \in Seq(Commands)
  BY DEF PathInv, InTransit
<1>2. /\ Tail(wire) \in Seq(Commands) /\ Len(Tail(wire)) = Len(wire) - 1
      /\ \A i \in 1..Len(Tail(wire)) : Tail(wire)[i] = wire[i + 1]
  BY <1>1, WireMoves
<1>3. Len(wire) \in Nat
  BY <1>1
<1>4. \A i \in 1..Len(Tail(wire)) : i + 1 \in 1..Len(wire)
  BY <1>2, <1>3
<1>5. ASSUME NEW i \in 1..Len(Tail(wire)), Tail(wire)[i].op = "LPUSH"
      PROVE  Tail(wire)[i].arg \in stored
  BY <1>2, <1>4, <1>5 DEF PathInv, InTransit
<1> QED
  BY <1>2, <1>5

(* What is in the list, in the worker's hands and acknowledged, when none  *)
(* of them grows.                                                          *)
LEMMA QueueKept ==
  ASSUME PathInv, UNCHANGED list, replies \subseteq replies', stored \subseteq stored',
         \A w \in Webhooks : <<w, "received">> \in replies' => <<w, "received">> \in replies
  PROVE  /\ (list \in Seq(Webhooks))'
         /\ (\A i \in 1..Len(list) : <<list[i], "received">> \in replies)'
         /\ (\A w \in Webhooks : <<w, "received">> \in replies => w \in stored)'
BY DEF PathInv, InTransit

(* What is pushed was stored, what is popped was acknowledged.             *)
LEMMA InTransitStep ==
  ASSUME PathInv, Next
  PROVE  InTransit'
<1>0. PathInv /\ InTransit /\ TypeOK
  BY DEF PathInv
<1>1. ASSUME UNCHANGED <<stored, replies, worker, connVars>>
      PROVE  InTransit'
  BY <1>0, <1>1 DEF InTransit, connVars
<1>2. ASSUME NEW w \in Webhooks, Deliver(w)
      PROVE  InTransit'
  <2>1. UNCHANGED worker /\ stored \subseteq stored' /\ replies \subseteq replies'
    BY <1>2 DEF Deliver, Reply200
  <2>2. \A v \in Webhooks : <<v, "received">> \in replies'
                            => <<v, "received">> \in replies
    BY <1>2 DEF Deliver, Reply200
  <2>3. /\ (wire \in Seq(Commands))'
        /\ (\A i \in 1..Len(wire) : wire[i].op = "LPUSH" => wire[i].arg \in stored)'
        /\ UNCHANGED list
    <3>1. CASE UNCHANGED <<stored, connVars>>
      BY <1>0, <3>1 DEF InTransit, connVars
    <3>2. CASE stored' = stored \cup {w} /\ Issue("LPUSH", w)
      BY <2>1, <3>2, IssueKeeps
    <3> QED
      BY <1>2, <3>1, <3>2 DEF Deliver
  <2> QED
    BY <1>0, <2>1, <2>2, <2>3, QueueKept DEF InTransit
<1>3. ASSUME ProcessEvent
      PROVE  InTransit'
  <2>1. UNCHANGED <<stored, replies, connVars>> /\ worker'.at = "idle"
    BY <1>3 DEF ProcessEvent, Worker
  <2> QED
    BY <1>0, <2>1 DEF InTransit, connVars
<1>4. ASSUME NEW w \in Webhooks, Pushed(w)
      PROVE  InTransit'
  <2>1. /\ wire # << >> /\ wire' = Tail(wire) /\ list' = Append(list, w)
        /\ w = Head(wire).arg /\ Head(wire).op = "LPUSH"
        /\ replies' = replies \cup {<<w, "received">>} /\ UNCHANGED <<stored, worker>>
    BY <1>4 DEF Pushed, ServeLpush, Served, Reply200
  <2>2. Head(wire) = wire[1] /\ 1 \in 1..Len(wire)
    BY <1>0, <2>1 DEF InTransit
  <2>3. w \in stored
    BY <1>0, <2>1, <2>2 DEF InTransit
  <2>4. /\ (wire \in Seq(Commands))'
        /\ (\A i \in 1..Len(wire) : wire[i].op = "LPUSH" => wire[i].arg \in stored)'
    BY <2>1, ServeKeeps
  <2>5. list \in Seq(Webhooks)
    BY <1>0 DEF InTransit
  <2>6. /\ list' \in Seq(Webhooks) /\ Len(list') = Len(list) + 1 /\ Len(list) \in Nat
        /\ \A i \in 1..Len(list) : list'[i] = list[i]
        /\ list'[Len(list) + 1] = w
    BY <2>1, <2>5, ListMoves
  <2>7. \A i \in 1..Len(list') : <<list'[i], "received">> \in replies'
    <3> TAKE i \in 1..Len(list')
    <3>1. CASE i \in 1..Len(list)
      BY <1>0, <2>1, <2>6, <3>1 DEF InTransit
    <3>2. CASE i = Len(list) + 1
      BY <2>1, <2>6, <3>2
    <3> QED
      BY <2>6, <3>1, <3>2
  <2>8. \A v \in Webhooks : <<v, "received">> \in replies' => v \in stored'
    BY <1>0, <2>1, <2>3 DEF InTransit
  <2>9. worker'.at = "working" => <<worker'.event, "received">> \in replies'
    BY <1>0, <2>1 DEF InTransit
  <2> QED
    BY <2>4, <2>6, <2>7, <2>8, <2>9 DEF InTransit
<1>5. ASSUME NEW w \in Webhooks, Popped(w)
      PROVE  InTransit'
  <2>1. /\ wire # << >> /\ wire' = Tail(wire) /\ list # << >> /\ list' = Tail(list)
        /\ w = Head(list) /\ UNCHANGED <<stored, replies>>
        /\ worker'.event = w
    BY <1>5 DEF Popped, ServeBrpop, Served, Worker
  <2>2. /\ (wire \in Seq(Commands))'
        /\ (\A i \in 1..Len(wire) : wire[i].op = "LPUSH" => wire[i].arg \in stored)'
    BY <2>1, ServeKeeps
  <2>3. list \in Seq(Webhooks)
    BY <1>0 DEF InTransit
  <2>4. /\ list' \in Seq(Webhooks) /\ Len(list') = Len(list) - 1 /\ Len(list) \in Nat
        /\ \A i \in 1..Len(list') : list'[i] = list[i + 1]
        /\ w = list[1] /\ 1 \in 1..Len(list)
    BY <2>1, <2>3, ListMoves
  <2>5. \A i \in 1..Len(list') : i + 1 \in 1..Len(list)
    BY <2>4
  <2>6. \A i \in 1..Len(list') : <<list'[i], "received">> \in replies'
    BY <1>0, <2>1, <2>4, <2>5 DEF InTransit
  <2>7. <<w, "received">> \in replies
    BY <1>0, <2>4 DEF InTransit
  <2> QED
    BY <1>0, <2>1, <2>2, <2>4, <2>6, <2>7 DEF InTransit
<1>6. ASSUME PolledNothing \/ CommandAnswered
      PROVE  InTransit'
  <2>1. /\ wire # << >> /\ wire' = Tail(wire)
        /\ UNCHANGED <<list, stored, replies>>
        /\ UNCHANGED worker \/ worker'.at = "idle"
    BY <1>6 DEF PolledNothing, BrpopTimesOut, CommandAnswered, ServeOther,
                Served, Worker, pathVars
  <2>2. /\ (wire \in Seq(Commands))'
        /\ (\A i \in 1..Len(wire) : wire[i].op = "LPUSH" => wire[i].arg \in stored)'
    BY <2>1, ServeKeeps
  <2> QED
    BY <1>0, <2>1, <2>2, QueueKept DEF InTransit
<1>7. ASSUME PollQueue \/ RequestCommand
      PROVE  InTransit'
  <2>1. /\ Issue("BRPOP", Null) \/ Issue("SET", Null)
        /\ UNCHANGED <<stored, replies>>
        /\ UNCHANGED worker \/ worker'.at = "waiting"
    BY <1>7 DEF PollQueue, RequestCommand, Worker, pathVars
  <2>2. /\ (wire \in Seq(Commands))'
        /\ (\A i \in 1..Len(wire) : wire[i].op = "LPUSH" => wire[i].arg \in stored)'
        /\ UNCHANGED list
    BY <2>1, IssueKeeps
  <2> QED
    BY <1>0, <2>1, <2>2, QueueKept DEF InTransit
<1>8. ASSUME NEW t \in Txns, NEW g \in GatewayProvider, Pay(t, g)
      PROVE  InTransit'
  BY <1>1, <1>8 DEF Pay
<1> QED
  BY <1>2, <1>3, <1>4, <1>5, <1>6, <1>7, <1>8, NextCases DEF Transport

(* The invariant holds at the start.                                       *)
LEMMA PathInvInit == Init => PathInv
<1> SUFFICES ASSUME Init PROVE PathInv
  OBVIOUS
<1>1. TypeOK
  BY WebhookAssumption DEF Init, TypeOK, Worker
<1>2. InTransit
  BY DEF Init, ConnInit, InTransit, Worker
<1>3. StoredIds /\ ChargesHaveRows /\ StoredIsVerified
  BY DEF Init, StoredIds, ChargesHaveRows, StoredIsVerified
<1> QED
  BY <1>1, <1>2, <1>3 DEF PathInv

(* Every step keeps the invariant.                                         *)
LEMMA PathInvStep == PathInv /\ [Next]_vars => PathInv'
<1> SUFFICES ASSUME PathInv, [Next]_vars PROVE PathInv'
  OBVIOUS
<1>1. CASE Next
  BY <1>1, TypeStep, StoredIdsStep, ChargesHaveRowsStep, StoredIsVerifiedStep,
     InTransitStep DEF PathInv
<1>2. CASE UNCHANGED vars
  <2>1. UNCHANGED pathVars /\ UNCHANGED connVars
    BY <1>2 DEF vars
  <2>2. TypeOK'
    BY <2>1 DEF PathInv, TypeOK, pathVars
  <2>3. StoredIds' /\ ChargesHaveRows'
    BY <2>1 DEF PathInv, StoredIds, ChargesHaveRows, pathVars
  <2>4. StoredIsVerified'
    BY <2>1 DEF PathInv, StoredIsVerified, Verified, IsPlaceholder, pathVars
  <2>5. InTransit'
    BY <2>1 DEF PathInv, InTransit, pathVars, connVars
  <2> QED
    BY <2>2, <2>3, <2>4, <2>5 DEF PathInv
<1> QED
  BY <1>1, <1>2

(* PATH INVARIANT.  Types, and how rows, charges, stored webhooks, the     *)
(* connection and the worker hang together.                                *)
THEOREM PathInvariant == Spec => []PathInv
BY PathInvInit, PathInvStep, PTL DEF Spec

(* TYPES of the webhook path, with any number of commands on the           *)
(* connection: what the worker pops is a stored webhook (pollQueue), and   *)
(* only stored ones are processed.                                         *)
THEOREM PathTypeOK == Spec => []TypeOK
<1>1. PathInv => TypeOK
  BY DEF PathInv
<1> QED
  BY <1>1, PathInvariant, PTL

-----------------------------------------------------------------------------
(* The properties.                                                         *)

(* A stuttering step leaves all of it.                                     *)
LEMMA NothingChanges ==
  ASSUME UNCHANGED vars
  PROVE  UNCHANGED <<env, rows, accepted, stored, processed, replies>>
BY DEF vars, pathVars

(* Rows change only when a payment is made and when its webhook is worked  *)
(* off; everything else about them stays.                                  *)
LEMMA RowsMove ==
  ASSUME PathInv, [Next]_vars
  PROVE  \/ UNCHANGED rows
         \/ \E t \in Txns, g \in GatewayProvider : Pay(t, g)
         \/ ProcessEvent
BY NextCases, TransportLeaves, NothingChanges DEF Deliver

(* Settings stay; replies, charges and stored webhooks only grow.          *)
LEMMA OnlyGrow ==
  ASSUME PathInv, [Next]_vars
  PROVE  /\ UNCHANGED env /\ replies \subseteq replies'
         /\ accepted \subseteq accepted' /\ stored \subseteq stored'
<1>1. CASE Next
  BY <1>1, NextCases, TransportLeaves
     DEF Pay, Deliver, ProcessEvent, Reply200, Transport, Pushed, Popped,
         PolledNothing, CommandAnswered, PollQueue, RequestCommand, pathVars
<1> QED
  BY <1>1, NothingChanges

(* OWN WEBHOOK.  For any payments, webhooks, payload fields and settings:  *)
(* only a webhook about the payment itself reconciles it, and one with a   *)
(* right signature where the secret is configured (processEvent's lookup   *)
(* by gateway id or idempotency key).                                      *)
THEOREM OwnWebhookReconciles == Spec => []ReconciledByOwnWebhook
<1>1. Init => ReconciledByOwnWebhook
  BY DEF Init, ReconciledByOwnWebhook
<1>2. ASSUME PathInv, ReconciledByOwnWebhook, [Next]_vars
      PROVE  ReconciledByOwnWebhook'
  <2>0. rows \in [Txns -> Row \cup {Null}]
    BY <1>2 DEF PathInv, TypeOK
  <2>1. UNCHANGED env /\ replies \subseteq replies'
    BY <1>2, OnlyGrow
  <2>2. \A w : IsPlaceholder(w.gateway) => IsPlaceholder(w.gateway)'
    BY <2>1 DEF IsPlaceholder
  <2>3. \A w \in Webhooks : <<w, "received">> \in replies
                            => w.signed \/ IsPlaceholder(w.gateway)
    BY <1>2 DEF PathInv, InTransit, StoredIsVerified, Verified
  <2>4. ASSUME NEW t \in Txns, rows'[t] # Null, rows'[t].currentState = "RECONCILED"
        PROVE  \E w \in Webhooks : /\ w.txn = t /\ <<w, "received">> \in replies
                                   /\ w.signed \/ IsPlaceholder(w.gateway)
    <3>1. CASE rows'[t] = rows[t]
      BY <1>2, <2>4, <3>1 DEF ReconciledByOwnWebhook
    <3>2. CASE rows'[t] # rows[t]
      <4>1. CASE \E u \in Txns, g \in GatewayProvider : Pay(u, g)
        <5>1. PICK u \in Txns, g \in GatewayProvider : Pay(u, g)
          BY <4>1
        <5>2. PICK r \in Row : rows' = [rows EXCEPT ![u] = r] /\ NewRow(u, g, r)
          BY <5>1, PayWrites
        <5>3. rows'[t] = r
          BY <2>0, <3>2, <5>2
        <5> QED
          BY <2>4, <5>2, <5>3 DEF NewRow
      <4>2. CASE ProcessEvent
        <5>1. PICK w \in Webhooks :
                /\ <<w, "received">> \in replies
                /\ \/ rows' = rows
                   \/ rows' = [rows EXCEPT ![w.txn] =
                                 [rows[w.txn] EXCEPT !.currentState = "RECONCILED"]]
          BY <1>2, <4>2, ProcessWrites
        <5>2. w.txn = t
          BY <2>0, <3>2, <5>1
        <5> QED
          BY <2>3, <5>1, <5>2
      <4> QED
        BY <1>2, <3>2, <4>1, <4>2, RowsMove
    <3> QED
      BY <3>1, <3>2
  <2> QED
    BY <2>1, <2>2, <2>4 DEF ReconciledByOwnWebhook
<1> QED
  BY <1>1, <1>2, PathInvariant, PTL DEF Spec

(* DUPLICATES ARE REPETITIONS, for any webhooks: outside PayU, one with an *)
(* event id that the unique index turns away is stored already (ingest).   *)
THEOREM DuplicatesAreRetries == Spec => []DuplicateIsRetry
<1>1. Init => DuplicateIsRetry
  BY DEF Init, DuplicateIsRetry
<1>2. ASSUME PathInv, DuplicateIsRetry, [Next]_vars
      PROVE  DuplicateIsRetry'
  <2>1. stored \subseteq stored' /\ stored \subseteq Webhooks
    BY <1>2, OnlyGrow DEF PathInv, TypeOK
  <2>2. ASSUME NEW w \in Webhooks, <<w, "duplicate">> \in replies',
               w.gateway # "PAYU", EventId(w) # Unknown
        PROVE  w \in stored'
    <3>1. CASE <<w, "duplicate">> \in replies
      BY <1>2, <2>1, <2>2, <3>1 DEF DuplicateIsRetry
    <3>2. CASE <<w, "duplicate">> \notin replies
      <4>1. PICK d \in Webhooks : Deliver(d)
        <5>1. replies' # replies
          BY <2>2, <3>2
        <5>2. Next
          BY <1>2, <5>1, NothingChanges
        <5>3. ASSUME NEW v \in Webhooks, Pushed(v)
              PROVE  <<w, "duplicate">> \in replies
          <6>1. replies' = replies \cup {<<v, "received">>}
            BY <5>3 DEF Pushed, Reply200
          <6>2. <<w, "duplicate">> # <<v, "received">>
            OBVIOUS
          <6> QED
            BY <2>2, <6>1, <6>2
        <5>4. \/ \E t \in Txns, g \in GatewayProvider : Pay(t, g)
              \/ ProcessEvent \/ (\E v \in Webhooks : Popped(v))
              \/ PolledNothing \/ CommandAnswered \/ PollQueue \/ RequestCommand
              => replies' = replies
          BY DEF Pay, ProcessEvent, Popped, PolledNothing, CommandAnswered,
                 PollQueue, RequestCommand, pathVars
        <5> QED
          BY <3>2, <5>1, <5>2, <5>3, <5>4, NextCases DEF Transport
      <4>2. <<w, "duplicate">> = <<d, "duplicate">> /\ IsTaken(d)
        BY <2>2, <3>2, <4>1 DEF Deliver, Reply200
      <4>3. PICK v \in stored : v.gateway = w.gateway /\ EventId(v) = EventId(w)
        BY <4>2 DEF IsTaken
      <4>4. v \in Webhooks
        BY <2>1, <4>3
      <4>5. /\ EventId(w) = <<"event", w.txn, w.n>>
            /\ EventId(v) = <<"event", v.txn, v.n>>
        BY <2>2, <4>3, <4>4, EventIdIsNumber
      <4>6. v.txn = w.txn /\ v.n = w.n
        BY <4>3, <4>5
      <4> QED
        BY <2>1, <4>3, <4>4, <4>6, WebhookAssumption
    <3> QED
      BY <3>1, <3>2
  <2>3. \A w : EventId(w)' = EventId(w)
    BY DEF EventId, First, FieldValue, Unknown
  <2> QED
    BY <2>2, <2>3 DEF DuplicateIsRetry
<1> QED
  BY <1>1, <1>2, PathInvariant, PTL DEF Spec

(* NO PHANTOM CHARGE, for any settings and any payments: what succeeded    *)
(* through an adapter outside mock mode, Razorpay's aside, exists at the   *)
(* gateway (charge() of the adapters).                                     *)
THEOREM NoPhantomCharge == Spec => []LiveSuccessIsReal
<1>1. Init => LiveSuccessIsReal
  BY DEF Init, LiveSuccessIsReal
<1>2. ASSUME PathInv, LiveSuccessIsReal, [Next]_vars
      PROVE  LiveSuccessIsReal'
  <2>0. rows \in [Txns -> Row \cup {Null}]
    BY <1>2 DEF PathInv, TypeOK
  <2>1. UNCHANGED env /\ accepted \subseteq accepted'
    BY <1>2, OnlyGrow
  <2>2. ASSUME NEW t \in Txns, rows'[t] # Null, rows'[t].currentState # "FAILED",
               ~GetAdapter(env, rows'[t].gateway).isMockMode,
               rows'[t].gateway # "RAZORPAY"
        PROVE  <<t, rows'[t].gateway>> \in accepted'
    <3>1. CASE rows'[t] = rows[t]
      BY <1>2, <2>1, <2>2, <3>1 DEF LiveSuccessIsReal
    <3>2. CASE rows'[t] # rows[t]
      <4>1. CASE \E u \in Txns, g \in GatewayProvider : Pay(u, g)
        <5>1. PICK u \in Txns, g \in GatewayProvider : Pay(u, g)
          BY <4>1
        <5>2. PICK r \in Row :
                /\ rows' = [rows EXCEPT ![u] = r] /\ NewRow(u, g, r)
                /\ /\ r.currentState # "FAILED" /\ g # "RAZORPAY"
                   /\ ~GetAdapter(env, g).isMockMode
                   => <<u, g>> \in accepted'
          BY <5>1, PayWrites
        <5>3. rows'[t] = r /\ t = u
          BY <2>0, <3>2, <5>2
        <5> QED
          BY <2>2, <5>2, <5>3 DEF NewRow
      <4>2. CASE ProcessEvent
        <5>1. PICK w \in Webhooks :
                /\ <<w, "received">> \in replies
                /\ rows[w.txn] # Null /\ rows[w.txn].gateway = w.gateway
                /\ \/ rows' = rows
                   \/ rows' = [rows EXCEPT ![w.txn] =
                                 [rows[w.txn] EXCEPT !.currentState = "RECONCILED"]]
          BY <1>2, <4>2, ProcessWrites
        <5>2. w.txn = t
          BY <2>0, <3>2, <5>1
        <5>3. rows[t] \in Row
          BY <2>0, <5>1, <5>2
        <5>4. [rows[t] EXCEPT !.currentState = "RECONCILED"].gateway = w.gateway
          BY <5>1, <5>2, <5>3 DEF Row
        <5>5. rows'[t].gateway = w.gateway
          BY <2>0, <3>2, <5>1, <5>2, <5>4
        <5>6. <<w.txn, w.gateway>> \in accepted
          BY <1>2, <5>1 DEF PathInv, InTransit, StoredIsVerified
        <5> QED
          BY <2>1, <5>2, <5>5, <5>6
      <4> QED
        BY <1>2, <3>2, <4>1, <4>2, RowsMove
    <3> QED
      BY <3>1, <3>2
  <2>3. \A g : GetAdapter(env, g)' = GetAdapter(env, g)
    BY <2>1 DEF GetAdapter, Adapter, StripeAdapter, RazorpayAdapter, PayUAdapter,
                UpiAdapter
  <2> QED
    BY <2>1, <2>2, <2>3 DEF LiveSuccessIsReal
<1> QED
  BY <1>1, <1>2, PathInvariant, PTL DEF Spec

(* A payload with the stored id belongs to a payment that did not fail;    *)
(* the id is the one its adapter took from the gateway.                    *)
LEMMA CarriedIdIsLive ==
  ASSUME PathInv, NEW w \in stored, CarriesStoredId(w)
  PROVE  /\ w \in Webhooks /\ w.txn \in Txns
         /\ rows[w.txn] \in Row /\ rows[w.txn].currentState # "FAILED"
         /\ rows[w.txn].gateway = w.gateway
         /\ \E f \in w.fields :
              /\ FieldValue(w, f) = rows[w.txn].gatewayTxnId
              /\ FieldValue(w, f) = <<GetAdapter(env, w.gateway).id, w.txn>>
<1>1. w \in Webhooks /\ rows \in [Txns -> Row \cup {Null}]
  BY DEF PathInv, TypeOK
<1>2. w.txn \in Txns /\ w.gateway \in GatewayProvider /\ w.fields \subseteq Fields
  BY <1>1, WebhookTyped
<1>3. rows[w.txn] # Null /\ rows[w.txn].gateway = w.gateway
  BY <1>2 DEF PathInv, StoredIsVerified, ChargesHaveRows
<1>4. PICK f \in w.fields : FieldValue(w, f) = rows[w.txn].gatewayTxnId
  BY DEF CarriesStoredId
<1>5. FieldValue(w, f) # Null /\ f \in Fields
  BY <1>1, <1>2, <1>4, NullAssumption
<1>6. FieldValue(w, f) # <<"mock", w.txn>>
  BY <1>1, <1>5, FieldNamesItsOwner
<1>7. /\ rows[w.txn].gatewayTxnId = <<GetAdapter(env, w.gateway).id, w.txn>>
      /\ rows[w.txn].currentState # "FAILED"
  BY <1>2, <1>3, <1>4, <1>5, <1>6 DEF PathInv, StoredIds
<1> QED
  BY <1>1, <1>2, <1>3, <1>4, <1>7

(* The id of a payment never changes once it is there.                     *)
LEMMA IdsStay ==
  ASSUME PathInv, [Next]_vars, NEW t \in Txns, rows[t] # Null
  PROVE  /\ rows'[t] # Null /\ rows'[t].gatewayTxnId = rows[t].gatewayTxnId
         /\ rows[t].currentState = "RECONCILED" => rows'[t].currentState = "RECONCILED"
<1>0. rows \in [Txns -> Row \cup {Null}] /\ rows[t] \in Row
  BY DEF PathInv, TypeOK
<1>1. CASE UNCHANGED rows
  BY <1>1
<1>2. CASE \E u \in Txns, g \in GatewayProvider : Pay(u, g)
  <2>1. PICK u \in Txns, g \in GatewayProvider : Pay(u, g)
    BY <1>2
  <2>2. PICK r \in Row : rows[u] = Null /\ rows' = [rows EXCEPT ![u] = r]
    BY <2>1, PayWrites
  <2>3. rows'[t] = rows[t]
    BY <1>0, <2>2
  <2> QED
    BY <2>3
<1>3. CASE ProcessEvent
  <2>1. PICK w \in Webhooks :
          \/ rows' = rows
          \/ rows' = [rows EXCEPT ![w.txn] =
                        [rows[w.txn] EXCEPT !.currentState = "RECONCILED"]]
    BY <1>3, ProcessWrites
  <2> DEFINE r == [rows[t] EXCEPT !.currentState = "RECONCILED"]
  <2>2. /\ r.gatewayTxnId = rows[t].gatewayTxnId /\ r.currentState = "RECONCILED"
        /\ r # Null
    <3>1. r \in Row /\ r.gatewayTxnId = rows[t].gatewayTxnId
          /\ r.currentState = "RECONCILED"
      BY <1>0 DEF Row
    <3> HIDE DEF r
    <3> QED
      BY <3>1, NullAssumption
  <2>3. rows'[t] = rows[t] \/ rows'[t] = r
    BY <1>0, <2>1
  <2> HIDE DEF r
  <2> QED
    BY <2>2, <2>3
<1> QED
  BY <1>1, <1>2, <1>3, RowsMove

(* Working off a webhook that carries the stored id, and none preferred to *)
(* it, reconciles the payment.                                             *)
LEMMA CarrierReconciles ==
  ASSUME PathInv, ProcessEvent, worker.event \in stored,
         CarriesStoredId(worker.event),
         worker.event.fields \cap {"payment.entity.id", "mihpayid"} = {}
  PROVE  rows'[worker.event.txn].currentState = "RECONCILED"
<1> DEFINE w == worker.event
<1>1. /\ w \in Webhooks /\ w.txn \in Txns
      /\ rows[w.txn] \in Row /\ rows[w.txn].currentState # "FAILED"
      /\ rows[w.txn].gateway = w.gateway
  BY CarriedIdIsLive
<1>2. PICK f \in w.fields :
        /\ FieldValue(w, f) = rows[w.txn].gatewayTxnId
        /\ FieldValue(w, f) = <<GetAdapter(env, w.gateway).id, w.txn>>
  BY CarriedIdIsLive
<1>3. f \in Fields
  BY <1>1, WebhookTyped
<1>4. ExtractGatewayTxnId(w) = rows[w.txn].gatewayTxnId
  BY <1>1, <1>2, StoredIdIsExtracted
<1>5. ExtractGatewayTxnId(w) # Null
  BY <1>1, <1>2, <1>3, <1>4, NullAssumption
<1>6. w.txn \in Matches(w)
  BY <1>1, <1>4, NullAssumption DEF Matches
<1>7. PICK t \in Matches(w) :
        rows' = [rows EXCEPT ![t] =
                   IF @.currentState = "SUCCESS"
                   THEN [@ EXCEPT !.currentState = "RECONCILED",
                                  !.gateway = w.gateway]
                   ELSE @]
  BY <1>5, <1>6 DEF ProcessEvent
<1>8. t = w.txn
  BY <1>1, <1>5, MatchIsOwn DEF PathInv
<1> DEFINE r == [rows[t] EXCEPT !.currentState = "RECONCILED", !.gateway = w.gateway]
<1>9. r.currentState = "RECONCILED"
  BY <1>1, <1>8 DEF Row
<1>10. rows[t].currentState = "SUCCESS" \/ rows[t].currentState = "RECONCILED"
  BY <1>1, <1>8 DEF Row
<1>11. rows'[t] = IF rows[t].currentState = "SUCCESS" THEN r ELSE rows[t]
  <2>1. rows \in [Txns -> Row \cup {Null}]
    BY DEF PathInv, TypeOK
  <2> QED
    BY <1>1, <1>7, <1>8, <2>1
<1> HIDE DEF r
<1> QED
  BY <1>8, <1>9, <1>10, <1>11

(* THE STORED ID IS FOUND, for any payments, webhooks and settings, and    *)
(* however webhooks, payments and the worker interleave: a processed       *)
(* webhook with the id its adapter stored has reconciled its payment,      *)
(* unless Razorpay's payment id or PayU's mihpayid hides it                *)
(* (extractGatewayTxnId, processEvent).                                    *)
THEOREM StoredIdIsFound == Spec => []StoredIdReconciles
<1>1. Init => StoredIdReconciles
  BY DEF Init, StoredIdReconciles
<1>2. ASSUME PathInv, StoredIdReconciles, [Next]_vars
      PROVE  StoredIdReconciles'
  <2>1. ASSUME NEW w \in processed', CarriesStoredId(w)',
               w.fields \cap {"payment.entity.id", "mihpayid"} = {}
        PROVE  rows'[w.txn].currentState = "RECONCILED"
    <3>1. w \in processed \/ (ProcessEvent /\ w = worker.event)
      <4>1. CASE UNCHANGED processed
        BY <2>1, <4>1
      <4>2. CASE ProcessEvent
        BY <2>1, <4>2 DEF ProcessEvent
      <4> QED
        BY <1>2, <4>1, <4>2, NextCases, TransportLeaves, NothingChanges
           DEF Pay, Deliver
    <3>2. w \in stored
      <4>1. w \in processed => w \in stored
        BY <1>2 DEF PathInv, TypeOK
      <4>2. ProcessEvent => worker.event \in stored
        BY <1>2 DEF PathInv, InTransit, TypeOK, ProcessEvent
      <4> QED
        BY <3>1, <4>1, <4>2
    <3>3. w \in Webhooks
      BY <1>2, <3>2 DEF PathInv, TypeOK
    <3>4. w.txn \in Txns /\ rows[w.txn] # Null
      BY <1>2, <3>2, <3>3, WebhookTyped DEF PathInv, StoredIsVerified, ChargesHaveRows
    <3>5. /\ rows'[w.txn].gatewayTxnId = rows[w.txn].gatewayTxnId
          /\ rows[w.txn].currentState = "RECONCILED"
             => rows'[w.txn].currentState = "RECONCILED"
      BY <1>2, <3>4, IdsStay
    <3>6. CarriesStoredId(w)
      <4>1. \E f \in w.fields : FieldValue(w, f) = rows'[w.txn].gatewayTxnId
        BY <2>1 DEF CarriesStoredId, FieldValue
      <4> QED
        BY <3>4, <3>5, <4>1 DEF CarriesStoredId
    <3>7. CASE w \in processed
      BY <1>2, <2>1, <3>5, <3>6, <3>7 DEF StoredIdReconciles
    <3>8. CASE ProcessEvent /\ w = worker.event
      BY <1>2, <2>1, <3>2, <3>6, <3>8, CarrierReconciles
    <3> QED
      BY <3>1, <3>7, <3>8
  <2> QED
    BY <2>1 DEF StoredIdReconciles
<1> QED
  BY <1>1, <1>2, PathInvariant, PTL DEF Spec
=============================================================================
