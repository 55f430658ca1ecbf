------------------------ MODULE PaymentWebhookProofs ------------------------
(***************************************************************************)
(* The invariants of the payment system in which webhooks and the          *)
(* reconciliation worker take part, for every set of webhooks.             *)
(***************************************************************************)
EXTENDS PaymentProofs

-----------------------------------------------------------------------------
(* What a step does to the webhooks.                                       *)

(* Payment requests touch neither the webhooks nor their queue.            *)
LEMMA RequestsLeaveWebhooks ==
  ASSUME NEW r \in Requests, Arrive(r) \/ ServeRequest(r)
  PROVE  UNCHANGED <<reconVars, queue>>
BY DEF Arrive, AcquireLock, ServeRequest, RequestStep, ReadCache, FindExisting, CheckDatabase,
       CacheExisting, RankGateways, InsertTransaction, LogTransactionCreated, Route, Process,
       CallGateway, EndRace, Succeed, RecordSuccess, RecordFailure, FailOver, MakeTransition,
       CacheOutcome, CleanUp, SetKey, Del, redisVars

(* How the worker moves.                                                   *)
LEMMA WorkerMoves ==
  ASSUME TypeInv, [Next]_vars
  PROVE  \/ worker' = worker
         \/ worker' = Polling
         \/ \E e \in Events : Pop(e)
         \/ LoadEvent \/ LookUp \/ DriveUp \/ DriveDone
<1>1. CASE \E r \in Requests : Arrive(r) \/ ServeRequest(r)
  BY <1>1, RequestsLeaveWebhooks DEF reconVars
<1>2. CASE \E e \in Events : Webhook(e)
  BY <1>2 DEF Webhook, StoreEvent, PushEvent, AckDuplicate
<1>3. CASE Reconcile
  BY <1>3 DEF Reconcile, WorkerStep, MarkProcessed
<1>4. CASE GatewayActs \/ DatabaseFault \/ KeyExpires \/ RedisFault \/ CrashRestart
  BY <1>4 DEF GatewayActs, DatabaseFault, WorkerError, KeyExpires, RedisFault, PushFails,
              CrashRestart, ReconCrash, reconVars
<1>5. CASE UNCHANGED vars
  BY <1>5 DEF vars, reconVars
<1> QED
  BY <1>1, <1>2, <1>3, <1>4, <1>5 DEF Next

(* Between two polls the worker keeps its webhook.                         *)
LEMMA WorkerKeepsEvent ==
  ASSUME TypeInv, LoadEvent \/ LookUp \/ DriveUp \/ DriveDone
  PROVE  worker'.event \in {worker.event, Null}
<1>0. worker \in [at : {"poll", "load", "lookup", "drive", "mark"},
                  event : Events \cup {Null}, key : Keys \cup {Null},
                  state : TransactionState \cup {Null}]
  BY DEF TypeInv, TypeOK, ReconTypeOK
<1>1. CASE LoadEvent
  <2>1. \/ worker' = Polling
        \/ worker' = [worker EXCEPT !.at = "mark"]
        \/ worker' = [worker EXCEPT !.at = "lookup"]
    BY <1>1 DEF LoadEvent
  <2> QED
    BY <1>0, <2>1 DEF Polling
<1>2. CASE LookUp
  BY <1>0, <1>2 DEF LookUp
<1>3. CASE DriveUp
  <2>1. \/ worker' = Polling
        \/ worker' = [worker EXCEPT !.state = NextUp(worker.state)]
    BY <1>3 DEF DriveUp
  <2> QED
    BY <1>0, <2>1 DEF Polling
<1>4. CASE DriveDone
  BY <1>0, <1>4 DEF DriveDone
<1> QED
  BY <1>1, <1>2, <1>3, <1>4

(* A webhook is received only when a gateway sends it.                     *)
LEMMA ReceivedFrom ==
  ASSUME TypeInv, [Next]_vars, NEW e \in Events, Received(e)'
  PROVE  Received(e) \/ MaySend(e)
<1> USE DEF Received, UnderWay
<1>0. /\ queue \in [Backends -> Seq(Events)] /\ Active \in Backends
      /\ eventRow \in [Events -> {"none", "stored", "processed"}]
  BY DEF TypeInv, TypeOK, RedisTypeOK, ReconTypeOK, Active, Backends
<1>1. ASSUME UNCHANGED <<eventRow, queue>>, ingesting' \subseteq ingesting,
             worker'.event \in {worker.event, Null}
      PROVE  Received(e)
  BY <1>1, EventsAssumption
<1>2. CASE \E r \in Requests : Arrive(r) \/ ServeRequest(r)
  BY <1>1, <1>2, RequestsLeaveWebhooks DEF reconVars
<1>3. ASSUME NEW f \in Events, StoreEvent(f)
      PROVE  Received(e) \/ MaySend(e)
  BY <1>0, <1>3 DEF StoreEvent, redisVars
<1>4. ASSUME NEW f \in Events, PushEvent(f)
      PROVE  Received(e)
  <2>1. PICK s : s \in {<<f>>, Append(queue[Active], f)} /\ queue' = [queue EXCEPT ![Active] = s]
    BY <1>4 DEF PushEvent, Lpush
  <2>2. queue[Active] \in Seq(Events)
    BY <1>0
  <2>3. \A i \in DOMAIN s : s[i] = f \/ \E j \in DOMAIN queue[Active] : s[i] = queue[Active][j]
    BY <2>1, <2>2
  <2>4. CASE \E b \in Backends : \E i \in DOMAIN queue'[b] : queue'[b][i] = e
    BY <1>0, <1>4, <2>1, <2>3, <2>4 DEF PushEvent
  <2>5. CASE ~ \E b \in Backends : \E i \in DOMAIN queue'[b] : queue'[b][i] = e
    BY <1>4, <2>5 DEF PushEvent
  <2> QED
    BY <2>4, <2>5
<1>5. ASSUME NEW f \in Events, AckDuplicate(f) \/ PushFails(f)
      PROVE  Received(e)
  BY <1>1, <1>5 DEF AckDuplicate, PushFails, redisVars
<1>6. ASSUME NEW f \in Events, Pop(f)
      PROVE  Received(e)
  <2>1. /\ queue[Active] \in Seq(Events) /\ queue[Active] # << >>
        /\ f = Head(queue[Active]) /\ queue' = [queue EXCEPT ![Active] = Tail(queue[Active])]
        /\ worker'.event = f /\ UNCHANGED <<eventRow, ingesting>>
    BY <1>0, <1>6 DEF Pop, Brpop, Polling
  <2>2. 1 \in DOMAIN queue[Active] /\ queue[Active][1] = f
    BY <2>1
  <2>3. \A i \in DOMAIN Tail(queue[Active]) :
          \E j \in DOMAIN queue[Active] : Tail(queue[Active])[i] = queue[Active][j]
    BY <2>1
  <2>4. CASE \E b \in Backends : \E i \in DOMAIN queue'[b] : queue'[b][i] = e
    <3>1. PICK b \in Backends : \E i \in DOMAIN queue'[b] : queue'[b][i] = e
      BY <2>4
    <3>2. \E j \in DOMAIN queue[b] : queue[b][j] = e
      BY <1>0, <2>1, <2>3, <3>1
    <3> QED
      BY <3>2
  <2>5. CASE ~ \E b \in Backends : \E i \in DOMAIN queue'[b] : queue'[b][i] = e
    BY <1>0, <2>1, <2>2, <2>5
  <2> QED
    BY <2>4, <2>5
<1>7. CASE LoadEvent \/ LookUp \/ DriveUp \/ DriveDone
  <2>1. worker'.event \in {worker.event, Null}
    BY <1>7, WorkerKeepsEvent
  <2> QED
    BY <1>1, <1>7, <2>1 DEF LoadEvent, LookUp, DriveUp, DriveDone, redisVars
<1>8. CASE MarkProcessed
  BY <1>0, <1>8, EventsAssumption DEF MarkProcessed, redisVars, Polling
<1>9. CASE DatabaseFault
  BY <1>1, <1>9 DEF DatabaseFault, DatabaseError, WorkerError, redisVars, reconVars, Polling
<1>10. CASE GatewayActs \/ KeyExpires
  BY <1>1, <1>10 DEF GatewayActs, KeyExpires, Expire, redisVars, reconVars
<1>11. CASE RedisFault
  BY <1>1, <1>5, <1>11 DEF RedisFault, Failover, reconVars
<1>12. CASE CrashRestart
  <2>1. /\ eventRow' = eventRow /\ ingesting' = {} /\ worker'.event = Null
        /\ queue' = [queue EXCEPT !["memory"] = << >>]
    BY <1>12 DEF CrashRestart, RedisRestart, ReconCrash, Polling
  <2> QED
    BY <1>0, <2>1, EventsAssumption
<1>13. CASE UNCHANGED vars
  BY <1>1, <1>13 DEF vars, redisVars, reconVars
<1> QED
  BY <1>2, <1>3, <1>4, <1>5, <1>6, <1>7, <1>8, <1>9, <1>10, <1>11, <1>12, <1>13
     DEF Next, Webhook, Reconcile, WorkerStep

(* The gateways act, or a request calls one; nothing else moves a charge.  *)
LEMMA GatewayEffect ==
  ASSUME TypeInv, [Next]_vars
  PROVE  \/ UNCHANGED gatewayVars
         \/ GatewayStep
         \/ \E r \in Requests : RequestEffect(r) /\ Calls(r)
<1>1. ASSUME NEW r \in Requests, Arrive(r) \/ ServeRequest(r) \/ DatabaseError(r)
      PROVE  UNCHANGED gatewayVars \/ (RequestEffect(r) /\ Calls(r))
  <2>1. RequestEffect(r)
    BY <1>1, RequestHasEffect
  <2> QED
    BY <2>1 DEF RequestEffect, Leaves, Ranks, Inserts, Logs, Routes, Processes, Settles,
                Succeeds, Retries, GivesUp, Transits
<1>2. CASE Reconcile
  BY <1>2 DEF Reconcile, WorkerStep, Pop, LoadEvent, LookUp, DriveUp, DriveDone, MarkProcessed
<1>3. ASSUME NEW e \in Events, Webhook(e)
      PROVE  UNCHANGED gatewayVars
  BY <1>3 DEF Webhook, StoreEvent, PushEvent, AckDuplicate
<1>4. CASE GatewayActs
  BY <1>4 DEF GatewayActs
<1>5. CASE DatabaseFault
  BY <1>1, <1>5 DEF DatabaseFault, WorkerError
<1>6. CASE KeyExpires \/ RedisFault \/ CrashRestart
  BY <1>6 DEF KeyExpires, RedisFault, PushFails, CrashRestart
<1>7. CASE UNCHANGED vars
  BY <1>7 DEF vars
<1> QED
  BY <1>1, <1>2, <1>3, <1>4, <1>5, <1>6, <1>7 DEF Next

(* A call of a gateway, in terms of the charge it makes.                   *)
LEMMA CallsTyped ==
  ASSUME TypeInv, NEW r \in Requests, Calls(r)
  PROVE  \E c \in GatewayTxnIds :
           /\ c = <<req[r].key, req[r].gateway>>
           /\ req[r].key \in Keys /\ req[r].gateway \in Gateways
           /\ charges' = [charges EXCEPT ![c] = "pending"]
           /\ calls' = [calls EXCEPT ![c] = calls[c] + 1]
           /\ charges \in [GatewayTxnIds -> ChargeStatus]
           /\ calls \in [GatewayTxnIds -> Nat]
<1>1. req[r].key \in Keys /\ req[r].gateway \in Gateways
  BY DEF TypeInv, LocalsOK, Calls, Moves, PastInsert
<1>2. <<req[r].key, req[r].gateway>> \in GatewayTxnIds
  BY <1>1 DEF GatewayTxnIds
<1> QED
  BY <1>1, <1>2 DEF Calls, Charge, TypeInv, TypeOK, GatewayTypeOK

(* A webhook that a gateway may send is about a charge it has received.    *)
LEMMA SentHasCharge ==
  ASSUME NEW e \in Events
  PROVE  /\ e.charge \in GatewayTxnIds
         /\ e.charge[1] \in Keys /\ e.charge[2] \in Gateways
         /\ e.charge = <<e.charge[1], e.charge[2]>>
         /\ MaySend(e) => charges[e.charge] # "none"
<1>1. e.charge \in GatewayTxnIds
  BY EventsAssumption DEF WebhookEvent
<1>2. e.charge[1] \in Keys /\ e.charge[2] \in Gateways /\ e.charge = <<e.charge[1], e.charge[2]>>
  BY <1>1 DEF GatewayTxnIds
<1>3. MaySend(e) => charges[e.charge] # "none"
  BY DEF MaySend, WasAccepted
<1> QED
  BY <1>1, <1>2, <1>3

(* A webhook is received only about a charge that was called for.          *)
LEMMA WebhooksHaveChargesStep ==
  TypeInv /\ WebhooksHaveCharges /\ [Next]_vars => WebhooksHaveCharges'
<1> SUFFICES ASSUME TypeInv, WebhooksHaveCharges, [Next]_vars
             PROVE  WebhooksHaveCharges'
  OBVIOUS
<1>1. ASSUME NEW c \in GatewayTxnIds, charges'[c] # "none"
      PROVE  calls'[c] > 0
  <2>1. ASSUME charges[c] # "none"
        PROVE  calls'[c] > 0
    BY <2>1, CallsGrow DEF WebhooksHaveCharges
  <2>2. ASSUME NEW r \in Requests, Calls(r)
        PROVE  calls'[c] > 0
    <3>1. PICK d \in GatewayTxnIds :
            /\ charges' = [charges EXCEPT ![d] = "pending"]
            /\ calls' = [calls EXCEPT ![d] = calls[d] + 1]
            /\ charges \in [GatewayTxnIds -> ChargeStatus]
            /\ calls \in [GatewayTxnIds -> Nat]
      BY <2>2, CallsTyped
    <3> QED
      BY <1>1, <2>1, <3>1
  <2>3. CASE UNCHANGED gatewayVars
    BY <1>1, <2>1, <2>3 DEF gatewayVars
  <2>4. CASE GatewayStep
    BY <1>1, <2>1, <2>4 DEF GatewayStep, Decide, Reverse, TypeInv, TypeOK, GatewayTypeOK
  <2> QED
    BY <2>2, <2>3, <2>4, GatewayEffect
<1>2. ASSUME NEW e \in Events, Received(e)'
      PROVE  calls'[e.charge] > 0
  <2>1. calls[e.charge] > 0
    BY <1>2, ReceivedFrom, SentHasCharge DEF WebhooksHaveCharges
  <2> QED
    BY <2>1, CallsGrow, SentHasCharge
<1> QED
  BY <1>1, <1>2 DEF WebhooksHaveCharges

-----------------------------------------------------------------------------
(* What a transition is made on.  It comes after the creation was logged;  *)
(* it names a gateway, and the id of a charge only when that charge is why *)
(* the transaction becomes SUCCESS; an outcome follows a charge there, and *)
(* a good outcome follows its acceptance if webhooks are to be believed.   *)
EvidentTransition(k, to, meta) ==
  /\ CountedTransition(k, to, meta)
  /\ k \in creationLogged
  /\ meta.gateway \in Gateways
  /\ to = "SUCCESS" => meta.gatewayTxnId = <<k, meta.gateway>>
  /\ to # "SUCCESS" => meta.gatewayTxnId = Null
  /\ to \in {"SUCCESS", "FAILED", "RECONCILED"} => calls[<<k, meta.gateway>>] > 0
  /\ AcceptedEvidence /\ to \in {"SUCCESS", "RECONCILED"} => WasAccepted(<<k, meta.gateway>>)

WebhookInv == WebhooksHaveCharges /\ DrivesOwnPayment /\ CreationLogged

(* The transitions create() makes.                                         *)
LEMMA RequestEvidence ==
  ASSUME TypeInv, OwnInv, WebhookInv, NEW r \in Requests,
         Routes(r) \/ Processes(r) \/ Succeeds(r) \/ Retries(r) \/ GivesUp(r)
  PROVE  req[r].key \in Keys /\ \E to, meta : EvidentTransition(req[r].key, to, meta)
<1> DEFINE k == req[r].key
           g == req[r].gateway
<1>1. PICK to \in TransactionState, id \in {Null, <<k, g>>}, inc \in BOOLEAN :
        /\ Transits(r, to, id, inc) /\ (inc <=> to = "PROCESSING")
        /\ IF to = "SUCCESS" THEN id = <<k, g>> ELSE id = Null
        /\ to \in {"SUCCESS", "FAILED", "RECONCILED"} => req[r].at \in Tried
        /\ to \in {"SUCCESS", "RECONCILED"} => req[r].at = "succeed"
  BY DEF Routes, Processes, Succeeds, Retries, GivesUp, TransactionState, Moves, Tried
<1>2. req[r].at \in PastInsert \ {"logcreation"}
  BY DEF Routes, Processes, Succeeds, Retries, GivesUp, Moves, PastInsert
<1>3. /\ k \in Keys /\ g \in Gateways /\ Meta(g, id, inc) \in Metadata
      /\ Transition(k, to, Meta(g, id, inc))
  BY <1>1, <1>2, TransitsTyped
<1>4. k \in creationLogged
  BY <1>2 DEF WebhookInv, CreationLogged
<1>5. req[r].at \in Tried => calls[<<k, g>>] > 0
  BY <1>2 DEF OwnInv, FailoverOrder, FallbacksUncalled
<1>6a. AcceptedEvidence /\ req[r].at = "succeed" => WasAccepted(<<k, g>>)
  BY DEF AcceptedEvidence
<1>6. /\ Meta(g, id, inc).gateway = g /\ Meta(g, id, inc).gatewayTxnId = id
      /\ Meta(g, id, inc).incrementAttempt = inc
  BY DEF Meta
<1> HIDE DEF k, g
<1>7. EvidentTransition(k, to, Meta(g, id, inc))
  BY <1>1, <1>3, <1>4, <1>5, <1>6, <1>6a DEF EvidentTransition, CountedTransition
<1> QED
  BY <1>3, <1>7 DEF k

(* The transitions the worker makes.                                       *)
LEMMA WorkerEvidence ==
  ASSUME TypeInv, WebhookInv, WorkerEffect
  PROVE  LET to == NextUp(worker.state) IN
         /\ worker.key \in Keys
         /\ EvidentTransition(worker.key, to, UpMeta(worker.event, to))
         /\ worker.event \in Events /\ worker.event.charge = <<worker.key, worker.event.charge[2]>>
<1> DEFINE to == NextUp(worker.state)
           e == worker.event
           c == e.charge
<1>1. /\ e \in Events /\ worker.key \in Keys /\ to \in TransactionState
      /\ UpMeta(e, to) \in Metadata /\ Transition(worker.key, to, UpMeta(e, to))
  BY WorkerTransitionTyped
<1>2. /\ e.gatewayTxnId # Null /\ worker.key = c[1]
  BY DEF WorkerEffect, WebhookInv, DrivesOwnPayment
<1>3. /\ c \in GatewayTxnIds /\ c[2] \in Gateways /\ c = <<worker.key, c[2]>>
      /\ e.gatewayTxnId = c
  BY <1>1, <1>2, SentHasCharge, EventsAssumption
<1>4. calls[c] > 0 /\ (AcceptedEvidence => WasAccepted(c))
  BY <1>1 DEF WebhookInv, WebhooksHaveCharges, AcceptedEvidence, Received, UnderWay
<1>5. worker.key \in creationLogged
  BY <1>1, <1>3, <1>4 DEF WebhookInv, CreationLogged
<1>6. /\ UpMeta(e, to).gateway = c[2]
      /\ UpMeta(e, to).gatewayTxnId = IF to = "SUCCESS" THEN c ELSE Null
      /\ UpMeta(e, to).incrementAttempt <=> to = "PROCESSING"
  BY <1>3 DEF UpMeta
<1> HIDE DEF to, e, c
<1>7. EvidentTransition(worker.key, to, UpMeta(e, to))
  BY <1>1, <1>3, <1>4, <1>5, <1>6 DEF EvidentTransition, CountedTransition
<1> QED
  BY <1>1, <1>3, <1>7 DEF to, e, c

(* Every transition has evidence: the reply to the request that makes it,  *)
(* or the webhook that the worker is driving.                              *)
LEMMA StepEvidence ==
  ASSUME TypeInv, OwnInv, WebhookInv, [Next]_vars
  PROVE  \/ UNCHANGED <<txns, audit>>
         \/ \E k \in Keys, g \in Gateways : Insert(k, g)
         \/ \E k \in Keys : \E to, meta : EvidentTransition(k, to, meta)
<1>1. ASSUME NEW r \in Requests, RequestEffect(r)
      PROVE  \/ UNCHANGED <<txns, audit>>
             \/ \E k \in Keys, g \in Gateways : Insert(k, g)
             \/ \E k \in Keys : \E to, meta : EvidentTransition(k, to, meta)
  <2>1. CASE Leaves(r) \/ Ranks(r) \/ Logs(r) \/ Calls(r) \/ Settles(r)
    BY <2>1 DEF Leaves, Ranks, Logs, Calls, Settles, ledgerVars, LogCreation
  <2>2. CASE Inserts(r)
    BY <2>2 DEF Inserts, Moves, TypeInv, LocalsOK
  <2>3. CASE Routes(r) \/ Processes(r) \/ Succeeds(r) \/ Retries(r) \/ GivesUp(r)
    BY <2>3, RequestEvidence
  <2> QED
    BY <1>1, <2>1, <2>2, <2>3 DEF RequestEffect
<1>2. CASE WorkerEffect
  BY <1>2, WorkerEvidence
<1>3. CASE NoEffect
  BY <1>3 DEF NoEffect, ledgerVars
<1> QED
  BY <1>1, <1>2, <1>3, StepEffect

(* What can become of the row of one key in a step.                        *)
LEMMA RowStep ==
  ASSUME TypeInv, OwnInv, WebhookInv, [Next]_vars, NEW k \in Keys
  PROVE  \/ txns'[k] = txns[k] /\ audit'[k] = audit[k]
         \/ /\ txns[k] = Null /\ audit'[k] = audit[k]
            /\ \E g \in Gateways : txns'[k] = NewTransaction(g)
         \/ \E to, meta : /\ EvidentTransition(k, to, meta)
                          /\ to \in VALID_TRANSITIONS[txns[k].currentState]
                          /\ txns[k] \in Transaction /\ txns[k] # Null
                          /\ txns'[k] = Applied(txns[k], to, meta)
                          /\ txns'[k] \in Transaction /\ txns'[k] # Null
<1>0. LedgerTypeOK
  BY DEF TypeInv, TypeOK
<1>1. ASSUME NEW j \in Keys, NEW g \in Gateways, Insert(j, g)
      PROVE  \/ txns'[k] = txns[k] /\ audit'[k] = audit[k]
             \/ /\ txns[k] = Null /\ audit'[k] = audit[k]
                /\ txns'[k] = NewTransaction(g)
  BY <1>0, <1>1 DEF Insert, LedgerTypeOK
<1>2. ASSUME NEW j \in Keys, NEW to, NEW meta, EvidentTransition(j, to, meta), j # k
      PROVE  txns'[k] = txns[k] /\ audit'[k] = audit[k]
  BY <1>0, <1>2, TransitionKeepsRows DEF EvidentTransition, CountedTransition
<1>3. ASSUME NEW to, NEW meta, EvidentTransition(k, to, meta)
      PROVE  /\ to \in VALID_TRANSITIONS[txns[k].currentState]
             /\ txns[k] \in Transaction /\ txns[k] # Null
             /\ txns'[k] = Applied(txns[k], to, meta)
             /\ txns'[k] \in Transaction /\ txns'[k] # Null
  <2>1. to \in TransactionState /\ meta \in Metadata /\ Transition(k, to, meta)
    BY <1>3 DEF EvidentTransition, CountedTransition
  <2>2. CanTransition(k, to)
    BY <2>1 DEF Transition
  <2> QED
    BY <1>0, <2>1, <2>2, TransitionKeepsRows, NullAssumption DEF CanTransition
<1> QED
  BY <1>1, <1>2, <1>3, StepEvidence

(* The worker drives the payment that its webhook is about.                *)
LEMMA DrivesOwnPaymentStep ==
  TypeInv /\ OwnInv /\ WebhookInv /\ [Next]_vars => DrivesOwnPayment'
<1> SUFFICES ASSUME TypeInv, OwnInv, WebhookInv, [Next]_vars
             PROVE  DrivesOwnPayment'
  OBVIOUS
<1> DEFINE Named(t, k) == t # Null /\ t.gatewayTxnId # Null =>
                            /\ t.gatewayTxnId[1] = k
                            /\ t.currentState \in {"SUCCESS", "RECONCILED"}
<1>0. \A k \in Keys : Named(txns[k], k)
  BY DEF WebhookInv, DrivesOwnPayment
<1>1. ASSUME NEW k \in Keys
      PROVE  Named(txns'[k], k)
  <2>1. CASE txns'[k] = txns[k]
    BY <1>0, <2>1
  <2>2. ASSUME NEW g \in Gateways, txns'[k] = NewTransaction(g)
        PROVE  Named(txns'[k], k)
    BY <2>2 DEF NewTransaction
  <2>3. ASSUME NEW to, NEW meta, EvidentTransition(k, to, meta),
               to \in VALID_TRANSITIONS[txns[k].currentState],
               txns[k] \in Transaction, txns[k] # Null,
               txns'[k] = Applied(txns[k], to, meta)
        PROVE  Named(txns'[k], k)
    <3>1. /\ txns'[k].currentState = to
          /\ txns'[k].gatewayTxnId = IF meta.gatewayTxnId # Null THEN meta.gatewayTxnId
                                                                 ELSE txns[k].gatewayTxnId
      BY <2>3 DEF Applied
    <3>2. CASE to = "SUCCESS"
      <4>1. meta.gatewayTxnId = <<k, meta.gateway>> /\ meta.gateway \in Gateways
        BY <2>3, <3>2 DEF EvidentTransition
      <4>2. meta.gatewayTxnId \in GatewayTxnIds
        BY <4>1 DEF GatewayTxnIds
      <4> QED
        BY <3>1, <3>2, <4>1, <4>2, NullAssumption
    <3>3. CASE to # "SUCCESS"
      <4>1. txns'[k].gatewayTxnId = txns[k].gatewayTxnId
        BY <2>3, <3>1, <3>3 DEF EvidentTransition
      <4>2. txns[k].currentState \in {"SUCCESS", "RECONCILED"} => to = "RECONCILED"
        BY <2>3 DEF VALID_TRANSITIONS, TransactionState
      <4> QED
        BY <1>0, <2>3, <3>1, <4>1, <4>2
    <3> QED
      BY <3>2, <3>3
  <2> HIDE DEF Named
  <2> QED
    BY <2>1, <2>2, <2>3, RowStep
<1>2. /\ worker'.at \in {"lookup", "drive"} => worker'.event.gatewayTxnId # Null
      /\ worker'.at = "drive" => worker'.key = worker'.event.charge[1]
  <2>0. worker \in [at : {"poll", "load", "lookup", "drive", "mark"},
                    event : Events \cup {Null}, key : Keys \cup {Null},
                    state : TransactionState \cup {Null}]
    BY DEF TypeInv, TypeOK, ReconTypeOK
  <2>1. CASE worker' = worker
    BY <2>1 DEF WebhookInv, DrivesOwnPayment
  <2>2. CASE worker' = Polling \/ \E e \in Events : Pop(e)
    <3>1. ASSUME NEW e \in Events, Pop(e)
          PROVE  worker'.at = "load"
      BY <3>1 DEF Pop, Polling
    <3>2. worker'.at \in {"poll", "load"}
      BY <2>2, <3>1 DEF Polling
    <3> QED
      BY <3>2
  <2>3. CASE LoadEvent
    <3>1. \/ worker' = Polling
          \/ worker' = [worker EXCEPT !.at = "mark"]
          \/ worker' = [worker EXCEPT !.at = "lookup"] /\ worker.event.gatewayTxnId # Null
      BY <2>3 DEF LoadEvent
    <3> QED
      BY <2>0, <3>1 DEF Polling
  <2>4. CASE LookUp
    <3>1. worker.at = "lookup" /\ worker.event \in Events /\ worker.event.gatewayTxnId # Null
      BY <2>4, WorkerEvent DEF LookUp, WebhookInv, DrivesOwnPayment
    <3>2. worker.event.charge = worker.event.gatewayTxnId
          /\ worker.event.idempotencyKey \in {worker.event.charge[1], Null}
      BY <3>1, EventsAssumption
    <3>3. \A k \in Matches(worker.event) : k = worker.event.charge[1]
      BY <1>0, <3>1, <3>2, NullAssumption DEF Matches
    <3>4. \/ worker' = [worker EXCEPT !.at = "mark"]
          \/ \E k \in Matches(worker.event) :
               worker' = [worker EXCEPT !.at = "drive", !.key = k,
                                        !.state = txns[k].currentState]
      BY <2>4 DEF LookUp
    <3> QED
      BY <2>0, <3>1, <3>3, <3>4
  <2>5. CASE DriveUp
    <3>1. \/ worker' = Polling
          \/ worker.at = "drive" /\ worker' = [worker EXCEPT !.state = NextUp(worker.state)]
      BY <2>5 DEF DriveUp
    <3> QED
      BY <2>0, <3>1 DEF Polling, WebhookInv, DrivesOwnPayment
  <2>6. CASE DriveDone
    BY <2>0, <2>6 DEF DriveDone
  <2> QED
    BY <2>1, <2>2, <2>3, <2>4, <2>5, <2>6, WorkerMoves
<1> QED
  BY <1>1, <1>2 DEF DrivesOwnPayment

(* The creation is logged once and for all.                                *)
LEMMA CreationStays ==
  ASSUME TypeInv, [Next]_vars
  PROVE  creationLogged \subseteq creationLogged'
BY StepUsesLedger DEF LedgerNext, ledgerVars, Insert, LogCreation, Transition

(* The creation of a row is logged before anything else about it.          *)
LEMMA CreationLoggedStep ==
  TypeInv /\ OwnInv /\ WebhookInv /\ [Next]_vars => CreationLogged'
<1> SUFFICES ASSUME TypeInv, OwnInv, WebhookInv, [Next]_vars
             PROVE  CreationLogged'
  OBVIOUS
<1>0. creationLogged \subseteq creationLogged'
  BY CreationStays
<1>1. ASSUME NEW q \in Requests, req'[q].at \in PastInsert \ {"logcreation"}
      PROVE  req'[q].key \in creationLogged'
  <2>1. CASE req'[q] = req[q]
    BY <1>0, <1>1, <2>1 DEF WebhookInv, CreationLogged
  <2>2. ASSUME RequestEffect(q)
        PROVE  req'[q].key \in creationLogged'
    <3>1. CASE Logs(q)
      BY <3>1 DEF Logs, Moves, LogCreation
    <3>2. CASE ~Logs(q)
      <4>1. req[q].at \in PastInsert \ {"logcreation"} /\ req'[q].key = req[q].key
        BY <1>1, <2>2, <3>2
           DEF RequestEffect, Leaves, Ranks, Inserts, Routes, Processes, Calls, Settles,
               Succeeds, Retries, GivesUp, Moves, PastInsert
      <4> QED
        BY <1>0, <4>1 DEF WebhookInv, CreationLogged
    <3> QED
      BY <3>1, <3>2
  <2> QED
    BY <1>1, <2>1, <2>2, StepEffect DEF RequestEffect, WorkerEffect, NoEffect, PastInsert
<1>2. ASSUME NEW k \in Keys, NEW g \in Gateways, calls'[<<k, g>>] > 0
      PROVE  k \in creationLogged'
  <2>1. ASSUME calls[<<k, g>>] > 0
        PROVE  k \in creationLogged'
    BY <1>0, <2>1 DEF WebhookInv, CreationLogged
  <2>2. ASSUME NEW r \in Requests, Calls(r)
        PROVE  k \in creationLogged'
    <3>1. PICK d \in GatewayTxnIds :
            /\ d = <<req[r].key, req[r].gateway>>
            /\ calls' = [calls EXCEPT ![d] = calls[d] + 1]
            /\ calls \in [GatewayTxnIds -> Nat]
      BY <2>2, CallsTyped
    <3>2. req[r].key \in creationLogged
      BY <2>2 DEF Calls, Moves, WebhookInv, CreationLogged, PastInsert
    <3>3. <<k, g>> \in GatewayTxnIds
      BY DEF GatewayTxnIds
    <3>4. CASE <<k, g>> = d
      BY <1>0, <3>1, <3>2, <3>4
    <3>5. CASE <<k, g>> # d
      BY <1>2, <2>1, <3>1, <3>3, <3>5
    <3> QED
      BY <3>4, <3>5
  <2> QED
    BY <1>2, <2>1, <2>2, GatewayEffect DEF gatewayVars, GatewayStep, Decide, Reverse
<1> QED
  BY <1>1, <1>2 DEF CreationLogged

(* At the start there are no webhooks and no rows.                         *)
LEMMA WebhookInvInit == Init => WebhookInv
<1> SUFFICES ASSUME Init PROVE WebhookInv
  OBVIOUS
<1>1. /\ \A r \in Requests : req[r].at = "idle"
      /\ \A k \in Keys, g \in Gateways : <<k, g>> \in GatewayTxnIds
      /\ worker.event = Null /\ worker.at = "poll"
  BY DEF Init, RequestInit, Idle, ReconInit, Polling, GatewayTxnIds
<1>2. \A e \in Events : ~Received(e)
  BY <1>1, EventsAssumption DEF Received, UnderWay, Init, RedisInit, ReconInit
<1>3. WebhooksHaveCharges
  BY <1>2 DEF WebhooksHaveCharges, Init, GatewayInit
<1>4. DrivesOwnPayment
  BY <1>1 DEF DrivesOwnPayment, Init, LedgerInit
<1>5. CreationLogged
  BY <1>1 DEF CreationLogged, PastInsert, Init, GatewayInit
<1> QED
  BY <1>3, <1>4, <1>5 DEF WebhookInv

(* The three parts are kept together.                                      *)
LEMMA WebhookInvStep ==
  TypeInv /\ OwnInv /\ WebhookInv /\ [Next]_vars => WebhookInv'
BY WebhooksHaveChargesStep, DrivesOwnPaymentStep, CreationLoggedStep DEF WebhookInv

(* Webhooks report on charges that were requested, and the worker moves    *)
(* the payment of the charge its webhook reports on, found by id or key.   *)
THEOREM WebhookOwnership == Spec => []WebhookInv
BY WebhookInvInit, WebhookInvStep, PaymentTypes, Ownership, PTL DEF Spec

(* CREATION FIRST.  No transition of a transaction is recorded before its  *)
(* "transaction created" entry, neither by create() nor by the worker.     *)
THEOREM CreationIsLoggedFirst == Spec => []CreationLoggedFirst
<1>1. Init => CreationLoggedFirst
  BY DEF Init, LedgerInit, CreationLoggedFirst
<1>2. TypeInv /\ OwnInv /\ WebhookInv /\ CreationLoggedFirst /\ [Next]_vars
        => CreationLoggedFirst'
  <2> SUFFICES ASSUME TypeInv, OwnInv, WebhookInv, CreationLoggedFirst, [Next]_vars,
                      NEW k \in Keys, audit'[k] # << >>
               PROVE  k \in creationLogged'
    BY DEF CreationLoggedFirst
  <2>1. k \in creationLogged
    BY RowStep DEF CreationLoggedFirst, EvidentTransition
  <2> QED
    BY <2>1, CreationStays
<1> QED
  BY <1>1, <1>2, PaymentTypes, Ownership, WebhookOwnership, PTL DEF Spec

-----------------------------------------------------------------------------
(* SUCCESS IS BACKED.  A gateway's yes is never undone by another call, as *)
(* there is none.                                                          *)
LEMMA AcceptedStays ==
  ASSUME TypeInv, OwnInv, WebhookInv, [Next]_vars, NEW c \in GatewayTxnIds, WasAccepted(c)
  PROVE  WasAccepted(c)'
<1>1. ASSUME NEW r \in Requests, Calls(r)
      PROVE  WasAccepted(c)'
  <2>1. PICK d \in GatewayTxnIds :
          /\ d = <<req[r].key, req[r].gateway>>
          /\ charges' = [charges EXCEPT ![d] = "pending"]
          /\ charges \in [GatewayTxnIds -> ChargeStatus]
    BY <1>1, CallsTyped
  <2>2. calls[d] = 0
    BY <1>1, <2>1 DEF OwnInv, FailoverOrder, FallbacksUncalled, Calls, Moves, PastInsert, Untried
  <2>3. charges[d] = "none"
    BY <2>2 DEF WebhookInv, WebhooksHaveCharges
  <2> QED
    BY <2>1, <2>3 DEF WasAccepted
<1>2. CASE UNCHANGED gatewayVars
  BY <1>2 DEF WasAccepted, gatewayVars
<1>3. CASE GatewayStep
  BY <1>3 DEF GatewayStep, Decide, Reverse, WasAccepted, TypeInv, TypeOK, GatewayTypeOK
<1> QED
  BY <1>1, <1>2, <1>3, GatewayEffect

(* Evidence of success is evidence of an accepted charge.                  *)
LEMMA AcceptedEvidenceStep ==
  ASSUME OnlySuccessEvents, TypeInv, OwnInv, WebhookInv, AcceptedEvidence, [Next]_vars
  PROVE  AcceptedEvidence'
<1>1. ASSUME NEW e \in Events, Received(e)'
      PROVE  WasAccepted(e.charge)'
  <2>1. WasAccepted(e.charge)
    BY <1>1, ReceivedFrom DEF AcceptedEvidence, MaySend, OnlySuccessEvents
  <2> QED
    BY <2>1, AcceptedStays, SentHasCharge
<1>2. ASSUME NEW q \in Requests, req'[q].at = "succeed"
      PROVE  WasAccepted(<<req[q].key, req[q].gateway>>)'
             /\ req'[q].key = req[q].key /\ req'[q].gateway = req[q].gateway
  <2>1. \/ req'[q] = req[q] /\ req[q].at = "succeed"
        \/ Settles(q) /\ Moves(q, "await", "succeed")
    <3>1. ASSUME RequestEffect(q)
          PROVE  Settles(q) /\ Moves(q, "await", "succeed")
      BY <1>2, <3>1
         DEF RequestEffect, Leaves, Ranks, Inserts, Logs, Routes, Processes, Calls, Settles,
             Succeeds, Retries, GivesUp, Moves, PastInsert
    <3> QED
      BY <1>2, <3>1, StepEffect DEF RequestEffect, WorkerEffect, NoEffect
  <2>2. /\ WasAccepted(<<req[q].key, req[q].gateway>>)
        /\ req[q].at \in PastInsert
        /\ req'[q].key = req[q].key /\ req'[q].gateway = req[q].gateway
    BY <2>1 DEF AcceptedEvidence, Settles, Moves, KeepsGateways, PastInsert
  <2>3. <<req[q].key, req[q].gateway>> \in GatewayTxnIds
    BY <2>2 DEF TypeInv, LocalsOK, PastInsert, GatewayTxnIds
  <2> QED
    BY <2>2, <2>3, AcceptedStays
<1> QED
  BY <1>1, <1>2 DEF AcceptedEvidence, WasAccepted

BackedInv == AcceptedEvidence /\ SuccessIsBacked /\ ColumnsAgree

(* A row in SUCCESS or RECONCILED names a gateway that accepted.           *)
LEMMA BackedInvStep ==
  ASSUME OnlySuccessEvents, TypeInv, OwnInv, WebhookInv, BackedInv, [Next]_vars
  PROVE  BackedInv'
<1> DEFINE Backed(t, k) ==
             /\ t # Null /\ t.currentState \in {"SUCCESS", "RECONCILED"} =>
                  WasAccepted(<<k, t.selectedGateway>>)
             /\ t # Null /\ t.gatewayTxnId # Null =>
                  \/ t.gatewayTxnId = <<k, t.selectedGateway>>
                  \/ /\ t.currentState = "RECONCILED"
                     /\ WasAccepted(t.gatewayTxnId)
                     /\ WasAccepted(<<k, t.selectedGateway>>)
<1>0. /\ \A k \in Keys : Backed(txns[k], k)
      /\ AcceptedEvidence
  BY DEF BackedInv, SuccessIsBacked, ColumnsAgree
<1>1. \A c \in GatewayTxnIds : WasAccepted(c) => WasAccepted(c)'
  BY AcceptedStays
<1>2. ASSUME NEW k \in Keys, txns[k] # Null
      PROVE  /\ txns[k] \in Transaction
             /\ <<k, txns[k].selectedGateway>> \in GatewayTxnIds
             /\ txns[k].gatewayTxnId # Null => txns[k].gatewayTxnId \in GatewayTxnIds
  BY <1>2 DEF TypeInv, TypeOK, LedgerTypeOK, Transaction, GatewayTxnIds
<1>3. ASSUME NEW k \in Keys
      PROVE  Backed(txns[k], k)'
  <2>1. CASE txns'[k] = txns[k]
    BY <1>0, <1>1, <1>2, <2>1
  <2>2. ASSUME NEW g \in Gateways, txns'[k] = NewTransaction(g)
        PROVE  Backed(txns[k], k)'
    BY <2>2 DEF NewTransaction
  <2>3. ASSUME NEW to, NEW meta, EvidentTransition(k, to, meta),
               to \in VALID_TRANSITIONS[txns[k].currentState],
               txns[k] \in Transaction, txns[k] # Null,
               txns'[k] = Applied(txns[k], to, meta)
        PROVE  Backed(txns[k], k)'
    <3>0. /\ meta.gateway \in Gateways /\ meta.gateway # Null
          /\ <<k, meta.gateway>> \in GatewayTxnIds /\ <<k, meta.gateway>> # Null
          /\ to = "SUCCESS" => meta.gatewayTxnId = <<k, meta.gateway>>
          /\ to # "SUCCESS" => meta.gatewayTxnId = Null
          /\ to \in {"SUCCESS", "RECONCILED"} => WasAccepted(<<k, meta.gateway>>)'
      BY <1>0, <1>1, <2>3, NullAssumption DEF EvidentTransition, GatewayTxnIds
    <3>1. /\ txns'[k].currentState = to
          /\ txns'[k].selectedGateway = meta.gateway
          /\ txns'[k].gatewayTxnId = IF to = "SUCCESS" THEN <<k, meta.gateway>>
                                                       ELSE txns[k].gatewayTxnId
      BY <2>3, <3>0 DEF Applied
    <3>2. to \notin {"SUCCESS", "RECONCILED"} => txns[k].gatewayTxnId = Null
      <4>1. to \in {"SUCCESS", "RECONCILED"} \/ txns[k].currentState \notin {"SUCCESS", "RECONCILED"}
        BY <2>3 DEF VALID_TRANSITIONS, TransactionState
      <4> QED
        BY <2>3, <4>1 DEF WebhookInv, DrivesOwnPayment
    <3>3. to = "RECONCILED" => txns[k].currentState = "SUCCESS"
      BY <2>3 DEF VALID_TRANSITIONS, TransactionState, Transaction
    <3>4. to = "RECONCILED" /\ txns[k].gatewayTxnId # Null => WasAccepted(txns[k].gatewayTxnId)'
      <4> SUFFICES ASSUME to = "RECONCILED", txns[k].gatewayTxnId # Null
                   PROVE  charges'[txns'[k].gatewayTxnId] \in {"accepted", "reversed"}
        BY DEF WasAccepted
      <4>1. PICK c \in GatewayTxnIds : c = txns[k].gatewayTxnId
        BY <1>2, <2>3
      <4>2. WasAccepted(c)
        BY <1>0, <2>3, <3>3, <4>1
      <4> QED
        BY <1>1, <3>1, <4>1, <4>2 DEF WasAccepted
    <3> QED
      BY <3>0, <3>1, <3>2, <3>4
  <2> HIDE DEF Backed
  <2> QED
    BY <2>1, <2>2, <2>3, RowStep
<1>4. SuccessIsBacked' /\ ColumnsAgree'
  BY <1>3 DEF SuccessIsBacked, ColumnsAgree
<1> QED
  BY <1>0, <1>4, AcceptedEvidenceStep DEF BackedInv

(* At the start there is nothing to back.                                  *)
LEMMA BackedInvInit == Init => BackedInv
<1> SUFFICES ASSUME Init PROVE BackedInv
  OBVIOUS
<1>1. /\ \A r \in Requests : req[r].at = "idle"
      /\ worker.event = Null
  BY DEF Init, RequestInit, Idle, ReconInit, Polling
<1>2. \A e \in Events : ~Received(e)
  BY <1>1, EventsAssumption DEF Received, UnderWay, Init, RedisInit, ReconInit
<1> QED
  BY <1>1, <1>2 DEF BackedInv, AcceptedEvidence, SuccessIsBacked, ColumnsAgree, Init, LedgerInit

(* The invariant holds on every behaviour in which gateways send only      *)
(* webhooks that confirm a charge.                                         *)
LEMMA BackedInvariant ==
  ASSUME OnlySuccessEvents
  PROVE  Spec => []BackedInv
<1>1. TypeInv /\ OwnInv /\ WebhookInv /\ BackedInv /\ [Next]_vars => BackedInv'
  BY BackedInvStep
<1> QED
  BY <1>1, BackedInvInit, PaymentTypes, Ownership, WebhookOwnership, PTL DEF Spec

(* SUCCESS IS BACKED.  As long as gateways send only webhooks that confirm *)
(* a charge (driveToReconciled() looks at no type, so a webhook about a    *)
(* failure drives the transaction all the same), a transaction is SUCCESS  *)
(* or RECONCILED only on a gateway that accepted its charge.               *)
THEOREM SuccessHasCharge ==
  ASSUME OnlySuccessEvents
  PROVE  Spec => []SuccessIsBacked
<1>1. BackedInv => SuccessIsBacked
  BY DEF BackedInv
<1> QED
  BY <1>1, BackedInvariant, PTL

(* ONE ROW, TWO GATEWAYS.  Under the same condition selectedGateway and    *)
(* gatewayTxnId, which the payment request and the worker both write,      *)
(* disagree only where two gateways accepted a charge of the payment.      *)
THEOREM ColumnsNameCharges ==
  ASSUME OnlySuccessEvents
  PROVE  Spec => []ColumnsAgree
<1>1. BackedInv => ColumnsAgree
  BY DEF BackedInv
<1> QED
  BY <1>1, BackedInvariant, PTL

-----------------------------------------------------------------------------
(* A PROCESSED EVENT HAS DONE ITS WORK.  A payment at rest stays at rest.  *)
LEMMA RestStays ==
  ASSUME TypeInv, OwnInv, WebhookInv, [Next]_vars, NEW k \in Keys, AtRest(k)
  PROVE  AtRest(k)'
<1>1. VALID_TRANSITIONS[txns[k].currentState] = {} /\ txns[k] # Null
  BY DEF AtRest, Terminal, VALID_TRANSITIONS, TransactionState
<1>2. txns'[k] = txns[k]
  BY <1>1, RowStep
<1> QED
  BY <1>2 DEF AtRest

(* The payment of a webhook has a row when the worker looks for it.        *)
LEMMA WebhookHasRow ==
  ASSUME TypeInv, OwnInv, WebhookInv, NEW e \in Events, Received(e)
  PROVE  txns[e.charge[1]] # Null
<1>1. calls[e.charge] > 0
  BY DEF WebhookInv, WebhooksHaveCharges
<1>2. PICK k \in Keys, g \in Gateways : e.charge = <<k, g>> /\ k = e.charge[1]
  BY SentHasCharge
<1>3. calls[<<k, g>>] > 0
  BY <1>1, <1>2
<1>4. txns[k] # Null
  BY <1>3 DEF OwnInv, OneOwner
<1> QED
  BY <1>2, <1>4

(* When the worker is about to mark its event, its payment is at rest.     *)
LEMMA MarksSettledStep ==
  ASSUME TypeInv, OwnInv, WebhookInv, MarksSettled, [Next]_vars
  PROVE  MarksSettled'
<1>0. /\ worker \in [at : {"poll", "load", "lookup", "drive", "mark"},
                     event : Events \cup {Null}, key : Keys \cup {Null},
                     state : TransactionState \cup {Null}]
      /\ LedgerTypeOK /\ WorkerOK
  BY DEF TypeInv, TypeOK, ReconTypeOK
<1>1. \A k \in Keys : AtRest(k) => txns'[k] # Null /\ txns'[k].currentState \in Terminal
  BY RestStays DEF AtRest
<1>2. ASSUME NEW e \in Events, e.idempotencyKey # Null
      PROVE  e.idempotencyKey \in Keys /\ e.idempotencyKey = e.charge[1]
  <2>1. e.idempotencyKey = e.charge[1]
    BY <1>2, EventsAssumption
  <2> QED
    BY <2>1, SentHasCharge
<1>3. CASE worker' = worker
  <2>1. ASSUME worker.at = "drive", worker.state \in Terminal
        PROVE  worker.key \in Keys /\ AtRest(worker.key)
    BY <1>0, <2>1 DEF MarksSettled, WorkerOK
  <2>2. ASSUME worker.at = "mark", worker.event.gatewayTxnId # Null,
               worker.event.idempotencyKey # Null
        PROVE  worker.event.idempotencyKey \in Keys /\ AtRest(worker.event.idempotencyKey)
    BY <1>2, <2>2, WorkerEvent DEF MarksSettled
  <2> QED
    BY <1>1, <1>3, <2>1, <2>2 DEF MarksSettled, AtRest
<1>4. CASE worker' = Polling \/ \E e \in Events : Pop(e)
  <2>1. ASSUME NEW e \in Events, Pop(e)
        PROVE  worker'.at = "load"
    BY <2>1 DEF Pop, Polling
  <2>2. worker'.at \in {"poll", "load"}
    BY <1>4, <2>1 DEF Polling
  <2> QED
    BY <2>2 DEF MarksSettled
<1>5. CASE LoadEvent
  <2>1. \/ worker'.at \in {"poll", "lookup"}
        \/ worker'.at = "mark" /\ worker'.event.gatewayTxnId = Null
    <3>1. \/ worker' = Polling
          \/ worker' = [worker EXCEPT !.at = "mark"] /\ worker.event.gatewayTxnId = Null
          \/ worker' = [worker EXCEPT !.at = "lookup"]
      BY <1>5 DEF LoadEvent
    <3> QED
      BY <1>0, <3>1 DEF Polling
  <2> QED
    BY <2>1 DEF MarksSettled
<1>6. CASE LookUp
  <2> DEFINE e == worker.event
  <2>1. e \in Events /\ txns' = txns
    BY <1>6, WorkerEvent DEF LookUp, ledgerVars
  <2>2. txns[e.charge[1]] # Null
    BY <2>1, WebhookHasRow DEF Received, UnderWay
  <2>3. \/ Matches(e) = {} /\ worker' = [worker EXCEPT !.at = "mark"]
        \/ \E k \in Matches(e) :
             worker' = [worker EXCEPT !.at = "drive", !.key = k,
                                      !.state = txns[k].currentState]
    BY <1>6 DEF LookUp
  <2>4. CASE Matches(e) = {} /\ worker' = [worker EXCEPT !.at = "mark"]
    <3>1. e.idempotencyKey = Null
      BY <1>2, <2>1, <2>2, <2>4 DEF Matches
    <3>2. worker'.at = "mark" /\ worker'.event = e
      BY <1>0, <2>4
    <3> QED
      BY <3>1, <3>2 DEF MarksSettled
  <2>5. ASSUME NEW k \in Matches(e),
               worker' = [worker EXCEPT !.at = "drive", !.key = k,
                                        !.state = txns[k].currentState]
        PROVE  MarksSettled'
    <3>1. worker'.at = "drive" /\ worker'.key = k /\ worker'.state = txns[k].currentState
      BY <1>0, <2>5
    <3>2. txns[k] # Null
      BY DEF Matches
    <3> QED
      BY <2>1, <3>1, <3>2 DEF MarksSettled, AtRest
  <2> QED
    BY <2>3, <2>4, <2>5
<1>7. CASE DriveUp
  <2> DEFINE to == NextUp(worker.state)
             meta == UpMeta(worker.event, to)
  <2>1. \/ worker' = Polling
        \/ /\ worker.at = "drive" /\ worker.state \notin Terminal
           /\ Transition(worker.key, to, meta) /\ worker' = [worker EXCEPT !.state = to]
    BY <1>7 DEF DriveUp
  <2>2. CASE worker' = Polling
    BY <1>4, <2>2
  <2>3. CASE /\ worker.at = "drive" /\ worker.state \notin Terminal
             /\ Transition(worker.key, to, meta) /\ worker' = [worker EXCEPT !.state = to]
    <3>1. /\ worker.key \in Keys /\ worker.state \in TransactionState \ Terminal
          /\ worker.event \in Events
      BY <1>0, <2>3, WorkerEvent DEF WorkerOK
    <3>2. to \in TransactionState /\ meta \in Metadata
      BY <3>1, NextUpAllowed, UpMetaTyped
    <3>3. txns'[worker.key] # Null /\ txns'[worker.key].currentState = to
      BY <1>0, <2>3, <3>1, <3>2, TransitionKeepsRows, NullAssumption
    <3>4. worker'.at = "drive" /\ worker'.key = worker.key /\ worker'.state = to
      BY <1>0, <2>3
    <3> HIDE DEF to, meta
    <3> QED
      BY <3>3, <3>4 DEF MarksSettled, AtRest
  <2> QED
    BY <2>1, <2>2, <2>3
<1>8. CASE DriveDone
  <2>1. /\ worker.at = "drive" /\ worker.state \in Terminal /\ txns' = txns
        /\ worker.event \in Events /\ worker.key \in Keys
    BY <1>0, <1>8, WorkerEvent DEF DriveDone, ledgerVars, WorkerOK
  <2>2. worker.key = worker.event.charge[1] /\ AtRest(worker.key)
    BY <2>1 DEF WebhookInv, DrivesOwnPayment, MarksSettled
  <2>3. worker'.at = "mark" /\ worker'.event = worker.event
    BY <1>0, <1>8 DEF DriveDone
  <2> QED
    BY <1>2, <2>1, <2>2, <2>3 DEF MarksSettled, AtRest
<1> QED
  BY <1>3, <1>4, <1>5, <1>6, <1>7, <1>8, WorkerMoves

(* An event is marked only by the worker that is done with it.             *)
LEMMA ProcessedFrom ==
  ASSUME TypeInv, [Next]_vars, NEW e \in Events, eventRow'[e] = "processed"
  PROVE  eventRow[e] = "processed" \/ (worker.at = "mark" /\ worker.event = e)
<1>0. eventRow \in [Events -> {"none", "stored", "processed"}]
  BY DEF TypeInv, TypeOK, ReconTypeOK
<1>1. CASE \E r \in Requests : Arrive(r) \/ ServeRequest(r)
  BY <1>1, RequestsLeaveWebhooks DEF reconVars
<1>2. CASE \E f \in Events : Webhook(f)
  BY <1>0, <1>2 DEF Webhook, StoreEvent, PushEvent, AckDuplicate
<1>3. CASE Reconcile
  BY <1>0, <1>3 DEF Reconcile, WorkerStep, Pop, LoadEvent, LookUp, DriveUp, DriveDone,
                    MarkProcessed
<1>4. CASE GatewayActs \/ DatabaseFault \/ KeyExpires \/ RedisFault \/ CrashRestart
  BY <1>4 DEF GatewayActs, DatabaseFault, WorkerError, KeyExpires, RedisFault, PushFails,
              CrashRestart, ReconCrash, reconVars
<1>5. CASE UNCHANGED vars
  BY <1>5 DEF vars, reconVars
<1> QED
  BY <1>1, <1>2, <1>3, <1>4, <1>5 DEF Next

ProcessedInv == MarksSettled /\ ProcessedSettles

(* A marked event leaves its payment at rest, and at rest it stays.        *)
LEMMA ProcessedInvStep ==
  ASSUME TypeInv, OwnInv, WebhookInv, ProcessedInv, [Next]_vars
  PROVE  ProcessedInv'
<1>1. MarksSettled'
  BY MarksSettledStep DEF ProcessedInv
<1>2. ASSUME NEW e \in Events, NEW k \in Keys, eventRow'[e] = "processed",
             e.gatewayTxnId # Null, e.idempotencyKey = k
      PROVE  AtRest(k)'
  <2>1. AtRest(k)
    BY <1>2, ProcessedFrom, NullAssumption
       DEF ProcessedInv, ProcessedSettles, MarksSettled, AtRest
  <2> QED
    BY <2>1, RestStays
<1> QED
  BY <1>1, <1>2 DEF ProcessedInv, ProcessedSettles, AtRest

(* A PROCESSED EVENT HAS DONE ITS WORK.  When a webhook that carries id    *)
(* and key of its payment is marked as processed, the payment is FAILED or *)
(* RECONCILED, in spite of errors, lost races and crashes of the worker.   *)
THEOREM ProcessedIsSettled == Spec => []ProcessedSettles
<1>1. Init => ProcessedInv
  BY DEF Init, ReconInit, Polling, ProcessedInv, MarksSettled, ProcessedSettles
<1>2. TypeInv /\ OwnInv /\ WebhookInv /\ ProcessedInv /\ [Next]_vars => ProcessedInv'
  BY ProcessedInvStep
<1>3. ProcessedInv => ProcessedSettles
  BY DEF ProcessedInv
<1> QED
  BY <1>1, <1>2, <1>3, PaymentTypes, Ownership, WebhookOwnership, PTL DEF Spec

-----------------------------------------------------------------------------
(* HANDLED ONCE.  A webhook moves on from ingest() to the queue and to the *)
(* worker, and is in one of these places at most.                          *)
QueuedAt(e, b, i) == b \in Backends /\ i \in DOMAIN queue[b] /\ queue[b][i] = e

OneCopyOf(e) ==
  /\ \A a, b, i, j : QueuedAt(e, a, i) /\ QueuedAt(e, b, j) => a = b /\ i = j
  /\ e \in ingesting => worker.event # e /\ \A b, i : ~QueuedAt(e, b, i)
  /\ worker.event = e => \A b, i : ~QueuedAt(e, b, i)
  /\ eventRow[e] # "stored" =>
       e \notin ingesting /\ worker.event # e /\ \A b, i : ~QueuedAt(e, b, i)

(* Event by event.                                                         *)
LEMMA OneCopyIsOf == OneCopy <=> \A e \in Events : OneCopyOf(e)
BY DEF OneCopy, OneCopyOf, QueuedAt, UnderWay

(* An event moves from ingest() to a queue to the worker, and is never in  *)
(* two of these places.                                                    *)
LEMMA OneCopyOfStep ==
  ASSUME TypeInv, [Next]_vars, NEW e \in Events, OneCopyOf(e)
  PROVE  OneCopyOf(e)'
<1>0. /\ queue \in [Backends -> Seq(Events)] /\ Active \in Backends
      /\ eventRow \in [Events -> {"none", "stored", "processed"}]
  BY DEF TypeInv, TypeOK, RedisTypeOK, ReconTypeOK, Active, Backends
<1>1. ASSUME \A b, i : QueuedAt(e, b, i)' => QueuedAt(e, b, i),
             e \in ingesting' => e \in ingesting,
             worker'.event \in {worker.event, Null},
             eventRow'[e] = eventRow[e]
      PROVE  OneCopyOf(e)'
  BY <1>1, EventsAssumption DEF OneCopyOf
<1>2. queue' = queue => \A b, i : QueuedAt(e, b, i)' => QueuedAt(e, b, i)
  BY DEF QueuedAt
<1>3. CASE \E r \in Requests : Arrive(r) \/ ServeRequest(r)
  BY <1>1, <1>2, <1>3, RequestsLeaveWebhooks DEF reconVars
<1>4. ASSUME NEW f \in Events, StoreEvent(f)
      PROVE  OneCopyOf(e)'
  <2>1. /\ eventRow[f] = "none" /\ eventRow' = [eventRow EXCEPT ![f] = "stored"]
        /\ ingesting' = ingesting \cup {f} /\ worker' = worker /\ queue' = queue
    BY <1>4 DEF StoreEvent, redisVars
  <2>2. CASE e # f
    BY <1>0, <1>1, <1>2, <2>1, <2>2
  <2>3. CASE e = f
    <3>1. eventRow'[e] = "stored" /\ worker'.event # e /\ \A b, i : ~QueuedAt(e, b, i)'
      BY <1>0, <1>2, <2>1, <2>3 DEF OneCopyOf
    <3> QED
      BY <3>1 DEF OneCopyOf
  <2> QED
    BY <2>2, <2>3
<1>5. ASSUME NEW f \in Events, PushEvent(f)
      PROVE  OneCopyOf(e)'
  <2> DEFINE q == queue[Active]
  <2>1. PICK s : s \in {<<f>>, Append(q, f)} /\ queue' = [queue EXCEPT ![Active] = s]
    BY <1>5 DEF PushEvent, Lpush
  <2>2. /\ f \in ingesting /\ ingesting' = ingesting \ {f}
        /\ worker' = worker /\ eventRow' = eventRow
    BY <1>5 DEF PushEvent
  <2>3. q \in Seq(Events)
    BY <1>0
  <2> HIDE DEF q
  <2>4. PICK n : \A i \in DOMAIN s : (i = n /\ s[i] = f) \/ (i \in DOMAIN q /\ s[i] = q[i])
    <3>1. CASE s = <<f>>
      BY <3>1
    <3>2. CASE s = Append(q, f)
      <4>1. \A i \in DOMAIN s : (i = Len(q) + 1 /\ s[i] = f) \/ (i \in DOMAIN q /\ s[i] = q[i])
        BY <2>3, <3>2
      <4> QED
        BY <4>1
    <3> QED
      BY <2>1, <3>1, <3>2
  <2>5. ASSUME NEW b, NEW i, QueuedAt(e, b, i)'
        PROVE  QueuedAt(e, b, i) \/ (e = f /\ b = Active /\ i = n)
    <3>1. b \in Backends /\ i \in DOMAIN queue'[b] /\ queue'[b][i] = e
      BY <2>5 DEF QueuedAt
    <3>2. CASE b = Active
      <4>1. queue'[b] = s
        BY <1>0, <2>1, <3>2
      <4> QED
        BY <2>4, <3>1, <3>2, <4>1 DEF QueuedAt, q
    <3>3. CASE b # Active
      BY <1>0, <2>1, <3>1, <3>3 DEF QueuedAt
    <3> QED
      BY <3>2, <3>3
  <2>6. CASE e # f
    BY <1>1, <2>2, <2>5, <2>6
  <2>7. CASE e = f
    <3>1. \A b, i : ~QueuedAt(e, b, i)
      BY <2>2, <2>7 DEF OneCopyOf
    <3>2. \A b, i : QueuedAt(e, b, i)' => b = Active /\ i = n
      BY <2>5, <3>1
    <3>3. worker'.event # e /\ eventRow'[e] = "stored" /\ e \notin ingesting'
      BY <2>2, <2>7 DEF OneCopyOf
    <3> QED
      BY <3>2, <3>3 DEF OneCopyOf
  <2> QED
    BY <2>6, <2>7
<1>6. ASSUME NEW f \in Events, Pop(f)
      PROVE  OneCopyOf(e)'
  <2> DEFINE q == queue[Active]
  <2>1. /\ q \in Seq(Events) /\ q # << >> /\ f = Head(q)
        /\ queue' = [queue EXCEPT ![Active] = Tail(q)]
        /\ worker'.event = f /\ UNCHANGED <<eventRow, ingesting>>
    BY <1>0, <1>6 DEF Pop, Brpop, Polling
  <2>2. 1 \in DOMAIN q /\ q[1] = f
    BY <2>1
  <2>3. \A i \in DOMAIN Tail(q) :
          /\ i \in Nat /\ i + 1 \in DOMAIN q /\ i + 1 # 1 /\ Tail(q)[i] = q[i + 1]
    BY <2>1
  <2> HIDE DEF q
  <2>4. QueuedAt(f, Active, 1)
    BY <1>0, <2>2 DEF QueuedAt, q
  <2>5. ASSUME NEW b, NEW i, QueuedAt(e, b, i)'
        PROVE  \/ b # Active /\ QueuedAt(e, b, i)
               \/ b = Active /\ QueuedAt(e, b, i + 1) /\ i + 1 # 1 /\ i \in Nat
    <3>1. b \in Backends /\ i \in DOMAIN queue'[b] /\ queue'[b][i] = e
      BY <2>5 DEF QueuedAt
    <3>2. CASE b = Active
      <4>1. queue'[b] = Tail(q)
        BY <1>0, <2>1, <3>2
      <4> QED
        BY <2>3, <3>1, <3>2, <4>1 DEF QueuedAt, q
    <3>3. CASE b # Active
      BY <1>0, <2>1, <3>1, <3>3 DEF QueuedAt
    <3> QED
      BY <3>2, <3>3
  <2>6. CASE e = f
    <3>1. \A b, i : ~QueuedAt(e, b, i)'
      BY <2>4, <2>5, <2>6 DEF OneCopyOf
    <3>2. e \notin ingesting' /\ eventRow'[e] = "stored"
      BY <2>1, <2>4, <2>6 DEF OneCopyOf
    <3> QED
      BY <3>1, <3>2 DEF OneCopyOf
  <2>7. CASE e # f
    <3>1. \A a, b, i, j : QueuedAt(e, a, i)' /\ QueuedAt(e, b, j)' => a = b /\ i = j
      <4> SUFFICES ASSUME NEW a, NEW b, NEW i, NEW j, QueuedAt(e, a, i)', QueuedAt(e, b, j)'
                   PROVE  a = b /\ i = j
        OBVIOUS
      <4>1. a = b /\ (a # Active => i = j) /\ (a = Active => i + 1 = j + 1 /\ i \in Nat /\ j \in Nat)
        BY <2>5 DEF OneCopyOf
      <4> QED
        BY <4>1
    <3>2. (\E b, i : QueuedAt(e, b, i)') => \E b, i : QueuedAt(e, b, i)
      BY <2>5
    <3> QED
      BY <2>1, <2>7, <3>1, <3>2 DEF OneCopyOf
  <2> QED
    BY <2>6, <2>7
<1>7. ASSUME NEW f \in Events, AckDuplicate(f) \/ PushFails(f)
      PROVE  OneCopyOf(e)'
  BY <1>1, <1>2, <1>7 DEF AckDuplicate, PushFails, redisVars
<1>8. CASE LoadEvent \/ LookUp \/ DriveUp \/ DriveDone
  <2>1. worker'.event \in {worker.event, Null}
    BY <1>8, WorkerKeepsEvent
  <2> QED
    BY <1>1, <1>2, <1>8, <2>1 DEF LoadEvent, LookUp, DriveUp, DriveDone, redisVars
<1>9. CASE MarkProcessed
  <2>1. /\ eventRow' = [eventRow EXCEPT ![worker.event] = "processed"]
        /\ worker'.event = Null /\ ingesting' = ingesting /\ queue' = queue
    BY <1>9 DEF MarkProcessed, Polling, redisVars
  <2>2. CASE worker.event # e
    BY <1>0, <1>1, <1>2, <2>1, <2>2
  <2>3. CASE worker.event = e
    <3>1. /\ e \notin ingesting' /\ worker'.event # e
          /\ \A b, i : ~QueuedAt(e, b, i)'
      BY <1>2, <2>1, <2>3, EventsAssumption DEF OneCopyOf
    <3> QED
      BY <3>1 DEF OneCopyOf
  <2> QED
    BY <2>2, <2>3
<1>10. CASE DatabaseFault
  BY <1>1, <1>2, <1>10
     DEF DatabaseFault, DatabaseError, WorkerError, redisVars, reconVars, Polling
<1>11. CASE GatewayActs \/ KeyExpires
  BY <1>1, <1>2, <1>11 DEF GatewayActs, KeyExpires, Expire, redisVars, reconVars
<1>12. CASE RedisFault
  BY <1>1, <1>2, <1>7, <1>12 DEF RedisFault, Failover, reconVars
<1>13. CASE CrashRestart
  <2>1. /\ eventRow' = eventRow /\ ingesting' = {} /\ worker'.event = Null
        /\ queue' = [queue EXCEPT !["memory"] = << >>]
    BY <1>13 DEF CrashRestart, RedisRestart, ReconCrash, Polling
  <2>2. \A b, i : QueuedAt(e, b, i)' => QueuedAt(e, b, i)
    BY <1>0, <2>1 DEF QueuedAt
  <2> QED
    BY <1>1, <2>1, <2>2
<1>14. CASE UNCHANGED vars
  BY <1>1, <1>2, <1>14 DEF vars, redisVars, reconVars
<1> QED
  BY <1>3, <1>4, <1>5, <1>6, <1>7, <1>8, <1>9, <1>10, <1>11, <1>12, <1>13, <1>14
     DEF Next, Webhook, Reconcile, WorkerStep

(* A set without two different elements is empty or a singleton.           *)
LEMMA AtMostOneElement ==
  ASSUME NEW S, \A x, y \in S : x = y
  PROVE  Cardinality(S) \in {0, 1} /\ (S = {} => Cardinality(S) = 0)
<1>1. CASE S = {}
  BY <1>1, FS_EmptySet
<1>2. CASE S # {}
  <2>1. PICK x \in S : S = {x}
    BY <1>2
  <2> QED
    BY <1>2, <2>1, FS_Singleton
<1> QED
  BY <1>1, <1>2

(* One place means at most one copy, and none of a processed event.        *)
LEMMA OneCopyCounts ==
  ASSUME NEW e \in Events, OneCopyOf(e)
  PROVE  Copies(e) <= 1 /\ (eventRow[e] = "processed" => Copies(e) = 0)
<1> DEFINE P == {p \in Backends \X (1..Cardinality(Events) + 1) :
                   p[2] \in DOMAIN queue[p[1]] /\ queue[p[1]][p[2]] = e}
<1>1. \A p \in P : p = <<p[1], p[2]>> /\ QueuedAt(e, p[1], p[2])
  BY DEF QueuedAt
<1>2. \A p, q \in P : p = q
  <2> SUFFICES ASSUME NEW p \in P, NEW q \in P
               PROVE  p = q
    OBVIOUS
  <2>1. p[1] = q[1] /\ p[2] = q[2]
    BY <1>1 DEF OneCopyOf
  <2> QED
    BY <1>1, <2>1
<1>3. (e \in ingesting \/ worker.event = e \/ eventRow[e] = "processed") => P = {}
  BY <1>1 DEF OneCopyOf
<1>4. /\ e \in ingesting => worker.event # e
      /\ eventRow[e] = "processed" => e \notin ingesting /\ worker.event # e
  BY DEF OneCopyOf
<1>5. Copies(e) = Cardinality(P) + (IF e \in ingesting THEN 1 ELSE 0)
                                 + (IF worker.event = e THEN 1 ELSE 0)
  BY DEF Copies
<1> HIDE DEF P
<1>6. Cardinality(P) \in {0, 1} /\ (P = {} => Cardinality(P) = 0)
  BY <1>2, AtMostOneElement
<1> QED
  BY <1>3, <1>4, <1>5, <1>6

(* HANDLED ONCE.  However often a gateway delivers a webhook, and whatever *)
(* fails, at most one copy of it is between ingest() and the worker, and   *)
(* none once it is marked as processed.                                    *)
THEOREM WebhookHandledOnce == Spec => []HandledOnce
<1>1. Init => OneCopy
  <2> SUFFICES ASSUME Init, NEW e \in Events
               PROVE  OneCopyOf(e)
    BY OneCopyIsOf
  <2>1. /\ queue = [b \in Backends |-> << >>] /\ ingesting = {} /\ worker.event # e
    BY EventsAssumption DEF Init, RedisInit, ReconInit, Polling
  <2> QED
    BY <2>1 DEF OneCopyOf, QueuedAt
<1>2. TypeInv /\ OneCopy /\ [Next]_vars => OneCopy'
  <2> SUFFICES ASSUME TypeInv, OneCopy, [Next]_vars
               PROVE  OneCopy'
    OBVIOUS
  <2>1. \A e \in Events : OneCopyOf(e)'
    BY OneCopyIsOf, OneCopyOfStep
  <2> QED
    BY <2>1 DEF OneCopy, OneCopyOf, QueuedAt, UnderWay
<1>3. OneCopy => HandledOnce
  BY OneCopyIsOf, OneCopyCounts DEF HandledOnce
<1> QED
  BY <1>1, <1>2, <1>3, PaymentTypes, PTL DEF Spec

-----------------------------------------------------------------------------
(* SOMEBODY IS AT WORK.  Request or worker at a place that agrees with the *)
(* state of the row.                                                       *)
Unsettled(k) == txns[k] # Null /\ txns[k].currentState \notin Settled

RequestAtWork(r, k) ==
  req[r].key = k /\ req[r].at \in Working[txns[k].currentState]

WorkerAtWork(k) ==
  worker.at = "drive" /\ worker.key = k /\ worker.state = txns[k].currentState

AtWork(k) ==
  Unsettled(k) => (\E r \in Requests : RequestAtWork(r, k)) \/ WorkerAtWork(k)

(* The places of a request, state by state.                                *)
LEMMA WorkingAt ==
  /\ Working["INITIATED"] = {"logcreation", "route"}
  /\ Working["ROUTED"] = {"process"}
  /\ Working["PROCESSING"] = {"charge", "await", "succeed", "recordfailure", "failover"}
  /\ Working["RETRY_PENDING"] = {"route"}
BY DEF Working

(* The states a payment can be in before it is settled.                    *)
LEMMA UnsettledStates ==
  ASSUME TypeInv, NEW k \in Keys, Unsettled(k)
  PROVE  txns[k].currentState \in {"INITIATED", "ROUTED", "PROCESSING", "RETRY_PENDING"}
<1>1. txns[k] \in Transaction
  BY DEF TypeInv, TypeOK, LedgerTypeOK, Unsettled
<1> QED
  BY <1>1 DEF Unsettled, Transaction, TransactionState, Settled

(* A request at work on a row is its owner.                                *)
LEMMA WorkingIsOwner ==
  ASSUME TypeInv, NEW k \in Keys, Unsettled(k), NEW r \in Requests, RequestAtWork(r, k)
  PROVE  req[r].key = k /\ req[r].at \in PastInsert
BY UnsettledStates, WorkingAt DEF RequestAtWork, PastInsert

(* The transition that a request at work asks for is allowed, so it does   *)
(* not leave for the clean-up.                                             *)
LEMMA WorkingGoesOn ==
  ASSUME TypeInv, NEW k \in Keys, Unsettled(k),
         NEW r \in Requests, RequestAtWork(r, k), ServeRequest(r)
  PROVE  req'[r].at \in PastInsert
<1> DEFINE s == txns[k].currentState
<1>0. /\ req[r] \in Locals /\ txns[k] # Null /\ req[r].key = k
      /\ s \in {"INITIATED", "ROUTED", "PROCESSING", "RETRY_PENDING"}
  BY UnsettledStates DEF TypeInv, TypeOK, RequestTypeOK, Unsettled, RequestAtWork
<1>1. \/ s \in {"INITIATED", "RETRY_PENDING"} /\ req[r].at \in {"logcreation", "route"}
      \/ s = "ROUTED" /\ req[r].at = "process"
      \/ /\ s = "PROCESSING"
         /\ req[r].at \in {"charge", "await", "succeed", "recordfailure", "failover"}
  BY <1>0, WorkingAt DEF RequestAtWork
<1>2. /\ s \in {"INITIATED", "RETRY_PENDING"} => CanTransition(k, "ROUTED")
      /\ s = "ROUTED" => CanTransition(k, "PROCESSING")
      /\ s = "PROCESSING" => /\ CanTransition(k, "SUCCESS")
                             /\ CanTransition(k, "RETRY_PENDING")
                             /\ CanTransition(k, "FAILED")
  BY <1>0 DEF CanTransition, VALID_TRANSITIONS, TransactionState
<1> HIDE DEF s
<1>3. ASSUME NEW to, NEW meta, NEW next \in Locals, MakeTransition(r, to, meta, next),
             CanTransition(k, to)
      PROVE  req'[r].at = next.at
  <2>1. req' = [req EXCEPT ![r] = [next EXCEPT !.txn =
                  IF to \in {"SUCCESS", "FAILED"} THEN txns'[k] ELSE Null]]
    BY <1>0, <1>3 DEF MakeTransition
  <2> QED
    BY <1>3, <2>1 DEF TypeInv, TypeOK, RequestTypeOK, Locals
<1>4. ASSUME NEW place \in PastInsert, Goto(r, place)
      PROVE  req'[r].at \in PastInsert
  BY <1>4, GotoMoves DEF Moves
<1>5. CASE LogTransactionCreated(r) \/ CallGateway(r) \/ EndRace(r) \/ RecordFailure(r)
  BY <1>4, <1>5 DEF LogTransactionCreated, CallGateway, EndRace, RecordFailure, PastInsert
<1>6. CASE Route(r)
  <2> DEFINE next == [req[r] EXCEPT !.at = "process"]
  <2>1. next \in Locals /\ next.at = "process"
    BY <1>0 DEF Locals, Places, InTry
  <2>2. MakeTransition(r, "ROUTED", Meta(req[r].gateway, Null, FALSE), next)
        /\ req[r].at = "route"
    BY <1>6 DEF Route
  <2> HIDE DEF next
  <2> QED
    BY <1>1, <1>2, <1>3, <2>1, <2>2 DEF PastInsert
<1>7. CASE Process(r)
  <2> DEFINE next == [req[r] EXCEPT !.at = "charge"]
  <2>1. next \in Locals /\ next.at = "charge"
    BY <1>0 DEF Locals, Places, InTry
  <2>2. MakeTransition(r, "PROCESSING", Meta(req[r].gateway, Null, TRUE), next)
        /\ req[r].at = "process"
    BY <1>7 DEF Process
  <2> HIDE DEF next
  <2> QED
    BY <1>1, <1>2, <1>3, <2>1, <2>2 DEF PastInsert
<1>8. CASE Succeed(r)
  <2> DEFINE next == [req[r] EXCEPT !.at = "recordsuccess"]
  <2>1. next \in Locals /\ next.at = "recordsuccess"
    BY <1>0 DEF Locals, Places, InTry
  <2>2. MakeTransition(r, "SUCCESS",
          Meta(req[r].gateway, <<req[r].key, req[r].gateway>>, FALSE), next)
        /\ req[r].at = "succeed"
    BY <1>8 DEF Succeed
  <2> HIDE DEF next
  <2> QED
    BY <1>1, <1>2, <1>3, <2>1, <2>2 DEF PastInsert
<1>9. CASE FailOver(r) /\ req[r].fallbacks # << >>
  <2> DEFINE next == [req[r] EXCEPT !.at = "route", !.gateway = Head(req[r].fallbacks),
                                    !.fallbacks = Tail(@)]
  <2>0. Head(req[r].fallbacks) \in Gateways /\ Tail(req[r].fallbacks) \in Seq(Gateways)
    BY <1>0, <1>9 DEF Locals
  <2>1. next \in Locals /\ next.at = "route"
    BY <1>0, <2>0 DEF Locals, Places, InTry
  <2>2. MakeTransition(r, "RETRY_PENDING", Meta(req[r].gateway, Null, FALSE), next)
        /\ req[r].at = "failover"
    BY <1>9 DEF FailOver
  <2> HIDE DEF next
  <2> QED
    BY <1>1, <1>2, <1>3, <2>1, <2>2 DEF PastInsert
<1>10. CASE FailOver(r) /\ req[r].fallbacks = << >>
  <2> DEFINE next == [req[r] EXCEPT !.at = "cache"]
  <2>1. next \in Locals /\ next.at = "cache"
    BY <1>0 DEF Locals, Places, InTry
  <2>2. MakeTransition(r, "FAILED", Meta(req[r].gateway, Null, FALSE), next)
        /\ req[r].at = "failover"
    BY <1>10 DEF FailOver
  <2> HIDE DEF next
  <2> QED
    BY <1>1, <1>2, <1>3, <2>1, <2>2 DEF PastInsert
<1> QED
  BY <1>1, <1>5, <1>6, <1>7, <1>8, <1>9, <1>10
     DEF ServeRequest, RequestStep, ReadCache, FindExisting, CheckDatabase, CacheExisting,
         RankGateways, InsertTransaction, RecordSuccess, CacheOutcome, CleanUp

(* A request that makes a transition is at work on the new state; one that *)
(* makes none keeps its place in the old.                                  *)
LEMMA RequestKeepsWork ==
  ASSUME TypeInv, NEW r \in Requests, ServeRequest(r), NEW k \in Keys, AtWork(k)
  PROVE  AtWork(k)'
<1> SUFFICES ASSUME Unsettled(k)'
             PROVE  (\E q \in Requests : RequestAtWork(q, k)') \/ WorkerAtWork(k)'
  BY DEF AtWork
<1>0. RequestEffect(r) /\ worker' = worker
  BY RequestHasEffect, RequestsLeaveWebhooks DEF reconVars
<1>1. CASE Inserts(r) /\ req[r].key = k
  <2>1. /\ req'[r].at = "logcreation" /\ req'[r].key = k
        /\ txns'[k].currentState = "INITIATED"
    BY <1>1 DEF Inserts, Moves, Insert, TypeInv, TypeOK, LedgerTypeOK, NewTransaction
  <2> QED
    BY <2>1, WorkingAt DEF RequestAtWork
<1>2. CASE /\ Routes(r) \/ Processes(r) \/ Succeeds(r) \/ Retries(r) \/ GivesUp(r)
           /\ req[r].key = k
  <2>1. \/ Routes(r) /\ txns'[k].currentState = "ROUTED"
        \/ Processes(r) /\ txns'[k].currentState = "PROCESSING"
        \/ Retries(r) /\ txns'[k].currentState = "RETRY_PENDING"
        \/ txns'[k].currentState \in Settled
    BY <1>2, OwnerMovesRow DEF Settled
  <2>2. txns'[k].currentState \notin Settled /\ req'[r].key = k
    BY <1>2, OwnerMovesRow DEF Unsettled
  <2> QED
    BY <2>1, <2>2, WorkingAt DEF RequestAtWork, Routes, Processes, Retries, Moves
<1>3. CASE ~ /\ \/ Inserts(r) \/ Routes(r) \/ Processes(r) \/ Succeeds(r) \/ Retries(r)
                \/ GivesUp(r)
             /\ req[r].key = k
  <2>1. txns'[k] = txns[k]
    <3>1. CASE Leaves(r) \/ Ranks(r) \/ Logs(r) \/ Calls(r) \/ Settles(r)
      BY <3>1 DEF Leaves, Ranks, Logs, Calls, Settles, ledgerVars, LogCreation
    <3>2. CASE Inserts(r)
      BY <1>3, <3>2 DEF Inserts, Insert, TypeInv, TypeOK, LedgerTypeOK
    <3>3. CASE Routes(r) \/ Processes(r) \/ Succeeds(r) \/ Retries(r) \/ GivesUp(r)
      BY <1>3, <3>3, OwnerMovesRow
    <3> QED
      BY <1>0, <3>1, <3>2, <3>3 DEF RequestEffect
  <2>2. Unsettled(k)
    BY <2>1 DEF Unsettled
  <2>3. CASE WorkerAtWork(k)
    BY <1>0, <2>1, <2>3 DEF WorkerAtWork
  <2>4. ASSUME NEW q \in Requests, RequestAtWork(q, k), q # r
        PROVE  RequestAtWork(q, k)'
    BY <1>0, <2>1, <2>4 DEF RequestEffect, RequestAtWork
  <2>5. CASE RequestAtWork(r, k)
    <3>1. req'[r].at \in PastInsert /\ req[r].key = k /\ req[r].at \in PastInsert
      BY <2>2, <2>5, WorkingGoesOn, WorkingIsOwner
    <3>2. Logs(r) \/ Calls(r) \/ Settles(r)
      BY <1>0, <1>3, <3>1 DEF RequestEffect, Leaves, Ranks, Moves, PastInsert
    <3>3. /\ req[r].at \in Working[txns[k].currentState]
          /\ txns[k].currentState \in {"INITIATED", "ROUTED", "PROCESSING", "RETRY_PENDING"}
      BY <2>2, <2>5, UnsettledStates DEF RequestAtWork
    <3>4. req'[r].key = k /\ req'[r].at \in Working[txns[k].currentState]
      BY <3>1, <3>2, <3>3, WorkingAt DEF Logs, Calls, Settles, Moves
    <3> QED
      BY <2>1, <3>4 DEF RequestAtWork
  <2> QED
    BY <2>2, <2>3, <2>4, <2>5 DEF AtWork
<1> QED
  BY <1>1, <1>2, <1>3

(* The worker likewise: its transition is allowed if it agrees with the    *)
(* row, and where it is rejected a request is at work.                     *)
LEMMA WorkerKeepsWork ==
  ASSUME TypeInv, Reconcile, NEW k \in Keys, AtWork(k)
  PROVE  AtWork(k)'
<1> SUFFICES ASSUME Unsettled(k)'
             PROVE  (\E q \in Requests : RequestAtWork(q, k)') \/ WorkerAtWork(k)'
  BY DEF AtWork
<1>0. req' = req
  BY DEF Reconcile
<1>1. ASSUME txns'[k] = txns[k], ~WorkerAtWork(k)
      PROVE  \E q \in Requests : RequestAtWork(q, k)'
  BY <1>0, <1>1 DEF AtWork, Unsettled, RequestAtWork
<1>2. CASE ~DriveUp
  <2>1. txns' = txns
    BY <1>2 DEF Reconcile, WorkerStep, Pop, LoadEvent, LookUp, DriveDone, MarkProcessed,
                ledgerVars
  <2>2. worker.at = "drive" => worker.state \in Terminal
    BY <1>2 DEF Reconcile, WorkerStep, Pop, LoadEvent, LookUp, DriveDone, MarkProcessed
  <2>3. ~WorkerAtWork(k)
    BY <2>1, <2>2 DEF WorkerAtWork, Unsettled, Terminal, Settled
  <2> QED
    BY <1>1, <2>1, <2>3
<1>3. CASE DriveUp /\ ~WorkerEffect
  <2>1. /\ worker.at = "drive" /\ worker.state \notin Terminal
        /\ ~CanTransition(worker.key, NextUp(worker.state)) /\ txns' = txns
    BY <1>0, <1>3 DEF DriveUp, WorkerEffect, ledgerVars
  <2>2. worker.state \in TransactionState \ Terminal
    BY <2>1 DEF TypeInv, WorkerOK
  <2>3. ~WorkerAtWork(k)
    <3> SUFFICES ASSUME WorkerAtWork(k) PROVE FALSE
      OBVIOUS
    <3>1. txns[k] # Null /\ worker.key = k /\ worker.state = txns[k].currentState
      BY <2>1 DEF WorkerAtWork, Unsettled
    <3> QED
      BY <2>1, <2>2, <3>1, NextUpAllowed DEF CanTransition
  <2> QED
    BY <1>1, <2>1, <2>3
<1>4. CASE WorkerEffect
  <2>1. /\ worker.key \in Keys
        /\ \A j \in Keys : j # worker.key => txns'[j] = txns[j]
        /\ txns'[worker.key].currentState = NextUp(worker.state)
    BY <1>4, WorkerTransitionTyped, TransitionKeepsRows
  <2>2. CASE worker.key = k
    <3>1. /\ worker'.at = "drive" /\ worker'.key = k
          /\ worker'.state = NextUp(worker.state)
      BY <1>4, <2>2 DEF WorkerEffect, TypeInv, TypeOK, ReconTypeOK
    <3> QED
      BY <2>1, <2>2, <3>1 DEF WorkerAtWork
  <2>3. CASE worker.key # k
    BY <1>1, <2>1, <2>3 DEF WorkerAtWork
  <2> QED
    BY <2>2, <2>3
<1> QED
  BY <1>2, <1>3, <1>4

(* Whatever else happens without crashes and database errors touches       *)
(* neither the row nor the two that work on it.                            *)
LEMMA SomebodyStaysAtWork ==
  ASSUME TypeInv, SomebodyIsAtWork, [Next]_vars
  PROVE  SomebodyIsAtWork'
<1>0. /\ Faults \cap {"db", "crash"} = {} => \A k \in Keys : AtWork(k)
      /\ (Faults \cap {"db", "crash"} = {} => \A k \in Keys : AtWork(k)') => SomebodyIsAtWork'
  BY DEF SomebodyIsAtWork, AtWork, Unsettled, RequestAtWork, WorkerAtWork
<1> SUFFICES ASSUME Faults \cap {"db", "crash"} = {}, NEW k \in Keys, AtWork(k)
             PROVE  AtWork(k)'
  BY <1>0
<1>1. ASSUME UNCHANGED <<txns, req, worker>>
      PROVE  AtWork(k)'
  BY <1>1 DEF AtWork, Unsettled, RequestAtWork, WorkerAtWork
<1>2. ASSUME NEW r \in Requests, Arrive(r)
      PROVE  AtWork(k)'
  <2>1. /\ req[r].at = "idle" /\ txns' = txns /\ worker' = worker
        /\ \A q \in Requests : q # r => req'[q] = req[q]
    BY <1>2, RequestHasEffect
       DEF Arrive, AcquireLock, ledgerVars, reconVars, RequestEffect
  <2>2. Unsettled(k) => ~RequestAtWork(r, k)
    BY <2>1, WorkingIsOwner DEF PastInsert
  <2> QED
    BY <2>1, <2>2 DEF AtWork, Unsettled, RequestAtWork, WorkerAtWork
<1>3. ASSUME NEW r \in Requests, ServeRequest(r)
      PROVE  AtWork(k)'
  BY <1>3, RequestKeepsWork
<1>4. CASE Reconcile
  BY <1>4, WorkerKeepsWork
<1>5. ASSUME NEW e \in Events, Webhook(e)
      PROVE  AtWork(k)'
  BY <1>1, <1>5 DEF Webhook, StoreEvent, PushEvent, AckDuplicate, ledgerVars
<1>6. CASE GatewayActs \/ KeyExpires \/ RedisFault
  BY <1>1, <1>6 DEF GatewayActs, KeyExpires, RedisFault, PushFails, ledgerVars, reconVars
<1>7. ~DatabaseFault /\ ~CrashRestart
  BY DEF DatabaseFault, CrashRestart
<1>8. CASE UNCHANGED vars
  BY <1>1, <1>8 DEF vars, ledgerVars, reconVars
<1> QED
  BY <1>2, <1>3, <1>4, <1>5, <1>6, <1>7, <1>8 DEF Next

(* SOMEBODY IS AT WORK.  As long as the process lives and the database     *)
(* answers, a payment that is not settled has a request or the worker at   *)
(* the place where its next transition will be accepted: the two may lose  *)
(* races to each other, but never both the same one.                       *)
THEOREM NoPaymentIsAbandoned == Spec => []SomebodyIsAtWork
<1>1. Init => SomebodyIsAtWork
  BY DEF Init, LedgerInit, SomebodyIsAtWork
<1>2. TypeInv /\ SomebodyIsAtWork /\ [Next]_vars => SomebodyIsAtWork'
  BY SomebodyStaysAtWork
<1> QED
  BY <1>1, <1>2, PaymentTypes, PTL DEF Spec

-----------------------------------------------------------------------------
(* NOT LOST.  No request moves a row that is SUCCESS or RECONCILED.        *)
LEMMA RequestLeavesSuccess ==
  ASSUME TypeInv, NEW r \in Requests, RequestEffect(r), NEW k \in Keys, txns[k] # Null,
         txns[k].currentState \in {"SUCCESS", "RECONCILED"}
  PROVE  txns'[k] = txns[k]
<1>1. CASE Leaves(r) \/ Ranks(r) \/ Logs(r) \/ Calls(r) \/ Settles(r)
  BY <1>1 DEF Leaves, Ranks, Logs, Calls, Settles, ledgerVars, LogCreation
<1>2. CASE Inserts(r)
  BY <1>2 DEF Inserts, Insert, TypeInv, TypeOK, LedgerTypeOK
<1>3. CASE Routes(r) \/ Processes(r) \/ Succeeds(r) \/ Retries(r) \/ GivesUp(r)
  <2>1. req[r].key # k
    BY <1>3, OwnerMovesRow DEF VALID_TRANSITIONS, TransactionState
  <2> QED
    BY <1>3, <2>1, OwnerMovesRow
<1> QED
  BY <1>1, <1>2, <1>3 DEF RequestEffect

(* The worker alone moves the payment of a webhook without a key.          *)
LEMMA KeylessIsSettledStep ==
  ASSUME TypeInv, WebhookInv, KeylessIsSettled, [Next]_vars
  PROVE  KeylessIsSettled'
<1>0. /\ worker \in [at : {"poll", "load", "lookup", "drive", "mark"},
                     event : Events \cup {Null}, key : Keys \cup {Null},
                     state : TransactionState \cup {Null}]
      /\ worker.at = "drive" => worker.key \in Keys /\ worker.state \in TransactionState
  BY DEF TypeInv, TypeOK, ReconTypeOK, WorkerOK
<1>1. ASSUME worker' = worker, UNCHANGED txns
      PROVE  KeylessIsSettled'
  BY <1>1 DEF KeylessIsSettled
<1>2. CASE worker'.at # "drive"
  BY <1>2 DEF KeylessIsSettled
<1>3. ASSUME NEW r \in Requests, Arrive(r) \/ ServeRequest(r) \/ DatabaseError(r),
             worker' = worker
      PROVE  KeylessIsSettled'
  <2>1. RequestEffect(r)
    BY <1>3, RequestHasEffect
  <2>2. worker.at = "drive" /\ worker.event.idempotencyKey = Null =>
          txns'[worker.key] = txns[worker.key]
    BY <1>0, <2>1, RequestLeavesSuccess DEF KeylessIsSettled
  <2> QED
    BY <1>3, <2>2 DEF KeylessIsSettled
<1>4. CASE LookUp
  <2>1. /\ worker.at = "lookup" /\ txns' = txns
        /\ worker.event \in Events /\ worker.event.gatewayTxnId # Null
    BY <1>4, WorkerEvent DEF LookUp, ledgerVars, WebhookInv, DrivesOwnPayment
  <2>2. \/ worker' = [worker EXCEPT !.at = "mark"]
        \/ \E k \in Matches(worker.event) :
             worker' = [worker EXCEPT !.at = "drive", !.key = k,
                                      !.state = txns[k].currentState]
    BY <1>4 DEF LookUp
  <2>3. ASSUME NEW k \in Matches(worker.event), worker.event.idempotencyKey = Null
        PROVE  txns[k] # Null /\ txns[k].currentState \in {"SUCCESS", "RECONCILED"}
    <3>1. k \in Keys /\ txns[k] # Null /\ txns[k].gatewayTxnId = worker.event.gatewayTxnId
      BY <2>3, NullAssumption DEF Matches
    <3> QED
      BY <2>1, <3>1 DEF WebhookInv, DrivesOwnPayment
  <2>4. CASE worker' = [worker EXCEPT !.at = "mark"]
    BY <1>0, <1>2, <2>4
  <2>5. ASSUME NEW k \in Matches(worker.event),
               worker' = [worker EXCEPT !.at = "drive", !.key = k,
                                        !.state = txns[k].currentState]
        PROVE  KeylessIsSettled'
    <3>1. /\ worker'.event = worker.event /\ worker'.key = k
          /\ worker'.state = txns[k].currentState
      BY <1>0, <2>5
    <3> QED
      BY <2>1, <2>3, <3>1 DEF KeylessIsSettled
  <2> QED
    BY <2>2, <2>4, <2>5
<1>5. CASE DriveUp /\ req' = req
  <2>1. CASE WorkerEffect
    <3>1. /\ worker.key \in Keys
          /\ txns'[worker.key] \in Transaction
          /\ txns'[worker.key].currentState = NextUp(worker.state)
      BY <2>1, WorkerTransitionTyped, TransitionKeepsRows
    <3>2. /\ worker.at = "drive" /\ worker.state \notin Terminal
          /\ worker'.event = worker.event /\ worker'.key = worker.key
          /\ worker'.state = NextUp(worker.state)
      BY <1>0, <2>1 DEF WorkerEffect
    <3>3. worker.state = "SUCCESS" => NextUp(worker.state) = "RECONCILED"
      BY DEF NextUp
    <3> QED
      BY <3>1, <3>2, <3>3, NullAssumption DEF KeylessIsSettled, Terminal
  <2>2. CASE ~WorkerEffect
    <3>1. worker' = Polling
      BY <1>5, <2>2 DEF DriveUp, WorkerEffect
    <3> QED
      BY <1>2, <3>1 DEF Polling
  <2> QED
    BY <2>1, <2>2
<1>6. ASSUME NEW e \in Events, Pop(e)
      PROVE  KeylessIsSettled'
  BY <1>2, <1>6 DEF Pop, Polling
<1>7. CASE LoadEvent
  <2>1. \/ worker' = Polling
        \/ worker' = [worker EXCEPT !.at = "mark"]
        \/ worker' = [worker EXCEPT !.at = "lookup"]
    BY <1>7 DEF LoadEvent
  <2> QED
    BY <1>0, <1>2, <2>1 DEF Polling
<1>8. CASE DriveDone \/ MarkProcessed
  BY <1>0, <1>2, <1>8 DEF DriveDone, MarkProcessed, Polling
<1>9. CASE Reconcile
  BY <1>4, <1>5, <1>6, <1>7, <1>8, <1>9 DEF Reconcile, WorkerStep
<1>10. CASE \E r \in Requests : Arrive(r) \/ ServeRequest(r)
  BY <1>3, <1>10, RequestsLeaveWebhooks DEF reconVars
<1>11. CASE DatabaseFault
  BY <1>2, <1>3, <1>11 DEF DatabaseFault, WorkerError, Polling, reconVars
<1>12. CASE (\E e \in Events : Webhook(e)) \/ GatewayActs \/ KeyExpires \/ RedisFault
  BY <1>1, <1>12 DEF Webhook, StoreEvent, PushEvent, AckDuplicate, GatewayActs, KeyExpires,
                     RedisFault, PushFails, ledgerVars, reconVars
<1>13. CASE CrashRestart
  BY <1>2, <1>13 DEF CrashRestart, ReconCrash, Polling
<1>14. CASE UNCHANGED vars
  BY <1>1, <1>14 DEF vars, ledgerVars, reconVars
<1> QED
  BY <1>9, <1>10, <1>11, <1>12, <1>13, <1>14 DEF Next

(* The transition of a webhook without a key is never rejected.            *)
LEMMA KeylessIsAllowed ==
  ASSUME TypeInv, KeylessIsSettled, worker.at = "drive", worker.state \notin Terminal,
         worker.event.idempotencyKey = Null
  PROVE  CanTransition(worker.key, NextUp(worker.state))
<1>1. worker.state \in TransactionState \ Terminal
  BY DEF TypeInv, WorkerOK
<1> QED
  BY <1>1, NextUpAllowed DEF KeylessIsSettled, CanTransition

(* Only the loss of Redis sends RedisService to the Map.                   *)
LEMMA RedisInUseStep ==
  ASSUME RedisInUse, [Next]_vars
  PROVE  RedisInUse'
<1> SUFFICES ASSUME Faults \subseteq {"ttl"}, ~isMockMode
             PROVE  ~isMockMode'
  BY DEF RedisInUse
<1>1. ~DatabaseFault /\ ~RedisFault /\ ~CrashRestart
  BY DEF DatabaseFault, RedisFault, CrashRestart
<1>2. ASSUME NEW r \in Requests, Arrive(r) \/ ServeRequest(r)
      PROVE  UNCHANGED isMockMode
  BY <1>2 DEF Arrive, AcquireLock, ServeRequest, RequestStep, ReadCache, FindExisting,
       CheckDatabase, CacheExisting, RankGateways, InsertTransaction, LogTransactionCreated,
       Route, Process, CallGateway, EndRace, Succeed, RecordSuccess, RecordFailure, FailOver,
       MakeTransition, CacheOutcome, CleanUp, SetKey, Del, redisVars
<1>3. ASSUME NEW e \in Events, Webhook(e)
      PROVE  UNCHANGED isMockMode
  BY <1>3 DEF Webhook, StoreEvent, PushEvent, AckDuplicate, Lpush, redisVars
<1>4. CASE Reconcile
  BY <1>4 DEF Reconcile, WorkerStep, Pop, Brpop, LoadEvent, LookUp, DriveUp, DriveDone,
              MarkProcessed, redisVars
<1>5. CASE GatewayActs \/ KeyExpires
  BY <1>5 DEF GatewayActs, KeyExpires, Expire, redisVars
<1>6. CASE UNCHANGED vars
  BY <1>6 DEF vars, redisVars
<1> QED
  BY <1>1, <1>2, <1>3, <1>4, <1>5, <1>6 DEF Next

(* Redis keeps what was pushed, and appends the new event.                 *)
LEMMA PushKeepsQueued ==
  ASSUME TypeInv, ~isMockMode, NEW f \in Events, Lpush(f), NEW e \in Events
  PROVE  /\ (\E b, i : QueuedAt(e, b, i)) => \E b, i : QueuedAt(e, b, i)'
         /\ \E b, i : QueuedAt(f, b, i)'
<1> DEFINE q == queue[Active]
<1>0. queue \in [Backends -> Seq(Events)] /\ Active \in Backends /\ q \in Seq(Events)
  BY DEF TypeInv, TypeOK, RedisTypeOK, Active, Backends
<1>1. queue' = [queue EXCEPT ![Active] = Append(q, f)]
  BY DEF Lpush
<1>2. /\ queue'[Active] = Append(q, f)
      /\ \A b \in Backends : b # Active => queue'[b] = queue[b]
  BY <1>0, <1>1
<1> HIDE DEF q
<1>3. /\ \A i \in DOMAIN q : i \in DOMAIN Append(q, f) /\ Append(q, f)[i] = q[i]
      /\ Len(q) + 1 \in DOMAIN Append(q, f) /\ Append(q, f)[Len(q) + 1] = f
  BY <1>0
<1>4. ASSUME NEW b, NEW i, b = Active, i = Len(q) + 1
      PROVE  QueuedAt(f, b, i)'
  <2>1. b \in Backends /\ i \in DOMAIN queue'[b] /\ queue'[b][i] = f
    BY <1>0, <1>2, <1>3, <1>4
  <2> QED
    BY <2>1 DEF QueuedAt
<1>5. ASSUME NEW b, NEW i, QueuedAt(e, b, i)
      PROVE  QueuedAt(e, b, i)'
  <2>1. b \in Backends /\ i \in DOMAIN queue[b] /\ queue[b][i] = e
    BY <1>5 DEF QueuedAt
  <2>2. i \in DOMAIN queue'[b] /\ queue'[b][i] = e
    BY <1>2, <1>3, <2>1 DEF q
  <2> QED
    BY <2>1, <2>2 DEF QueuedAt
<1> QED
  BY <1>4, <1>5

(* What the worker pops it has in hand; the rest moves up.                 *)
LEMMA PopKeepsQueued ==
  ASSUME TypeInv, NEW f \in Events, Brpop(f), NEW e \in Events, e # f,
         \E b, i : QueuedAt(e, b, i)
  PROVE  \E b, i : QueuedAt(e, b, i)'
<1> DEFINE q == queue[Active]
<1>1. /\ queue \in [Backends -> Seq(Events)] /\ Active \in Backends /\ q \in Seq(Events)
      /\ q # << >> /\ f = Head(q) /\ queue' = [queue EXCEPT ![Active] = Tail(q)]
  BY DEF TypeInv, TypeOK, RedisTypeOK, Active, Backends, Brpop
<1>2. /\ queue'[Active] = Tail(q)
      /\ \A b \in Backends : b # Active => queue'[b] = queue[b]
  BY <1>1
<1> HIDE DEF q
<1>3. \A i \in DOMAIN q : q[i] # f => i - 1 \in DOMAIN Tail(q) /\ Tail(q)[i - 1] = q[i]
  BY <1>1
<1>4. PICK b, i : b \in Backends /\ i \in DOMAIN queue[b] /\ queue[b][i] = e
  BY DEF QueuedAt
<1>5. CASE b = Active
  <2>1. i - 1 \in DOMAIN queue'[b] /\ queue'[b][i - 1] = e
    BY <1>2, <1>3, <1>4, <1>5 DEF q
  <2>2. QueuedAt(e, b, i - 1)'
    BY <1>4, <2>1 DEF QueuedAt
  <2> QED
    BY <2>2
<1>6. CASE b # Active
  <2>1. QueuedAt(e, b, i)'
    BY <1>2, <1>4, <1>6 DEF QueuedAt
  <2> QED
    BY <2>1
<1> QED
  BY <1>5, <1>6

(* A stored webhook without a key stays in somebody's hands until it is    *)
(* marked as processed.                                                    *)
Kept(e) ==
  eventRow[e] = "stored" =>
    e \in ingesting \/ (\E b, i : QueuedAt(e, b, i)) \/ worker.event = e

(* Every step passes the event on or leaves it where it is.                *)
LEMMA KeptStep ==
  ASSUME TypeInv, KeylessIsSettled, Faults \subseteq {"ttl"}, ~isMockMode, [Next]_vars,
         NEW e \in Events, e.idempotencyKey = Null, Kept(e)
  PROVE  Kept(e)'
<1>0. eventRow \in [Events -> {"none", "stored", "processed"}]
  BY DEF TypeInv, TypeOK, ReconTypeOK
<1>1. ASSUME eventRow'[e] \in {eventRow[e], "processed"}, e \in ingesting => e \in ingesting',
             (\E b, i : QueuedAt(e, b, i)) => \E b, i : QueuedAt(e, b, i)',
             worker.event = e => worker'.event = e \/ eventRow'[e] = "processed"
      PROVE  Kept(e)'
  BY <1>1 DEF Kept
<1>2. queue' = queue => ((\E b, i : QueuedAt(e, b, i)) => \E b, i : QueuedAt(e, b, i)')
  BY DEF QueuedAt
<1>3. CASE \E r \in Requests : Arrive(r) \/ ServeRequest(r)
  BY <1>1, <1>2, <1>3, RequestsLeaveWebhooks DEF reconVars
<1>4. ASSUME NEW f \in Events, StoreEvent(f)
      PROVE  Kept(e)'
  <2>1. /\ eventRow' = [eventRow EXCEPT ![f] = "stored"] /\ ingesting' = ingesting \cup {f}
        /\ worker' = worker /\ queue' = queue
    BY <1>4 DEF StoreEvent, redisVars
  <2>2. CASE e # f
    BY <1>0, <1>1, <1>2, <2>1, <2>2
  <2>3. CASE e = f
    BY <2>1, <2>3 DEF Kept
  <2> QED
    BY <2>2, <2>3
<1>5. ASSUME NEW f \in Events, PushEvent(f)
      PROVE  Kept(e)'
  <2>1. /\ ingesting' = ingesting \ {f} /\ worker' = worker /\ eventRow' = eventRow
        /\ (\E b, i : QueuedAt(e, b, i)) => \E b, i : QueuedAt(e, b, i)'
        /\ \E b, i : QueuedAt(f, b, i)'
    BY <1>5, PushKeepsQueued DEF PushEvent
  <2>2. CASE e # f
    BY <1>1, <2>1, <2>2
  <2>3. CASE e = f
    BY <2>1, <2>3 DEF Kept
  <2> QED
    BY <2>2, <2>3
<1>6. ASSUME NEW f \in Events, AckDuplicate(f)
      PROVE  Kept(e)'
  BY <1>1, <1>2, <1>6 DEF AckDuplicate, redisVars
<1>7. ASSUME NEW f \in Events, Pop(f)
      PROVE  Kept(e)'
  <2>1. /\ worker.event # e /\ Brpop(f) /\ worker'.event = f
        /\ UNCHANGED <<eventRow, ingesting>>
    BY <1>7, EventsAssumption DEF Pop, Polling, TypeInv, WorkerOK
  <2>2. CASE e = f
    BY <2>1, <2>2 DEF Kept
  <2>3. CASE e # f
    BY <1>1, <2>1, <2>3, PopKeepsQueued
  <2> QED
    BY <2>2, <2>3
<1>8. CASE LoadEvent \/ LookUp \/ DriveUp \/ DriveDone
  <2>0. worker \in [at : {"poll", "load", "lookup", "drive", "mark"},
                    event : Events \cup {Null}, key : Keys \cup {Null},
                    state : TransactionState \cup {Null}]
    BY DEF TypeInv, TypeOK, ReconTypeOK
  <2>1. UNCHANGED <<eventRow, ingesting, queue>>
    BY <1>8 DEF LoadEvent, LookUp, DriveUp, DriveDone, redisVars
  <2>2. ASSUME worker.event = e
        PROVE  worker'.event = e \/ eventRow'[e] = "processed"
    <3>1. CASE LoadEvent
      <4>1. \/ worker' = Polling /\ eventRow[e] = "processed"
            \/ worker' = [worker EXCEPT !.at = "mark"]
            \/ worker' = [worker EXCEPT !.at = "lookup"]
        BY <2>2, <3>1 DEF LoadEvent
      <4> QED
        BY <2>0, <2>1, <2>2, <4>1
    <3>2. CASE LookUp
      <4>1. \/ worker' = [worker EXCEPT !.at = "mark"]
            \/ \E k \in Matches(e) :
                 worker' = [worker EXCEPT !.at = "drive", !.key = k,
                                          !.state = txns[k].currentState]
        BY <2>2, <3>2 DEF LookUp
      <4> QED
        BY <2>0, <2>2, <4>1
    <3>3. CASE DriveUp
      <4>1. CanTransition(worker.key, NextUp(worker.state))
        BY <2>2, <3>3, KeylessIsAllowed DEF DriveUp
      <4>2. worker' = [worker EXCEPT !.state = NextUp(worker.state)]
        BY <3>3, <4>1 DEF DriveUp
      <4> QED
        BY <2>0, <2>2, <4>2
    <3>4. CASE DriveDone
      BY <2>0, <2>2, <3>4 DEF DriveDone
    <3> QED
      BY <1>8, <3>1, <3>2, <3>3, <3>4
  <2> QED
    BY <1>1, <1>2, <2>1, <2>2
<1>9. CASE MarkProcessed
  <2>1. /\ eventRow' = [eventRow EXCEPT ![worker.event] = "processed"]
        /\ ingesting' = ingesting /\ queue' = queue
    BY <1>9 DEF MarkProcessed, redisVars
  <2>2. /\ eventRow'[e] \in {eventRow[e], "processed"}
        /\ worker.event = e => eventRow'[e] = "processed"
    BY <1>0, <2>1
  <2> QED
    BY <1>1, <1>2, <2>1, <2>2
<1>10. ~DatabaseFault /\ ~RedisFault /\ ~CrashRestart
  BY DEF DatabaseFault, RedisFault, CrashRestart
<1>11. CASE GatewayActs \/ KeyExpires
  BY <1>1, <1>2, <1>11 DEF GatewayActs, KeyExpires, Expire, redisVars, reconVars
<1>12. CASE UNCHANGED vars
  BY <1>1, <1>2, <1>12 DEF vars, redisVars, reconVars
<1> QED
  BY <1>3, <1>4, <1>5, <1>6, <1>7, <1>8, <1>9, <1>10, <1>11, <1>12
     DEF Next, Webhook, Reconcile, WorkerStep

LostInv == KeylessIsSettled /\ RedisInUse /\ StoredIsNotLost

(* NOT LOST.  As long as the process lives and database and Redis answer,  *)
(* a webhook that found its way into webhook_events, and carries no key,   *)
(* is processed or under way: pollQueue(), which queues nothing again, has *)
(* no reason to drop it.                                                   *)
THEOREM NoWebhookIsLost == Spec => []StoredIsNotLost
<1>1. Init => LostInv
  BY DEF Init, ReconInit, RedisInit, Polling, LostInv, KeylessIsSettled, RedisInUse,
         StoredIsNotLost
<1>2. TypeInv /\ WebhookInv /\ LostInv /\ [Next]_vars => LostInv'
  <2> SUFFICES ASSUME TypeInv, WebhookInv, LostInv, [Next]_vars
               PROVE  LostInv'
    OBVIOUS
  <2>1. KeylessIsSettled' /\ RedisInUse'
    BY KeylessIsSettledStep, RedisInUseStep DEF LostInv
  <2>2. ASSUME Faults \subseteq {"ttl"}, NEW e \in Events, e.idempotencyKey = Null
        PROVE  Kept(e)'
    <3>1. Kept(e)
      BY <2>2 DEF LostInv, StoredIsNotLost, Kept, QueuedAt
    <3> QED
      BY <2>2, <3>1, KeptStep DEF LostInv, RedisInUse
  <2>3. StoredIsNotLost'
    BY <2>2 DEF StoredIsNotLost, Kept, QueuedAt
  <2> QED
    BY <2>1, <2>3 DEF LostInv
<1>3. LostInv => StoredIsNotLost
  BY DEF LostInv
<1> QED
  BY <1>1, <1>2, <1>3, PaymentTypes, WebhookOwnership, PTL DEF Spec
=============================================================================
