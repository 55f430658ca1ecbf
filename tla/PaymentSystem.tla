---------------------------- MODULE PaymentSystem ----------------------------
(***************************************************************************)
(* The running system: payment requests, webhook ingestion, the            *)
(* reconciliation worker, the gateways, and what goes wrong around them.   *)
(* All of them meet in the two tables of the ledger and in RedisService.   *)
(***************************************************************************)
EXTENDS TransactionsService, Reconciliation

CONSTANT Faults   \* which faults happen

ASSUME FaultsAssumption == Faults \subseteq {"db", "ttl", "redis", "crash"}

VARIABLE ranked   \* HISTORY: ranked[k], the gateways payment k was created with

vars == <<ledgerVars, redisVars, gatewayVars, reconVars, req, ranked>>

Init ==
  /\ LedgerInit
  /\ RedisInit
  /\ GatewayInit
  /\ RequestInit
  /\ ReconInit
  /\ ranked = [k \in Keys |-> {}]

(* A client sends POST /payments.                                          *)
Arrive(r) ==
  /\ \E k \in Keys : AcquireLock(r, k)
  /\ UNCHANGED <<reconVars, ranked>>

(* The gateways a request has not given up: primaryGateway, fallbackList.  *)
GatewaysOf(r) ==
  {req[r].gateway} \cup {req[r].fallbacks[i] : i \in DOMAIN req[r].fallbacks}

(* What the new row records of the ranking in selected_gateway and         *)
(* fallback_gateways; nothing reads it back.                               *)
NoteRanking(r) ==
  ranked' = IF req[r].at = "insert" /\ txns[req[r].key] = Null
            THEN [ranked EXCEPT ![req[r].key] = GatewaysOf(r)]
            ELSE ranked

ServeRequest(r) == RequestStep(r) /\ NoteRanking(r) /\ UNCHANGED reconVars

(* The webhook endpoints.                                                  *)
Webhook(e) ==
  /\ StoreEvent(e) \/ PushEvent(e) \/ AckDuplicate(e)
  /\ UNCHANGED <<req, ranked>>

Reconcile == WorkerStep /\ UNCHANGED <<req, ranked>>

GatewayActs ==
  GatewayStep /\ UNCHANGED <<ledgerVars, redisVars, reconVars, req, ranked>>

(* Statements fail.                                                        *)
DatabaseFault ==
  /\ "db" \in Faults
  /\ \/ \E r \in Requests : DatabaseError(r) /\ UNCHANGED reconVars
     \/ WorkerError /\ UNCHANGED req
  /\ UNCHANGED ranked

(* A key outlives its TTL.                                                 *)
KeyExpires ==
  /\ "ttl" \in Faults
  /\ \E k \in Keys : Expire(k)
  /\ UNCHANGED <<ledgerVars, gatewayVars, reconVars, req, ranked>>

(* The connection to Redis is lost; a push in flight may fail with it.     *)
RedisFault ==
  /\ "redis" \in Faults
  /\ \/ Failover /\ UNCHANGED <<ledgerVars, gatewayVars, reconVars, req>>
     \/ (\E e \in Events : PushFails(e)) /\ UNCHANGED req
  /\ UNCHANGED ranked

(* The process dies and is started again.                                  *)
CrashRestart ==
  /\ "crash" \in Faults
  /\ RedisRestart
  /\ RequestsCrash
  /\ ReconCrash
  /\ UNCHANGED <<ledgerVars, gatewayVars, ranked>>

Next ==
  \/ \E r \in Requests : Arrive(r) \/ ServeRequest(r)
  \/ \E e \in Events : Webhook(e)
  \/ Reconcile
  \/ GatewayActs
  \/ DatabaseFault
  \/ KeyExpires
  \/ RedisFault
  \/ CrashRestart

Spec == Init /\ [][Next]_vars

(* Every await of the program resolves: the database and Redis answer, the *)
(* 1.5 s timer fires, the worker polls.  Nothing is assumed of clients and *)
(* gateways.                                                               *)
Fairness ==
  /\ \A r \in Requests : WF_vars(ServeRequest(r))
  /\ \A e \in Events : WF_vars(PushEvent(e) /\ UNCHANGED <<req, ranked>>)
  /\ WF_vars(Reconcile)

FairSpec == Spec /\ Fairness

-----------------------------------------------------------------------------
TypeOK ==
  /\ LedgerTypeOK
  /\ GatewayTypeOK
  /\ RedisTypeOK
  /\ RequestTypeOK
  /\ ReconTypeOK
  /\ ranked \in [Keys -> SUBSET Gateways]

(* AT MOST ONE CHARGE.  However many requests with the same idempotency    *)
(* key overlap, whether or not locks expire, Redis is lost or the process  *)
(* restarts, a gateway is asked at most once to charge for a key           *)
(* (transactions.service.ts create(): lock, double check, unique index).   *)
ChargedAtMostOnce == \A c \in GatewayTxnIds : calls[c] <= 1

(* WRITE-AHEAD AUDIT.  A gateway that was called appears in the audit      *)
(* trail as a PROCESSING attempt, whatever fails afterwards: no charge is  *)
(* invisible to the history (create(): transition to PROCESSING commits    *)
(* before adapter.charge()).                                               *)
ChargeIsAudited ==
  \A k \in Keys, g \in Gateways : calls[<<k, g>>] > 0 =>
    \E i \in DOMAIN audit[k] :
      audit[k][i].toState = "PROCESSING" /\ audit[k][i].gateway = g

(* ATTEMPTS.  attempt_count is the number of PROCESSING entries of the     *)
(* trail, although the request and the worker both make attempts and lose  *)
(* races to each other (incrementAttempt in create() and the worker).      *)
AttemptsAudited ==
  \A k \in Keys : txns[k] # Null =>
    txns[k].attemptCount =
      Cardinality({i \in DOMAIN audit[k] : audit[k][i].toState = "PROCESSING"})

(* The row is inserted and its creation is logged by two statements; no    *)
(* transition is recorded before the second (create() lines 128-138).      *)
CreationLoggedFirst ==
  \A k \in Keys : audit[k] # << >> => k \in creationLogged

(* SUCCESS IS BACKED.  A transaction is SUCCESS or RECONCILED only on a    *)
(* gateway that accepted its charge, whether the request or a confirming   *)
(* webhook brought it there.                                               *)
SuccessIsBacked ==
  \A k \in Keys :
    txns[k] # Null /\ txns[k].currentState \in {"SUCCESS", "RECONCILED"} =>
      WasAccepted(<<k, txns[k].selectedGateway>>)

(* An outcome t told for key k agrees with the row, or the row has moved   *)
(* one allowed step on from it.                                            *)
Stands(k, t) ==
  /\ txns[k] # Null
  /\ t.currentState \in Settled =>
       txns[k].currentState
         \in {t.currentState} \cup VALID_TRANSITIONS[t.currentState]

(* ANSWERS STAND.  An outcome once returned to a client or cached under    *)
(* its key is never contradicted by the database later: no client that was *)
(* told FAILED is charged as a SUCCESS, in spite of stale caches, lost     *)
(* locks and webhooks that come late.                                      *)
AnswersStand ==
  /\ \A r \in Requests :
       req[r].answer # Null /\ req[r].answer.status = "ok" =>
         Stands(req[r].key, req[r].answer.transaction)
  /\ \A b \in Backends, k \in Keys :
       store[b][k] \notin {Null, Processing} =>
         Stands(k, store[b][k].transaction)

(* In how many hands an event is.                                          *)
Copies(e) ==
  Cardinality({p \in Backends \X (1..Cardinality(Events) + 1) :
                 p[2] \in DOMAIN queue[p[1]] /\ queue[p[1]][p[2]] = e})
    + (IF e \in ingesting THEN 1 ELSE 0)
    + (IF worker.event = e THEN 1 ELSE 0)

(* HANDLED ONCE.  However often a gateway repeats a webhook, at most one   *)
(* copy of it is under way, and none once it is marked as processed        *)
(* (unique index on (gateway, event_id); ingest()).                        *)
HandledOnce ==
  \A e \in Events :
    /\ Copies(e) <= 1
    /\ eventRow[e] = "processed" => Copies(e) = 0

(* ONE ROW, TWO GATEWAYS.  The id of the charge and the selected gateway   *)
(* of a row name the same gateway, unless a webhook found by its key       *)
(* reconciled a payment that had succeeded elsewhere                       *)
(* (driveToReconciled changes the gateway and keeps the id); then both     *)
(* gateways accepted a charge, so the disagreement marks a double charge.  *)
ColumnsAgree ==
  \A k \in Keys :
    txns[k] # Null /\ txns[k].gatewayTxnId # Null =>
      \/ txns[k].gatewayTxnId = <<k, txns[k].selectedGateway>>
      \/ /\ txns[k].currentState = "RECONCILED"
         /\ WasAccepted(txns[k].gatewayTxnId)
         /\ WasAccepted(<<k, txns[k].selectedGateway>>)

(* A PROCESSED EVENT HAS DONE ITS WORK.  When a webhook that carries the   *)
(* key of its payment is marked as processed, the payment is at rest: an   *)
(* error or a lost race in between leaves the mark unset, also if the      *)
(* process dies (processEvent: the save comes after driveToReconciled).    *)
(* One without a gateway id is marked without a look at the payment.       *)
ProcessedSettles ==
  \A e \in Events, k \in Keys :
    eventRow[e] = "processed" /\ e.gatewayTxnId # Null /\ e.idempotencyKey = k =>
      txns[k] # Null /\ txns[k].currentState \in Terminal

(* NO LEAKED LOCK.  The Map knows no TTL, so a lock left in it would       *)
(* refuse the key with 409 until a restart; every way out of create()      *)
(* removes or replaces the lock, whichever store it was taken in.          *)
NoLeakedLock ==
  \A k \in Keys : store["memory"][k] = Processing =>
    \E r \in Requests :
      req[r].key = k /\ req[r].at \in InTry \cup {"recache", "cleanup"}

(* FAILED IS OVER.  Once a payment has FAILED no gateway is called for it  *)
(* any more, by whatever request, so that a merchant who was told so may   *)
(* pay anew with another key (create(): only the owner of the row writes   *)
(* FAILED, and its loop ends there).                                       *)
NoChargeAfterFailed ==
  [][\A k \in Keys, g \in Gateways :
       txns[k] # Null /\ txns[k].currentState = "FAILED" =>
         calls'[<<k, g>>] = calls[<<k, g>>]]_vars

(* FAILED IS THE LAST RESORT.  A payment has FAILED only when every        *)
(* gateway of its ranking was called for it.  The list of those left is a  *)
(* local of one request, while the worker and late requests with the same  *)
(* key move or find the same row; whatever they do, and whatever fails,    *)
(* nobody writes FAILED with a gateway untried ("transparently failovers   *)
(* to fallback gateways sequentially", README.md:12; create()).            *)
FailedAfterAll ==
  \A k \in Keys :
    txns[k] # Null /\ txns[k].currentState = "FAILED" =>
      \A g \in ranked[k] : calls[<<k, g>>] > 0

(* Where create() stands while the row is in a state that is its own last  *)
(* transition; the state machine accepts the next one from there.          *)
Working ==
  [INITIATED     |-> {"logcreation", "route"},
   ROUTED        |-> {"process"},
   PROCESSING    |-> {"charge", "await", "succeed", "recordfailure", "failover"},
   RETRY_PENDING |-> {"route"}]

(* SOMEBODY IS AT WORK.  Request and worker race for a row and stop when   *)
(* they lose; they never both stop.  Without crashes and database errors,  *)
(* whatever locks expire and whether or not Redis is lost, an unsettled    *)
(* transaction has a request or the worker at a place that agrees with its *)
(* state (create(), driveToReconciled()).                                  *)
SomebodyIsAtWork ==
  Faults \cap {"db", "crash"} = {} =>
    \A k \in Keys :
      txns[k] # Null /\ txns[k].currentState \notin Settled =>
        \/ \E r \in Requests :
             req[r].key = k /\ req[r].at \in Working[txns[k].currentState]
        \/ /\ worker.at = "drive" /\ worker.key = k
           /\ worker.state = txns[k].currentState

(* NOT LOST.  Without crashes, database errors and the loss of Redis, a    *)
(* webhook without a key that was stored and is not processed is in the    *)
(* hands of ingest(), of the queue or of the worker: the worker, which     *)
(* drops an event when its transition is rejected, never has to drop this  *)
(* one (pollQueue, processEvent).                                          *)
StoredIsNotLost ==
  Faults \subseteq {"ttl"} =>
    \A e \in Events :
      eventRow[e] = "stored" /\ e.idempotencyKey = Null =>
        \/ e \in ingesting
        \/ \E b \in Backends : \E i \in DOMAIN queue[b] : queue[b][i] = e
        \/ worker.event = e

(* The merchant's view of a row.                                           *)
Outcome(txn) ==
  IF txn = Null THEN "none" ELSE
  CASE txn.currentState = "SUCCESS"    -> "success"
    [] txn.currentState = "FAILED"     -> "failed"
    [] txn.currentState = "RECONCILED" -> "reconciled"
    [] OTHER                           -> "pending"

Payments == INSTANCE IdempotentPayments WITH
  outcome <- [k \in Keys |-> Outcome(txns[k])],
  charged <- calls,
  told    <- [k \in Keys |->
                {Outcome(req[r].answer.transaction) :
                   r \in {q \in Requests : /\ req[q].key = k
                                           /\ req[q].answer # Null
                                           /\ req[q].answer.status = "ok"}}]

(* IDEMPOTENT PAYMENTS.  Requests, caches, worker, gateways and faults     *)
(* together implement the abstract specification a merchant relies on:     *)
(* created once, charged at most once per gateway, settled once and only   *)
(* after a charge, answered with nothing that was not so (create() and     *)
(* driveToReconciled()).                                                   *)
PaymentsSpec == Payments!Spec

(* Every request is answered, although gateways may never answer           *)
(* (Promise.race with the 1.5 s timer).                                    *)
RequestsAnswered == \A r \in Requests : Running(r) ~> req[r].at = "done"

(* WORKED OFF.  A webhook that was acknowledged is eventually marked as    *)
(* processed, if it carries no key: the gateway id finds a row only once   *)
(* it is SUCCESS, where no request competes with the worker any more.  One *)
(* that carries the key finds the row earlier, may lose the race, and is   *)
(* then dropped (pollQueue and processEvent; the popped id is not queued   *)
(* again).                                                                 *)
AckedIsProcessed ==
  \A e \in Events :
    (e \in acked /\ e.idempotencyKey = Null) ~> eventRow[e] = "processed"

(* NOBODY GIVES UP TOGETHER.  When a payment request and the worker race   *)
(* for the same transaction, the loser's transition is rejected and it     *)
(* stops; the winner always takes the transaction to an outcome.           *)
EventuallySettled ==
  \A k \in Keys :
    (txns[k] # Null) ~> (txns[k] # Null /\ txns[k].currentState \in Settled)

-----------------------------------------------------------------------------
(* What documents and comments of the repository say, and the code does    *)
(* not do.                                                                 *)

(* "Clean up Redis lock key on system/unhandled failure so it can be       *)
(* retried" (transactions.service.ts:248): after the failure of an earlier *)
(* request, a retry does not answer with an unfinished transaction.        *)
RetryFinishesPayment ==
  \A r \in Requests :
    req[r].answer # Null /\ req[r].answer.status = "ok" =>
      req[r].answer.transaction.currentState \in Settled

(* "SUCCESS -> RECONCILED (once webhook confirms)"                         *)
(* (transaction-state.enum.ts:8): a transaction that is SUCCESS and whose  *)
(* confirming webhook was processed becomes RECONCILED.                    *)
ConfirmedIsReconciled ==
  \A e \in Events :
    LET k == e.charge[1] IN
    ( /\ eventRow[e] = "processed" /\ e.eventType = "succeeded"
      /\ txns[k] # Null /\ txns[k].currentState = "SUCCESS"
      /\ txns[k].gatewayTxnId = e.gatewayTxnId )
    ~> (txns[k] # Null /\ txns[k].currentState = "RECONCILED")

(* The same line: what reconciles a transaction is a webhook that confirms *)
(* a charge, not one that reports its failure.                             *)
ReconciledIsConfirmed ==
  \A k \in Keys :
    txns[k] # Null /\ txns[k].currentState = "RECONCILED" =>
      \E e \in queued : e.charge[1] = k /\ e.eventType = "succeeded"
=============================================================================
