--------------------------- MODULE Reconciliation ---------------------------
(***************************************************************************)
(* The asynchronous path: WebhooksService.ingest() stores a webhook and    *)
(* pushes it on the reconciliation queue; ReconciliationWorkerService pops *)
(* it, looks its transaction up and drives it to RECONCILED through the    *)
(* same state machine the payment requests use.                            *)
(*                                                                         *)
(* A webhook is identified by (gateway, event_id): equal members of Events *)
(* are deliveries of the same webhook.                                     *)
(***************************************************************************)
EXTENDS RedisService

VARIABLES
  eventRow,  \* webhook_events: "none", "stored" (processed = false), "processed"
  ingesting, \* webhooks stored by an ingest() that has not pushed them yet
  queued,    \* webhooks that were ever pushed on the queue
  acked,     \* webhooks a gateway got a 200 for
  worker     \* the worker's place in pollQueue/processEvent and its locals

reconVars == <<eventRow, ingesting, queued, acked, worker>>

Polling == [at |-> "poll", event |-> Null, key |-> Null, state |-> Null]

ReconInit ==
  /\ eventRow = [e \in Events |-> "none"]
  /\ ingesting = {}
  /\ queued = {}
  /\ acked = {}
  /\ worker = Polling

-----------------------------------------------------------------------------
(* ingest(): the first delivery inserts the row.                           *)
StoreEvent(e) ==
  /\ MaySend(e)
  /\ eventRow[e] = "none"
  /\ eventRow' = [eventRow EXCEPT ![e] = "stored"]
  /\ ingesting' = ingesting \cup {e}
  /\ UNCHANGED <<queued, acked, worker, ledgerVars, redisVars, gatewayVars>>

(* ... then pushes it, and answers 200.                                    *)
PushEvent(e) ==
  /\ e \in ingesting
  /\ Lpush(e)
  /\ ingesting' = ingesting \ {e}
  /\ queued' = queued \cup {e}
  /\ acked' = acked \cup {e}
  /\ UNCHANGED <<eventRow, worker, ledgerVars, gatewayVars>>

(* Mutant: a duplicate is queued like a new webhook.                       *)
QueueDuplicate(e) ==
  /\ MaySend(e)
  /\ eventRow[e] # "none"
  /\ e \notin ingesting
  /\ ingesting' = ingesting \cup {e}
  /\ UNCHANGED <<eventRow, queued, acked, worker, ledgerVars, redisVars, gatewayVars>>

(* A later delivery violates the unique index: acknowledged, not queued.   *)
AckDuplicate(e) ==
  /\ MaySend(e)
  /\ eventRow[e] # "none"
  /\ acked' = acked \cup {e}
  /\ UNCHANGED <<eventRow, ingesting, queued, worker, ledgerVars, redisVars, gatewayVars>>

(* lpush throws (getClient() has no fallback for a command that fails on   *)
(* Redis): ingest() rethrows, 500, and the stored row stays.               *)
PushFails(e) ==
  /\ e \in ingesting
  /\ ingesting' = ingesting \ {e}
  /\ UNCHANGED <<eventRow, queued, acked, worker, ledgerVars, redisVars, gatewayVars>>

-----------------------------------------------------------------------------
Pop(e) ==
  /\ worker.at = "poll"
  /\ Brpop(e)
  /\ worker' = [Polling EXCEPT !.at = "load", !.event = e]
  /\ UNCHANGED <<eventRow, ingesting, queued, acked, ledgerVars, gatewayVars>>

(* Read the event row; skip a processed one; without a gateway id there is *)
(* nothing to look up.                                                     *)
LoadEvent ==
  LET e == worker.event IN
  /\ worker.at = "load"
  /\ worker' = CASE eventRow[e] = "processed" -> Polling
                 [] eventRow[e] # "processed" /\ e.gatewayTxnId = Null ->
                      [worker EXCEPT !.at = "mark"]
                 [] OTHER -> [worker EXCEPT !.at = "lookup"]
  /\ UNCHANGED <<eventRow, ingesting, queued, acked, ledgerVars, redisVars, gatewayVars>>

(* The rows that match the event's gateway id or its idempotency key.      *)
Matches(e) ==
  {k \in Keys : txns[k] # Null /\
     (txns[k].gatewayTxnId = e.gatewayTxnId \/ e.idempotencyKey = k)}

(* Mutant: an event without a transaction is left unmarked, to be tried    *)
(* again.                                                                  *)
LookUpLeavesEvent ==
  LET found == Matches(worker.event) IN
  /\ worker.at = "lookup"
  /\ \/ found = {} /\ worker' = Polling
     \/ \E k \in found :
          worker' = [worker EXCEPT !.at = "drive", !.key = k,
                                   !.state = txns[k].currentState]
  /\ UNCHANGED <<eventRow, ingesting, queued, acked, ledgerVars, redisVars, gatewayVars>>

(* findOne() returns any matching row; none at all is logged and the event *)
(* marked as processed.                                                    *)
LookUp ==
  LET found == Matches(worker.event) IN
  /\ worker.at = "lookup"
  /\ \/ found = {} /\ worker' = [worker EXCEPT !.at = "mark"]
     \/ \E k \in found :
          worker' = [worker EXCEPT !.at = "drive", !.key = k,
                                   !.state = txns[k].currentState]
  /\ UNCHANGED <<eventRow, ingesting, queued, acked, ledgerVars, redisVars, gatewayVars>>

(* The ladder of driveToReconciled(): the next state it asks for.          *)
NextUp(s) ==
  CASE s \in {"INITIATED", "RETRY_PENDING"} -> "ROUTED"
    [] s = "ROUTED"     -> "PROCESSING"
    [] s = "PROCESSING" -> "SUCCESS"
    [] s = "SUCCESS"    -> "RECONCILED"

(* Mutant: the worker's attempts are not counted.                          *)
UpMetaUncounted(e, to) ==
  [gateway          |-> e.charge[2],
   gatewayTxnId     |-> IF to = "SUCCESS" THEN e.gatewayTxnId ELSE Null,
   incrementAttempt |-> FALSE]

(* Mutant: the worker leaves the gateway of the row as it is.              *)
UpMetaKeepsGateway(e, to) ==
  [gateway          |-> Null,
   gatewayTxnId     |-> IF to = "SUCCESS" THEN e.gatewayTxnId ELSE Null,
   incrementAttempt |-> to = "PROCESSING"]

UpMeta(e, to) ==
  [gateway          |-> e.charge[2],
   gatewayTxnId     |-> IF to = "SUCCESS" THEN e.gatewayTxnId ELSE Null,
   incrementAttempt |-> to = "PROCESSING"]

(* Mutant: the error is swallowed and the event marked as processed.       *)
DriveUpSwallows ==
  LET k == worker.key
      to == NextUp(worker.state)
  IN
  /\ worker.at = "drive"
  /\ worker.state \notin Terminal
  /\ \/ /\ Transition(k, to, UpMeta(worker.event, to))
        /\ worker' = [worker EXCEPT !.state = to]
     \/ /\ ~CanTransition(k, to)
        /\ worker' = [worker EXCEPT !.at = "mark"]
        /\ UNCHANGED ledgerVars
  /\ UNCHANGED <<eventRow, ingesting, queued, acked, redisVars, gatewayVars>>

(* One transition of the ladder.  The local `state` is the one read by     *)
(* LookUp or returned by the last transition; if the row has moved on, the *)
(* state machine throws, pollQueue logs it and the popped event is gone.   *)
DriveUp ==
  LET k == worker.key
      to == NextUp(worker.state)
  IN
  /\ worker.at = "drive"
  /\ worker.state \notin Terminal
  /\ \/ /\ Transition(k, to, UpMeta(worker.event, to))
        /\ worker' = [worker EXCEPT !.state = to]
     \/ ~CanTransition(k, to) /\ worker' = Polling /\ UNCHANGED ledgerVars
  /\ UNCHANGED <<eventRow, ingesting, queued, acked, redisVars, gatewayVars>>

(* RECONCILED (now or before) and FAILED leave nothing to drive.           *)
DriveDone ==
  /\ worker.at = "drive"
  /\ worker.state \in Terminal
  /\ worker' = [worker EXCEPT !.at = "mark"]
  /\ UNCHANGED <<eventRow, ingesting, queued, acked, ledgerVars, redisVars, gatewayVars>>

MarkProcessed ==
  /\ worker.at = "mark"
  /\ eventRow' = [eventRow EXCEPT ![worker.event] = "processed"]
  /\ worker' = Polling
  /\ UNCHANGED <<ingesting, queued, acked, ledgerVars, redisVars, gatewayVars>>

WorkerStep ==
  \/ \E e \in Events : Pop(e)
  \/ LoadEvent \/ LookUp \/ DriveUp \/ DriveDone \/ MarkProcessed

(* A database statement of the worker fails: logged, the event is gone.    *)
WorkerError ==
  /\ worker.at # "poll"
  /\ worker' = Polling
  /\ UNCHANGED <<eventRow, ingesting, queued, acked, ledgerVars, redisVars, gatewayVars>>

(* The process dies between any two steps of ingest() and the worker.      *)
ReconCrash ==
  /\ ingesting' = {}
  /\ worker' = Polling
  /\ UNCHANGED <<eventRow, queued, acked>>

ReconTypeOK ==
  /\ eventRow \in [Events -> {"none", "stored", "processed"}]
  /\ ingesting \subseteq Events /\ queued \subseteq Events /\ acked \subseteq Events
  /\ worker \in [at : {"poll", "load", "lookup", "drive", "mark"},
                 event : Events \cup {Null}, key : Keys \cup {Null},
                 state : TransactionState \cup {Null}]
=============================================================================
