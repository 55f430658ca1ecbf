-------------------------- MODULE PaymentInvariants --------------------------
(***************************************************************************)
(* Why the invariants of PaymentSystem hold: what is true of a request, of *)
(* the worker and of a webhook at each of their places.  Each invariant of *)
(* PaymentSystem that is not inductive by itself becomes so together with  *)
(* the conjuncts below; the proof modules prove them in this order.        *)
(***************************************************************************)
EXTENDS PaymentSystem

(* The awaits of create() once the request has inserted the row ...        *)
PastInsert ==
  {"logcreation", "route", "process", "charge", "await", "succeed",
   "recordsuccess", "recordfailure", "failover", "cache"}

(* ... before its current gateway is called, and after.                    *)
Untried == {"logcreation", "route", "process", "charge"}
Tried == {"await", "succeed", "recordsuccess", "recordfailure", "failover"}

-----------------------------------------------------------------------------
(* The locals of create(), by the place the request is at.                 *)
LocalsOK(l) ==
  /\ l.at # "idle" => l.key \in Keys
  /\ l.at \in PastInsert \cup {"insert"} => l.gateway \in Gateways
  /\ l.at \in {"recache", "recordsuccess", "cache"} => l.txn \in Transaction
  /\ l.at # "done" => l.answer = Null

(* The locals of processEvent() and driveToReconciled().                   *)
WorkerOK ==
  /\ worker.at = "poll" <=> worker.event = Null
  /\ worker.at = "drive" => worker.key \in Keys /\ worker.state \in TransactionState

TypeInv ==
  /\ TypeOK
  /\ \A r \in Requests : LocalsOK(req[r])
  /\ WorkerOK

-----------------------------------------------------------------------------
(* The request that inserted the row owns the payment: there is one, and   *)
(* before there is one no gateway was called.                              *)
OneOwner ==
  /\ \A r \in Requests : req[r].at \in PastInsert => txns[req[r].key] # Null
  /\ \A q, r \in Requests :
       /\ req[q].at \in PastInsert
       /\ req[r].at \in PastInsert
       /\ req[q].key = req[r].key
       => q = r
  /\ \A k \in Keys, g \in Gateways : txns[k] = Null => calls[<<k, g>>] = 0

(* The gateways a request has still to try are different.                  *)
DistinctFallbacks(r) ==
  \A i \in DOMAIN req[r].fallbacks :
    /\ req[r].fallbacks[i] # req[r].gateway
    /\ \A j \in DOMAIN req[r].fallbacks :
         req[r].fallbacks[i] = req[r].fallbacks[j] => i = j

(* None of them was called yet, nor the current one before its charge.     *)
FallbacksUncalled(r) ==
  /\ \A i \in DOMAIN req[r].fallbacks : calls[<<req[r].key, req[r].fallbacks[i]>>] = 0
  /\ req[r].at \in Untried => calls[<<req[r].key, req[r].gateway>>] = 0
  /\ req[r].at \in Tried => calls[<<req[r].key, req[r].gateway>>] > 0

FailoverOrder ==
  \A r \in Requests :
    /\ req[r].at \in PastInsert \cup {"insert"} => DistinctFallbacks(r)
    /\ req[r].at \in PastInsert => FallbacksUncalled(r)

(* Of the gateways of the ranking, the owner has given up only such as     *)
(* were called.                                                            *)
GivenUpAreCalled ==
  \A r \in Requests :
    req[r].at \in PastInsert =>
      \A g \in ranked[req[r].key] \ GatewaysOf(r) : calls[<<req[r].key, g>>] > 0

(* The owner of a payment that has FAILED has only its answer to give.     *)
FailedIsOver ==
  \A r \in Requests :
    req[r].at \in PastInsert /\ txns[req[r].key].currentState = "FAILED" =>
      req[r].at = "cache"

(* An attempt at gateway g is in the audit trail of k.                     *)
AttemptLogged(k, g) ==
  \E i \in DOMAIN audit[k] :
    audit[k][i].toState = "PROCESSING" /\ audit[k][i].gateway = g

ChargeFollowsAudit ==
  \A r \in Requests :
    req[r].at = "charge" => AttemptLogged(req[r].key, req[r].gateway)

-----------------------------------------------------------------------------
(* The webhooks that are under way.                                        *)
UnderWay(e) ==
  \/ e \in ingesting
  \/ \E b \in Backends : \E i \in DOMAIN queue[b] : queue[b][i] = e
  \/ worker.event = e

(* The webhooks that were ever received.                                   *)
Received(e) == UnderWay(e) \/ eventRow[e] # "none"

(* A webhook reports on a charge that was requested ...                    *)
WebhooksHaveCharges ==
  /\ \A c \in GatewayTxnIds : charges[c] # "none" => calls[c] > 0
  /\ \A e \in Events : Received(e) => calls[e.charge] > 0

(* ... and the worker drives the payment of that charge.                   *)
DrivesOwnPayment ==
  /\ \A k \in Keys :
       txns[k] # Null /\ txns[k].gatewayTxnId # Null =>
         /\ txns[k].gatewayTxnId[1] = k
         /\ txns[k].currentState \in {"SUCCESS", "RECONCILED"}
  /\ worker.at \in {"lookup", "drive"} => worker.event.gatewayTxnId # Null
  /\ worker.at = "drive" => worker.key = worker.event.charge[1]

(* Whoever may make a transition of k comes after the creation was logged. *)
CreationLogged ==
  /\ \A r \in Requests :
       req[r].at \in PastInsert \ {"logcreation"} => req[r].key \in creationLogged
  /\ \A k \in Keys, g \in Gateways : calls[<<k, g>>] > 0 => k \in creationLogged

-----------------------------------------------------------------------------
(* A row that a request has read and is about to return.                   *)
CopiesStand ==
  \A r \in Requests :
    req[r].at \in {"recache", "recordsuccess", "cache"} =>
      Stands(req[r].key, req[r].txn)

(* The Map is empty as long as Redis is used.                              *)
MapUnused ==
  \A k \in Keys : store["memory"][k] # Null => isMockMode

(* The worker is done with a keyed webhook only if its payment is at rest. *)
AtRest(k) == txns[k] # Null /\ txns[k].currentState \in Terminal
MarksSettled ==
  /\ worker.at = "drive" /\ worker.state \in Terminal => AtRest(worker.key)
  /\ /\ worker.at = "mark"
     /\ worker.event.gatewayTxnId # Null
     /\ worker.event.idempotencyKey # Null
     => AtRest(worker.event.idempotencyKey)

(* A webhook without a key finds its payment by the id of its charge, when *)
(* only the worker moves the row any more: what it has read stays true.    *)
KeylessIsSettled ==
  worker.at = "drive" /\ worker.event.idempotencyKey = Null =>
    /\ txns[worker.key] # Null
    /\ worker.state = txns[worker.key].currentState
    /\ worker.state \in {"SUCCESS", "RECONCILED"}

(* Without the loss of Redis the queue holds every event pushed on it.     *)
RedisInUse == Faults \subseteq {"ttl"} => ~isMockMode

-----------------------------------------------------------------------------
(* If every webhook reports a success, then an accepted charge backs each  *)
(* of them, and the request that believes in its own.                      *)
OnlySuccessEvents == \A e \in Events : e.eventType = "succeeded"

AcceptedEvidence ==
  /\ \A e \in Events : Received(e) => WasAccepted(e.charge)
  /\ \A r \in Requests :
       req[r].at = "succeed" => WasAccepted(<<req[r].key, req[r].gateway>>)

(* At most one copy of a webhook is under way, none once it is processed.  *)
OneCopy ==
  \A e \in Events :
    /\ \A a, b \in Backends : \A i \in DOMAIN queue[a], j \in DOMAIN queue[b] :
         queue[a][i] = e /\ queue[b][j] = e => a = b /\ i = j
    /\ e \in ingesting =>
         worker.event # e /\ \A b \in Backends : \A i \in DOMAIN queue[b] : queue[b][i] # e
    /\ worker.event = e =>
         \A b \in Backends : \A i \in DOMAIN queue[b] : queue[b][i] # e
    /\ eventRow[e] # "stored" => ~UnderWay(e)
=============================================================================
