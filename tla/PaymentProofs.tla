---------------------------- MODULE PaymentProofs ----------------------------
(***************************************************************************)
(* What holds of the whole payment system for every set of keys, gateways, *)
(* requests and webhooks and every combination of faults: its types, the   *)
(* audit trail, and the safety of charges.                                 *)
(*                                                                         *)
(* The arguments about charges look only at what a step does to the        *)
(* ledger, to the gateways and to the place of a request.  StepEffect      *)
(* states that once; the invariants of PaymentInvariants are then shown to *)
(* be preserved by every effect.                                           *)
(***************************************************************************)
EXTENDS PaymentInvariants, LedgerProofs, FiniteSetTheorems

-----------------------------------------------------------------------------
(* The arguments create() and driveToReconciled() pass to transition().    *)

(* What create() passes.                                                   *)
LEMMA MetaTyped ==
  ASSUME NEW g \in Gateways, NEW id \in GatewayTxnIds \cup {Null},
         NEW inc \in BOOLEAN
  PROVE  Meta(g, id, inc) \in Metadata
BY DEF Meta, Metadata

(* What the worker passes on its way up.                                   *)
LEMMA UpMetaTyped ==
  ASSUME NEW e \in Events, NEW to \in TransactionState
  PROVE  UpMeta(e, to) \in Metadata
<1>1. /\ e.charge \in GatewayTxnIds
      /\ e.gatewayTxnId \in GatewayTxnIds \cup {Null}
  BY EventsAssumption DEF WebhookEvent
<1>2. e.charge[2] \in Gateways
  BY <1>1 DEF GatewayTxnIds
<1> QED
  BY <1>1, <1>2 DEF UpMeta, Metadata

(* The ladder of the worker follows the allow-list.                        *)
LEMMA NextUpAllowed ==
  ASSUME NEW s \in TransactionState \ Terminal
  PROVE  NextUp(s) \in TransactionState /\ NextUp(s) \in VALID_TRANSITIONS[s]
BY DEF NextUp, TransactionState, Terminal, VALID_TRANSITIONS

-----------------------------------------------------------------------------
(* Every step of create() makes at most one step of the ledger.            *)
LEMMA RequestUsesLedger ==
  ASSUME TypeInv, NEW r \in Requests, RequestStep(r)
  PROVE  [LedgerNext]_ledgerVars
<1> DEFINE k == req[r].key
           g == req[r].gateway
<1>0. LocalsOK(req[r])
  BY DEF TypeInv
<1>1. ASSUME NEW to \in TransactionState, NEW meta \in Metadata, NEW next,
             k \in Keys, MakeTransition(r, to, meta, next)
      PROVE  [LedgerNext]_ledgerVars
  BY <1>1 DEF MakeTransition, LedgerNext
<1>2. CASE InsertTransaction(r)
  <2>1. k \in Keys /\ g \in Gateways
    BY <1>0, <1>2 DEF LocalsOK, InsertTransaction
  <2> QED
    BY <1>2, <2>1 DEF InsertTransaction, LedgerNext
<1>3. CASE LogTransactionCreated(r)
  <2>1. k \in Keys
    BY <1>0, <1>3 DEF LocalsOK, LogTransactionCreated
  <2> QED
    BY <1>3, <2>1 DEF LogTransactionCreated, LedgerNext
<1>4. CASE Route(r) \/ Process(r) \/ Succeed(r) \/ FailOver(r)
  <2>1. k \in Keys /\ g \in Gateways /\ <<k, g>> \in GatewayTxnIds
    BY <1>0, <1>4 DEF LocalsOK, PastInsert, Route, Process, Succeed, FailOver, GatewayTxnIds
  <2>2. /\ Meta(g, Null, FALSE) \in Metadata
        /\ Meta(g, Null, TRUE) \in Metadata
        /\ Meta(g, <<k, g>>, FALSE) \in Metadata
    BY <2>1, MetaTyped
  <2>3. {"ROUTED", "PROCESSING", "SUCCESS", "RETRY_PENDING", "FAILED"} \subseteq TransactionState
    BY DEF TransactionState
  <2> QED
    BY <1>1, <1>4, <2>1, <2>2, <2>3 DEF Route, Process, Succeed, FailOver
<1>5. CASE ~ \/ InsertTransaction(r) \/ LogTransactionCreated(r)
             \/ Route(r) \/ Process(r) \/ Succeed(r) \/ FailOver(r)
  BY <1>5 DEF RequestStep, ReadCache, FindExisting, CheckDatabase, CacheExisting,
              RankGateways, CallGateway, EndRace, RecordSuccess, RecordFailure,
              CacheOutcome, CleanUp
<1> QED
  BY <1>2, <1>3, <1>4, <1>5

(* So does every step of the worker.                                       *)
LEMMA WorkerUsesLedger ==
  ASSUME TypeInv, WorkerStep
  PROVE  [LedgerNext]_ledgerVars
<1>1. CASE DriveUp
  <2> DEFINE to == NextUp(worker.state)
  <2>1. worker.key \in Keys /\ worker.state \in TransactionState \ Terminal
    BY <1>1 DEF TypeInv, WorkerOK, DriveUp
  <2>2. worker.event \in Events
    BY <1>1, NullAssumption DEF TypeInv, TypeOK, ReconTypeOK, WorkerOK, DriveUp
  <2>3. to \in TransactionState
    BY <2>1, NextUpAllowed
  <2>4. UpMeta(worker.event, to) \in Metadata
    BY <2>2, <2>3, UpMetaTyped
  <2> QED
    BY <1>1, <2>1, <2>3, <2>4 DEF DriveUp, LedgerNext
<1>2. CASE ~DriveUp
  BY <1>2 DEF WorkerStep, Pop, LoadEvent, LookUp, DriveDone, MarkProcessed
<1> QED
  BY <1>1, <1>2

(* A step of the payment system is a step of the ledger, or leaves it      *)
(* alone.                                                                  *)
LEMMA StepUsesLedger == TypeInv /\ [Next]_vars => [LedgerNext]_ledgerVars
<1> SUFFICES ASSUME TypeInv, [Next]_vars
             PROVE  [LedgerNext]_ledgerVars
  OBVIOUS
<1>1. ASSUME NEW r \in Requests, ServeRequest(r)
      PROVE  [LedgerNext]_ledgerVars
  BY <1>1, RequestUsesLedger DEF ServeRequest
<1>2. CASE Reconcile
  BY <1>2, WorkerUsesLedger DEF Reconcile
<1>3. ASSUME NEW r \in Requests, Arrive(r)
      PROVE  [LedgerNext]_ledgerVars
  BY <1>3 DEF Arrive, AcquireLock
<1>4. ASSUME NEW e \in Events, Webhook(e)
      PROVE  [LedgerNext]_ledgerVars
  BY <1>4 DEF Webhook, StoreEvent, PushEvent, AckDuplicate
<1>5. CASE GatewayActs \/ DatabaseFault \/ KeyExpires \/ RedisFault \/ CrashRestart
  BY <1>5 DEF GatewayActs, DatabaseFault, DatabaseError, WorkerError, KeyExpires,
              RedisFault, PushFails, CrashRestart
<1>6. CASE UNCHANGED vars
  BY <1>6 DEF vars
<1> QED
  BY <1>1, <1>2, <1>3, <1>4, <1>5, <1>6 DEF Next

-----------------------------------------------------------------------------
(* A request is written as a whole: the others keep their locals.          *)
LEMMA LocalsStep ==
  ASSUME TypeInv, NEW r \in Requests, NEW l \in Locals, LocalsOK(l),
         req' = [req EXCEPT ![r] = l]
  PROVE  RequestTypeOK' /\ \A q \in Requests : LocalsOK(req'[q])
BY DEF TypeInv, TypeOK, RequestTypeOK

(* The request moves on to a place that needs no more than it has.         *)
LEMMA GotoTyped ==
  ASSUME TypeInv, NEW r \in Requests, NEW place \in Places, Goto(r, place),
         LocalsOK([req[r] EXCEPT !.at = place])
  PROVE  RequestTypeOK' /\ \A q \in Requests : LocalsOK(req'[q])
<1>1. [req[r] EXCEPT !.at = place] \in Locals
  BY DEF TypeInv, TypeOK, RequestTypeOK, Locals
<1>2. req' = [req EXCEPT ![r] = [req[r] EXCEPT !.at = place]]
  BY DEF Goto
<1> QED
  BY <1>1, <1>2, LocalsStep

(* The request answers.                                                    *)
LEMMA AnswerTyped ==
  ASSUME TypeInv, NEW r \in Requests, NEW a \in Answers, Answer(r, a),
         req[r].at # "idle"
  PROVE  RequestTypeOK' /\ \A q \in Requests : LocalsOK(req'[q])
<1> DEFINE l == [at |-> "done", key |-> req[r].key, gateway |-> Null,
                 fallbacks |-> << >>, txn |-> Null, answer |-> a]
<1>1. req[r].key \in Keys
  BY DEF TypeInv, LocalsOK
<1>2. l \in Locals /\ LocalsOK(l)
  BY <1>1 DEF Locals, Places, LocalsOK, PastInsert
<1>3. req'[r] = l
  BY DEF TypeInv, TypeOK, RequestTypeOK, Answer, Idle
<1> HIDE DEF l
<1> QED
  BY <1>2, <1>3 DEF TypeInv, TypeOK, RequestTypeOK, Answer

(* What clients are told.                                                  *)
LEMMA AnswersTyped ==
  /\ \A t \in Transaction : Ok(t) \in Answers
  /\ Refused("conflict") \in Answers
  /\ Refused("error") \in Answers
BY DEF Ok, Refused, Answers

(* A transition of create(): the row it returns is a row.                  *)
LEMMA TransitionTyped ==
  ASSUME TypeInv, NEW r \in Requests, NEW to \in TransactionState,
         NEW meta \in Metadata, NEW next \in Locals,
         MakeTransition(r, to, meta, next),
         req[r].key \in Keys, req[r].at # "done",
         LocalsOK([next EXCEPT !.txn = Null])
           \/ (to \in {"SUCCESS", "FAILED"} /\ next.key \in Keys
               /\ next.gateway \in Gateways /\ next.at # "done" /\ next.answer = Null)
  PROVE  RequestTypeOK' /\ \A q \in Requests : LocalsOK(req'[q])
<1> DEFINE k == req[r].key
           t == IF to \in {"SUCCESS", "FAILED"} THEN txns'[k] ELSE Null
<1>1. CASE Transition(k, to, meta) /\ req' = [req EXCEPT ![r] = [next EXCEPT !.txn = t]]
  <2>1. txns[k] \in Transaction
    BY <1>1 DEF TypeInv, TypeOK, LedgerTypeOK, Transition, CanTransition
  <2>2. txns'[k] \in Transaction
    BY <1>1, <2>1, AppliedTyped DEF TypeInv, TypeOK, LedgerTypeOK, Transition
  <2>3. t \in Transaction \cup {Null} /\ (to \in {"SUCCESS", "FAILED"} => t \in Transaction)
                                      /\ (to \notin {"SUCCESS", "FAILED"} => t = Null)
    BY <2>2
  <2> HIDE DEF t
  <2>4. [next EXCEPT !.txn = t] \in Locals
    BY <2>3 DEF Locals
  <2>5. LocalsOK([next EXCEPT !.txn = t])
    BY <2>3 DEF LocalsOK, Locals
  <2> QED
    BY <1>1, <2>4, <2>5, LocalsStep
<1>2. CASE Goto(r, "cleanup")
  <2>1. LocalsOK([req[r] EXCEPT !.at = "cleanup"])
    BY DEF TypeInv, TypeOK, RequestTypeOK, Locals, LocalsOK, PastInsert
  <2>2. "cleanup" \in Places
    BY DEF Places
  <2> QED
    BY <1>2, <2>1, <2>2, GotoTyped
<1> QED
  BY <1>1, <1>2 DEF MakeTransition

(* A ranking is a sequence of gateways, each at most once.                 *)
LEMMA RankingsTyped ==
  ASSUME NEW s \in Rankings
  PROVE  /\ s \in Seq(Gateways)
         /\ \A i, j \in DOMAIN s : s[i] = s[j] => i = j
<1>1. Cardinality(Gateways) \in Nat
  BY RequestsAssumption, FS_CardinalityType
<1> QED
  BY <1>1 DEF Rankings

(* The locals of every request stay typed, whatever create() does.         *)
LEMMA RequestTyped ==
  ASSUME TypeInv, NEW r \in Requests, RequestStep(r)
  PROVE  RequestTypeOK' /\ \A q \in Requests : LocalsOK(req'[q])
<1> DEFINE Good == RequestTypeOK' /\ \A q \in Requests : LocalsOK(req'[q])
<1> SUFFICES Good
  OBVIOUS
<1> HIDE DEF Good
<1>0. req[r] \in Locals /\ LocalsOK(req[r])
  BY DEF TypeInv, TypeOK, RequestTypeOK
<1>1. ASSUME NEW place \in {"findexisting", "rank", "cleanup", "await", "failover",
                            "route", "recordfailure", "logcreation", "succeed"},
             Goto(r, place), req[r].at \notin {"idle", "done"},
             place \in PastInsert => req[r].gateway \in Gateways
      PROVE  Good
  <2>1. LocalsOK([req[r] EXCEPT !.at = place])
    BY <1>0, <1>1 DEF Locals, LocalsOK, PastInsert
  <2>2. place \in Places
    BY DEF Places, InTry
  <2> QED
    BY <1>1, <2>1, <2>2, GotoTyped DEF Good
<1>2. ASSUME NEW a \in Answers, Answer(r, a), req[r].at # "idle"
      PROVE  Good
  BY <1>2, AnswerTyped DEF Good
<1>3. CASE ReadCache(r)
  <2> DEFINE cached == Get(req[r].key)
  <2>1. cached \notin {Null, Processing} => cached.transaction \in Transaction
    BY <1>0, <1>3 DEF TypeInv, TypeOK, RedisTypeOK, CacheEntry, Get, Active, Backends,
                      ReadCache, LocalsOK
  <2> HIDE DEF cached
  <2> QED
    BY <1>1, <1>2, <1>3, <2>1, AnswersTyped DEF ReadCache, PastInsert, cached
<1>4. ASSUME NEW t \in Transaction, req[r].at \in {"findexisting", "checkdb"},
             req' = [req EXCEPT ![r].txn = t, ![r].at = "recache"]
      PROVE  Good
  <2> DEFINE l == [req[r] EXCEPT !.txn = t, !.at = "recache"]
  <2>1. l \in Locals /\ LocalsOK(l)
    BY <1>0, <1>4 DEF Locals, LocalsOK, Places, PastInsert
  <2>2. req' = [req EXCEPT ![r] = l]
    BY <1>4 DEF TypeInv, TypeOK, RequestTypeOK
  <2> QED
    BY <2>1, <2>2, LocalsStep DEF Good
<1>5. CASE FindExisting(r) \/ CheckDatabase(r)
  <2>1. txns[req[r].key] \in Transaction \cup {Null}
    BY <1>0, <1>5 DEF TypeInv, TypeOK, LedgerTypeOK, LocalsOK, FindExisting, CheckDatabase
  <2> QED
    BY <1>1, <1>2, <1>4, <1>5, <2>1, AnswersTyped DEF FindExisting, CheckDatabase, PastInsert
<1>6. CASE CacheExisting(r) \/ CacheOutcome(r) \/ CleanUp(r)
  <2>1. req[r].at # "cleanup" => req[r].txn \in Transaction
    BY <1>0, <1>6 DEF LocalsOK, CacheExisting, CacheOutcome, CleanUp
  <2> QED
    BY <1>2, <1>6, <2>1, AnswersTyped DEF CacheExisting, CacheOutcome, CleanUp
<1>7. CASE RankGateways(r)
  <2> PICK s \in Rankings :
        IF s = << >>
        THEN Goto(r, "cleanup")
        ELSE req' = [req EXCEPT ![r].gateway = Head(s),
                                ![r].fallbacks = Tail(s),
                                ![r].at = "insert"]
    BY <1>7 DEF RankGateways
  <2>1. CASE s = << >>
    BY <1>1, <1>7, <2>1 DEF RankGateways, PastInsert
  <2>2. CASE s # << >>
    <3> DEFINE l == [req[r] EXCEPT !.gateway = Head(s),
                                   !.fallbacks = Tail(s), !.at = "insert"]
    <3>1. Head(s) \in Gateways /\ Tail(s) \in Seq(Gateways)
      BY <2>2, RankingsTyped
    <3>2. l \in Locals /\ LocalsOK(l)
      BY <1>0, <1>7, <3>1 DEF Locals, LocalsOK, Places, InTry, PastInsert, RankGateways
    <3>3. req' = [req EXCEPT ![r] = l]
      BY <2>2 DEF TypeInv, TypeOK, RequestTypeOK
    <3> QED
      BY <3>2, <3>3, LocalsStep DEF Good
  <2> QED
    BY <2>1, <2>2
<1>8. CASE InsertTransaction(r) \/ LogTransactionCreated(r) \/ CallGateway(r)
           \/ EndRace(r) \/ RecordFailure(r)
  <2>1. req[r].gateway \in Gateways /\ req[r].at \notin {"idle", "done"}
    BY <1>0, <1>8 DEF LocalsOK, PastInsert, InsertTransaction, LogTransactionCreated,
                      CallGateway, EndRace, RecordFailure
  <2> QED
    BY <1>1, <1>8, <2>1 DEF InsertTransaction, LogTransactionCreated, CallGateway,
                            EndRace, RecordFailure
<1>9. CASE RecordSuccess(r)
  <2>1. LocalsOK([req[r] EXCEPT !.at = "cache"])
    BY <1>0, <1>9 DEF Locals, LocalsOK, PastInsert, RecordSuccess
  <2>2. "cache" \in Places
    BY DEF Places, InTry
  <2> QED
    BY <1>9, <2>1, <2>2, GotoTyped DEF Good, RecordSuccess
<1>10. CASE Route(r) \/ Process(r) \/ Succeed(r) \/ FailOver(r)
  <2> DEFINE k == req[r].key
             g == req[r].gateway
  <2>1. /\ k \in Keys /\ g \in Gateways /\ <<k, g>> \in GatewayTxnIds
        /\ req[r].at \notin {"idle", "done"} /\ req[r].answer = Null
    BY <1>0, <1>10 DEF LocalsOK, PastInsert, Route, Process, Succeed, FailOver, GatewayTxnIds
  <2>2. /\ Meta(g, Null, FALSE) \in Metadata
        /\ Meta(g, Null, TRUE) \in Metadata
        /\ Meta(g, <<k, g>>, FALSE) \in Metadata
    BY <2>1, MetaTyped
  <2>3. {"ROUTED", "PROCESSING", "SUCCESS", "RETRY_PENDING", "FAILED"} \subseteq TransactionState
    BY DEF TransactionState
  <2>4. CASE Route(r)
    <3> DEFINE next == [req[r] EXCEPT !.at = "process"]
    <3>1. next \in Locals /\ LocalsOK([next EXCEPT !.txn = Null])
      BY <1>0, <2>1 DEF Locals, LocalsOK, PastInsert, Places, InTry
    <3> QED
      BY <2>1, <2>2, <2>3, <2>4, <3>1, TransitionTyped DEF Route, Good
  <2>5. CASE Process(r)
    <3> DEFINE next == [req[r] EXCEPT !.at = "charge"]
    <3>1. next \in Locals /\ LocalsOK([next EXCEPT !.txn = Null])
      BY <1>0, <2>1 DEF Locals, LocalsOK, PastInsert, Places, InTry
    <3> QED
      BY <2>1, <2>2, <2>3, <2>5, <3>1, TransitionTyped DEF Process, Good
  <2>6. CASE Succeed(r)
    <3> DEFINE next == [req[r] EXCEPT !.at = "recordsuccess"]
    <3>1. /\ next \in Locals /\ next.key \in Keys /\ next.gateway \in Gateways
          /\ next.at # "done" /\ next.answer = Null
      BY <1>0, <2>1 DEF Locals, Places, InTry
    <3> HIDE DEF next
    <3>2. MakeTransition(r, "SUCCESS", Meta(g, <<k, g>>, FALSE), next)
      BY <2>6 DEF Succeed, next
    <3> QED
      BY <2>1, <2>2, <2>3, <3>1, <3>2, TransitionTyped DEF Good
  <2>7. CASE FailOver(r) /\ req[r].fallbacks # << >>
    <3> DEFINE next == [req[r] EXCEPT !.at = "route", !.gateway = Head(req[r].fallbacks),
                                      !.fallbacks = Tail(@)]
    <3>1. Head(req[r].fallbacks) \in Gateways /\ Tail(req[r].fallbacks) \in Seq(Gateways)
      BY <1>0, <2>7 DEF Locals
    <3>2. next \in Locals /\ LocalsOK([next EXCEPT !.txn = Null])
      BY <1>0, <2>1, <3>1 DEF Locals, LocalsOK, PastInsert, Places, InTry
    <3> HIDE DEF next
    <3>3. MakeTransition(r, "RETRY_PENDING", Meta(g, Null, FALSE), next)
      BY <2>7 DEF FailOver, next
    <3> QED
      BY <2>1, <2>2, <2>3, <3>2, <3>3, TransitionTyped DEF Good
  <2>8. CASE FailOver(r) /\ req[r].fallbacks = << >>
    <3> DEFINE next == [req[r] EXCEPT !.at = "cache"]
    <3>1. /\ next \in Locals /\ next.key \in Keys /\ next.gateway \in Gateways
          /\ next.at # "done" /\ next.answer = Null
      BY <1>0, <2>1 DEF Locals, Places, InTry
    <3> HIDE DEF next
    <3>2. MakeTransition(r, "FAILED", Meta(g, Null, FALSE), next)
      BY <2>8 DEF FailOver, next
    <3> QED
      BY <2>1, <2>2, <2>3, <3>1, <3>2, TransitionTyped DEF Good
  <2> QED
    BY <1>10, <2>4, <2>5, <2>6, <2>7, <2>8
<1> QED
  BY <1>3, <1>5, <1>6, <1>7, <1>8, <1>9, <1>10 DEF RequestStep

-----------------------------------------------------------------------------
(* Redis and the Map hold cache entries, and queues of webhooks.           *)
LEMMA SetKeyTyped ==
  ASSUME RedisTypeOK, NEW k \in Keys, NEW v \in CacheEntry \cup {Null}, SetKey(k, v)
  PROVE  RedisTypeOK'
BY DEF RedisTypeOK, SetKey, Active, Backends

(* The store and the queue keep their types.                               *)
LEMMA RedisTyped == TypeInv /\ [Next]_vars => RedisTypeOK'
<1> SUFFICES ASSUME TypeInv, [Next]_vars
             PROVE  RedisTypeOK'
  OBVIOUS
<1>0. RedisTypeOK /\ (UNCHANGED redisVars => RedisTypeOK')
  BY DEF TypeInv, TypeOK, RedisTypeOK, redisVars
<1>1. ASSUME NEW r \in Requests, Arrive(r)
      PROVE  RedisTypeOK'
  <2>1. Processing \in CacheEntry
    BY DEF CacheEntry
  <2> QED
    BY <1>0, <1>1, <2>1, SetKeyTyped DEF Arrive, AcquireLock
<1>2. ASSUME NEW r \in Requests, ServeRequest(r)
      PROVE  RedisTypeOK'
  <2>1. CASE CacheExisting(r) \/ CacheOutcome(r) \/ CleanUp(r)
    <3>1. /\ req[r].key \in Keys
          /\ req[r].at # "cleanup" => req[r].txn \in Transaction
      BY <2>1 DEF TypeInv, LocalsOK, CacheExisting, CacheOutcome, CleanUp
    <3>2. req[r].at # "cleanup" => Completed(req[r].txn) \in CacheEntry
      BY <3>1 DEF Completed, CacheEntry
    <3> QED
      BY <1>0, <2>1, <3>1, <3>2, SetKeyTyped DEF CacheExisting, CacheOutcome, CleanUp, Del
  <2>2. CASE ~(CacheExisting(r) \/ CacheOutcome(r) \/ CleanUp(r))
    BY <1>0, <1>2, <2>2
       DEF ServeRequest, RequestStep, ReadCache, FindExisting, CheckDatabase, RankGateways,
           InsertTransaction, LogTransactionCreated, Route, Process, CallGateway, EndRace,
           Succeed, RecordSuccess, RecordFailure, FailOver, MakeTransition
  <2> QED
    BY <2>1, <2>2
<1>3. ASSUME NEW e \in Events, Webhook(e)
      PROVE  RedisTypeOK'
  <2>1. CASE PushEvent(e)
    BY <1>0, <2>1 DEF PushEvent, Lpush, RedisTypeOK, Active, Backends
  <2> QED
    BY <1>0, <1>3, <2>1 DEF Webhook, StoreEvent, AckDuplicate
<1>4. CASE Reconcile
  <2>1. ASSUME NEW e \in Events, Pop(e)
        PROVE  RedisTypeOK'
    BY <1>0, <2>1 DEF Pop, Brpop, RedisTypeOK, Active, Backends
  <2> QED
    BY <1>0, <1>4, <2>1
       DEF Reconcile, WorkerStep, LoadEvent, LookUp, DriveUp, DriveDone, MarkProcessed
<1>5. CASE GatewayActs \/ DatabaseFault
  BY <1>0, <1>5 DEF GatewayActs, DatabaseFault, DatabaseError, WorkerError
<1>6. CASE KeyExpires
  BY <1>0, <1>6 DEF KeyExpires, Expire, RedisTypeOK, Backends
<1>7. CASE RedisFault
  BY <1>0, <1>7 DEF RedisFault, Failover, PushFails, RedisTypeOK, redisVars
<1>8. CASE CrashRestart
  <2>1. isMockMode' = FALSE
    BY <1>8 DEF CrashRestart, RedisRestart
  <2>2. store' \in [Backends -> [Keys -> CacheEntry \cup {Null}]]
    BY <1>0, <1>8 DEF CrashRestart, RedisRestart, RedisTypeOK
  <2>3. queue' \in [Backends -> Seq(Events)]
    <3> DEFINE empty == << >>
    <3>1. empty \in Seq(Events)
      OBVIOUS
    <3>2. queue \in [Backends -> Seq(Events)] /\ queue' = [queue EXCEPT !["memory"] = empty]
      BY <1>0, <1>8 DEF CrashRestart, RedisRestart, RedisTypeOK
    <3> HIDE DEF empty
    <3> QED
      BY <3>1, <3>2
  <2> QED
    BY <2>1, <2>2, <2>3 DEF RedisTypeOK
<1>9. CASE UNCHANGED vars
  BY <1>0, <1>9 DEF vars
<1> QED
  BY <1>1, <1>2, <1>3, <1>4, <1>5, <1>6, <1>7, <1>8, <1>9 DEF Next

(* The gateways know charges, and count calls.                             *)
LEMMA GatewayTyped == TypeInv /\ [Next]_vars => GatewayTypeOK'
<1> SUFFICES ASSUME TypeInv, [Next]_vars
             PROVE  GatewayTypeOK'
  OBVIOUS
<1>0. GatewayTypeOK /\ (UNCHANGED gatewayVars => GatewayTypeOK')
  BY DEF TypeInv, TypeOK, GatewayTypeOK, gatewayVars
<1>1. ASSUME NEW r \in Requests, ServeRequest(r)
      PROVE  GatewayTypeOK'
  <2>1. CASE CallGateway(r)
    <3>1. <<req[r].key, req[r].gateway>> \in GatewayTxnIds
      BY <2>1 DEF TypeInv, LocalsOK, CallGateway, PastInsert, GatewayTxnIds
    <3>2. charges' \in [GatewayTxnIds -> ChargeStatus]
      BY <1>0, <2>1 DEF CallGateway, Charge, GatewayTypeOK, ChargeStatus
    <3>3. calls' \in [GatewayTxnIds -> Nat]
      BY <1>0, <2>1, <3>1 DEF CallGateway, Charge, GatewayTypeOK
    <3> QED
      BY <3>2, <3>3 DEF GatewayTypeOK
  <2>2. CASE ~CallGateway(r)
    BY <1>0, <1>1, <2>2
       DEF ServeRequest, RequestStep, ReadCache, FindExisting, CheckDatabase, CacheExisting,
           RankGateways, InsertTransaction, LogTransactionCreated, Route, Process, EndRace,
           Succeed, RecordSuccess, RecordFailure, FailOver, MakeTransition, CacheOutcome, CleanUp
  <2> QED
    BY <2>1, <2>2
<1>2. CASE GatewayActs
  BY <1>0, <1>2 DEF GatewayActs, GatewayStep, Decide, Reverse, GatewayTypeOK, ChargeStatus
<1>3. ASSUME NEW r \in Requests, Arrive(r)
      PROVE  GatewayTypeOK'
  BY <1>0, <1>3 DEF Arrive, AcquireLock
<1>4. ASSUME NEW e \in Events, Webhook(e)
      PROVE  GatewayTypeOK'
  BY <1>0, <1>4 DEF Webhook, StoreEvent, PushEvent, AckDuplicate
<1>5. CASE Reconcile
  BY <1>0, <1>5 DEF Reconcile, WorkerStep, Pop, LoadEvent, LookUp, DriveUp, DriveDone,
                    MarkProcessed
<1>6. CASE DatabaseFault \/ KeyExpires \/ RedisFault \/ CrashRestart
  BY <1>0, <1>6 DEF DatabaseFault, DatabaseError, WorkerError, KeyExpires, RedisFault,
                    PushFails, CrashRestart
<1>7. CASE UNCHANGED vars
  BY <1>0, <1>7 DEF vars
<1> QED
  BY <1>1, <1>2, <1>3, <1>4, <1>5, <1>6, <1>7 DEF Next

(* The worker holds a webhook unless it polls.                             *)
LEMMA WorkerEvent ==
  ASSUME TypeInv, worker.at # "poll"
  PROVE  worker.event \in Events
BY DEF TypeInv, TypeOK, ReconTypeOK, WorkerOK

(* The tables, sets and locals of the reconciliation.                      *)
LEMMA ReconTyped == TypeInv /\ [Next]_vars => ReconTypeOK' /\ WorkerOK'
<1> SUFFICES ASSUME TypeInv, [Next]_vars
             PROVE  ReconTypeOK' /\ WorkerOK'
  OBVIOUS
<1>0. /\ ReconTypeOK /\ WorkerOK
      /\ UNCHANGED reconVars => ReconTypeOK' /\ WorkerOK'
  BY DEF TypeInv, TypeOK, ReconTypeOK, WorkerOK, reconVars
<1>1. ASSUME NEW e \in Events, StoreEvent(e) \/ PushEvent(e) \/ AckDuplicate(e) \/ PushFails(e)
      PROVE  ReconTypeOK' /\ WorkerOK'
  BY <1>0, <1>1 DEF StoreEvent, PushEvent, AckDuplicate, PushFails, ReconTypeOK, WorkerOK
<1>2. Polling.at = "poll" /\ Polling.event = Null
      /\ Polling \in [at : {"poll", "load", "lookup", "drive", "mark"},
                      event : Events \cup {Null}, key : Keys \cup {Null},
                      state : TransactionState \cup {Null}]
  BY DEF Polling
<1>3. ASSUME worker' = Polling, UNCHANGED <<queued, acked>>,
             ingesting' = ingesting \/ ingesting' = {},
             eventRow' \in [Events -> {"none", "stored", "processed"}]
      PROVE  ReconTypeOK' /\ WorkerOK'
  BY <1>0, <1>2, <1>3 DEF ReconTypeOK, WorkerOK
<1>4. ASSUME NEW e \in Events, Pop(e)
      PROVE  ReconTypeOK' /\ WorkerOK'
  <2>1. worker' = [at |-> "load", event |-> e, key |-> Null, state |-> Null]
    BY <1>4 DEF Pop, Polling
  <2> QED
    BY <1>0, <1>4, <2>1, EventsAssumption DEF Pop, ReconTypeOK, WorkerOK
<1>5. ASSUME worker.at # "poll", NEW place \in {"lookup", "mark"},
             worker' = [worker EXCEPT !.at = place],
             UNCHANGED <<eventRow, ingesting, queued, acked>>
      PROVE  ReconTypeOK' /\ WorkerOK'
  BY <1>0, <1>5 DEF ReconTypeOK, WorkerOK
<1>6. CASE LoadEvent
  <2>1. \/ worker' = Polling
        \/ worker' = [worker EXCEPT !.at = "mark"]
        \/ worker' = [worker EXCEPT !.at = "lookup"]
    BY <1>6 DEF LoadEvent
  <2> QED
    BY <1>0, <1>3, <1>5, <1>6, <2>1 DEF LoadEvent, ReconTypeOK
<1>7. CASE LookUp
  <2>1. ASSUME NEW k \in Matches(worker.event),
               worker' = [worker EXCEPT !.at = "drive", !.key = k,
                                        !.state = txns[k].currentState]
        PROVE  ReconTypeOK' /\ WorkerOK'
    <3>1. k \in Keys /\ txns[k].currentState \in TransactionState
      BY <2>1 DEF Matches, TypeInv, TypeOK, LedgerTypeOK, Transaction
    <3> QED
      BY <1>0, <1>7, <2>1, <3>1 DEF LookUp, ReconTypeOK, WorkerOK
  <2> QED
    BY <1>5, <1>7, <2>1 DEF LookUp
<1>8. CASE DriveUp
  <2>1. worker' = Polling \/ worker' = [worker EXCEPT !.state = NextUp(worker.state)]
    BY <1>8 DEF DriveUp
  <2>2. NextUp(worker.state) \in TransactionState
    BY <1>0, <1>8, NextUpAllowed DEF WorkerOK, DriveUp
  <2>3. CASE worker' = [worker EXCEPT !.state = NextUp(worker.state)]
    BY <1>0, <1>8, <2>2, <2>3 DEF DriveUp, ReconTypeOK, WorkerOK
  <2> QED
    BY <1>0, <1>3, <1>8, <2>1, <2>3 DEF DriveUp, ReconTypeOK
<1>9. CASE DriveDone
  BY <1>5, <1>9 DEF DriveDone
<1>10. CASE MarkProcessed
  <2>1. eventRow' \in [Events -> {"none", "stored", "processed"}]
    BY <1>0, <1>10 DEF MarkProcessed, ReconTypeOK
  <2> QED
    BY <1>3, <1>10, <2>1 DEF MarkProcessed
<1>11. CASE WorkerError
  BY <1>0, <1>3, <1>11 DEF WorkerError, ReconTypeOK
<1>12. CASE CrashRestart
  BY <1>0, <1>3, <1>12 DEF CrashRestart, ReconCrash, ReconTypeOK
<1>13. CASE DatabaseFault
  BY <1>0, <1>11, <1>13 DEF DatabaseFault
<1>14. CASE RedisFault
  BY <1>0, <1>1, <1>14 DEF RedisFault
<1>15. CASE Reconcile
  BY <1>4, <1>6, <1>7, <1>8, <1>9, <1>10, <1>15 DEF Reconcile, WorkerStep
<1>16. CASE GatewayActs \/ KeyExpires
  BY <1>0, <1>16 DEF GatewayActs, KeyExpires
<1>17. CASE \E r \in Requests : Arrive(r) \/ ServeRequest(r)
  BY <1>0, <1>17 DEF Arrive, ServeRequest
<1>18. CASE \E e \in Events : Webhook(e)
  BY <1>1, <1>18 DEF Webhook
<1>19. CASE UNCHANGED vars
  BY <1>0, <1>19 DEF vars
<1> QED
  BY <1>12, <1>13, <1>14, <1>15, <1>16, <1>17, <1>18, <1>19 DEF Next

(* The locals of all requests, over every step of the system.              *)
LEMMA RequestsTyped ==
  TypeInv /\ [Next]_vars => RequestTypeOK' /\ \A q \in Requests : LocalsOK(req'[q])
<1> SUFFICES ASSUME TypeInv, [Next]_vars
             PROVE  RequestTypeOK' /\ \A q \in Requests : LocalsOK(req'[q])
  OBVIOUS
<1> DEFINE Good == RequestTypeOK' /\ \A q \in Requests : LocalsOK(req'[q])
<1> SUFFICES Good
  OBVIOUS
<1>0. UNCHANGED req => Good
  BY DEF TypeInv, TypeOK, RequestTypeOK
<1>1. ASSUME NEW r \in Requests, NEW k \in Keys, AcquireLock(r, k)
      PROVE  Good
  <2>1. PICK place \in {"checkdb", "readcache"} :
               req' = [req EXCEPT ![r].key = k, ![r].at = place]
    BY <1>1 DEF AcquireLock
  <2> DEFINE l == [req[r] EXCEPT !.key = k, !.at = place]
  <2>2. req[r] \in Locals /\ LocalsOK(req[r]) /\ req[r].at = "idle"
    BY <1>1 DEF TypeInv, TypeOK, RequestTypeOK, AcquireLock
  <2>3. l \in Locals /\ LocalsOK(l)
    BY <2>2 DEF Locals, LocalsOK, Places, InTry, PastInsert
  <2>4. req' = [req EXCEPT ![r] = l]
    BY <2>1 DEF TypeInv, TypeOK, RequestTypeOK
  <2> QED
    BY <2>3, <2>4, LocalsStep
<1>2. ASSUME NEW r \in Requests, DatabaseError(r)
      PROVE  Good
  <2>1. CASE req[r].at \in InTry \ {"await"} /\ Goto(r, "cleanup")
    <3>1. LocalsOK([req[r] EXCEPT !.at = "cleanup"])
      BY <2>1 DEF TypeInv, TypeOK, RequestTypeOK, Locals, LocalsOK, PastInsert, InTry
    <3>2. "cleanup" \in Places
      BY DEF Places
    <3> QED
      BY <2>1, <3>1, <3>2, GotoTyped
  <2>2. CASE req[r].at = "findexisting" /\ Answer(r, Refused("error"))
    BY <2>2, AnswerTyped, AnswersTyped
  <2> QED
    BY <1>2, <2>1, <2>2 DEF DatabaseError
<1>3. CASE CrashRestart
  <2> SUFFICES ASSUME NEW q \in Requests
               PROVE  req'[q] \in Locals /\ LocalsOK(req'[q])
    BY <1>3 DEF CrashRestart, RequestsCrash, RequestTypeOK
  <2> DEFINE l == [at |-> "crashed", key |-> req[q].key, gateway |-> Null,
                   fallbacks |-> << >>, txn |-> Null, answer |-> Null]
  <2>1. req[q] \in Locals /\ LocalsOK(req[q])
    BY DEF TypeInv, TypeOK, RequestTypeOK
  <2>2. CASE Running(q)
    <3>1. req'[q] = l
      BY <1>3, <2>2 DEF CrashRestart, RequestsCrash, Idle
    <3>2. req[q].key \in Keys
      BY <2>1, <2>2 DEF Running, LocalsOK
    <3> QED
      BY <3>1, <3>2 DEF Locals, LocalsOK, Places, PastInsert
  <2>3. CASE ~Running(q)
    BY <1>3, <2>1, <2>3 DEF CrashRestart, RequestsCrash
  <2> QED
    BY <2>2, <2>3
<1> HIDE DEF Good
<1>4. ASSUME NEW r \in Requests, Arrive(r) \/ ServeRequest(r)
      PROVE  Good
  BY <1>1, <1>4, RequestTyped DEF Arrive, ServeRequest, Good
<1>5. CASE DatabaseFault
  BY <1>0, <1>2, <1>5 DEF DatabaseFault
<1>6. ASSUME NEW e \in Events, Webhook(e)
      PROVE  Good
  BY <1>0, <1>6 DEF Webhook
<1>7. CASE Reconcile \/ GatewayActs \/ KeyExpires \/ RedisFault \/ UNCHANGED vars
  BY <1>0, <1>7 DEF Reconcile, GatewayActs, KeyExpires, RedisFault, vars
<1> QED
  BY <1>3, <1>4, <1>5, <1>6, <1>7 DEF Next

-----------------------------------------------------------------------------
(* The types hold at the start.                                            *)
LEMMA TypeInvInit == Init => TypeInv
<1> SUFFICES ASSUME Init PROVE TypeInv
  OBVIOUS
<1>1. LedgerTypeOK /\ GatewayTypeOK
  BY DEF Init, LedgerInit, LedgerTypeOK, GatewayInit, GatewayTypeOK, ChargeStatus
<1>2. RedisTypeOK
  <2> DEFINE empty == << >>
  <2>1. empty \in Seq(Events)
    OBVIOUS
  <2>2. isMockMode = FALSE /\ queue = [b \in Backends |-> empty]
    BY DEF Init, RedisInit
  <2>3. store \in [Backends -> [Keys -> CacheEntry \cup {Null}]]
    BY DEF Init, RedisInit
  <2> HIDE DEF empty
  <2> QED
    BY <2>1, <2>2, <2>3 DEF RedisTypeOK
<1>3. Idle \in Locals /\ LocalsOK(Idle)
  BY DEF Idle, Locals, LocalsOK, Places, PastInsert
<1>4. RequestTypeOK /\ \A r \in Requests : LocalsOK(req[r])
  BY <1>3 DEF Init, RequestInit, RequestTypeOK
<1>5. ReconTypeOK /\ WorkerOK
  BY DEF Init, ReconInit, Polling, ReconTypeOK, WorkerOK
<1>6. ranked \in [Keys -> SUBSET Gateways]
  BY DEF Init
<1> QED
  BY <1>1, <1>2, <1>4, <1>5, <1>6 DEF TypeInv, TypeOK

(* The recorded rankings are sets of gateways.                             *)
LEMMA RankedTyped ==
  TypeInv /\ [Next]_vars => ranked' \in [Keys -> SUBSET Gateways]
<1> SUFFICES ASSUME TypeInv, [Next]_vars
             PROVE  ranked' \in [Keys -> SUBSET Gateways]
  OBVIOUS
<1>0. ranked \in [Keys -> SUBSET Gateways]
  BY DEF TypeInv, TypeOK
<1>1. ASSUME NEW r \in Requests, ServeRequest(r)
      PROVE  ranked' \in [Keys -> SUBSET Gateways]
  <2>1. req[r] \in Locals /\ LocalsOK(req[r])
    BY DEF TypeInv, TypeOK, RequestTypeOK
  <2>2. req[r].at = "insert" => GatewaysOf(r) \in SUBSET Gateways
    BY <2>1 DEF LocalsOK, Locals, GatewaysOf
  <2> QED
    BY <1>0, <1>1, <2>2 DEF ServeRequest, NoteRanking
<1>2. CASE UNCHANGED ranked
  BY <1>0, <1>2
<1> QED
  BY <1>1, <1>2 DEF Next, Arrive, Webhook, Reconcile, GatewayActs, DatabaseFault,
     KeyExpires, RedisFault, CrashRestart, vars

(* No step breaks the types.                                               *)
LEMMA TypeInvStep == TypeInv /\ [Next]_vars => TypeInv'
<1> SUFFICES ASSUME TypeInv, [Next]_vars
             PROVE  TypeInv'
  OBVIOUS
<1>1. LedgerTypeOK'
  BY StepUsesLedger, LedgerTypeStep DEF TypeInv, TypeOK
<1> QED
  BY <1>1, GatewayTyped, RedisTyped, ReconTyped, RequestsTyped, RankedTyped
     DEF TypeInv, TypeOK

(* TYPES.  Whatever requests, webhooks and faults do, every table, cache,  *)
(* queue and local variable of the payment system holds what it should,    *)
(* and what a step reads of a local was assigned before.                   *)
THEOREM PaymentTypes == Spec => []TypeInv
BY TypeInvInit, TypeInvStep, PTL DEF Spec

(* TypeOK, as the runs check it.                                           *)
THEOREM PaymentTypeOK == Spec => []TypeOK
<1>1. TypeInv => TypeOK
  BY DEF TypeInv
<1> QED
  BY <1>1, PaymentTypes, PTL

(* The tables are changed by steps of the ledger only, by construction:    *)
(* what holds of every behaviour of the ledger can be carried over.        *)
LEMMA PaymentUsesLedger == Spec => LedgerSpec
<1>1. Init => LedgerInit
  BY DEF Init
<1> QED
  BY <1>1, PaymentTypes, StepUsesLedger, PTL DEF Spec, LedgerSpec

(* AUDIT TRAIL AND TERMINAL STATES, inherited from the ledger.             *)
THEOREM PaymentAuditTrail == Spec => []AuditTrailIsPath /\ TerminalStays
BY PaymentUsesLedger, LedgerAuditTrail, LedgerTerminalStays, PTL

-----------------------------------------------------------------------------
(* Request r goes from one place to another with the key it has.           *)
Moves(r, from, to) ==
  /\ req[r].at = from
  /\ req'[r].at = to
  /\ req'[r].key = req[r].key

KeepsGateways(r) ==
  /\ req'[r].gateway = req[r].gateway
  /\ req'[r].fallbacks = req[r].fallbacks

Transits(r, to, id, inc) ==
  /\ Transition(req[r].key, to, Meta(req[r].gateway, id, inc))
  /\ UNCHANGED gatewayVars

(* The effects a step of create() may have.                                *)
Leaves(r) ==
  /\ req'[r].at \notin PastInsert \cup {"insert"}
  /\ UNCHANGED <<ledgerVars, gatewayVars>>

Ranks(r) ==
  /\ Moves(r, "rank", "insert")
  /\ \E s \in Rankings : /\ s # << >>
                         /\ req'[r].gateway = Head(s)
                         /\ req'[r].fallbacks = Tail(s)
  /\ UNCHANGED <<ledgerVars, gatewayVars>>

Inserts(r) ==
  /\ Moves(r, "insert", "logcreation") /\ KeepsGateways(r)
  /\ Insert(req[r].key, req[r].gateway)
  /\ UNCHANGED gatewayVars

Logs(r) ==
  /\ Moves(r, "logcreation", "route") /\ KeepsGateways(r)
  /\ LogCreation(req[r].key)
  /\ UNCHANGED gatewayVars

Routes(r) ==
  /\ Moves(r, "route", "process") /\ KeepsGateways(r)
  /\ Transits(r, "ROUTED", Null, FALSE)

Processes(r) ==
  /\ Moves(r, "process", "charge") /\ KeepsGateways(r)
  /\ Transits(r, "PROCESSING", Null, TRUE)

Calls(r) ==
  /\ Moves(r, "charge", "await") /\ KeepsGateways(r)
  /\ Charge(<<req[r].key, req[r].gateway>>)
  /\ UNCHANGED ledgerVars

Settles(r) ==
  /\ \/ Moves(r, "await", "succeed") /\ WasAccepted(<<req[r].key, req[r].gateway>>)
     \/ Moves(r, "await", "recordfailure")
     \/ Moves(r, "recordsuccess", "cache") /\ req'[r].txn = req[r].txn
     \/ Moves(r, "recordfailure", "failover")
  /\ KeepsGateways(r)
  /\ UNCHANGED <<ledgerVars, gatewayVars>>

Succeeds(r) ==
  /\ Moves(r, "succeed", "recordsuccess") /\ KeepsGateways(r)
  /\ Transits(r, "SUCCESS", <<req[r].key, req[r].gateway>>, FALSE)
  /\ req'[r].txn = txns'[req[r].key]

Retries(r) ==
  /\ Moves(r, "failover", "route")
  /\ req[r].fallbacks # << >>
  /\ req'[r].gateway = Head(req[r].fallbacks)
  /\ req'[r].fallbacks = Tail(req[r].fallbacks)
  /\ Transits(r, "RETRY_PENDING", Null, FALSE)

GivesUp(r) ==
  /\ Moves(r, "failover", "cache") /\ KeepsGateways(r)
  /\ req[r].fallbacks = << >>
  /\ Transits(r, "FAILED", Null, FALSE)
  /\ req'[r].txn = txns'[req[r].key]

RequestEffect(r) ==
  /\ \A q \in Requests : q # r => req'[q] = req[q]
  /\ \/ Leaves(r) \/ Ranks(r) \/ Inserts(r) \/ Logs(r) \/ Routes(r) \/ Processes(r)
     \/ Calls(r) \/ Settles(r) \/ Succeeds(r) \/ Retries(r) \/ GivesUp(r)

(* The worker makes a transition.                                          *)
WorkerEffect ==
  /\ worker.at = "drive" /\ worker.state \notin Terminal
  /\ Transition(worker.key, NextUp(worker.state),
                UpMeta(worker.event, NextUp(worker.state)))
  /\ worker' = [worker EXCEPT !.state = NextUp(worker.state)]
  /\ UNCHANGED <<req, gatewayVars>>

(* Any other step: neither the ledger nor a request moves, but requests    *)
(* may crash.                                                              *)
NoEffect ==
  /\ \A q \in Requests : req'[q] = req[q] \/ req'[q].at = "crashed"
  /\ UNCHANGED <<ledgerVars, calls>>

-----------------------------------------------------------------------------
(* Going on moves the request alone, and keeps what it carries.            *)
LEMMA GotoMoves ==
  ASSUME TypeInv, NEW r \in Requests, NEW place, Goto(r, place)
  PROVE  /\ \A q \in Requests : q # r => req'[q] = req[q]
         /\ Moves(r, req[r].at, place) /\ KeepsGateways(r)
         /\ req'[r].txn = req[r].txn
         /\ req'[r].answer = req[r].answer
BY DEF TypeInv, TypeOK, RequestTypeOK, Locals, Goto, Moves, KeepsGateways

(* Answering ends the request and touches no other.                        *)
LEMMA AnswerMoves ==
  ASSUME TypeInv, NEW r \in Requests, NEW a, Answer(r, a)
  PROVE  /\ \A q \in Requests : q # r => req'[q] = req[q]
         /\ Moves(r, req[r].at, "done")
         /\ req'[r].answer = a
BY DEF TypeInv, TypeOK, RequestTypeOK, Locals, Answer, Moves, Idle

(* transition() succeeds and the request goes on, or it throws and the     *)
(* request leaves for the clean-up.                                        *)
LEMMA TransitionMoves ==
  ASSUME TypeInv, NEW r \in Requests, NEW to, NEW meta, NEW next \in Locals,
         MakeTransition(r, to, meta, next)
  PROVE  /\ \A q \in Requests : q # r => req'[q] = req[q]
         /\ \/ /\ Transition(req[r].key, to, meta)
               /\ req'[r].at = next.at
               /\ req'[r].key = next.key
               /\ req'[r].gateway = next.gateway
               /\ req'[r].fallbacks = next.fallbacks
               /\ to \in {"SUCCESS", "FAILED"} => req'[r].txn = txns'[req[r].key]
            \/ /\ req'[r].at = "cleanup"
               /\ UNCHANGED ledgerVars
         /\ UNCHANGED gatewayVars
<1>1. CASE /\ Transition(req[r].key, to, meta)
           /\ req' = [req EXCEPT ![r] = [next EXCEPT !.txn =
                     IF to \in {"SUCCESS", "FAILED"} THEN txns'[req[r].key] ELSE Null]]
  <2>1. req'[r] = [next EXCEPT !.txn =
                     IF to \in {"SUCCESS", "FAILED"} THEN txns'[req[r].key] ELSE Null]
    BY <1>1 DEF TypeInv, TypeOK, RequestTypeOK
  <2>2. \A q \in Requests : q # r => req'[q] = req[q]
    BY <1>1 DEF TypeInv, TypeOK, RequestTypeOK
  <2> QED
    BY <1>1, <2>1, <2>2 DEF MakeTransition, Locals
<1>2. CASE Goto(r, "cleanup") /\ UNCHANGED ledgerVars
  BY <1>2, GotoMoves DEF MakeTransition, Moves
<1> QED
  BY <1>1, <1>2 DEF MakeTransition

(* Every step of a request has one of the effects.                         *)
LEMMA RequestHasEffect ==
  ASSUME TypeInv, NEW r \in Requests,
         Arrive(r) \/ ServeRequest(r) \/ DatabaseError(r)
  PROVE  RequestEffect(r)
<1>0. req[r] \in Locals /\ LocalsOK(req[r])
  BY DEF TypeInv, TypeOK, RequestTypeOK
<1> DEFINE Others == \A q \in Requests : q # r => req'[q] = req[q]
<1>1. ASSUME NEW place, Goto(r, place), place \notin PastInsert \cup {"insert"},
             UNCHANGED <<ledgerVars, gatewayVars>>
      PROVE  RequestEffect(r)
  BY <1>1, GotoMoves DEF RequestEffect, Leaves, Moves
<1>2. ASSUME NEW a, Answer(r, a), UNCHANGED <<ledgerVars, gatewayVars>>
      PROVE  RequestEffect(r)
  BY <1>2, AnswerMoves DEF RequestEffect, Leaves, Moves, PastInsert
<1>3. CASE Arrive(r)
  <2>1. Others /\ req'[r].at \in {"checkdb", "readcache"}
    BY <1>3 DEF Arrive, AcquireLock, TypeInv, TypeOK, RequestTypeOK, Locals
  <2> QED
    BY <1>3, <2>1 DEF Arrive, AcquireLock, RequestEffect, Leaves, PastInsert
<1>4. CASE DatabaseError(r)
  BY <1>1, <1>2, <1>4 DEF DatabaseError, PastInsert
<1>5. CASE ReadCache(r) \/ FindExisting(r) \/ CheckDatabase(r)
  <2>1. CASE /\ UNCHANGED <<ledgerVars, gatewayVars>>
             /\ req' = [req EXCEPT ![r].txn = txns[req[r].key], ![r].at = "recache"]
    <3>1. Others /\ req'[r].at = "recache"
      BY <2>1 DEF TypeInv, TypeOK, RequestTypeOK, Locals
    <3> QED
      BY <2>1, <3>1 DEF RequestEffect, Leaves, PastInsert
  <2> QED
    BY <1>1, <1>2, <1>5, <2>1 DEF ReadCache, FindExisting, CheckDatabase, PastInsert
<1>6. CASE CacheExisting(r) \/ CacheOutcome(r) \/ CleanUp(r)
  BY <1>2, <1>6 DEF CacheExisting, CacheOutcome, CleanUp
<1>7. CASE RankGateways(r)
  <2> PICK s \in Rankings :
        IF s = << >>
        THEN Goto(r, "cleanup")
        ELSE req' = [req EXCEPT ![r].gateway = Head(s), ![r].fallbacks = Tail(s),
                                ![r].at = "insert"]
    BY <1>7 DEF RankGateways
  <2>1. CASE s = << >>
    BY <1>1, <1>7, <2>1 DEF RankGateways, PastInsert
  <2>2. CASE s # << >>
    <3>1. Others /\ req'[r].at = "insert" /\ req'[r].key = req[r].key
          /\ req'[r].gateway = Head(s) /\ req'[r].fallbacks = Tail(s)
      BY <2>2 DEF TypeInv, TypeOK, RequestTypeOK, Locals
    <3> QED
      BY <1>7, <2>2, <3>1 DEF RequestEffect, Ranks, Moves, RankGateways
  <2> QED
    BY <2>1, <2>2
<1>8. CASE InsertTransaction(r)
  <2>1. CASE Goto(r, "cleanup") /\ UNCHANGED ledgerVars
    BY <1>1, <1>8, <2>1 DEF InsertTransaction, PastInsert
  <2>2. CASE Insert(req[r].key, req[r].gateway) /\ Goto(r, "logcreation")
    BY <1>8, <2>2, GotoMoves DEF InsertTransaction, RequestEffect, Inserts
  <2> QED
    BY <1>8, <2>1, <2>2 DEF InsertTransaction
<1>9. CASE LogTransactionCreated(r)
  BY <1>9, GotoMoves DEF LogTransactionCreated, RequestEffect, Logs
<1>10. CASE CallGateway(r)
  BY <1>10, GotoMoves DEF CallGateway, RequestEffect, Calls
<1>11. CASE EndRace(r) \/ RecordSuccess(r) \/ RecordFailure(r)
  BY <1>11, GotoMoves DEF EndRace, RecordSuccess, RecordFailure, RequestEffect, Settles
<1>12. ASSUME NEW to, NEW meta, NEW next \in Locals, MakeTransition(r, to, meta, next),
              req'[r].at = "cleanup", UNCHANGED ledgerVars
       PROVE  RequestEffect(r)
  BY <1>12, TransitionMoves DEF RequestEffect, Leaves, PastInsert
<1>13. CASE Route(r)
  <2> DEFINE next == [req[r] EXCEPT !.at = "process"]
  <2>1. next \in Locals /\ next.at = "process" /\ next.key = req[r].key
        /\ next.gateway = req[r].gateway /\ next.fallbacks = req[r].fallbacks
    BY <1>0 DEF Locals, Places, InTry
  <2> HIDE DEF next
  <2>2. MakeTransition(r, "ROUTED", Meta(req[r].gateway, Null, FALSE), next)
    BY <1>13 DEF Route, next
  <2> QED
    BY <1>12, <1>13, <2>1, <2>2, TransitionMoves
       DEF Route, RequestEffect, Routes, Moves, KeepsGateways, Transits
<1>14. CASE Process(r)
  <2> DEFINE next == [req[r] EXCEPT !.at = "charge"]
  <2>1. next \in Locals /\ next.at = "charge" /\ next.key = req[r].key
        /\ next.gateway = req[r].gateway /\ next.fallbacks = req[r].fallbacks
    BY <1>0 DEF Locals, Places, InTry
  <2> HIDE DEF next
  <2>2. MakeTransition(r, "PROCESSING", Meta(req[r].gateway, Null, TRUE), next)
    BY <1>14 DEF Process, next
  <2> QED
    BY <1>12, <1>14, <2>1, <2>2, TransitionMoves
       DEF Process, RequestEffect, Processes, Moves, KeepsGateways, Transits
<1>15. CASE Succeed(r)
  <2> DEFINE next == [req[r] EXCEPT !.at = "recordsuccess"]
  <2>1. next \in Locals /\ next.at = "recordsuccess" /\ next.key = req[r].key
        /\ next.gateway = req[r].gateway /\ next.fallbacks = req[r].fallbacks
    BY <1>0 DEF Locals, Places, InTry
  <2> HIDE DEF next
  <2>2. MakeTransition(r, "SUCCESS",
          Meta(req[r].gateway, <<req[r].key, req[r].gateway>>, FALSE), next)
    BY <1>15 DEF Succeed, next
  <2> QED
    BY <1>12, <1>15, <2>1, <2>2, TransitionMoves
       DEF Succeed, RequestEffect, Succeeds, Moves, KeepsGateways, Transits
<1>16. CASE FailOver(r) /\ req[r].fallbacks # << >>
  <2> DEFINE next == [req[r] EXCEPT !.at = "route", !.gateway = Head(req[r].fallbacks),
                                    !.fallbacks = Tail(@)]
  <2>1. Head(req[r].fallbacks) \in Gateways /\ Tail(req[r].fallbacks) \in Seq(Gateways)
    BY <1>0, <1>16 DEF Locals
  <2>2. next \in Locals /\ next.at = "route" /\ next.key = req[r].key
        /\ next.gateway = Head(req[r].fallbacks) /\ next.fallbacks = Tail(req[r].fallbacks)
    BY <1>0, <2>1 DEF Locals, Places, InTry
  <2> HIDE DEF next
  <2>3. MakeTransition(r, "RETRY_PENDING", Meta(req[r].gateway, Null, FALSE), next)
    BY <1>16 DEF FailOver, next
  <2> QED
    BY <1>12, <1>16, <2>2, <2>3, TransitionMoves
       DEF FailOver, RequestEffect, Retries, Moves, Transits
<1>17. CASE FailOver(r) /\ req[r].fallbacks = << >>
  <2> DEFINE next == [req[r] EXCEPT !.at = "cache"]
  <2>1. next \in Locals /\ next.at = "cache" /\ next.key = req[r].key
        /\ next.gateway = req[r].gateway /\ next.fallbacks = req[r].fallbacks
    BY <1>0 DEF Locals, Places, InTry
  <2> HIDE DEF next
  <2>2. MakeTransition(r, "FAILED", Meta(req[r].gateway, Null, FALSE), next)
    BY <1>17 DEF FailOver, next
  <2> QED
    BY <1>12, <1>17, <2>1, <2>2, TransitionMoves
       DEF FailOver, RequestEffect, GivesUp, Moves, KeepsGateways, Transits
<1> QED
  BY <1>3, <1>4, <1>5, <1>6, <1>7, <1>8, <1>9, <1>10, <1>11, <1>13, <1>14, <1>15, <1>16, <1>17
     DEF ServeRequest, RequestStep

(* Every step of the system is the step of a request, a transition made by *)
(* the worker, or neither.                                                 *)
LEMMA StepEffect ==
  ASSUME TypeInv, [Next]_vars
  PROVE  (\E r \in Requests : RequestEffect(r)) \/ WorkerEffect \/ NoEffect
<1>0. UNCHANGED <<req, ledgerVars, calls>> => NoEffect
  BY DEF NoEffect
<1>1. ASSUME NEW r \in Requests, Arrive(r) \/ ServeRequest(r) \/ DatabaseError(r)
      PROVE  RequestEffect(r)
  BY <1>1, RequestHasEffect
<1>2. CASE Reconcile
  <2>1. CASE DriveUp
    BY <1>0, <1>2, <2>1 DEF Reconcile, DriveUp, WorkerEffect, gatewayVars
  <2>2. CASE ~DriveUp
    BY <1>0, <1>2, <2>2 DEF Reconcile, WorkerStep, Pop, LoadEvent, LookUp, DriveDone,
                            MarkProcessed, gatewayVars
  <2> QED
    BY <2>1, <2>2
<1>3. ASSUME NEW e \in Events, Webhook(e)
      PROVE  NoEffect
  BY <1>0, <1>3 DEF Webhook, StoreEvent, PushEvent, AckDuplicate, gatewayVars
<1>4. CASE GatewayActs
  BY <1>0, <1>4 DEF GatewayActs, GatewayStep, Decide, Reverse
<1>5. CASE DatabaseFault
  BY <1>0, <1>1, <1>5 DEF DatabaseFault, WorkerError, gatewayVars
<1>6. CASE KeyExpires \/ RedisFault
  BY <1>0, <1>6 DEF KeyExpires, RedisFault, PushFails, gatewayVars
<1>7. CASE CrashRestart
  <2>1. \A q \in Requests : req'[q] = req[q] \/ req'[q].at = "crashed"
    BY <1>7 DEF CrashRestart, RequestsCrash, Idle
  <2> QED
    BY <1>7, <2>1 DEF CrashRestart, NoEffect, gatewayVars
<1>8. CASE UNCHANGED vars
  BY <1>0, <1>8 DEF vars, gatewayVars
<1> QED
  BY <1>1, <1>2, <1>3, <1>4, <1>5, <1>6, <1>7, <1>8 DEF Next

-----------------------------------------------------------------------------
(* A transition keeps every row that is there.                             *)
LEMMA TransitionKeepsRows ==
  ASSUME LedgerTypeOK, NEW k \in Keys, NEW to \in TransactionState,
         NEW meta \in Metadata, Transition(k, to, meta)
  PROVE  /\ \A j \in Keys : txns'[j] = Null <=> txns[j] = Null
         /\ \A j \in Keys : j # k => txns'[j] = txns[j] /\ audit'[j] = audit[j]
         /\ txns[k] \in Transaction
         /\ txns'[k] = Applied(txns[k], to, meta)
         /\ txns'[k] \in Transaction
         /\ txns'[k].currentState = to
<1>1. txns[k] \in Transaction /\ txns[k] # Null
  BY DEF LedgerTypeOK, Transition, CanTransition
<1>2. Applied(txns[k], to, meta) \in Transaction /\ Applied(txns[k], to, meta).currentState = to
  BY <1>1, AppliedTyped
<1>3. txns'[k] = Applied(txns[k], to, meta)
  BY DEF Transition, LedgerTypeOK
<1>4. \A j \in Keys : j # k => txns'[j] = txns[j] /\ audit'[j] = audit[j]
  BY DEF Transition, LedgerTypeOK
<1> QED
  BY <1>1, <1>2, <1>3, <1>4, NullAssumption

(* The transitions of create() are typed.                                  *)
LEMMA TransitsTyped ==
  ASSUME TypeInv, NEW r \in Requests, req[r].at \in PastInsert,
         NEW to \in TransactionState, NEW id \in {Null, <<req[r].key, req[r].gateway>>},
         NEW inc \in BOOLEAN, Transits(r, to, id, inc)
  PROVE  /\ LedgerTypeOK
         /\ req[r].key \in Keys /\ req[r].gateway \in Gateways
         /\ Meta(req[r].gateway, id, inc) \in Metadata
         /\ Transition(req[r].key, to, Meta(req[r].gateway, id, inc))
<1>1. req[r].key \in Keys /\ req[r].gateway \in Gateways
  BY DEF TypeInv, LocalsOK, PastInsert
<1>2. id \in GatewayTxnIds \cup {Null}
  BY <1>1 DEF GatewayTxnIds
<1> QED
  BY <1>1, <1>2, MetaTyped DEF TypeInv, TypeOK, Transits

(* So are those of the worker.                                             *)
LEMMA WorkerTransitionTyped ==
  ASSUME TypeInv, WorkerEffect
  PROVE  LET to == NextUp(worker.state) IN
         /\ LedgerTypeOK
         /\ worker.event \in Events
         /\ worker.key \in Keys /\ to \in TransactionState
         /\ UpMeta(worker.event, to) \in Metadata
         /\ Transition(worker.key, to, UpMeta(worker.event, to))
<1>1. worker.key \in Keys /\ worker.state \in TransactionState \ Terminal
  BY DEF TypeInv, WorkerOK, WorkerEffect
<1>2. worker.event \in Events
  BY WorkerEvent DEF WorkerEffect
<1>3. NextUp(worker.state) \in TransactionState
  BY <1>1, NextUpAllowed
<1>4. UpMeta(worker.event, NextUp(worker.state)) \in Metadata
  BY <1>2, <1>3, UpMetaTyped
<1> QED
  BY <1>1, <1>2, <1>3, <1>4 DEF TypeInv, TypeOK, WorkerEffect

(* Only an insert adds a row, only where there was none, and none goes.    *)
RowsKept == \A k \in Keys : txns'[k] = Null <=> txns[k] = Null

(* A request that does not insert leaves every row in its table.           *)
LEMMA RequestKeepsRows ==
  ASSUME TypeInv, NEW r \in Requests, RequestEffect(r), ~Inserts(r)
  PROVE  RowsKept
<1>1. UNCHANGED txns => RowsKept
  BY DEF RowsKept
<1>2. CASE Leaves(r) \/ Ranks(r) \/ Logs(r) \/ Calls(r) \/ Settles(r)
  BY <1>1, <1>2 DEF Leaves, Ranks, Logs, Calls, Settles, ledgerVars, LogCreation
<1>3. CASE Routes(r) \/ Processes(r) \/ Succeeds(r) \/ Retries(r) \/ GivesUp(r)
  <2>1. PICK to \in TransactionState, id \in {Null, <<req[r].key, req[r].gateway>>},
             inc \in BOOLEAN : Transits(r, to, id, inc)
    BY <1>3 DEF Routes, Processes, Succeeds, Retries, GivesUp, TransactionState
  <2>2. req[r].at \in PastInsert
    BY <1>3 DEF Routes, Processes, Succeeds, Retries, GivesUp, Moves, PastInsert
  <2> QED
    BY <2>1, <2>2, TransitsTyped, TransitionKeepsRows DEF RowsKept
<1> QED
  BY <1>2, <1>3 DEF RequestEffect

(* So does the worker.                                                     *)
LEMMA WorkerKeepsRows ==
  ASSUME TypeInv, WorkerEffect
  PROVE  RowsKept
BY WorkerTransitionTyped, TransitionKeepsRows DEF RowsKept

-----------------------------------------------------------------------------
(* AT MOST ONE CHARGE.  The unique index makes the request that inserts    *)
(* the row the owner of the payment; only the owner calls gateways, in the *)
(* order of a ranking that names each of them once.                        *)
OwnInv == OneOwner /\ FailoverOrder /\ ChargedAtMostOnce

(* A request past the insert was there before, or has just inserted.       *)
PastInsertKept(r) ==
  /\ req[r].at \in PastInsert
  /\ req'[r].key = req[r].key

(* Behind the insert are only requests that were there before.             *)
LEMMA PastInsertFrom ==
  ASSUME NEW r \in Requests, RequestEffect(r), ~Inserts(r)
  PROVE  \A q \in Requests : req'[q].at \in PastInsert => PastInsertKept(q)
<1>1. req'[r].at \in PastInsert => PastInsertKept(r)
  BY DEF RequestEffect, Leaves, Ranks, Logs, Routes, Processes, Calls, Settles, Succeeds,
         Retries, GivesUp, Moves, PastInsert, PastInsertKept
<1> QED
  BY <1>1 DEF RequestEffect, PastInsertKept

(* The unique index admits one owner, and none is added later.             *)
LEMMA OneOwnerStep == TypeInv /\ OneOwner /\ [Next]_vars => OneOwner'
<1> SUFFICES ASSUME TypeInv, OneOwner, [Next]_vars
             PROVE  OneOwner'
  OBVIOUS
<1>0. \A q \in Requests : req[q].at \in PastInsert => req[q].key \in Keys
  BY DEF TypeInv, LocalsOK, PastInsert
<1>1. ASSUME RowsKept, calls' = calls,
             \A q \in Requests : req'[q].at \in PastInsert => PastInsertKept(q)
      PROVE  OneOwner'
  BY <1>0, <1>1 DEF OneOwner, RowsKept, PastInsertKept
<1>2. ASSUME NEW r \in Requests, RequestEffect(r)
      PROVE  OneOwner'
  <2>1. CASE Inserts(r)
    <3> DEFINE k == req[r].key
    <3>1. /\ k \in Keys /\ txns[k] = Null
          /\ req[r].at = "insert" /\ req'[r].key = k
          /\ calls' = calls
      BY <2>1 DEF TypeInv, LocalsOK, Inserts, Moves, Insert, gatewayVars
    <3>2. /\ txns'[k] # Null
          /\ \A j \in Keys : j # k => txns'[j] = txns[j]
      <4>1. NewTransaction(req[r].gateway) # Null
        BY <3>1, NewTyped, NullAssumption DEF TypeInv, LocalsOK
      <4> QED
        BY <2>1, <3>1, <4>1 DEF Inserts, Insert, TypeInv, TypeOK, LedgerTypeOK
    <3>3. \A q \in Requests : q # r => req'[q] = req[q]
      BY <1>2 DEF RequestEffect
    <3>4. \A q \in Requests : req[q].at \in PastInsert => req[q].key # k
      BY <3>1 DEF OneOwner
    <3> HIDE DEF k
    <3>5. \A q \in Requests : req'[q].at \in PastInsert => txns'[req'[q].key] # Null
      BY <1>0, <3>1, <3>2, <3>3 DEF OneOwner
    <3>6. \A p, q \in Requests :
            req'[p].at \in PastInsert /\ req'[q].at \in PastInsert
            /\ req'[p].key = req'[q].key => p = q
      BY <3>1, <3>3, <3>4 DEF OneOwner
    <3>7. \A j \in Keys, g \in Gateways : txns'[j] = Null => calls'[<<j, g>>] = 0
      BY <3>1, <3>2 DEF OneOwner
    <3> QED
      BY <3>5, <3>6, <3>7 DEF OneOwner
  <2>2. CASE Calls(r)
    <3>1. ~Inserts(r) /\ req[r].at \in PastInsert
      BY <2>2 DEF Calls, Inserts, Moves, PastInsert
    <3>2. RowsKept
      BY <1>2, <3>1, RequestKeepsRows
    <3>3. \A q \in Requests : req'[q].at \in PastInsert => PastInsertKept(q)
      BY <1>2, <3>1, PastInsertFrom
    <3>4. ASSUME NEW j \in Keys, NEW g \in Gateways, txns'[j] = Null
          PROVE  calls'[<<j, g>>] = 0
      <4>1. txns[j] = Null /\ calls[<<j, g>>] = 0
        BY <3>2, <3>4 DEF RowsKept, OneOwner
      <4>2. j # req[r].key
        BY <3>1, <4>1 DEF OneOwner
      <4>3. <<j, g>> # <<req[r].key, req[r].gateway>> /\ <<j, g>> \in GatewayTxnIds
        BY <4>2 DEF GatewayTxnIds
      <4> QED
        BY <2>2, <4>1, <4>3 DEF Calls, Charge, TypeInv, TypeOK, GatewayTypeOK
    <3> QED
      BY <1>0, <3>2, <3>3, <3>4 DEF OneOwner, RowsKept, PastInsertKept
  <2>3. CASE ~Inserts(r) /\ ~Calls(r)
    <3>1. calls' = calls
      BY <1>2, <2>3 DEF RequestEffect, Leaves, Ranks, Logs, Routes, Processes, Settles,
                        Succeeds, Retries, GivesUp, Transits, gatewayVars
    <3> QED
      BY <1>1, <1>2, <2>3, <3>1, RequestKeepsRows, PastInsertFrom
  <2> QED
    BY <2>1, <2>2, <2>3
<1>3. CASE WorkerEffect
  BY <1>1, <1>3, WorkerKeepsRows DEF WorkerEffect, gatewayVars, PastInsertKept
<1>4. CASE NoEffect
  BY <1>1, <1>4 DEF NoEffect, RowsKept, ledgerVars, PastInsertKept, PastInsert
<1> QED
  BY <1>2, <1>3, <1>4, StepEffect

(* Taking the head off a sequence without repetitions.                     *)
LEMMA HeadTailDistinct ==
  ASSUME NEW s \in Seq(Gateways), s # << >>,
         \A i, j \in DOMAIN s : s[i] = s[j] => i = j
  PROVE  /\ Head(s) \in Gateways /\ Tail(s) \in Seq(Gateways)
         /\ Head(s) = s[1] /\ 1 \in DOMAIN s
         /\ \A i \in DOMAIN Tail(s) :
              /\ i + 1 \in DOMAIN s /\ Tail(s)[i] = s[i + 1]
              /\ Tail(s)[i] # Head(s)
              /\ \A j \in DOMAIN Tail(s) : Tail(s)[i] = Tail(s)[j] => i = j
<1>1. /\ Len(s) \in Nat \ {0} /\ DOMAIN s = 1..Len(s)
      /\ Head(s) = s[1] /\ Head(s) \in Gateways /\ Tail(s) \in Seq(Gateways)
      /\ Len(Tail(s)) = Len(s) - 1 /\ DOMAIN Tail(s) = 1..Len(s) - 1
      /\ \A i \in 1..Len(s) - 1 : Tail(s)[i] = s[i + 1]
  OBVIOUS
<1> QED
  BY <1>1

(* It leaves the rest.                                                     *)
LEMMA HeadAndTail ==
  ASSUME NEW s \in Seq(Gateways), s # << >>
  PROVE  \A i \in DOMAIN s : s[i] = Head(s) \/ \E j \in DOMAIN Tail(s) : s[i] = Tail(s)[j]
<1>1. /\ Len(s) \in Nat \ {0} /\ DOMAIN s = 1..Len(s) /\ Head(s) = s[1]
      /\ DOMAIN Tail(s) = 1..Len(s) - 1
      /\ \A i \in 1..Len(s) - 1 : Tail(s)[i] = s[i + 1]
  OBVIOUS
<1>2. ASSUME NEW i \in DOMAIN s, i # 1
      PROVE  i - 1 \in DOMAIN Tail(s) /\ s[i] = Tail(s)[i - 1]
  BY <1>1, <1>2
<1> QED
  BY <1>1, <1>2

(* The gateways still to be tried are distinct and were not called.        *)
LEMMA FailoverOrderStep ==
  TypeInv /\ OneOwner /\ FailoverOrder /\ [Next]_vars => FailoverOrder'
<1> SUFFICES ASSUME TypeInv, OneOwner, FailoverOrder, [Next]_vars,
                    NEW q \in Requests
             PROVE  /\ req'[q].at \in PastInsert \cup {"insert"} => DistinctFallbacks(q)'
                    /\ req'[q].at \in PastInsert => FallbacksUncalled(q)'
  BY DEF FailoverOrder
<1> DEFINE Good == /\ req'[q].at \in PastInsert \cup {"insert"} => DistinctFallbacks(q)'
                   /\ req'[q].at \in PastInsert => FallbacksUncalled(q)'
<1> SUFFICES Good
  OBVIOUS
<1>0. /\ req[q].fallbacks \in Seq(Gateways)
      /\ req[q].at \in PastInsert \cup {"insert"} =>
           req[q].key \in Keys /\ req[q].gateway \in Gateways
      /\ calls \in [GatewayTxnIds -> Nat]
  BY DEF TypeInv, TypeOK, RequestTypeOK, Locals, LocalsOK, GatewayTypeOK, PastInsert
<1>1. ASSUME req'[q] = req[q], calls' = calls
      PROVE  Good
  BY <1>1 DEF FailoverOrder, DistinctFallbacks, FallbacksUncalled
<1>2. ASSUME NEW r \in Requests, RequestEffect(r), q # r
      PROVE  Good
  <2>1. req'[q] = req[q]
    BY <1>2 DEF RequestEffect
  <2>2. CASE Calls(r) /\ req[q].at \in PastInsert
    <3> DEFINE c == <<req[r].key, req[r].gateway>>
    <3>1. req[r].key # req[q].key
      BY <1>2, <2>2 DEF OneOwner, Calls, Moves, PastInsert
    <3>2. ASSUME NEW g \in Gateways
          PROVE  calls'[<<req[q].key, g>>] = calls[<<req[q].key, g>>]
      <4>1. <<req[q].key, g>> # c /\ <<req[q].key, g>> \in GatewayTxnIds
        BY <1>0, <2>2, <3>1 DEF GatewayTxnIds
      <4> QED
        BY <1>0, <2>2, <4>1 DEF Calls, Charge
    <3>3. \A i \in DOMAIN req[q].fallbacks : req[q].fallbacks[i] \in Gateways
      BY <1>0
    <3>4. DistinctFallbacks(q) /\ FallbacksUncalled(q)
      BY <2>2 DEF FailoverOrder
    <3>5. DistinctFallbacks(q)'
      BY <2>1, <3>4 DEF DistinctFallbacks
    <3>6. \A i \in DOMAIN req[q].fallbacks : calls'[<<req[q].key, req[q].fallbacks[i]>>] = 0
      BY <3>2, <3>3, <3>4 DEF FallbacksUncalled
    <3>7. calls'[<<req[q].key, req[q].gateway>>] = calls[<<req[q].key, req[q].gateway>>]
      BY <1>0, <2>2, <3>2
    <3>8. FallbacksUncalled(q)'
      BY <2>1, <3>4, <3>6, <3>7 DEF FallbacksUncalled
    <3> QED
      BY <3>5, <3>8
  <2>3. CASE Calls(r) /\ req[q].at \notin PastInsert
    BY <2>1, <2>3 DEF FailoverOrder, DistinctFallbacks
  <2>4. CASE ~Calls(r)
    BY <1>1, <1>2, <2>1, <2>4
       DEF RequestEffect, Leaves, Ranks, Inserts, Logs, Routes, Processes, Settles, Succeeds,
           Retries, GivesUp, Transits, gatewayVars
  <2> QED
    BY <2>2, <2>3, <2>4
<1>3. ASSUME RequestEffect(q)
      PROVE  Good
  <2>1. CASE Leaves(q)
    BY <2>1 DEF Leaves
  <2>2. CASE Ranks(q)
    <3>1. PICK s \in Rankings : s # << >> /\ req'[q].gateway = Head(s)
                                          /\ req'[q].fallbacks = Tail(s)
      BY <2>2 DEF Ranks
    <3>2. DistinctFallbacks(q)'
      BY <3>1, RankingsTyped, HeadTailDistinct DEF DistinctFallbacks
    <3> QED
      BY <2>2, <3>2 DEF Ranks, Moves, PastInsert
  <2>3. CASE Inserts(q)
    <3>1. /\ req[q].at = "insert" /\ req'[q].at = "logcreation"
          /\ req'[q].key = req[q].key /\ KeepsGateways(q)
          /\ calls' = calls /\ txns[req[q].key] = Null
      BY <2>3 DEF Inserts, Moves, Insert, gatewayVars
    <3>2. \A g \in Gateways : calls[<<req[q].key, g>>] = 0
      BY <1>0, <3>1 DEF OneOwner
    <3>3. \A i \in DOMAIN req[q].fallbacks : req[q].fallbacks[i] \in Gateways
      BY <1>0
    <3>4. DistinctFallbacks(q)'
      BY <3>1 DEF FailoverOrder, DistinctFallbacks, KeepsGateways
    <3>5. FallbacksUncalled(q)'
      BY <1>0, <3>1, <3>2, <3>3 DEF FallbacksUncalled, KeepsGateways, Tried
    <3> QED
      BY <3>4, <3>5
  <2>4. CASE Logs(q) \/ Routes(q) \/ Processes(q) \/ Settles(q) \/ Succeeds(q) \/ GivesUp(q)
    <3>1. /\ req'[q].key = req[q].key /\ KeepsGateways(q) /\ calls' = calls
          /\ req[q].at \in PastInsert
          /\ req'[q].at \in Untried => req[q].at \in Untried
          /\ req'[q].at \in Tried => req[q].at \in Tried
      BY <2>4 DEF Logs, Routes, Processes, Settles, Succeeds, GivesUp, Moves, Transits,
                  gatewayVars, PastInsert, Tried, Untried
    <3> QED
      BY <3>1 DEF FailoverOrder, DistinctFallbacks, FallbacksUncalled, KeepsGateways
  <2>5. CASE Calls(q)
    <3> DEFINE c == <<req[q].key, req[q].gateway>>
    <3>1. /\ req[q].at = "charge" /\ req'[q].at = "await"
          /\ req'[q].key = req[q].key /\ KeepsGateways(q)
          /\ calls' = [calls EXCEPT ![c] = calls[c] + 1]
      BY <2>5 DEF Calls, Moves, Charge
    <3>2. req[q].key \in Keys /\ req[q].gateway \in Gateways /\ c \in GatewayTxnIds
      BY <1>0, <3>1 DEF PastInsert, GatewayTxnIds
    <3>3. DistinctFallbacks(q) /\ FallbacksUncalled(q)
      BY <3>1 DEF FailoverOrder, PastInsert
    <3>4. calls'[c] > 0
      BY <1>0, <3>1, <3>2
    <3>5. ASSUME NEW i \in DOMAIN req[q].fallbacks
          PROVE  calls'[<<req[q].key, req[q].fallbacks[i]>>] = 0
      <4>1. req[q].fallbacks[i] \in Gateways /\ req[q].fallbacks[i] # req[q].gateway
        BY <1>0, <3>3 DEF DistinctFallbacks
      <4>2. <<req[q].key, req[q].fallbacks[i]>> \in GatewayTxnIds \ {c}
        BY <3>2, <4>1 DEF GatewayTxnIds
      <4> QED
        BY <1>0, <3>1, <3>3, <4>2 DEF FallbacksUncalled
    <3>6. FallbacksUncalled(q)'
      BY <3>1, <3>4, <3>5 DEF FallbacksUncalled, KeepsGateways, Untried
    <3>7. DistinctFallbacks(q)'
      BY <3>1, <3>3 DEF DistinctFallbacks, KeepsGateways
    <3> QED
      BY <3>6, <3>7
  <2>6. CASE Retries(q)
    <3> DEFINE s == req[q].fallbacks
    <3>1. /\ req[q].at = "failover" /\ req'[q].at = "route" /\ req'[q].key = req[q].key
          /\ s # << >> /\ req'[q].gateway = Head(s) /\ req'[q].fallbacks = Tail(s)
          /\ calls' = calls
      BY <2>6 DEF Retries, Moves, Transits, gatewayVars
    <3>2. DistinctFallbacks(q) /\ FallbacksUncalled(q)
      BY <3>1 DEF FailoverOrder, PastInsert
    <3>3. /\ Head(s) = s[1] /\ 1 \in DOMAIN s
          /\ \A i \in DOMAIN Tail(s) :
               /\ i + 1 \in DOMAIN s /\ Tail(s)[i] = s[i + 1] /\ Tail(s)[i] # Head(s)
               /\ \A j \in DOMAIN Tail(s) : Tail(s)[i] = Tail(s)[j] => i = j
      BY <1>0, <3>1, <3>2, HeadTailDistinct DEF DistinctFallbacks
    <3>4. DistinctFallbacks(q)'
      BY <3>1, <3>3 DEF DistinctFallbacks
    <3>5. \A i \in DOMAIN s : calls[<<req[q].key, s[i]>>] = 0
      BY <3>2 DEF FallbacksUncalled
    <3> HIDE DEF s
    <3>6. FallbacksUncalled(q)'
      BY <3>1, <3>3, <3>5 DEF FallbacksUncalled, Tried
    <3> QED
      BY <3>4, <3>6
  <2> QED
    BY <1>3, <2>1, <2>2, <2>3, <2>4, <2>5, <2>6 DEF RequestEffect
<1>4. CASE WorkerEffect
  BY <1>1, <1>4 DEF WorkerEffect, gatewayVars
<1>5. CASE NoEffect
  BY <1>1, <1>5 DEF NoEffect, PastInsert
<1> HIDE DEF Good
<1> QED
  BY <1>2, <1>3, <1>4, <1>5, StepEffect

(* A call goes to a gateway that was not called for this payment.          *)
LEMMA ChargedOnceStep ==
  TypeInv /\ FailoverOrder /\ ChargedAtMostOnce /\ [Next]_vars => ChargedAtMostOnce'
<1> SUFFICES ASSUME TypeInv, FailoverOrder, ChargedAtMostOnce, [Next]_vars
             PROVE  ChargedAtMostOnce'
  OBVIOUS
<1>0. calls' = calls => ChargedAtMostOnce'
  BY DEF ChargedAtMostOnce
<1>1. ASSUME NEW r \in Requests, RequestEffect(r)
      PROVE  ChargedAtMostOnce'
  <2>1. CASE Calls(r)
    <3>1. calls[<<req[r].key, req[r].gateway>>] = 0
      BY <2>1 DEF FailoverOrder, FallbacksUncalled, Calls, Moves, PastInsert, Untried
    <3> QED
      BY <2>1, <3>1 DEF Calls, Charge, ChargedAtMostOnce, TypeInv, TypeOK, GatewayTypeOK
  <2>2. CASE ~Calls(r)
    BY <1>0, <1>1, <2>2
       DEF RequestEffect, Leaves, Ranks, Inserts, Logs, Routes, Processes, Settles, Succeeds,
           Retries, GivesUp, Transits, gatewayVars
  <2> QED
    BY <2>1, <2>2
<1>2. CASE WorkerEffect \/ NoEffect
  BY <1>0, <1>2 DEF WorkerEffect, NoEffect, gatewayVars
<1> QED
  BY <1>1, <1>2, StepEffect

(* At the start nobody owns a payment and nothing was called.              *)
LEMMA OwnInvInit == Init => OwnInv
<1> SUFFICES ASSUME Init PROVE OwnInv
  OBVIOUS
<1>1. \A r \in Requests : req[r].at = "idle"
  BY DEF Init, RequestInit, Idle
<1>2. \A k \in Keys, g \in Gateways : <<k, g>> \in GatewayTxnIds
  BY DEF GatewayTxnIds
<1>3. OneOwner
  BY <1>1, <1>2 DEF OneOwner, PastInsert, Init, GatewayInit
<1>4. FailoverOrder
  BY <1>1 DEF FailoverOrder, PastInsert
<1>5. ChargedAtMostOnce
  BY DEF ChargedAtMostOnce, Init, GatewayInit
<1> QED
  BY <1>3, <1>4, <1>5 DEF OwnInv

(* Ownership, order of failover and single charges are kept together.      *)
LEMMA OwnInvStep == TypeInv /\ OwnInv /\ [Next]_vars => OwnInv'
BY OneOwnerStep, FailoverOrderStep, ChargedOnceStep DEF OwnInv

(* OWNERSHIP.  In every reachable state each row of transactions has at    *)
(* most one request past its INSERT, that request goes through its         *)
(* gateways once and in order, and no gateway was called twice for one key *)
(* (create(), the unique index on idempotency_key).                        *)
THEOREM Ownership == Spec => []OwnInv
BY OwnInvInit, OwnInvStep, PaymentTypes, PTL DEF Spec

(* AT MOST ONE CHARGE.  With any number of overlapping requests for a key, *)
(* and whatever locks expire, connections break or processes die, no       *)
(* gateway is asked twice to charge for the key.                           *)
THEOREM NoDoubleCharge == Spec => []ChargedAtMostOnce
<1>1. OwnInv => ChargedAtMostOnce
  BY DEF OwnInv
<1> QED
  BY <1>1, Ownership, PTL

-----------------------------------------------------------------------------
(* FAILED IS OVER.  A transition of create() moves the row of its request  *)
(* to the state it asks for, and no other row.                             *)
LEMMA OwnerMovesRow ==
  ASSUME TypeInv, NEW r \in Requests,
         Routes(r) \/ Processes(r) \/ Succeeds(r) \/ Retries(r) \/ GivesUp(r)
  PROVE  /\ req[r].at \in PastInsert /\ req[r].key \in Keys
         /\ req'[r].key = req[r].key
         /\ \A j \in Keys : j # req[r].key => txns'[j] = txns[j]
         /\ txns[req[r].key] # Null /\ txns'[req[r].key] # Null
         /\ \E to : /\ \/ Routes(r) /\ to = "ROUTED"
                       \/ Processes(r) /\ to = "PROCESSING"
                       \/ Succeeds(r) /\ to = "SUCCESS"
                       \/ Retries(r) /\ to = "RETRY_PENDING"
                       \/ GivesUp(r) /\ to = "FAILED"
                    /\ to \in VALID_TRANSITIONS[txns[req[r].key].currentState]
                    /\ txns'[req[r].key].currentState = to
<1>1. req[r].at \in PastInsert /\ req'[r].key = req[r].key
  BY DEF Routes, Processes, Succeeds, Retries, GivesUp, Moves, PastInsert
<1>2. PICK to \in TransactionState, id \in {Null, <<req[r].key, req[r].gateway>>},
           inc \in BOOLEAN :
        /\ Transits(r, to, id, inc)
        /\ \/ Routes(r) /\ to = "ROUTED"
           \/ Processes(r) /\ to = "PROCESSING"
           \/ Succeeds(r) /\ to = "SUCCESS"
           \/ Retries(r) /\ to = "RETRY_PENDING"
           \/ GivesUp(r) /\ to = "FAILED"
  BY DEF Routes, Processes, Succeeds, Retries, GivesUp, TransactionState
<1>3. /\ LedgerTypeOK /\ req[r].key \in Keys
      /\ Meta(req[r].gateway, id, inc) \in Metadata
      /\ Transition(req[r].key, to, Meta(req[r].gateway, id, inc))
  BY <1>1, <1>2, TransitsTyped
<1>4. /\ \A j \in Keys : j # req[r].key => txns'[j] = txns[j]
      /\ txns'[req[r].key].currentState = to
      /\ txns'[req[r].key] \in Transaction
  BY <1>3, TransitionKeepsRows
<1>5. txns[req[r].key] # Null /\ to \in VALID_TRANSITIONS[txns[req[r].key].currentState]
  BY <1>3 DEF Transition, CanTransition
<1> QED
  BY <1>1, <1>2, <1>3, <1>4, <1>5, NullAssumption

(* Only the owner writes FAILED, and it is then at its last await.         *)
LEMMA FailedIsOverStep ==
  ASSUME TypeInv, OneOwner, FailedIsOver, [Next]_vars
  PROVE  FailedIsOver'
<1>0. \A q \in Requests : req[q].at \in PastInsert => req[q].key \in Keys
  BY DEF TypeInv, LocalsOK, PastInsert
<1>1. ASSUME UNCHANGED txns,
             \A q \in Requests : req'[q].at \in PastInsert =>
               /\ PastInsertKept(q)
               /\ req[q].at = "cache" => req'[q].at = "cache"
      PROVE  FailedIsOver'
  BY <1>1 DEF FailedIsOver, PastInsertKept
<1>2. ASSUME NEW r \in Requests, RequestEffect(r)
      PROVE  FailedIsOver'
  <2>0. \A q \in Requests : q # r => req'[q] = req[q]
    BY <1>2 DEF RequestEffect
  <2>1. CASE Leaves(r) \/ Ranks(r) \/ Logs(r) \/ Calls(r) \/ Settles(r)
    <3>1. UNCHANGED txns /\ ~Inserts(r)
      BY <2>1 DEF Leaves, Ranks, Logs, Calls, Settles, ledgerVars, LogCreation, Inserts,
                  Moves, PastInsert
    <3>2. req'[r].at \in PastInsert /\ req[r].at = "cache" => req'[r].at = "cache"
      BY <2>1 DEF Leaves, Ranks, Logs, Calls, Settles, Moves, PastInsert
    <3> QED
      BY <1>1, <1>2, <2>0, <3>1, <3>2, PastInsertFrom
  <2>2. CASE Inserts(r)
    <3> DEFINE k == req[r].key
    <3>1. k \in Keys /\ txns[k] = Null /\ req'[r].key = k
      BY <2>2 DEF TypeInv, LocalsOK, Inserts, Moves, Insert
    <3>2. /\ txns'[k].currentState = "INITIATED"
          /\ \A j \in Keys : j # k => txns'[j] = txns[j]
      BY <2>2, <3>1 DEF Inserts, Insert, TypeInv, TypeOK, LedgerTypeOK, NewTransaction
    <3>3. \A q \in Requests : req[q].at \in PastInsert => req[q].key # k
      BY <3>1 DEF OneOwner
    <3> HIDE DEF k
    <3> QED
      BY <1>0, <2>0, <3>1, <3>2, <3>3 DEF FailedIsOver
  <2>3. CASE Routes(r) \/ Processes(r) \/ Succeeds(r) \/ Retries(r) \/ GivesUp(r)
    <3>1. /\ req[r].at \in PastInsert /\ req[r].key \in Keys /\ req'[r].key = req[r].key
          /\ \A j \in Keys : j # req[r].key => txns'[j] = txns[j]
      BY <2>3, OwnerMovesRow
    <3>2. txns'[req[r].key].currentState = "FAILED" => GivesUp(r)
      BY <2>3, OwnerMovesRow
    <3>3. GivesUp(r) => req'[r].at = "cache"
      BY DEF GivesUp, Moves
    <3>4. \A q \in Requests : q # r /\ req[q].at \in PastInsert => req[q].key # req[r].key
      BY <3>1 DEF OneOwner
    <3> QED
      BY <1>0, <2>0, <3>1, <3>2, <3>3, <3>4 DEF FailedIsOver
  <2> QED
    BY <1>2, <2>1, <2>2, <2>3 DEF RequestEffect
<1>3. CASE WorkerEffect
  <2>1. /\ worker.key \in Keys
        /\ \A j \in Keys : j # worker.key => txns'[j] = txns[j]
        /\ txns'[worker.key].currentState = NextUp(worker.state)
    BY <1>3, WorkerTransitionTyped, TransitionKeepsRows
  <2>2. NextUp(worker.state) # "FAILED"
    BY <1>3 DEF NextUp, WorkerEffect, TypeInv, WorkerOK, TransactionState, Terminal
  <2>3. req' = req
    BY <1>3 DEF WorkerEffect
  <2> QED
    BY <1>0, <2>1, <2>2, <2>3 DEF FailedIsOver
<1>4. CASE NoEffect
  BY <1>1, <1>4 DEF NoEffect, ledgerVars, PastInsertKept, PastInsert
<1> QED
  BY <1>2, <1>3, <1>4, StepEffect

(* FAILED IS OVER.  Whatever requests overlap, fail or crash, no gateway   *)
(* is called for a payment whose row says FAILED: the merchant may charge  *)
(* the customer by other means.                                            *)
THEOREM FailedIsNotCharged == Spec => NoChargeAfterFailed
<1>1. Init => FailedIsOver
  BY DEF Init, RequestInit, Idle, FailedIsOver, PastInsert
<1>2. TypeInv /\ OwnInv /\ FailedIsOver /\ [Next]_vars => FailedIsOver'
  BY FailedIsOverStep DEF OwnInv
<1>3. TypeInv /\ FailedIsOver /\ [Next]_vars =>
        [\A k \in Keys, g \in Gateways :
           txns[k] # Null /\ txns[k].currentState = "FAILED" =>
             calls'[<<k, g>>] = calls[<<k, g>>]]_vars
  <2> SUFFICES ASSUME TypeInv, FailedIsOver, [Next]_vars, NEW k \in Keys, NEW g \in Gateways,
                      txns[k].currentState = "FAILED"
               PROVE  calls'[<<k, g>>] = calls[<<k, g>>]
    OBVIOUS
  <2>1. ASSUME NEW r \in Requests, Calls(r)
        PROVE  calls'[<<k, g>>] = calls[<<k, g>>]
    <3>1. req[r].key # k
      BY <2>1 DEF Calls, Moves, FailedIsOver, PastInsert
    <3>2. <<k, g>> # <<req[r].key, req[r].gateway>> /\ <<k, g>> \in GatewayTxnIds
      BY <3>1 DEF GatewayTxnIds
    <3> QED
      BY <2>1, <3>2 DEF Calls, Charge, TypeInv, TypeOK, GatewayTypeOK
  <2>2. ASSUME NEW r \in Requests, RequestEffect(r), ~Calls(r)
        PROVE  calls' = calls
    BY <2>2 DEF RequestEffect, Leaves, Ranks, Inserts, Logs, Routes, Processes, Settles,
                Succeeds, Retries, GivesUp, Transits, gatewayVars
  <2> QED
    BY <2>1, <2>2, StepEffect DEF WorkerEffect, NoEffect, gatewayVars
<1> QED
  BY <1>1, <1>2, <1>3, PaymentTypes, Ownership, PTL DEF Spec, NoChargeAfterFailed

-----------------------------------------------------------------------------
(* FAILED IS THE LAST RESORT.  The ranking is recorded by the INSERT that  *)
(* makes a request the owner, and stays as it is.                          *)
LEMMA RankingNoted ==
  ASSUME TypeInv, [Next]_vars
  PROVE  \/ \E r \in Requests :
              /\ RequestEffect(r) /\ Inserts(r)
              /\ ranked' = [ranked EXCEPT ![req[r].key] = GatewaysOf(r)]
         \/ /\ \/ \E r \in Requests : RequestEffect(r) /\ ~Inserts(r)
               \/ WorkerEffect
               \/ NoEffect
            /\ ranked' = ranked
<1>1. ASSUME NEW r \in Requests, ServeRequest(r),
             req[r].at = "insert", txns[req[r].key] = Null
      PROVE  /\ RequestEffect(r) /\ Inserts(r)
             /\ ranked' = [ranked EXCEPT ![req[r].key] = GatewaysOf(r)]
  <2>1. InsertTransaction(r)
    BY <1>1 DEF ServeRequest, RequestStep, ReadCache, FindExisting, CheckDatabase,
                CacheExisting, RankGateways, LogTransactionCreated, Route, Process,
                CallGateway, EndRace, Succeed, RecordSuccess, RecordFailure, FailOver,
                CacheOutcome, CleanUp
  <2>2. Inserts(r)
    BY <1>1, <2>1, GotoMoves DEF InsertTransaction, Inserts
  <2> QED
    BY <1>1, <2>2, RequestHasEffect DEF ServeRequest, NoteRanking
<1>2. ASSUME NEW r \in Requests, ServeRequest(r),
             ~(req[r].at = "insert" /\ txns[req[r].key] = Null)
      PROVE  RequestEffect(r) /\ ~Inserts(r) /\ ranked' = ranked
  BY <1>2, RequestHasEffect DEF ServeRequest, NoteRanking, Inserts, Moves, Insert
<1>3. ASSUME \A r \in Requests : ~ServeRequest(r)
      PROVE  /\ \/ \E r \in Requests : RequestEffect(r) /\ ~Inserts(r)
                \/ WorkerEffect
                \/ NoEffect
             /\ ranked' = ranked
  <2>1. ranked' = ranked
    BY <1>3 DEF Next, Arrive, Webhook, Reconcile, GatewayActs, DatabaseFault,
                KeyExpires, RedisFault, CrashRestart, vars
  <2>2. req' = req \/ txns' = txns
    BY <1>3 DEF Next, Arrive, AcquireLock, Webhook, Reconcile, GatewayActs, DatabaseFault,
                DatabaseError, KeyExpires, RedisFault, CrashRestart, vars, ledgerVars
  <2>3. ASSUME NEW r \in Requests, Inserts(r)
        PROVE  req' # req /\ txns' # txns
    <3>1. txns[req[r].key] = Null /\ req[r].key \in Keys /\ req[r].gateway \in Gateways
      BY <2>3 DEF Inserts, Insert, Moves, TypeInv, LocalsOK, PastInsert
    <3>2. txns'[req[r].key] = NewTransaction(req[r].gateway)
      BY <2>3, <3>1 DEF Inserts, Insert, TypeInv, TypeOK, LedgerTypeOK
    <3>3. txns'[req[r].key] # Null
      BY <3>1, <3>2, NewTyped, NullAssumption
    <3> QED
      BY <2>3, <3>1, <3>3 DEF Inserts, Moves
  <2> QED
    BY <2>1, <2>2, <2>3, StepEffect
<1> QED
  BY <1>1, <1>2, <1>3

(* A charge that was requested stays requested.                            *)
LEMMA CallsGrow ==
  ASSUME TypeInv, [Next]_vars, NEW c \in GatewayTxnIds, calls[c] > 0
  PROVE  calls'[c] > 0
<1>1. ASSUME NEW r \in Requests, Calls(r)
      PROVE  calls'[c] > 0
  <2>1. <<req[r].key, req[r].gateway>> \in GatewayTxnIds
    BY <1>1 DEF TypeInv, LocalsOK, Calls, Moves, PastInsert, GatewayTxnIds
  <2> QED
    BY <1>1, <2>1 DEF Calls, Charge, TypeInv, TypeOK, GatewayTypeOK
<1>2. ASSUME NEW r \in Requests, RequestEffect(r), ~Calls(r)
      PROVE  calls' = calls
  BY <1>2 DEF RequestEffect, Leaves, Ranks, Inserts, Logs, Routes, Processes, Settles,
              Succeeds, Retries, GivesUp, Transits, gatewayVars
<1> QED
  BY <1>1, <1>2, StepEffect DEF WorkerEffect, NoEffect, gatewayVars

(* A request that goes on gives up its gateway only after the call failed. *)
LEMMA GivenUpStep ==
  ASSUME TypeInv, OneOwner, FailoverOrder, GivenUpAreCalled, [Next]_vars
  PROVE  GivenUpAreCalled'
<1> SUFFICES ASSUME NEW q \in Requests, req'[q].at \in PastInsert,
                    NEW g \in ranked'[req'[q].key] \ GatewaysOf(q)'
             PROVE  calls'[<<req'[q].key, g>>] > 0
  BY DEF GivenUpAreCalled
<1>0. /\ ranked \in [Keys -> SUBSET Gateways]
      /\ req[q].at \in PastInsert \cup {"insert"} => req[q].key \in Keys
      /\ req[q].fallbacks \in Seq(Gateways)
  BY DEF TypeInv, TypeOK, LocalsOK, PastInsert, RequestTypeOK, Locals
<1>1. ASSUME PastInsertKept(q), ranked'[req[q].key] = ranked[req[q].key],
             \A h \in GatewaysOf(q) \ GatewaysOf(q)' : calls[<<req[q].key, h>>] > 0
      PROVE  calls'[<<req'[q].key, g>>] > 0
  <2>1. g \in ranked[req[q].key] /\ req'[q].key = req[q].key
    BY <1>1 DEF PastInsertKept
  <2>2. <<req[q].key, g>> \in GatewayTxnIds
    BY <1>0, <1>1, <2>1 DEF GatewayTxnIds, PastInsertKept
  <2>3. calls[<<req[q].key, g>>] > 0
    BY <1>1, <2>1 DEF GivenUpAreCalled, PastInsertKept
  <2> QED
    BY <2>1, <2>2, <2>3, CallsGrow
<1>2. ASSUME req'[q] = req[q]
      PROVE  GatewaysOf(q)' = GatewaysOf(q)
  BY <1>2 DEF GatewaysOf
<1>3. ASSUME NEW r \in Requests, RequestEffect(r), Inserts(r),
             ranked' = [ranked EXCEPT ![req[r].key] = GatewaysOf(r)]
      PROVE  calls'[<<req'[q].key, g>>] > 0
  <2>1. /\ txns[req[r].key] = Null /\ req'[r].key = req[r].key
        /\ GatewaysOf(r)' = GatewaysOf(r)
    BY <1>3 DEF Inserts, Insert, Moves, KeepsGateways, GatewaysOf
  <2>2. CASE q = r
    <3>1. req[r].key \in Keys
      BY <1>3, <1>0, <2>2 DEF Inserts, Moves
    <3> QED
      BY <1>0, <1>3, <2>1, <2>2, <3>1
  <2>3. CASE q # r
    <3>1. req'[q] = req[q]
      BY <1>3, <2>3 DEF RequestEffect
    <3>2. req[q].key # req[r].key
      BY <2>1, <3>1 DEF OneOwner
    <3> QED
      BY <1>0, <1>1, <1>2, <1>3, <3>1, <3>2 DEF PastInsertKept
  <2> QED
    BY <2>2, <2>3
<1>4. ASSUME NEW r \in Requests, RequestEffect(r), ~Inserts(r), ranked' = ranked
      PROVE  calls'[<<req'[q].key, g>>] > 0
  <2>1. PastInsertKept(q)
    BY <1>4, PastInsertFrom
  <2>2. CASE q # r
    BY <1>1, <1>2, <1>4, <2>1, <2>2 DEF RequestEffect
  <2>3. CASE q = r /\ ~Retries(r)
    <3>1. KeepsGateways(q)
      BY <1>4, <2>3 DEF RequestEffect, Leaves, Ranks, Logs, Routes, Processes, Calls,
                        Settles, Succeeds, GivesUp, Moves, PastInsert
    <3> QED
      BY <1>1, <1>4, <2>1, <3>1 DEF KeepsGateways, GatewaysOf
  <2>4. CASE q = r /\ Retries(r)
    <3> DEFINE s == req[q].fallbacks
    <3>1. /\ req[q].at = "failover" /\ s # << >>
          /\ req'[q].gateway = Head(s) /\ req'[q].fallbacks = Tail(s)
      BY <2>4 DEF Retries, Moves
    <3>2. calls[<<req[q].key, req[q].gateway>>] > 0
      BY <3>1 DEF FailoverOrder, FallbacksUncalled, PastInsert, Tried
    <3>3. \A i \in DOMAIN s : s[i] = Head(s) \/ \E j \in DOMAIN Tail(s) : s[i] = Tail(s)[j]
      BY <1>0, <3>1, HeadAndTail
    <3>4. \A h \in GatewaysOf(q) \ GatewaysOf(q)' : h = req[q].gateway
      BY <3>1, <3>3 DEF GatewaysOf
    <3> QED
      BY <1>1, <1>4, <2>1, <3>2, <3>4
  <2> QED
    BY <2>2, <2>3, <2>4
<1>5. ASSUME WorkerEffect \/ NoEffect, ranked' = ranked
      PROVE  calls'[<<req'[q].key, g>>] > 0
  <2>1. req'[q] = req[q]
    BY <1>5 DEF WorkerEffect, NoEffect, PastInsert
  <2> QED
    BY <1>1, <1>2, <1>5, <2>1 DEF PastInsertKept
<1> QED
  BY <1>3, <1>4, <1>5, RankingNoted

(* A row becomes FAILED by the request that gives up alone.                *)
LEMMA FailedByOwner ==
  ASSUME TypeInv, [Next]_vars, NEW k \in Keys,
         txns'[k] # Null, txns'[k].currentState = "FAILED"
  PROVE  \/ txns[k] # Null /\ txns[k].currentState = "FAILED"
         \/ \E r \in Requests : GivesUp(r) /\ req[r].key = k
<1>1. ASSUME NEW r \in Requests, RequestEffect(r),
             ~(GivesUp(r) /\ req[r].key = k)
      PROVE  txns[k] # Null /\ txns[k].currentState = "FAILED"
  <2>1. CASE Leaves(r) \/ Ranks(r) \/ Logs(r) \/ Calls(r) \/ Settles(r)
    BY <2>1 DEF Leaves, Ranks, Logs, Calls, Settles, ledgerVars, LogCreation
  <2>2. CASE Inserts(r)
    <3>1. req[r].key \in Keys /\ req[r].gateway \in Gateways
      BY <2>2 DEF TypeInv, LocalsOK, Inserts, Moves
    <3>2. \A j \in Keys :
            txns'[j] = IF j = req[r].key THEN NewTransaction(req[r].gateway) ELSE txns[j]
      BY <2>2, <3>1 DEF Inserts, Insert, TypeInv, TypeOK, LedgerTypeOK
    <3> QED
      BY <3>1, <3>2, NewTyped
  <2>3. CASE Routes(r) \/ Processes(r) \/ Succeeds(r) \/ Retries(r) \/ GivesUp(r)
    BY <1>1, <2>3, OwnerMovesRow
  <2> QED
    BY <1>1, <2>1, <2>2, <2>3 DEF RequestEffect
<1>2. CASE WorkerEffect
  <2>1. /\ worker.key \in Keys
        /\ \A j \in Keys : j # worker.key => txns'[j] = txns[j]
        /\ txns'[worker.key].currentState = NextUp(worker.state)
    BY <1>2, WorkerTransitionTyped, TransitionKeepsRows
  <2>2. NextUp(worker.state) # "FAILED"
    BY <1>2 DEF NextUp, WorkerEffect, TypeInv, WorkerOK, TransactionState, Terminal
  <2> QED
    BY <2>1, <2>2
<1>3. CASE NoEffect
  BY <1>3 DEF NoEffect, ledgerVars
<1> QED
  BY <1>1, <1>2, <1>3, StepEffect

(* When the owner gives up, its ranking is exhausted.                      *)
LEMMA FailedAfterAllStep ==
  ASSUME TypeInv, FailoverOrder, GivenUpAreCalled, FailedAfterAll, [Next]_vars
  PROVE  FailedAfterAll'
<1> SUFFICES ASSUME NEW k \in Keys, txns'[k] # Null, txns'[k].currentState = "FAILED",
                    NEW g \in ranked'[k]
             PROVE  calls'[<<k, g>>] > 0
  BY DEF FailedAfterAll
<1>0. ranked \in [Keys -> SUBSET Gateways]
  BY DEF TypeInv, TypeOK
<1>1. txns[k] # Null /\ ranked'[k] = ranked[k]
  <2>1. txns[k] # Null
    BY FailedByOwner DEF GivesUp, Transits, Transition, CanTransition
  <2> QED
    BY <1>0, <2>1, RankingNoted DEF Inserts, Insert
<1>2. <<k, g>> \in GatewayTxnIds
  BY <1>0, <1>1 DEF GatewayTxnIds
<1>3. CASE txns[k].currentState = "FAILED"
  BY <1>1, <1>2, <1>3, CallsGrow DEF FailedAfterAll
<1>4. ASSUME NEW r \in Requests, GivesUp(r), req[r].key = k
      PROVE  calls[<<k, g>>] > 0
  <2>1. req[r].at = "failover" /\ req[r].fallbacks = << >>
    BY <1>4 DEF GivesUp, Moves
  <2>2. GatewaysOf(r) = {req[r].gateway}
    BY <2>1 DEF GatewaysOf
  <2>3. calls[<<k, req[r].gateway>>] > 0
    BY <1>4, <2>1 DEF FailoverOrder, FallbacksUncalled, PastInsert, Tried
  <2> QED
    BY <1>1, <1>4, <2>1, <2>2, <2>3 DEF GivenUpAreCalled, PastInsert
<1> QED
  BY <1>2, <1>3, <1>4, FailedByOwner, CallsGrow

(* FAILED IS THE LAST RESORT.  For any number of gateways, requests and    *)
(* webhooks and every fault, a payment fails only after each gateway of    *)
(* the ranking it was created with was called (create(), the failover      *)
(* loop; the worker has no way to FAILED).                                 *)
THEOREM FailedIsLastResort == Spec => []FailedAfterAll
<1>1. Init => GivenUpAreCalled /\ FailedAfterAll
  BY DEF Init, LedgerInit, RequestInit, Idle, GivenUpAreCalled, PastInsert, FailedAfterAll
<1>2. TypeInv /\ OwnInv /\ GivenUpAreCalled /\ FailedAfterAll /\ [Next]_vars =>
        GivenUpAreCalled' /\ FailedAfterAll'
  BY GivenUpStep, FailedAfterAllStep DEF OwnInv
<1> QED
  BY <1>1, <1>2, PaymentTypes, Ownership, PTL DEF Spec

-----------------------------------------------------------------------------
(* WRITE-AHEAD AUDIT.  The trail only grows, and an attempt is in it when  *)
(* the request reaches the call of the gateway.                            *)

(* transition() appends one entry to the trail and changes none.           *)
LEMMA AppendedEntry ==
  ASSUME LedgerTypeOK, NEW k \in Keys, NEW to \in TransactionState,
         NEW meta \in Metadata, Transition(k, to, meta)
  PROVE  LET n == Len(audit[k]) IN
         /\ n \in Nat /\ DOMAIN audit[k] = 1..n /\ DOMAIN audit'[k] = 1..n + 1
         /\ \A i \in 1..n : audit'[k][i] = audit[k][i]
         /\ audit'[k][n + 1].toState = to
         /\ audit'[k][n + 1].gateway = txns'[k].selectedGateway
<1> DEFINE entry == EntryFor(txns[k].currentState, Applied(txns[k], to, meta))
<1>1. txns[k] \in Transaction /\ txns[k].currentState \in TransactionState
  BY DEF LedgerTypeOK, Transition, CanTransition, Transaction
<1>2. Applied(txns[k], to, meta) \in Transaction /\ Applied(txns[k], to, meta).currentState = to
  BY <1>1, AppliedTyped
<1>3. entry \in AuditEntry /\ entry.toState = to
  BY <1>1, <1>2, EntryTyped
<1>4. entry.gateway = Applied(txns[k], to, meta).selectedGateway
  BY DEF EntryFor
<1>5. audit[k] \in Seq(AuditEntry) /\ audit'[k] = Append(audit[k], entry)
  BY DEF LedgerTypeOK, Transition
<1>6. txns'[k] = Applied(txns[k], to, meta)
  BY TransitionKeepsRows
<1> HIDE DEF entry
<1> QED
  BY <1>3, <1>4, <1>5, <1>6

(* An attempt that was logged stays logged.                                *)
LEMMA AttemptStays ==
  ASSUME TypeInv, [Next]_vars, NEW k \in Keys, NEW g, AttemptLogged(k, g)
  PROVE  AttemptLogged(k, g)'
<1>0. LedgerTypeOK /\ [LedgerNext]_ledgerVars
  BY StepUsesLedger DEF TypeInv, TypeOK
<1>1. audit'[k] = audit[k] => AttemptLogged(k, g)'
  BY DEF AttemptLogged
<1>2. ASSUME NEW to \in TransactionState, NEW meta \in Metadata, Transition(k, to, meta)
      PROVE  AttemptLogged(k, g)'
  BY <1>0, <1>2, AppendedEntry DEF AttemptLogged
<1>3. ASSUME NEW j \in Keys, j # k, NEW to \in TransactionState, NEW meta \in Metadata,
             Transition(j, to, meta)
      PROVE  AttemptLogged(k, g)'
  BY <1>0, <1>1, <1>3, TransitionKeepsRows
<1> QED
  BY <1>0, <1>1, <1>2, <1>3 DEF LedgerNext, Insert, LogCreation, ledgerVars

AuditInv == ChargeFollowsAudit /\ ChargeIsAudited

(* A gateway is called only after PROCESSING was logged with it.           *)
LEMMA AuditInvStep == TypeInv /\ AuditInv /\ [Next]_vars => AuditInv'
<1> SUFFICES ASSUME TypeInv, AuditInv, [Next]_vars
             PROVE  AuditInv'
  OBVIOUS
<1>0. \A k \in Keys, g \in Gateways : calls[<<k, g>>] > 0 => AttemptLogged(k, g)
  BY DEF AuditInv, ChargeIsAudited, AttemptLogged
<1>1. ASSUME NEW k \in Keys, NEW g, AttemptLogged(k, g)
      PROVE  \E i \in DOMAIN audit'[k] :
               audit'[k][i].toState = "PROCESSING" /\ audit'[k][i].gateway = g
  BY <1>1, AttemptStays DEF AttemptLogged
<1>2. ASSUME calls' = calls
      PROVE  ChargeIsAudited'
  BY <1>0, <1>1, <1>2 DEF ChargeIsAudited
<1>3. ASSUME NEW q \in Requests, req'[q] = req[q], req[q].at = "charge"
      PROVE  AttemptLogged(req[q].key, req[q].gateway)'
  <2>1. AttemptLogged(req[q].key, req[q].gateway) /\ req[q].key \in Keys
    BY <1>3 DEF AuditInv, ChargeFollowsAudit, TypeInv, LocalsOK
  <2> QED
    BY <1>1, <1>3, <2>1 DEF AttemptLogged
<1>4. ASSUME NEW r \in Requests, RequestEffect(r)
      PROVE  AuditInv'
  <2>1. ASSUME ~Processes(r)
        PROVE  ChargeFollowsAudit'
    <3>1. req'[r].at # "charge"
      BY <1>4, <2>1 DEF RequestEffect, Leaves, Ranks, Inserts, Logs, Routes, Calls, Settles,
                        Succeeds, Retries, GivesUp, Moves, PastInsert
    <3> QED
      BY <1>3, <1>4, <3>1 DEF ChargeFollowsAudit, RequestEffect
  <2>2. CASE Processes(r)
    <3> DEFINE k == req[r].key
               g == req[r].gateway
               n == Len(audit[k])
    <3>0. req[r].at \in PastInsert /\ req'[r].key = k /\ req'[r].gateway = g
      BY <2>2 DEF Processes, Moves, KeepsGateways, PastInsert
    <3>1. /\ LedgerTypeOK /\ k \in Keys /\ g \in Gateways
          /\ "PROCESSING" \in TransactionState
          /\ Meta(g, Null, TRUE) \in Metadata
          /\ Transition(k, "PROCESSING", Meta(g, Null, TRUE))
      BY <2>2, <3>0, TransitsTyped DEF Processes, TransactionState
    <3>2. /\ n \in Nat /\ DOMAIN audit'[k] = 1..n + 1
          /\ audit'[k][n + 1].toState = "PROCESSING"
          /\ audit'[k][n + 1].gateway = txns'[k].selectedGateway
      BY <3>1, AppendedEntry
    <3>3. txns'[k] = Applied(txns[k], "PROCESSING", Meta(g, Null, TRUE))
      BY <3>1, TransitionKeepsRows
    <3>4. txns'[k].selectedGateway = g
      BY <3>1, <3>3, NullAssumption DEF Applied, Meta
    <3>5. n + 1 \in DOMAIN audit'[k]
      BY <3>2
    <3>6. AttemptLogged(req[r].key, req[r].gateway)'
      BY <3>0, <3>2, <3>4, <3>5 DEF AttemptLogged
    <3>7. ChargeFollowsAudit'
      BY <1>3, <1>4, <3>6 DEF ChargeFollowsAudit, RequestEffect
    <3>8. calls' = calls
      BY <2>2 DEF Processes, Transits, gatewayVars
    <3> QED
      BY <1>2, <3>7, <3>8 DEF AuditInv
  <2>3. CASE Calls(r)
    <3> DEFINE c == <<req[r].key, req[r].gateway>>
    <3>1. /\ req[r].at = "charge" /\ audit' = audit
          /\ calls' = [calls EXCEPT ![c] = calls[c] + 1]
      BY <2>3 DEF Calls, Moves, Charge, ledgerVars
    <3>2. AttemptLogged(req[r].key, req[r].gateway)
      BY <3>1 DEF AuditInv, ChargeFollowsAudit
    <3>3. ASSUME NEW k \in Keys, NEW g \in Gateways, calls'[<<k, g>>] > 0
          PROVE  AttemptLogged(k, g)
      <4>1. CASE <<k, g>> = c
        BY <3>2, <4>1
      <4>2. CASE <<k, g>> # c
        <5>1. <<k, g>> \in GatewayTxnIds
          BY DEF GatewayTxnIds
        <5> QED
          BY <1>0, <3>1, <3>3, <4>2, <5>1 DEF TypeInv, TypeOK, GatewayTypeOK
      <4> QED
        BY <4>1, <4>2
    <3>4. ChargeIsAudited'
      BY <3>1, <3>3 DEF ChargeIsAudited, AttemptLogged
    <3>5. ~Processes(r)
      BY <3>1 DEF Processes, Moves
    <3> QED
      BY <2>1, <3>4, <3>5 DEF AuditInv
  <2>4. CASE ~Processes(r) /\ ~Calls(r)
    <3>1. calls' = calls
      BY <1>4, <2>4
         DEF RequestEffect, Leaves, Ranks, Inserts, Logs, Routes, Settles, Succeeds,
             Retries, GivesUp, Transits, gatewayVars
    <3> QED
      BY <1>2, <2>1, <2>4, <3>1 DEF AuditInv
  <2> QED
    BY <2>2, <2>3, <2>4
<1>5. CASE WorkerEffect
  <2>1. calls' = calls /\ req' = req
    BY <1>5 DEF WorkerEffect, gatewayVars
  <2> QED
    BY <1>2, <1>3, <2>1 DEF AuditInv, ChargeFollowsAudit
<1>6. CASE NoEffect
  BY <1>2, <1>3, <1>6 DEF NoEffect, AuditInv, ChargeFollowsAudit
<1> QED
  BY <1>4, <1>5, <1>6, StepEffect

(* WRITE-AHEAD AUDIT.  No gateway is ever called without the attempt being *)
(* in the committed audit trail, whatever fails before or after the call.  *)
THEOREM NoUnauditedCharge == Spec => []ChargeIsAudited
<1>1. Init => AuditInv
  <2> SUFFICES ASSUME Init PROVE AuditInv
    OBVIOUS
  <2>1. \A r \in Requests : req[r].at = "idle"
    BY DEF Init, RequestInit, Idle
  <2>2. \A k \in Keys, g \in Gateways : <<k, g>> \in GatewayTxnIds
    BY DEF GatewayTxnIds
  <2> QED
    BY <2>1, <2>2 DEF AuditInv, ChargeFollowsAudit, ChargeIsAudited, Init, GatewayInit
<1>2. AuditInv => ChargeIsAudited
  BY DEF AuditInv
<1> QED
  BY <1>1, <1>2, AuditInvStep, PaymentTypes, PTL DEF Spec

-----------------------------------------------------------------------------
(* ATTEMPTS.  Whoever asks for PROCESSING asks for the attempt to be       *)
(* counted, and nobody else does.                                          *)
CountedTransition(k, to, meta) ==
  /\ to \in TransactionState /\ meta \in Metadata
  /\ Transition(k, to, meta)
  /\ meta.incrementAttempt <=> to = "PROCESSING"

(* A step changes the ledger by an INSERT or by a transition that counts   *)
(* an attempt exactly if it retries.                                       *)
LEMMA StepCounts ==
  ASSUME TypeInv, [Next]_vars
  PROVE  \/ UNCHANGED <<txns, audit>>
         \/ \E k \in Keys, g \in Gateways : Insert(k, g)
         \/ \E k \in Keys : \E to, meta : CountedTransition(k, to, meta)
<1>1. ASSUME NEW r \in Requests, RequestEffect(r)
      PROVE  \/ UNCHANGED <<txns, audit>>
             \/ \E k \in Keys, g \in Gateways : Insert(k, g)
             \/ \E k \in Keys : \E to, meta : CountedTransition(k, to, meta)
  <2>1. CASE Leaves(r) \/ Ranks(r) \/ Logs(r) \/ Calls(r) \/ Settles(r)
    BY <2>1 DEF Leaves, Ranks, Logs, Calls, Settles, ledgerVars, LogCreation
  <2>2. CASE Inserts(r)
    BY <2>2 DEF Inserts, Moves, TypeInv, LocalsOK
  <2>3. CASE Routes(r) \/ Processes(r) \/ Succeeds(r) \/ Retries(r) \/ GivesUp(r)
    <3>1. PICK to \in TransactionState, id \in {Null, <<req[r].key, req[r].gateway>>},
               inc \in BOOLEAN : Transits(r, to, id, inc) /\ (inc <=> to = "PROCESSING")
      BY <2>3 DEF Routes, Processes, Succeeds, Retries, GivesUp, TransactionState
    <3>2. req[r].at \in PastInsert
      BY <2>3 DEF Routes, Processes, Succeeds, Retries, GivesUp, Moves, PastInsert
    <3>3. Meta(req[r].gateway, id, inc).incrementAttempt = inc
      BY DEF Meta
    <3>4. CountedTransition(req[r].key, to, Meta(req[r].gateway, id, inc))
      BY <3>1, <3>2, <3>3, TransitsTyped DEF CountedTransition
    <3> QED
      BY <3>1, <3>2, <3>4, TransitsTyped
  <2> QED
    BY <1>1, <2>1, <2>2, <2>3 DEF RequestEffect
<1>2. CASE WorkerEffect
  <2> DEFINE to == NextUp(worker.state)
  <2>1. CountedTransition(worker.key, to, UpMeta(worker.event, to))
    BY <1>2, WorkerTransitionTyped DEF CountedTransition, UpMeta
  <2> QED
    BY <1>2, <2>1, WorkerTransitionTyped
<1>3. CASE NoEffect
  BY <1>3 DEF NoEffect, ledgerVars
<1> QED
  BY <1>1, <1>2, <1>3, StepEffect

(* The positions of the attempts in a trail.                               *)
Attempts(k) == {i \in DOMAIN audit[k] : audit[k][i].toState = "PROCESSING"}

(* attempt_count keeps up with the attempts in the trail.                  *)
LEMMA AttemptsStep ==
  TypeInv /\ AuditTrailIsPath /\ AttemptsAudited /\ [Next]_vars => AttemptsAudited'
<1> SUFFICES ASSUME TypeInv, AuditTrailIsPath, AttemptsAudited, [Next]_vars,
                    NEW k \in Keys, txns'[k] # Null
             PROVE  txns'[k].attemptCount = Cardinality(Attempts(k)')
  BY DEF AttemptsAudited, Attempts
<1>0. LedgerTypeOK /\ (txns[k] # Null => txns[k].attemptCount = Cardinality(Attempts(k)))
  BY DEF TypeInv, TypeOK, AttemptsAudited, Attempts
<1>1. ASSUME txns'[k] = txns[k], audit'[k] = audit[k]
      PROVE  txns'[k].attemptCount = Cardinality(Attempts(k)')
  BY <1>0, <1>1 DEF Attempts
<1>2. ASSUME NEW g \in Gateways, Insert(k, g)
      PROVE  txns'[k].attemptCount = Cardinality(Attempts(k)')
  <2>1. audit'[k] = << >> /\ txns'[k] = NewTransaction(g)
    BY <1>0, <1>2 DEF Insert, LedgerTypeOK, AuditTrailIsPath, TrailMeetsRow
  <2>2. Attempts(k)' = {}
    BY <2>1 DEF Attempts
  <2> QED
    BY <2>1, <2>2, FS_EmptySet DEF NewTransaction
<1>3. ASSUME NEW to, NEW meta, CountedTransition(k, to, meta)
      PROVE  txns'[k].attemptCount = Cardinality(Attempts(k)')
  <2> DEFINE n == Len(audit[k])
  <2>1. to \in TransactionState /\ meta \in Metadata /\ Transition(k, to, meta)
    BY <1>3 DEF CountedTransition
  <2>2. /\ n \in Nat /\ DOMAIN audit[k] = 1..n /\ DOMAIN audit'[k] = 1..n + 1
        /\ \A i \in 1..n : audit'[k][i] = audit[k][i]
        /\ audit'[k][n + 1].toState = to
    BY <1>0, <2>1, AppendedEntry
  <2>3. /\ txns[k] \in Transaction
        /\ txns'[k] = Applied(txns[k], to, meta)
    BY <1>0, <2>1, TransitionKeepsRows
  <2>4. IsFiniteSet(Attempts(k))
    <3>1. IsFiniteSet(1..n)
      BY <2>2, FS_Interval
    <3>2. Attempts(k) \subseteq 1..n
      BY <2>2 DEF Attempts
    <3> QED
      BY <3>1, <3>2, FS_Subset
  <2>5. txns[k].attemptCount = Cardinality(Attempts(k))
    BY <1>0, <2>3, NullAssumption
  <2>6. CASE to = "PROCESSING"
    <3>1. Attempts(k)' = Attempts(k) \cup {n + 1}
      BY <2>2, <2>6 DEF Attempts
    <3>2. n + 1 \notin Attempts(k)
      BY <2>2 DEF Attempts
    <3>3. Cardinality(Attempts(k) \cup {n + 1}) = Cardinality(Attempts(k)) + 1
      BY <2>4, <3>2, FS_AddElement
    <3>4. txns'[k].attemptCount = txns[k].attemptCount + 1
      BY <1>3, <2>3, <2>6 DEF CountedTransition, Applied
    <3> QED
      BY <2>5, <3>1, <3>3, <3>4
  <2>7. CASE to # "PROCESSING"
    <3>1. Attempts(k)' = Attempts(k)
      BY <2>2, <2>7 DEF Attempts
    <3>2. txns'[k].attemptCount = txns[k].attemptCount
      BY <1>3, <2>3, <2>7 DEF CountedTransition, Applied
    <3> QED
      BY <2>5, <3>1, <3>2
  <2> QED
    BY <2>6, <2>7
<1>4. ASSUME NEW j \in Keys, j # k, NEW g \in Gateways, Insert(j, g)
      PROVE  txns'[k] = txns[k] /\ audit'[k] = audit[k]
  BY <1>0, <1>4 DEF Insert, LedgerTypeOK
<1>5. ASSUME NEW j \in Keys, j # k, NEW to, NEW meta, CountedTransition(j, to, meta)
      PROVE  txns'[k] = txns[k] /\ audit'[k] = audit[k]
  BY <1>0, <1>5, TransitionKeepsRows DEF CountedTransition
<1> QED
  BY <1>1, <1>2, <1>3, <1>4, <1>5, StepCounts

(* ATTEMPTS.  The attempt_count of a row is the number of attempts in its  *)
(* trail, however requests and the worker race for its transitions.        *)
THEOREM AttemptCountIsAudited == Spec => []AttemptsAudited
<1>1. Init => AttemptsAudited
  BY DEF Init, LedgerInit, AttemptsAudited
<1>2. Spec => []AuditTrailIsPath
  BY PaymentAuditTrail, PTL
<1> QED
  BY <1>1, <1>2, AttemptsStep, PaymentTypes, PTL DEF Spec
=============================================================================
