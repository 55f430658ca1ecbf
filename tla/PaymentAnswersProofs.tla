------------------------ MODULE PaymentAnswersProofs ------------------------
(***************************************************************************)
(* What clients are told, and the locks they meet: the idempotency store   *)
(* of RedisService, the answers of create(), and the refinement of the     *)
(* specification a merchant relies on.                                     *)
(***************************************************************************)
EXTENDS PaymentWebhookProofs

-----------------------------------------------------------------------------
(* The places at which a request owns the lock it took, or will replace or *)
(* remove the value under its key, and those at which it carries a row.    *)
Holding == InTry \cup {"recache", "cleanup"}
Carrying == {"recache", "recordsuccess", "cache"}

(* What a step of create() does to the idempotency store: nothing, take    *)
(* the lock, or replace it by the outcome or nothing and let go.           *)
Writes(k, v) == store' = [store EXCEPT ![Active][k] = v]

KeepsStore(r) ==
  /\ store' = store
  /\ req[r].at \in Holding => req'[r].at \in Holding /\ req'[r].key = req[r].key

Locks(r) ==
  /\ req[r].at = "idle" /\ req'[r].at \in Holding /\ req'[r].key \in Keys
  /\ Writes(req'[r].key, Processing)

Unlocks(r) ==
  /\ req[r].at \in Holding
  /\ \E v \in {Null, Completed(req[r].txn)} :
       /\ Writes(req[r].key, v)
       /\ v # Null => req[r].at \in Carrying

(* The row a request carries was read in this step, or before it.          *)
Carries(r) ==
  req'[r].at \in Carrying =>
    /\ req'[r].key = req[r].key /\ req[r].key \in Keys
    /\ \/ req'[r].txn = txns'[req[r].key] /\ txns'[req[r].key] # Null
       \/ req[r].at \in Carrying /\ req'[r].txn = req[r].txn

(* An answer is given in the step, from the row carried or the cache.      *)
Tells(r) ==
  /\ req[r].answer = Null
  /\ req'[r].answer # Null /\ req'[r].answer.status = "ok" =>
       /\ req'[r].key = req[r].key /\ req[r].key \in Keys
       /\ UNCHANGED <<ledgerVars, gatewayVars>>
       /\ \/ req[r].at \in Carrying /\ req'[r].answer.transaction = req[r].txn
          \/ /\ Get(req[r].key) \notin {Null, Processing}
             /\ req'[r].answer.transaction = Get(req[r].key).transaction

AnswerEffect(r) ==
  /\ \A q \in Requests : q # r => req'[q] = req[q]
  /\ UNCHANGED isMockMode
  /\ KeepsStore(r) \/ Locks(r) \/ Unlocks(r)
  /\ Carries(r)
  /\ Tells(r)

(* Every step of a request has this effect.                                *)
LEMMA RequestAnswerEffect ==
  ASSUME TypeInv, NEW r \in Requests,
         Arrive(r) \/ ServeRequest(r) \/ DatabaseError(r)
  PROVE  AnswerEffect(r)
<1>0. /\ req[r] \in Locals /\ LocalsOK(req[r])
      /\ req \in [Requests -> Locals] /\ LedgerTypeOK
  BY DEF TypeInv, TypeOK, RequestTypeOK
<1>1. req[r].at # "done" => req[r].answer = Null
  BY <1>0 DEF LocalsOK
<1>2. req[r].at # "idle" => req[r].key \in Keys
  BY <1>0 DEF LocalsOK
<1> USE DEF AnswerEffect, Holding, Carrying
<1>3. ASSUME NEW place, Goto(r, place), UNCHANGED redisVars,
             req[r].at \notin {"idle", "done"},
             req[r].at \in Holding => place \in Holding,
             place \in Carrying => req[r].at \in Carrying
      PROVE  AnswerEffect(r)
  BY <1>1, <1>2, <1>3, GotoMoves DEF Moves, KeepsStore, Carries, Tells, redisVars
<1>4. ASSUME Answer(r, Refused("error")) \/ Answer(r, Refused("conflict")),
             UNCHANGED redisVars, req[r].at \in {"readcache", "findexisting"}
      PROVE  AnswerEffect(r)
  <2>1. PICK a \in {Refused("error"), Refused("conflict")} : Answer(r, a)
    BY <1>4
  <2>2. a.status # "ok"
    BY DEF Refused
  <2> QED
    BY <1>1, <1>4, <2>1, <2>2, AnswerMoves
       DEF Moves, KeepsStore, Carries, Tells, redisVars, InTry
<1>5. CASE Arrive(r)
  <2>1. PICK k \in Keys : AcquireLock(r, k)
    BY <1>5 DEF Arrive
  <2>2. CASE Get(k) = Null
    <3>1. /\ req[r].at = "idle" /\ SetKey(k, Processing)
          /\ req' = [req EXCEPT ![r].key = k, ![r].at = "checkdb"]
      BY <2>1, <2>2 DEF AcquireLock
    <3>2. /\ req'[r].key = k /\ req'[r].at = "checkdb" /\ req'[r].answer = Null
          /\ \A q \in Requests : q # r => req'[q] = req[q]
      BY <1>0, <1>1, <3>1 DEF Locals
    <3> QED
      BY <1>1, <3>1, <3>2 DEF SetKey, Writes, Locks, Carries, Tells, InTry
  <2>3. CASE Get(k) # Null
    <3>1. /\ req[r].at = "idle" /\ UNCHANGED redisVars
          /\ req' = [req EXCEPT ![r].key = k, ![r].at = "readcache"]
      BY <2>1, <2>3 DEF AcquireLock
    <3>2. /\ req'[r].key = k /\ req'[r].at = "readcache" /\ req'[r].answer = Null
          /\ \A q \in Requests : q # r => req'[q] = req[q]
      BY <1>0, <1>1, <3>1 DEF Locals
    <3> QED
      BY <1>1, <3>1, <3>2 DEF redisVars, KeepsStore, Carries, Tells, InTry
  <2> QED
    BY <2>2, <2>3
<1>6. CASE DatabaseError(r)
  BY <1>3, <1>4, <1>6 DEF DatabaseError, InTry
<1>7. CASE ReadCache(r)
  <2>1. /\ req[r].at = "readcache" /\ UNCHANGED <<ledgerVars, gatewayVars>>
        /\ UNCHANGED redisVars
    BY <1>7 DEF ReadCache
  <2>2. CASE Goto(r, "findexisting")
    BY <1>3, <2>1, <2>2 DEF InTry
  <2>3. CASE Answer(r, Refused("conflict"))
    BY <1>4, <2>1, <2>3
  <2>4. CASE /\ Get(req[r].key) \notin {Null, Processing}
             /\ Answer(r, Ok(Get(req[r].key).transaction))
    <3>1. Ok(Get(req[r].key).transaction).transaction = Get(req[r].key).transaction
      BY DEF Ok
    <3> QED
      BY <1>1, <1>2, <2>1, <2>4, <3>1, AnswerMoves
         DEF Moves, KeepsStore, Carries, Tells, redisVars, InTry
  <2> QED
    BY <1>7, <2>2, <2>3, <2>4 DEF ReadCache
<1>8. CASE FindExisting(r) \/ CheckDatabase(r)
  <2>1. /\ req[r].at \in {"findexisting", "checkdb"} /\ UNCHANGED redisVars /\ txns' = txns
    BY <1>8 DEF FindExisting, CheckDatabase, ledgerVars
  <2>2. CASE req[r].at = "findexisting" /\ Answer(r, Refused("conflict"))
    BY <1>4, <2>1, <2>2
  <2>3. CASE req[r].at = "checkdb" /\ Goto(r, "rank")
    BY <1>3, <2>1, <2>3 DEF InTry
  <2>4. CASE /\ txns[req[r].key] # Null
             /\ req' = [req EXCEPT ![r].txn = txns[req[r].key], ![r].at = "recache"]
    <3>1. /\ req'[r].key = req[r].key /\ req'[r].at = "recache" /\ req'[r].answer = Null
          /\ req'[r].txn = txns[req[r].key]
          /\ \A q \in Requests : q # r => req'[q] = req[q]
      BY <1>0, <1>1, <2>1, <2>4 DEF Locals
    <3> QED
      BY <1>1, <1>2, <2>1, <2>4, <3>1 DEF redisVars, KeepsStore, Carries, Tells, InTry
  <2> QED
    BY <1>8, <2>2, <2>3, <2>4 DEF FindExisting, CheckDatabase
<1>9. CASE CacheExisting(r) \/ CacheOutcome(r)
  <2>1. /\ req[r].at \in {"recache", "cache"} /\ SetKey(req[r].key, Completed(req[r].txn))
        /\ Answer(r, Ok(req[r].txn)) /\ UNCHANGED <<ledgerVars, gatewayVars>>
    BY <1>9 DEF CacheExisting, CacheOutcome
  <2>2. Ok(req[r].txn).transaction = req[r].txn
    BY DEF Ok
  <2> QED
    BY <1>1, <1>2, <2>1, <2>2, AnswerMoves DEF Moves, SetKey, Writes, Unlocks, Carries, Tells, InTry
<1>10. CASE CleanUp(r)
  <2>1. /\ req[r].at = "cleanup" /\ SetKey(req[r].key, Null) /\ Answer(r, Refused("error"))
    BY <1>10 DEF CleanUp, Del
  <2>2. Refused("error").status # "ok"
    BY DEF Refused
  <2> QED
    BY <1>1, <2>1, <2>2, AnswerMoves DEF Moves, SetKey, Writes, Unlocks, Carries, Tells, InTry
<1>11. CASE RankGateways(r)
  <2>1. req[r].at = "rank" /\ UNCHANGED redisVars
    BY <1>11 DEF RankGateways
  <2>2. CASE Goto(r, "cleanup")
    BY <1>3, <2>1, <2>2 DEF InTry
  <2>3. ASSUME NEW s, req' = [req EXCEPT ![r].gateway = Head(s), ![r].fallbacks = Tail(s),
                                         ![r].at = "insert"]
        PROVE  AnswerEffect(r)
    <3>1. /\ req'[r].key = req[r].key /\ req'[r].at = "insert" /\ req'[r].answer = Null
          /\ \A q \in Requests : q # r => req'[q] = req[q]
      BY <1>0, <1>1, <2>1, <2>3 DEF Locals
    <3> QED
      BY <1>1, <2>1, <3>1 DEF redisVars, KeepsStore, Carries, Tells, InTry
  <2> QED
    BY <1>11, <2>2, <2>3 DEF RankGateways
<1>12. CASE InsertTransaction(r) \/ LogTransactionCreated(r) \/ CallGateway(r) \/ EndRace(r)
            \/ RecordSuccess(r) \/ RecordFailure(r)
  BY <1>3, <1>12 DEF InsertTransaction, LogTransactionCreated, CallGateway, EndRace,
                     RecordSuccess, RecordFailure, InTry
<1>13. ASSUME NEW to \in TransactionState, NEW meta \in Metadata, NEW next \in Locals,
              MakeTransition(r, to, meta, next),
              req[r].at \in InTry, next.at \in InTry, next.key = req[r].key, next.answer = Null,
              next.at \in Carrying => to \in {"SUCCESS", "FAILED"}
       PROVE  AnswerEffect(r)
  <2>1. CASE Goto(r, "cleanup") /\ UNCHANGED ledgerVars
    BY <1>3, <1>13, <2>1 DEF MakeTransition, InTry
  <2>2. CASE /\ Transition(req[r].key, to, meta)
             /\ req' = [req EXCEPT ![r] = [next EXCEPT !.txn =
                     IF to \in {"SUCCESS", "FAILED"} THEN txns'[req[r].key] ELSE Null]]
    <3>1. /\ req'[r].key = req[r].key /\ req'[r].at = next.at /\ req'[r].answer = Null
          /\ to \in {"SUCCESS", "FAILED"} => req'[r].txn = txns'[req[r].key]
          /\ \A q \in Requests : q # r => req'[q] = req[q]
      <4>1. req'[r] = [next EXCEPT !.txn =
                     IF to \in {"SUCCESS", "FAILED"} THEN txns'[req[r].key] ELSE Null]
        BY <1>0, <2>2
      <4> QED
        BY <1>0, <1>13, <2>2, <4>1 DEF Locals
    <3>2. req[r].at # "idle" /\ req[r].key \in Keys /\ UNCHANGED redisVars
      BY <1>2, <1>13 DEF InTry, MakeTransition
    <3>3. txns'[req[r].key] # Null
      <4>1. txns[req[r].key] # Null
        BY <2>2 DEF Transition, CanTransition
      <4> QED
        BY <1>0, <2>2, <3>2, <4>1, TransitionKeepsRows
    <3> QED
      BY <1>1, <1>13, <3>1, <3>2, <3>3 DEF redisVars, KeepsStore, Carries, Tells, InTry
  <2> QED
    BY <1>13, <2>1, <2>2 DEF MakeTransition
<1>14. ASSUME req[r].at \in PastInsert
       PROVE  /\ req[r].key \in Keys /\ req[r].gateway \in Gateways
              /\ <<req[r].key, req[r].gateway>> \in GatewayTxnIds
  BY <1>0, <1>14 DEF LocalsOK, PastInsert, GatewayTxnIds
<1>15. CASE Route(r)
  <2> DEFINE next == [req[r] EXCEPT !.at = "process"]
             meta == Meta(req[r].gateway, Null, FALSE)
  <2>1. req[r].at = "route" /\ MakeTransition(r, "ROUTED", meta, next)
    BY <1>15 DEF Route
  <2>2. next \in Locals /\ next.at = "process" /\ next.key = req[r].key /\ next.answer = Null
    BY <1>0, <1>1, <2>1 DEF Locals, Places, InTry
  <2>3. meta \in Metadata /\ "ROUTED" \in TransactionState
    BY <1>14, <2>1, MetaTyped DEF PastInsert, TransactionState
  <2> HIDE DEF next, meta
  <2> QED
    BY <1>13, <2>1, <2>2, <2>3 DEF InTry
<1>16. CASE Process(r)
  <2> DEFINE next == [req[r] EXCEPT !.at = "charge"]
             meta == Meta(req[r].gateway, Null, TRUE)
  <2>1. req[r].at = "process" /\ MakeTransition(r, "PROCESSING", meta, next)
    BY <1>16 DEF Process
  <2>2. next \in Locals /\ next.at = "charge" /\ next.key = req[r].key /\ next.answer = Null
    BY <1>0, <1>1, <2>1 DEF Locals, Places, InTry
  <2>3. meta \in Metadata /\ "PROCESSING" \in TransactionState
    BY <1>14, <2>1, MetaTyped DEF PastInsert, TransactionState
  <2> HIDE DEF next, meta
  <2> QED
    BY <1>13, <2>1, <2>2, <2>3 DEF InTry
<1>17. CASE Succeed(r)
  <2> DEFINE next == [req[r] EXCEPT !.at = "recordsuccess"]
             meta == Meta(req[r].gateway, <<req[r].key, req[r].gateway>>, FALSE)
  <2>1. req[r].at = "succeed" /\ MakeTransition(r, "SUCCESS", meta, next)
    BY <1>17 DEF Succeed
  <2>2. next \in Locals /\ next.at = "recordsuccess" /\ next.key = req[r].key /\ next.answer = Null
    BY <1>0, <1>1, <2>1 DEF Locals, Places, InTry
  <2>3. meta \in Metadata /\ "SUCCESS" \in TransactionState
    BY <1>14, <2>1, MetaTyped DEF PastInsert, TransactionState
  <2> HIDE DEF next, meta
  <2> QED
    BY <1>13, <2>1, <2>2, <2>3 DEF InTry
<1>18. CASE FailOver(r)
  <2> DEFINE meta == Meta(req[r].gateway, Null, FALSE)
  <2>0. req[r].at = "failover"
    BY <1>18 DEF FailOver
  <2>1. meta \in Metadata /\ {"RETRY_PENDING", "FAILED"} \subseteq TransactionState
    BY <1>14, <2>0, MetaTyped DEF PastInsert, TransactionState
  <2>2. CASE req[r].fallbacks # << >>
    <3> DEFINE next == [req[r] EXCEPT !.at = "route", !.gateway = Head(req[r].fallbacks),
                                      !.fallbacks = Tail(@)]
    <3>1. Head(req[r].fallbacks) \in Gateways /\ Tail(req[r].fallbacks) \in Seq(Gateways)
      BY <1>0, <2>2 DEF Locals
    <3>2. next \in Locals /\ next.at = "route" /\ next.key = req[r].key /\ next.answer = Null
      BY <1>0, <1>1, <2>0, <3>1 DEF Locals, Places, InTry
    <3>3. MakeTransition(r, "RETRY_PENDING", meta, next)
      BY <1>18, <2>2 DEF FailOver
    <3> HIDE DEF next, meta
    <3> QED
      BY <1>13, <2>0, <2>1, <3>2, <3>3 DEF InTry
  <2>3. CASE req[r].fallbacks = << >>
    <3> DEFINE next == [req[r] EXCEPT !.at = "cache"]
    <3>2. next \in Locals /\ next.at = "cache" /\ next.key = req[r].key /\ next.answer = Null
      BY <1>0, <1>1, <2>0 DEF Locals, Places, InTry
    <3>3. MakeTransition(r, "FAILED", meta, next)
      BY <1>18, <2>3 DEF FailOver
    <3> HIDE DEF next, meta
    <3> QED
      BY <1>13, <2>0, <2>1, <3>2, <3>3 DEF InTry
  <2> QED
    BY <2>2, <2>3
<1> HIDE DEF AnswerEffect
<1> QED
  BY <1>5, <1>6, <1>7, <1>8, <1>9, <1>10, <1>11, <1>12, <1>15, <1>16, <1>17, <1>18
     DEF ServeRequest, RequestStep

(* Any other step leaves the requests alone and at most forgets a key in   *)
(* Redis, or is a restart, which empties the Map.                          *)
QuietEffect ==
  /\ req' = req
  /\ isMockMode => isMockMode'
  /\ \A k \in Keys : /\ store'["memory"][k] = store["memory"][k]
                     /\ store'["redis"][k] \in {store["redis"][k], Null}

CrashEffect ==
  /\ \A q \in Requests :
       \/ req'[q] = req[q]
       \/ /\ req[q].at # "done" /\ req'[q].at = "crashed"
          /\ req'[q].key = req[q].key /\ req'[q].answer = Null
  /\ \A k \in Keys : /\ store'["memory"][k] = Null
                     /\ store'["redis"][k] = store["redis"][k]
  /\ UNCHANGED <<ledgerVars, gatewayVars>>

(* Every step is one of these effects on answers and on the store.         *)
LEMMA StepAnswerEffect ==
  ASSUME TypeInv, [Next]_vars
  PROVE  (\E r \in Requests : AnswerEffect(r)) \/ QuietEffect \/ CrashEffect
<1>0. /\ store \in [Backends -> [Keys -> CacheEntry \cup {Null}]]
      /\ "redis" \in Backends /\ "memory" \in Backends
  BY DEF TypeInv, TypeOK, RedisTypeOK, Backends
<1>1. req' = req /\ UNCHANGED <<isMockMode, store>> => QuietEffect
  BY DEF QuietEffect
<1>2. ASSUME NEW r \in Requests, Arrive(r) \/ ServeRequest(r) \/ DatabaseError(r)
      PROVE  AnswerEffect(r)
  BY <1>2, RequestAnswerEffect
<1>3. ASSUME NEW e \in Events, Webhook(e)
      PROVE  QuietEffect
  BY <1>1, <1>3 DEF Webhook, StoreEvent, PushEvent, AckDuplicate, Lpush, redisVars
<1>4. CASE Reconcile
  BY <1>1, <1>4 DEF Reconcile, WorkerStep, Pop, Brpop, LoadEvent, LookUp, DriveUp, DriveDone,
                    MarkProcessed, redisVars
<1>5. CASE GatewayActs
  BY <1>1, <1>5 DEF GatewayActs, redisVars
<1>6. CASE DatabaseFault
  BY <1>1, <1>2, <1>6 DEF DatabaseFault, WorkerError, redisVars
<1>7. CASE KeyExpires
  <2>1. PICK k \in Keys : Expire(k) /\ req' = req
    BY <1>7 DEF KeyExpires
  <2>2. /\ isMockMode' = isMockMode
        /\ store' = [store EXCEPT !["redis"] = [store["redis"] EXCEPT ![k] = Null]]
    BY <2>1 DEF Expire
  <2>3. /\ store'["memory"] = store["memory"]
        /\ store'["redis"] = [store["redis"] EXCEPT ![k] = Null]
        /\ store["redis"] \in [Keys -> CacheEntry \cup {Null}]
    BY <1>0, <2>2
  <2> QED
    BY <2>1, <2>2, <2>3 DEF QuietEffect
<1>8. CASE RedisFault
  BY <1>1, <1>8 DEF RedisFault, Failover, PushFails, redisVars, QuietEffect
<1>9. CASE CrashRestart
  <2>1. \A q \in Requests :
          \/ req'[q] = req[q]
          \/ /\ req[q].at # "done" /\ req'[q].at = "crashed"
             /\ req'[q].key = req[q].key /\ req'[q].answer = Null
    BY <1>9 DEF CrashRestart, RequestsCrash, Idle, Running
  <2>2. \A k \in Keys : store'["memory"][k] = Null /\ store'["redis"][k] = store["redis"][k]
    BY <1>0, <1>9 DEF CrashRestart, RedisRestart
  <2> QED
    BY <1>9, <2>1, <2>2 DEF CrashRestart, CrashEffect
<1>10. CASE UNCHANGED vars
  BY <1>1, <1>10 DEF vars, redisVars
<1> QED
  BY <1>2, <1>3, <1>4, <1>5, <1>6, <1>7, <1>8, <1>9, <1>10 DEF Next

(* A write under one key of the active backend.                            *)
LEMMA StoreWrite ==
  ASSUME TypeInv, NEW k \in Keys, NEW v, Writes(k, v)
  PROVE  /\ Active \in Backends
         /\ \A b \in Backends, j \in Keys :
              store'[b][j] = IF b = Active /\ j = k THEN v ELSE store[b][j]
<1>1. /\ store \in [Backends -> [Keys -> CacheEntry \cup {Null}]]
      /\ Active \in Backends
  BY DEF TypeInv, TypeOK, RedisTypeOK, Backends, Active
<1>2. store' = [store EXCEPT ![Active] = [store[Active] EXCEPT ![k] = v]]
  BY DEF Writes
<1>3. store[Active] \in [Keys -> CacheEntry \cup {Null}]
  BY <1>1
<1> HIDE DEF Active
<1> QED
  BY <1>1, <1>2, <1>3

-----------------------------------------------------------------------------
(* NO LEAKED LOCK.                                                         *)
LockInv == MapUnused /\ NoLeakedLock

(* No step leaves a lock behind: whoever took it removes or replaces it,   *)
(* and the Map is unused until Redis is lost.                              *)
LEMMA LockInvStep ==
  ASSUME TypeInv, LockInv, [Next]_vars
  PROVE  LockInv'
<1>0. Processing # Null /\ \A t : Completed(t) # Processing /\ isMockMode \in BOOLEAN
  BY CacheAssumption DEF CacheEntry, Processing, Completed, TypeInv, TypeOK, RedisTypeOK
<1>1. "memory" \in Backends /\ (Active = "memory" <=> isMockMode)
  BY <1>0 DEF Backends, Active
<1>2. /\ \A k \in Keys : store["memory"][k] # Null => isMockMode
      /\ \A k \in Keys : store["memory"][k] = Processing =>
           \E q \in Requests : req[q].key = k /\ req[q].at \in Holding
  BY DEF LockInv, MapUnused, NoLeakedLock, Holding
<1> DEFINE Good ==
      /\ \A k \in Keys : store'["memory"][k] # Null => isMockMode'
      /\ \A k \in Keys : store'["memory"][k] = Processing =>
           \E q \in Requests : req'[q].key = k /\ req'[q].at \in Holding
<1>3. ASSUME NEW r \in Requests, AnswerEffect(r)
      PROVE  Good
  <2>0. isMockMode' = isMockMode /\ \A q \in Requests : q # r => req'[q] = req[q]
    BY <1>3 DEF AnswerEffect
  <2>1. CASE KeepsStore(r)
    BY <1>2, <2>0, <2>1 DEF KeepsStore
  <2>2. CASE Locks(r)
    <3> DEFINE k == req'[r].key
    <3>1. /\ k \in Keys /\ req'[r].at \in Holding /\ req[r].at \notin Holding
          /\ Writes(k, Processing)
      BY <2>2 DEF Locks, Holding, InTry
    <3> HIDE DEF k
    <3>2. \A j \in Keys : store'["memory"][j] =
            IF isMockMode /\ j = k THEN Processing ELSE store["memory"][j]
      BY <1>1, <3>1, StoreWrite
    <3>3. \A j \in Keys : j # k /\ store'["memory"][j] = Processing =>
            \E q \in Requests : req'[q].key = j /\ req'[q].at \in Holding
      BY <1>2, <2>0, <3>1, <3>2
    <3>4. req'[r].key = k
      BY DEF k
    <3> QED
      BY <1>2, <2>0, <3>1, <3>2, <3>3, <3>4
  <2>3. CASE Unlocks(r)
    <3>1. PICK v \in {Null, Completed(req[r].txn)} :
            Writes(req[r].key, v)
      BY <2>3 DEF Unlocks
    <3>2. req[r].key \in Keys
      BY <2>3 DEF Unlocks, Holding, InTry, TypeInv, LocalsOK
    <3>3. \A j \in Keys : store'["memory"][j] =
            IF isMockMode /\ j = req[r].key THEN v ELSE store["memory"][j]
      BY <1>1, <3>1, <3>2, StoreWrite
    <3>4. v # Processing
      BY <1>0
    <3>5. ASSUME NEW j \in Keys, store'["memory"][j] = Processing
          PROVE  j # req[r].key /\ store["memory"][j] = Processing
      BY <1>0, <1>2, <3>3, <3>4, <3>5
    <3> QED
      BY <1>2, <2>0, <3>3, <3>5
  <2> HIDE DEF Good
  <2> QED
    BY <1>3, <2>1, <2>2, <2>3 DEF AnswerEffect
<1>4. ASSUME QuietEffect PROVE Good
  BY <1>2, <1>4 DEF QuietEffect
<1>5. ASSUME CrashEffect PROVE Good
  BY <1>0, <1>5 DEF CrashEffect
<1>6. Good
  BY <1>3, <1>4, <1>5, StepAnswerEffect
<1> QED
  BY <1>6 DEF LockInv, MapUnused, NoLeakedLock, Holding

(* NO LEAKED LOCK.  The Map, which knows no TTL, never holds a lock after  *)
(* the request that took it is gone, although Redis may be lost between    *)
(* the two and the value removed may be another request's.                 *)
THEOREM LocksAreReleased == Spec => []NoLeakedLock
<1>1. Init => LockInv
  BY CacheAssumption DEF Init, RedisInit, Backends, LockInv, MapUnused, NoLeakedLock, CacheEntry
<1>2. TypeInv /\ LockInv /\ [Next]_vars => LockInv'
  BY LockInvStep
<1>3. LockInv => NoLeakedLock
  BY DEF LockInv
<1> QED
  BY <1>1, <1>2, <1>3, PaymentTypes, PTL DEF Spec

-----------------------------------------------------------------------------
(* ANSWERS STAND.  What stands before a step stands after it.              *)
StandsNext(k, t) ==
  /\ txns'[k] # Null
  /\ t.currentState \in Settled =>
       txns'[k].currentState
         \in {t.currentState} \cup VALID_TRANSITIONS[t.currentState]

(* An outcome that stands for a payment goes on standing: the allow-list   *)
(* leads from a settled state only to RECONCILED.                          *)
LEMMA StandsStays ==
  ASSUME TypeInv, OwnInv, WebhookInv, [Next]_vars, NEW k \in Keys, NEW t, Stands(k, t)
  PROVE  StandsNext(k, t)
<1>1. CASE txns'[k] = txns[k]
  BY <1>1 DEF Stands, StandsNext
<1>2. ASSUME NEW to, NEW meta, to \in VALID_TRANSITIONS[txns[k].currentState],
             txns[k] # Null, txns'[k] # Null, txns'[k] = Applied(txns[k], to, meta)
      PROVE  StandsNext(k, t)
  <2>1. txns'[k].currentState = to
    BY <1>2 DEF Applied
  <2> SUFFICES ASSUME t.currentState \in Settled
               PROVE  to \in {t.currentState} \cup VALID_TRANSITIONS[t.currentState]
    BY <1>2, <2>1 DEF StandsNext
  <2>2. txns[k].currentState \in {t.currentState} \cup VALID_TRANSITIONS[t.currentState]
    BY DEF Stands
  <2>3. \A s \in Settled : /\ s \in TransactionState
                           /\ \A u \in VALID_TRANSITIONS[s] : VALID_TRANSITIONS[u] = {}
    BY DEF Settled, VALID_TRANSITIONS, TransactionState
  <2> QED
    BY <1>2, <2>2, <2>3
<1>3. txns[k] # Null
  BY DEF Stands
<1> QED
  BY <1>1, <1>2, <1>3, RowStep

(* What is told is settled as the row is, or was one step ago.             *)
AnswerInv == CopiesStand /\ AnswersStand

(* What was answered, cached or loaded for an answer goes on standing.     *)
LEMMA AnswerInvStep ==
  ASSUME TypeInv, OwnInv, WebhookInv, AnswerInv, [Next]_vars
  PROVE  AnswerInv'
<1>0. \A q \in Requests : /\ req[q].at # "idle" => req[q].key \in Keys
                          /\ req[q].at # "done" => req[q].answer = Null
  BY DEF TypeInv, LocalsOK
<1>1. \A k \in Keys : \A t : Stands(k, t) => StandsNext(k, t)
  BY StandsStays
<1>2. ASSUME NEW k \in Keys, txns'[k] # Null
      PROVE  StandsNext(k, txns'[k])
  BY <1>2 DEF StandsNext
<1>3. ASSUME NEW q \in Requests, req[q].at \in Carrying
      PROVE  req[q].key \in Keys /\ Stands(req[q].key, req[q].txn)
  BY <1>0, <1>3 DEF AnswerInv, CopiesStand, Carrying
<1>4. ASSUME NEW q \in Requests, req[q].answer # Null, req[q].answer.status = "ok"
      PROVE  req[q].key \in Keys /\ Stands(req[q].key, req[q].answer.transaction)
  BY <1>0, <1>4 DEF AnswerInv, AnswersStand
<1>5. ASSUME NEW b \in Backends, NEW k \in Keys, store[b][k] \notin {Null, Processing}
      PROVE  Stands(k, store[b][k].transaction)
  BY <1>5 DEF AnswerInv, AnswersStand
<1> DEFINE Copies1(q) == req'[q].at \in Carrying => StandsNext(req'[q].key, req'[q].txn)
           Answer1(q) == req'[q].answer # Null /\ req'[q].answer.status = "ok" =>
                           StandsNext(req'[q].key, req'[q].answer.transaction)
           Store1(b, k) == store'[b][k] \notin {Null, Processing} =>
                             StandsNext(k, store'[b][k].transaction)
           Good == /\ \A q \in Requests : Copies1(q) /\ Answer1(q)
                   /\ \A b \in Backends, k \in Keys : Store1(b, k)
<1>6. ASSUME NEW q \in Requests, req'[q] = req[q]
      PROVE  Copies1(q) /\ Answer1(q)
  BY <1>1, <1>3, <1>4, <1>6
<1>7. ASSUME NEW b \in Backends, NEW k \in Keys, store'[b][k] \in {store[b][k], Null}
      PROVE  Store1(b, k)
  BY <1>1, <1>5, <1>7
<1>8. ASSUME NEW r \in Requests, AnswerEffect(r)
      PROVE  Good
  <2>1. \A q \in Requests : q # r => req'[q] = req[q]
    BY <1>8 DEF AnswerEffect
  <2>2. Copies1(r)
    <3> SUFFICES ASSUME req'[r].at \in Carrying
                 PROVE  StandsNext(req'[r].key, req'[r].txn)
      OBVIOUS
    <3>1. /\ req'[r].key = req[r].key /\ req[r].key \in Keys
          /\ \/ req'[r].txn = txns'[req[r].key] /\ txns'[req[r].key] # Null
             \/ req[r].at \in Carrying /\ req'[r].txn = req[r].txn
      BY <1>8 DEF AnswerEffect, Carries
    <3> QED
      BY <1>1, <1>2, <1>3, <3>1
  <2>3. Answer1(r)
    <3> SUFFICES ASSUME req'[r].answer # Null, req'[r].answer.status = "ok"
                 PROVE  StandsNext(req'[r].key, req'[r].answer.transaction)
      OBVIOUS
    <3>1. /\ req'[r].key = req[r].key /\ req[r].key \in Keys
          /\ \/ req[r].at \in Carrying /\ req'[r].answer.transaction = req[r].txn
             \/ /\ Get(req[r].key) \notin {Null, Processing}
                /\ req'[r].answer.transaction = Get(req[r].key).transaction
      BY <1>8 DEF AnswerEffect, Tells
    <3>2. Active \in Backends
      BY DEF Active, Backends
    <3> QED
      BY <1>1, <1>3, <1>5, <3>1, <3>2 DEF Get
  <2>4. ASSUME NEW b \in Backends, NEW k \in Keys
        PROVE  Store1(b, k)
    <3>1. CASE KeepsStore(r)
      BY <1>7, <3>1 DEF KeepsStore
    <3>2. CASE Locks(r)
      <4>1. store'[b][k] \in {store[b][k], Processing}
        BY <3>2, StoreWrite DEF Locks
      <4> QED
        BY <1>7, <4>1
    <3>3. CASE Unlocks(r)
      <4>1. PICK v \in {Null, Completed(req[r].txn)} :
              Writes(req[r].key, v) /\ (v # Null => req[r].at \in Carrying)
        BY <3>3 DEF Unlocks
      <4>2. req[r].key \in Keys
        BY <1>0, <3>3 DEF Unlocks, Holding, InTry
      <4>3. store'[b][k] = store[b][k] \/ (store'[b][k] = v /\ k = req[r].key)
        BY <4>1, <4>2, StoreWrite
      <4>4. v = Null \/ (v.transaction = req[r].txn /\ req[r].at \in Carrying)
        BY <4>1 DEF Completed
      <4> QED
        BY <1>1, <1>3, <1>7, <4>3, <4>4
    <3> HIDE DEF Store1
    <3> QED
      BY <1>8, <3>1, <3>2, <3>3 DEF AnswerEffect
  <2> HIDE DEF Copies1, Answer1, Store1
  <2> QED
    BY <1>6, <2>1, <2>2, <2>3, <2>4
<1>9. ASSUME QuietEffect PROVE Good
  <2>1. \A b \in Backends, k \in Keys : store'[b][k] \in {store[b][k], Null}
    BY <1>9 DEF QuietEffect, Backends
  <2>2. \A q \in Requests : req'[q] = req[q]
    BY <1>9 DEF QuietEffect
  <2> HIDE DEF Copies1, Answer1, Store1
  <2> QED
    BY <1>6, <1>7, <2>1, <2>2
<1>10. ASSUME CrashEffect PROVE Good
  <2>1. \A b \in Backends, k \in Keys : store'[b][k] \in {store[b][k], Null}
    BY <1>10 DEF CrashEffect, Backends
  <2>2. ASSUME NEW q \in Requests, req'[q].at = "crashed", req'[q].answer = Null
        PROVE  Copies1(q) /\ Answer1(q)
    BY <2>2 DEF Carrying
  <2>3. \A q \in Requests : req'[q] = req[q] \/ (req'[q].at = "crashed" /\ req'[q].answer = Null)
    BY <1>10 DEF CrashEffect
  <2> HIDE DEF Copies1, Answer1, Store1
  <2> QED
    BY <1>6, <1>7, <2>1, <2>2, <2>3
<1>11. Good
  <2> HIDE DEF Good
  <2> QED
    BY <1>8, <1>9, <1>10, StepAnswerEffect
<1> QED
  BY <1>11 DEF AnswerInv, CopiesStand, AnswersStand, Stands, StandsNext, Carrying

(* Nothing has been answered yet.                                          *)
LEMMA AnswerInvInit == Init => AnswerInv
<1> SUFFICES ASSUME Init PROVE AnswerInv
  OBVIOUS
<1>1. \A r \in Requests : req[r].at = "idle" /\ req[r].answer = Null
  BY DEF Init, RequestInit, Idle
<1>2. \A b \in Backends, k \in Keys : store[b][k] = Null
  BY DEF Init, RedisInit
<1> QED
  BY <1>1, <1>2 DEF AnswerInv, CopiesStand, AnswersStand

(* ANSWERS INVARIANT.  Every answer given by create(), every outcome in    *)
(* the idempotency store and every row a request carries towards its       *)
(* answer stands in the database, in every reachable state.                *)
THEOREM AnswersInvariant == Spec => []AnswerInv
<1>1. TypeInv /\ OwnInv /\ WebhookInv /\ AnswerInv /\ [Next]_vars => AnswerInv'
  BY AnswerInvStep
<1> QED
  BY <1>1, AnswerInvInit, PaymentTypes, Ownership, WebhookOwnership, PTL DEF Spec

(* ANSWERS STAND.  An outcome that was returned to a client or cached is   *)
(* never contradicted by the row later, with stale caches, lost locks,     *)
(* lost Redis, crashes, and webhooks at any time.                          *)
THEOREM AnswersAreKept == Spec => []AnswersStand
<1>1. AnswerInv => AnswersStand
  BY DEF AnswerInv
<1> QED
  BY <1>1, AnswersInvariant, PTL

-----------------------------------------------------------------------------
(* IDEMPOTENT PAYMENTS.  The abstract state: what has become of a payment, *)
(* and what clients were told of it.                                       *)
ToldFor(k) ==
  {Outcome(req[r].answer.transaction) :
     r \in {q \in Requests : /\ req[q].key = k
                             /\ req[q].answer # Null
                             /\ req[q].answer.status = "ok"}}

(* What a merchant sees of a row, by its state.                            *)
LEMMA OutcomeOf ==
  /\ Outcome(Null) = "none"
  /\ \A t : t # Null =>
       /\ t.currentState = "SUCCESS" => Outcome(t) = "success"
       /\ t.currentState = "FAILED" => Outcome(t) = "failed"
       /\ t.currentState = "RECONCILED" => Outcome(t) = "reconciled"
       /\ t.currentState \notin Settled => Outcome(t) = "pending"
BY DEF Outcome, Settled

(* What stands is an outcome the payment has had.                          *)
LEMMA StandingOutcome ==
  ASSUME NEW k \in Keys, NEW t, t # Null, Stands(k, t)
  PROVE  /\ Outcome(t) \in Payments!Outcomes
         /\ Outcome(t) \in Payments!UpTo(Outcome(txns[k]))
<1>1. txns[k] # Null
  BY DEF Stands
<1>2. CASE t.currentState \notin Settled
  <2>1. Outcome(t) = "pending"
    BY <1>2, OutcomeOf
  <2>2. Outcome(txns[k]) \in {"pending", "success", "failed", "reconciled"}
    BY <1>1 DEF Outcome
  <2> QED
    BY <2>1, <2>2 DEF Payments!Outcomes, Payments!UpTo
<1>3. CASE t.currentState = "SUCCESS"
  <2>1. txns[k].currentState \in {"SUCCESS", "RECONCILED"}
    BY <1>3 DEF Stands, Settled, VALID_TRANSITIONS, TransactionState
  <2>2. Outcome(t) = "success" /\ Outcome(txns[k]) \in {"success", "reconciled"}
    BY <1>1, <1>3, <2>1, OutcomeOf
  <2> QED
    BY <2>2 DEF Payments!Outcomes, Payments!UpTo
<1>4. CASE t.currentState \in {"FAILED", "RECONCILED"}
  <2>1. txns[k].currentState = t.currentState
    BY <1>4 DEF Stands, Settled, VALID_TRANSITIONS, TransactionState
  <2>2. Outcome(t) \in {"failed", "reconciled"} /\ Outcome(txns[k]) = Outcome(t)
    BY <1>1, <1>4, <2>1, OutcomeOf
  <2> QED
    BY <2>2 DEF Payments!Outcomes, Payments!UpTo
<1> QED
  BY <1>2, <1>3, <1>4 DEF Settled

(* A step tells nothing, or one client one outcome and does nothing else.  *)
LEMMA ToldStep ==
  ASSUME TypeInv, AnswerInv, [Next]_vars
  PROVE  \/ \A k \in Keys : ToldFor(k)' = ToldFor(k)
         \/ /\ UNCHANGED <<ledgerVars, gatewayVars>>
            /\ \E k \in Keys, o \in Payments!Outcomes :
                 /\ o \in Payments!UpTo(Outcome(txns[k]))
                 /\ \A j \in Keys :
                      ToldFor(j)' = IF j = k THEN ToldFor(j) \cup {o} ELSE ToldFor(j)
<1> DEFINE Heard(q) == req[q].answer # Null /\ req[q].answer.status = "ok"
<1>0. \A q \in Requests : req[q].at # "done" => req[q].answer = Null
  BY DEF TypeInv, LocalsOK
<1>1. ASSUME \A q \in Requests :
               req'[q] = req[q] \/ (~Heard(q) /\ ~Heard(q)')
      PROVE  \A k \in Keys : ToldFor(k)' = ToldFor(k)
  BY <1>1 DEF ToldFor
<1>2. ASSUME NEW r \in Requests, AnswerEffect(r), Heard(r)'
      PROVE  /\ UNCHANGED <<ledgerVars, gatewayVars>>
             /\ \E k \in Keys, o \in Payments!Outcomes :
                  /\ o \in Payments!UpTo(Outcome(txns[k]))
                  /\ \A j \in Keys :
                       ToldFor(j)' = IF j = k THEN ToldFor(j) \cup {o} ELSE ToldFor(j)
  <2> DEFINE k == req[r].key
             t == req'[r].answer.transaction
  <2>1. /\ k \in Keys /\ req'[r].key = k /\ req[r].answer = Null
        /\ UNCHANGED <<ledgerVars, gatewayVars>>
        /\ \A q \in Requests : q # r => req'[q] = req[q]
        /\ \/ req[r].at \in Carrying /\ t = req[r].txn
           \/ /\ Get(k) \notin {Null, Processing}
              /\ t = Get(k).transaction
    BY <1>2 DEF AnswerEffect, Tells
  <2>2. Stands(k, t)
    <3>1. req[r].at \in Carrying => Stands(k, req[r].txn)
      BY DEF AnswerInv, CopiesStand, Carrying
    <3>2. Get(k) \notin {Null, Processing} => Stands(k, Get(k).transaction)
      <4>1. Active \in Backends
        BY DEF Active, Backends
      <4> QED
        BY <2>1, <4>1 DEF AnswerInv, AnswersStand, Get
    <3> QED
      BY <2>1, <3>1, <3>2
  <2>3. t # Null
    <3>1. req'[r].answer \in Answers
      BY <1>2, RequestsTyped DEF RequestTypeOK, Locals
    <3>2. \A a \in Answers : a.status = "ok" => a.transaction \in Transaction
      BY DEF Answers, Refused
    <3> QED
      BY <1>2, <3>1, <3>2, NullAssumption
  <2>4. /\ Outcome(t) \in Payments!Outcomes
        /\ Outcome(t) \in Payments!UpTo(Outcome(txns[k]))
    BY <2>1, <2>2, <2>3, StandingOutcome
  <2>5. ASSUME NEW j \in Keys
        PROVE  ToldFor(j)' = IF j = k THEN ToldFor(j) \cup {Outcome(t)} ELSE ToldFor(j)
    <3>1. ToldFor(j)' = {Outcome(req'[q].answer.transaction) :
                           q \in {p \in Requests : req'[p].key = j /\ Heard(p)'}}
      BY DEF ToldFor
    <3>2. ToldFor(j) = {Outcome(req[q].answer.transaction) :
                          q \in {p \in Requests : req[p].key = j /\ Heard(p)}}
      BY DEF ToldFor
    <3>3. ~Heard(r) /\ \A q \in Requests : q # r => (Heard(q)' <=> Heard(q))
      BY <2>1
    <3> HIDE DEF Heard
    <3> QED
      BY <1>2, <2>1, <3>1, <3>2, <3>3
  <2> HIDE DEF k, t
  <2> QED
    BY <2>1, <2>4, <2>5
<1>3. ASSUME NEW r \in Requests, AnswerEffect(r), ~Heard(r)'
      PROVE  \A k \in Keys : ToldFor(k)' = ToldFor(k)
  BY <1>1, <1>3 DEF AnswerEffect, Tells
<1>4. CASE QuietEffect
  BY <1>1, <1>4 DEF QuietEffect
<1>5. CASE CrashEffect
  BY <1>0, <1>1, <1>5 DEF CrashEffect
<1> QED
  BY <1>2, <1>3, <1>4, <1>5, StepAnswerEffect

(* Only a request calls gateways, and it does nothing else in that step.   *)
LEMMA ChargeStep ==
  ASSUME TypeInv, OwnInv, [Next]_vars
  PROVE  \/ calls' = calls
         \/ /\ UNCHANGED ledgerVars
            /\ \E k \in Keys, g \in Gateways :
                 /\ txns[k] # Null
                 /\ calls[<<k, g>>] = 0
                 /\ calls' = [calls EXCEPT ![<<k, g>>] = 1]
<1>1. ASSUME NEW r \in Requests, Calls(r)
      PROVE  /\ UNCHANGED ledgerVars
             /\ \E k \in Keys, g \in Gateways :
                  /\ txns[k] # Null
                  /\ calls[<<k, g>>] = 0
                  /\ calls' = [calls EXCEPT ![<<k, g>>] = 1]
  <2>1. PICK d \in GatewayTxnIds :
          /\ d = <<req[r].key, req[r].gateway>>
          /\ req[r].key \in Keys /\ req[r].gateway \in Gateways
          /\ calls' = [calls EXCEPT ![d] = calls[d] + 1]
    BY <1>1, CallsTyped
  <2>2. calls[d] = 0 /\ txns[req[r].key] # Null
    BY <1>1, <2>1 DEF OwnInv, OneOwner, FailoverOrder, FallbacksUncalled, Calls, Moves,
                      PastInsert, Untried
  <2>3. calls' = [calls EXCEPT ![d] = 1]
    BY <2>1, <2>2
  <2> QED
    BY <1>1, <2>1, <2>2, <2>3 DEF Calls
<1> QED
  BY <1>1, GatewayEffect DEF gatewayVars, GatewayStep, Decide, Reverse

(* The outcomes of the payments move as the merchant's view allows.        *)
LEMMA OutcomeStep ==
  ASSUME TypeInv, OwnInv, WebhookInv, [Next]_vars
  PROVE  \/ \A k \in Keys : Outcome(txns[k])' = Outcome(txns[k])
         \/ \E k \in Keys :
              /\ \A j \in Keys : j # k => Outcome(txns[j])' = Outcome(txns[j])
              /\ \/ Outcome(txns[k]) = "none" /\ Outcome(txns[k])' = "pending"
                 \/ /\ Outcome(txns[k]) = "pending"
                    /\ Outcome(txns[k])' \in {"success", "failed"}
                    /\ \E g \in Gateways : calls[<<k, g>>] > 0
                 \/ Outcome(txns[k]) = "success" /\ Outcome(txns[k])' = "reconciled"
<1>0. LedgerTypeOK
  BY DEF TypeInv, TypeOK
<1>1. CASE UNCHANGED <<txns, audit>>
  BY <1>1
<1>2. ASSUME NEW k \in Keys, NEW g \in Gateways, Insert(k, g)
      PROVE  /\ \A j \in Keys : j # k => Outcome(txns[j])' = Outcome(txns[j])
             /\ Outcome(txns[k]) = "none" /\ Outcome(txns[k])' = "pending"
  <2>1. txns[k] = Null /\ txns'[k] = NewTransaction(g) /\ \A j \in Keys : j # k => txns'[j] = txns[j]
    BY <1>0, <1>2 DEF Insert, LedgerTypeOK
  <2>2. txns'[k] # Null /\ txns'[k].currentState = "INITIATED"
    BY <2>1, NewTyped, NullAssumption DEF NewTransaction
  <2>3. Outcome(txns'[k]) = "pending" /\ Outcome(txns[k]) = "none"
    BY <2>1, <2>2, OutcomeOf DEF Settled
  <2> QED
    BY <2>1, <2>3
<1>3. ASSUME NEW k \in Keys, NEW to, NEW meta, EvidentTransition(k, to, meta)
      PROVE  /\ \A j \in Keys : j # k => Outcome(txns[j])' = Outcome(txns[j])
             /\ \/ Outcome(txns[k])' = Outcome(txns[k])
                \/ /\ Outcome(txns[k]) = "pending"
                   /\ Outcome(txns[k])' \in {"success", "failed"}
                   /\ \E g \in Gateways : calls[<<k, g>>] > 0
                \/ Outcome(txns[k]) = "success" /\ Outcome(txns[k])' = "reconciled"
  <2>1. to \in TransactionState /\ meta \in Metadata /\ Transition(k, to, meta)
    BY <1>3 DEF EvidentTransition, CountedTransition
  <2>2. /\ \A j \in Keys : j # k => txns'[j] = txns[j]
        /\ txns[k] \in Transaction /\ txns[k] # Null /\ txns'[k] # Null
        /\ txns'[k].currentState = to
        /\ to \in VALID_TRANSITIONS[txns[k].currentState]
    BY <1>0, <2>1, TransitionKeepsRows, NullAssumption DEF Transition, CanTransition
  <2>3. to \in {"SUCCESS", "FAILED"} => \E g \in Gateways : calls[<<k, g>>] > 0
    BY <1>3 DEF EvidentTransition
  <2>4. /\ to = "RECONCILED" => txns[k].currentState = "SUCCESS"
        /\ to # "RECONCILED" => txns[k].currentState \notin Settled
    BY <2>2 DEF VALID_TRANSITIONS, TransactionState, Settled, Transaction
  <2>5. \A j \in Keys : j # k => Outcome(txns[j])' = Outcome(txns[j])
    BY <2>2
  <2>6. /\ to = "RECONCILED" => Outcome(txns[k]) = "success" /\ Outcome(txns'[k]) = "reconciled"
        /\ to # "RECONCILED" => Outcome(txns[k]) = "pending"
        /\ to = "SUCCESS" => Outcome(txns'[k]) = "success"
        /\ to = "FAILED" => Outcome(txns'[k]) = "failed"
        /\ to \notin Settled => Outcome(txns'[k]) = "pending"
    BY <2>2, <2>4, OutcomeOf
  <2> QED
    BY <2>3, <2>5, <2>6 DEF Settled
<1>4. ASSUME NEW k \in Keys,
             \A j \in Keys : j # k => Outcome(txns[j])' = Outcome(txns[j]),
             Outcome(txns[k])' = Outcome(txns[k])
      PROVE  \A j \in Keys : Outcome(txns[j])' = Outcome(txns[j])
  BY <1>4
<1> QED
  BY <1>1, <1>2, <1>3, <1>4, StepEvidence

(* Every step of the system is a step of the abstract specification.       *)
LEMMA PaymentsStep ==
  TypeInv /\ OwnInv /\ WebhookInv /\ AnswerInv /\ [Next]_vars
    => [Payments!Next]_(Payments!vars)
<1> SUFFICES ASSUME TypeInv, OwnInv, WebhookInv, AnswerInv, [Next]_vars
             PROVE  [Payments!Next]_(Payments!vars)
  OBVIOUS
<1> DEFINE outcome == [k \in Keys |-> Outcome(txns[k])]
           told == [k \in Keys |-> ToldFor(k)]
<1>1. ASSUME UNCHANGED <<ledgerVars, gatewayVars>>, NEW k \in Keys, NEW o \in Payments!Outcomes,
             o \in Payments!UpTo(Outcome(txns[k])),
             \A j \in Keys : ToldFor(j)' = IF j = k THEN ToldFor(j) \cup {o} ELSE ToldFor(j)
      PROVE  Payments!Next
  <2>1. outcome' = outcome /\ calls' = calls
    BY <1>1 DEF ledgerVars, gatewayVars
  <2>2. told' = [told EXCEPT ![k] = told[k] \cup {o}]
    BY <1>1
  <2>3. o \in Payments!UpTo(outcome[k])
    BY <1>1
  <2>4. Payments!Tell(k, o)
    BY <2>1, <2>2, <2>3 DEF Payments!Tell, ToldFor
  <2> QED
    BY <2>4 DEF Payments!Next
<1>2. ASSUME UNCHANGED ledgerVars, told' = told, NEW k \in Keys, NEW g \in Gateways,
             txns[k] # Null, calls[<<k, g>>] = 0, calls' = [calls EXCEPT ![<<k, g>>] = 1]
      PROVE  Payments!Next
  <2>1. outcome' = outcome
    BY <1>2 DEF ledgerVars
  <2>2. outcome[k] # "none"
    BY <1>2 DEF Outcome
  <2>3. Payments!Charge(k, g)
    BY <1>2, <2>1, <2>2 DEF Payments!Charge, ToldFor
  <2> QED
    BY <2>3 DEF Payments!Next
<1>3. ASSUME told' = told, calls' = calls, NEW k \in Keys,
             \A j \in Keys : j # k => Outcome(txns[j])' = Outcome(txns[j])
      PROVE  /\ outcome' = [outcome EXCEPT ![k] = Outcome(txns[k])']
             /\ Outcome(txns[k]) = "none" /\ Outcome(txns[k])' = "pending" => Payments!Next
             /\ /\ Outcome(txns[k]) = "pending"
                /\ Outcome(txns[k])' \in {"success", "failed"}
                /\ \E g \in Gateways : calls[<<k, g>>] > 0
                => Payments!Next
             /\ Outcome(txns[k]) = "success" /\ Outcome(txns[k])' = "reconciled" => Payments!Next
  <2>1. outcome' = [outcome EXCEPT ![k] = Outcome(txns[k])']
    BY <1>3
  <2>2. outcome[k] = Outcome(txns[k])
    OBVIOUS
  <2>3. ASSUME Outcome(txns[k]) = "none", Outcome(txns[k])' = "pending"
        PROVE  Payments!Next
    <3>1. Payments!Create(k)
      BY <1>3, <2>1, <2>2, <2>3 DEF Payments!Create, ToldFor
    <3> QED
      BY <3>1 DEF Payments!Next
  <2>4. ASSUME Outcome(txns[k]) = "pending", Outcome(txns[k])' \in {"success", "failed"},
               \E g \in Gateways : calls[<<k, g>>] > 0
        PROVE  Payments!Next
    <3>1. PICK o \in {"success", "failed"} : Outcome(txns[k])' = o
      BY <2>4
    <3>2. Payments!Settle(k, o)
      BY <1>3, <2>1, <2>2, <2>4, <3>1 DEF Payments!Settle, ToldFor
    <3> QED
      BY <3>2 DEF Payments!Next
  <2>5. ASSUME Outcome(txns[k]) = "success", Outcome(txns[k])' = "reconciled"
        PROVE  Payments!Next
    <3>1. Payments!Reconcile(k)
      BY <1>3, <2>1, <2>2, <2>5 DEF Payments!Reconcile, ToldFor
    <3> QED
      BY <3>1 DEF Payments!Next
  <2> QED
    BY <2>1, <2>3, <2>4, <2>5
<1>4. ASSUME told' = told, calls' = calls,
             \A k \in Keys : Outcome(txns[k])' = Outcome(txns[k])
      PROVE  UNCHANGED Payments!vars
  <2>1. outcome' = outcome
    BY <1>4
  <2> QED
    BY <1>4, <2>1 DEF Payments!vars, ToldFor
<1>5. (\A k \in Keys : ToldFor(k)' = ToldFor(k)) => told' = told
  OBVIOUS
<1>6. CASE told' # told
  BY <1>1, <1>5, <1>6, ToldStep
<1>7. CASE told' = told /\ calls' # calls
  BY <1>2, <1>7, ChargeStep
<1>8. CASE told' = told /\ calls' = calls
  BY <1>3, <1>4, <1>8, OutcomeStep
<1> QED
  BY <1>6, <1>7, <1>8

(* IDEMPOTENT PAYMENTS.  For any number of keys, gateways, requests and    *)
(* webhooks, and under every fault, the running system implements what a   *)
(* merchant relies on: created once, charged at most once per gateway,     *)
(* settled once and only after a charge, told nothing that was not so.     *)
THEOREM PaymentsAreIdempotent == Spec => PaymentsSpec
<1>1. Init => Payments!Init
  <2> SUFFICES ASSUME Init PROVE Payments!Init
    OBVIOUS
  <2>1. [k \in Keys |-> Outcome(txns[k])] = [k \in Keys |-> "none"]
    BY OutcomeOf DEF Init, LedgerInit
  <2>2. calls = [c \in Keys \X Gateways |-> 0]
    BY DEF Init, GatewayInit, GatewayTxnIds
  <2>3. \A r \in Requests : req[r].answer = Null
    BY DEF Init, RequestInit, Idle
  <2>4. [k \in Keys |-> ToldFor(k)] = [k \in Keys |-> {}]
    BY <2>3 DEF ToldFor
  <2> QED
    BY <2>1, <2>2, <2>4 DEF Payments!Init, ToldFor
<1> QED
  BY <1>1, PaymentsStep, PaymentTypes, Ownership, WebhookOwnership, AnswersInvariant, PTL
     DEF Spec, PaymentsSpec, Payments!Spec
=============================================================================
