---------------------------- MODULE RedisService ----------------------------
(***************************************************************************)
(* RedisService: the idempotency keys and the reconciliation queue, kept   *)
(* in Redis or, once isMockMode is set, in a Map of the process.  The two  *)
(* stores share nothing: going over to the Map forgets every lock, cached  *)
(* answer and queued event, and isMockMode stays set until a restart.      *)
(*                                                                         *)
(* get/set/del try Redis and, on an exception, set isMockMode and repeat   *)
(* the operation on the Map: here Failover followed by the operation.      *)
(***************************************************************************)
EXTENDS GatewayNetwork

VARIABLES
  isMockMode,
  store,   \* store[b][k]: the value of idempotency:<k> in backend b
  queue    \* queue[b]: payment_orchestrator:reconciliation_queue, oldest first

redisVars == <<isMockMode, store, queue>>

Backends == {"redis", "memory"}

(* The two JSON values create() stores under an idempotency key.           *)
Processing == [status |-> "processing", transaction |-> Null]
Completed(txn) == [status |-> "completed", transaction |-> txn]

CacheEntry ==
  {Processing} \cup [status : {"completed"}, transaction : Transaction]

ASSUME CacheAssumption == Null \notin CacheEntry

Active == IF isMockMode THEN "memory" ELSE "redis"

-----------------------------------------------------------------------------
RedisInit ==
  /\ isMockMode = FALSE
  /\ store = [b \in Backends |-> [k \in Keys |-> Null]]
  /\ queue = [b \in Backends |-> << >>]

Get(k) == store[Active][k]

SetKey(k, v) ==
  /\ store' = [store EXCEPT ![Active][k] = v]
  /\ UNCHANGED <<isMockMode, queue>>

Del(k) == SetKey(k, Null)

(* LPUSH.  The Map holds one item per key: a push overwrites the last.     *)
Lpush(e) ==
  /\ queue' = [queue EXCEPT ![Active] =
                 IF isMockMode THEN <<e>> ELSE Append(@, e)]
  /\ UNCHANGED <<isMockMode, store>>

(* BRPOP takes the oldest item.                                            *)
Brpop(e) ==
  /\ queue[Active] # << >>
  /\ e = Head(queue[Active])
  /\ queue' = [queue EXCEPT ![Active] = Tail(@)]
  /\ UNCHANGED <<isMockMode, store>>

(* The connection fails: on('error'), retryStrategy or a failed command.   *)
Failover ==
  /\ ~isMockMode
  /\ isMockMode' = TRUE
  /\ UNCHANGED <<store, queue>>

(* EX: Redis drops a key after its TTL (10 s for a lock, 24 h for an       *)
(* answer).  The Map ignores the TTL.                                      *)
Expire(k) ==
  /\ store["redis"][k] # Null
  /\ store' = [store EXCEPT !["redis"][k] = Null]
  /\ UNCHANGED <<isMockMode, queue>>

(* A new process: Redis is tried again, and the Map starts empty.          *)
RedisRestart ==
  /\ isMockMode' = FALSE
  /\ store' = [store EXCEPT !["memory"] = [k \in Keys |-> Null]]
  /\ queue' = [queue EXCEPT !["memory"] = << >>]

RedisTypeOK ==
  /\ isMockMode \in BOOLEAN
  /\ store \in [Backends -> [Keys -> CacheEntry \cup {Null}]]
  /\ queue \in [Backends -> Seq(Events)]
=============================================================================
