------------------------- MODULE TransactionsService -------------------------
(***************************************************************************)
(* TransactionsService.create(): the synchronous payment path.  A request  *)
(* takes the idempotency lock, creates the transaction, and runs the       *)
(* failover loop over the ranked gateways.  Each action is the code from   *)
(* one await to the next, so requests, the reconciliation worker, the      *)
(* gateways and failures interleave at every await.                        *)
(*                                                                         *)
(* A request is used once; a client's retry is another request with the    *)
(* same idempotency key.                                                   *)
(***************************************************************************)
EXTENDS RedisService, FiniteSets

CONSTANT Requests   \* POST /payments requests

VARIABLE req        \* the local variables of create(), for every request

Idle ==
  [at |-> "idle", key |-> Null, gateway |-> Null, fallbacks |-> << >>,
   txn |-> Null, answer |-> Null]

(* The awaits inside the try block, where an exception runs the catch      *)
(* block, and the one before it, where it does not.                        *)
InTry ==
  {"checkdb", "rank", "insert", "logcreation", "route", "process", "charge",
   "await", "succeed", "recordsuccess", "recordfailure", "failover", "cache"}
Places ==
  InTry \cup {"idle", "readcache", "findexisting", "recache", "cleanup",
              "done", "crashed"}

Ok(txn) == [status |-> "ok", transaction |-> txn]
Refused(why) == [status |-> why, transaction |-> Null]
Answers ==
  [status : {"ok"}, transaction : Transaction]
    \cup {Refused(why) : why \in {"conflict", "error"}}

(* GatewayProvider is an enumeration.                                      *)
ASSUME RequestsAssumption ==
  /\ IsFiniteSet(Gateways)
  /\ Null \notin Answers

(* What getRankedGateways may return: any gateways, each at most once.     *)
Rankings ==
  {s \in UNION {[1..n -> Gateways] : n \in 0..Cardinality(Gateways)} :
     \A i, j \in DOMAIN s : s[i] = s[j] => i = j}

Meta(g, id, inc) == [gateway |-> g, gatewayTxnId |-> id, incrementAttempt |-> inc]

-----------------------------------------------------------------------------
RequestInit == req = [r \in Requests |-> Idle]

Goto(r, place) == req' = [req EXCEPT ![r].at = place]

Answer(r, a) ==
  req' = [req EXCEPT ![r] = [Idle EXCEPT !.at = "done", !.key = req[r].key,
                                         !.answer = a]]

(* SET idempotency:<key> processing NX EX 10.                              *)
AcquireLock(r, k) ==
  /\ req[r].at = "idle"
  /\ IF Get(k) = Null
     THEN /\ SetKey(k, Processing)
          /\ req' = [req EXCEPT ![r].key = k, ![r].at = "checkdb"]
     ELSE /\ req' = [req EXCEPT ![r].key = k, ![r].at = "readcache"]
          /\ UNCHANGED redisVars
  /\ UNCHANGED <<ledgerVars, gatewayVars>>

(* The lock is taken: 409, the cached answer, or (the key has gone         *)
(* meanwhile) the database.                                                *)
ReadCache(r) ==
  LET cached == Get(req[r].key) IN
  /\ req[r].at = "readcache"
  /\ \/ cached = Null /\ Goto(r, "findexisting")
     \/ cached = Processing /\ Answer(r, Refused("conflict"))
     \/ /\ cached \notin {Null, Processing}
        /\ Answer(r, Ok(cached.transaction))
  /\ UNCHANGED <<ledgerVars, redisVars, gatewayVars>>

FindExisting(r) ==
  LET existing == txns[req[r].key] IN
  /\ req[r].at = "findexisting"
  /\ \/ existing = Null /\ Answer(r, Refused("conflict"))
     \/ /\ existing # Null
        /\ req' = [req EXCEPT ![r].txn = existing, ![r].at = "recache"]
  /\ UNCHANGED <<ledgerVars, redisVars, gatewayVars>>

(* "Double check database", with the lock held.                            *)
CheckDatabase(r) ==
  LET existing == txns[req[r].key] IN
  /\ req[r].at = "checkdb"
  /\ \/ existing = Null /\ Goto(r, "rank")
     \/ /\ existing # Null
        /\ req' = [req EXCEPT ![r].txn = existing, ![r].at = "recache"]
  /\ UNCHANGED <<ledgerVars, redisVars, gatewayVars>>

(* Cache the transaction that exists already, and return it.               *)
CacheExisting(r) ==
  /\ req[r].at = "recache"
  /\ SetKey(req[r].key, Completed(req[r].txn))
  /\ Answer(r, Ok(req[r].txn))
  /\ UNCHANGED <<ledgerVars, gatewayVars>>

(* getRankedGateways(); without gateways, 503 through the catch block.     *)
RankGateways(r) ==
  /\ req[r].at = "rank"
  /\ \E list \in Rankings :
       IF list = << >>
       THEN Goto(r, "cleanup")
       ELSE req' = [req EXCEPT ![r].gateway = Head(list),
                               ![r].fallbacks = Tail(list),
                               ![r].at = "insert"]
  /\ UNCHANGED <<ledgerVars, redisVars, gatewayVars>>

(* Mutant: no unique index, a second row takes the place of the first.     *)
InsertOrReplace(r) ==
  /\ req[r].at = "insert"
  /\ txns' = [txns EXCEPT ![req[r].key] = NewTransaction(req[r].gateway)]
  /\ Goto(r, "logcreation")
  /\ UNCHANGED <<creationLogged, audit, redisVars, gatewayVars>>

(* Mutant: the creation is not logged before the loop starts.              *)
InsertThenRoute(r) ==
  LET k == req[r].key IN
  /\ req[r].at = "insert"
  /\ \/ Insert(k, req[r].gateway) /\ Goto(r, "route")
     \/ txns[k] # Null /\ Goto(r, "cleanup") /\ UNCHANGED ledgerVars
  /\ UNCHANGED <<redisVars, gatewayVars>>

(* txnRepo.save(); the unique index refuses a second row for the key.      *)
InsertTransaction(r) ==
  LET k == req[r].key IN
  /\ req[r].at = "insert"
  /\ \/ Insert(k, req[r].gateway) /\ Goto(r, "logcreation")
     \/ txns[k] # Null /\ Goto(r, "cleanup") /\ UNCHANGED ledgerVars
  /\ UNCHANGED <<redisVars, gatewayVars>>

(* The audit row "transaction created".                                    *)
LogTransactionCreated(r) ==
  /\ req[r].at = "logcreation"
  /\ LogCreation(req[r].key)
  /\ Goto(r, "route")
  /\ UNCHANGED <<redisVars, gatewayVars>>

(* await stateMachine.transition(...): on to `next` with the updated row,  *)
(* or to the catch block when the state machine rejects the transition.    *)
MakeTransition(r, to, meta, next) ==
  LET k == req[r].key IN
  /\ \/ /\ Transition(k, to, meta)
        /\ req' = [req EXCEPT ![r] = [next EXCEPT !.txn =
                     IF to \in {"SUCCESS", "FAILED"} THEN txns'[k] ELSE Null]]
     \/ ~CanTransition(k, to) /\ Goto(r, "cleanup") /\ UNCHANGED ledgerVars
  /\ UNCHANGED <<redisVars, gatewayVars>>

(* Mutant: the gateway is called before PROCESSING is committed.           *)
RouteThenCall(r) ==
  /\ req[r].at = "route"
  /\ MakeTransition(r, "ROUTED", Meta(req[r].gateway, Null, FALSE),
                    [req[r] EXCEPT !.at = "charge"])

Route(r) ==
  /\ req[r].at = "route"
  /\ MakeTransition(r, "ROUTED", Meta(req[r].gateway, Null, FALSE),
                    [req[r] EXCEPT !.at = "process"])

Process(r) ==
  /\ req[r].at = "process"
  /\ MakeTransition(r, "PROCESSING", Meta(req[r].gateway, Null, TRUE),
                    [req[r] EXCEPT !.at = "charge"])

(* adapter.charge() is called and Promise.race starts.                     *)
CallGateway(r) ==
  /\ req[r].at = "charge"
  /\ Charge(<<req[r].key, req[r].gateway>>)
  /\ Goto(r, "await")
  /\ UNCHANGED <<ledgerVars, redisVars>>

(* Mutant: a call that timed out counts as a success.                      *)
EndRaceOptimistic(r) ==
  /\ req[r].at = "await"
  /\ Goto(r, "succeed")
  /\ UNCHANGED <<ledgerVars, redisVars, gatewayVars>>

(* Mutant: no timer, the call waits for the gateway.                       *)
EndRaceNoTimeout(r) ==
  LET c == <<req[r].key, req[r].gateway>> IN
  /\ req[r].at = "await"
  /\ \/ WasAccepted(c) /\ Goto(r, "succeed")
     \/ charges[c] = "declined" /\ Goto(r, "recordfailure")
  /\ UNCHANGED <<ledgerVars, redisVars, gatewayVars>>

(* The race ends: with the gateway's yes; or with its no, a network error  *)
(* or the 1.5 s timer, whatever the gateway has decided or will decide.    *)
EndRace(r) ==
  /\ req[r].at = "await"
  /\ \/ WasAccepted(<<req[r].key, req[r].gateway>>) /\ Goto(r, "succeed")
     \/ Goto(r, "recordfailure")
  /\ UNCHANGED <<ledgerVars, redisVars, gatewayVars>>

Succeed(r) ==
  /\ req[r].at = "succeed"
  /\ MakeTransition(r, "SUCCESS",
                    Meta(req[r].gateway, <<req[r].key, req[r].gateway>>, FALSE),
                    [req[r] EXCEPT !.at = "recordsuccess"])

(* recordSuccess() / recordFailure() of the routing engine; the statistics *)
(* they update are modelled in RoutingEngine.                              *)
RecordSuccess(r) ==
  /\ req[r].at = "recordsuccess"
  /\ Goto(r, "cache")
  /\ UNCHANGED <<ledgerVars, redisVars, gatewayVars>>

RecordFailure(r) ==
  /\ req[r].at = "recordfailure"
  /\ Goto(r, "failover")
  /\ UNCHANGED <<ledgerVars, redisVars, gatewayVars>>

(* Mutant: the last failure is reported even if the state machine rejects  *)
(* the transition to FAILED.                                               *)
FailOverUnchecked(r) ==
  LET k == req[r].key
      meta == Meta(req[r].gateway, Null, FALSE)
  IN
  /\ req[r].at = "failover"
  /\ IF req[r].fallbacks # << >>
     THEN MakeTransition(r, "RETRY_PENDING", meta,
            [req[r] EXCEPT !.at = "route", !.gateway = Head(req[r].fallbacks),
                           !.fallbacks = Tail(@)])
     ELSE /\ \/ Transition(k, "FAILED", meta)
             \/ ~CanTransition(k, "FAILED") /\ UNCHANGED ledgerVars
          /\ req' = [req EXCEPT ![r].at = "cache",
                                ![r].txn = Applied(txns[k], "FAILED", meta)]
          /\ UNCHANGED <<redisVars, gatewayVars>>

(* Mutant: the loop ends after RETRY_PENDING.                              *)
FailOverStops(r) ==
  LET meta == Meta(req[r].gateway, Null, FALSE) IN
  /\ req[r].at = "failover"
  /\ IF req[r].fallbacks # << >>
     THEN MakeTransition(r, "RETRY_PENDING", meta, [req[r] EXCEPT !.at = "cleanup"])
     ELSE MakeTransition(r, "FAILED", meta, [req[r] EXCEPT !.at = "cache"])

(* Mutant: the last fallback is not tried (fallbackList.length > 1).       *)
FailOverEarly(r) ==
  LET meta == Meta(req[r].gateway, Null, FALSE) IN
  /\ req[r].at = "failover"
  /\ IF Len(req[r].fallbacks) > 1
     THEN MakeTransition(r, "RETRY_PENDING", meta,
            [req[r] EXCEPT !.at = "route", !.gateway = Head(req[r].fallbacks),
                           !.fallbacks = Tail(@)])
     ELSE MakeTransition(r, "FAILED", meta, [req[r] EXCEPT !.at = "cache"])

(* The attempt failed: on to the next gateway, or give up.                 *)
FailOver(r) ==
  LET meta == Meta(req[r].gateway, Null, FALSE) IN
  /\ req[r].at = "failover"
  /\ IF req[r].fallbacks # << >>
     THEN MakeTransition(r, "RETRY_PENDING", meta,
            [req[r] EXCEPT !.at = "route", !.gateway = Head(req[r].fallbacks),
                           !.fallbacks = Tail(@)])
     ELSE MakeTransition(r, "FAILED", meta, [req[r] EXCEPT !.at = "cache"])

(* Cache the outcome for 24 hours and return it.                           *)
CacheOutcome(r) ==
  /\ req[r].at = "cache"
  /\ SetKey(req[r].key, Completed(req[r].txn))
  /\ Answer(r, Ok(req[r].txn))
  /\ UNCHANGED <<ledgerVars, gatewayVars>>

(* Mutant: the exception is rethrown and the lock left to its TTL.         *)
RethrowOnly(r) ==
  /\ req[r].at = "cleanup"
  /\ Answer(r, Refused("error"))
  /\ UNCHANGED <<ledgerVars, redisVars, gatewayVars>>

(* The catch block: DEL the key, whoever's it is by now, and rethrow.      *)
CleanUp(r) ==
  /\ req[r].at = "cleanup"
  /\ Del(req[r].key)
  /\ Answer(r, Refused("error"))
  /\ UNCHANGED <<ledgerVars, gatewayVars>>

RequestStep(r) ==
  \/ ReadCache(r) \/ FindExisting(r) \/ CheckDatabase(r) \/ CacheExisting(r)
  \/ RankGateways(r) \/ InsertTransaction(r) \/ LogTransactionCreated(r)
  \/ Route(r) \/ Process(r) \/ CallGateway(r) \/ EndRace(r) \/ Succeed(r)
  \/ RecordSuccess(r) \/ RecordFailure(r) \/ FailOver(r) \/ CacheOutcome(r)
  \/ CleanUp(r)

(* A database statement fails, or its reply is lost after it took effect   *)
(* (the request is then already at the next place).                        *)
DatabaseError(r) ==
  /\ \/ req[r].at \in InTry \ {"await"} /\ Goto(r, "cleanup")
     \/ req[r].at = "findexisting" /\ Answer(r, Refused("error"))
  /\ UNCHANGED <<ledgerVars, redisVars, gatewayVars>>

Running(r) == req[r].at \notin {"idle", "done", "crashed"}

(* The process dies; the clients see their connections drop.               *)
RequestsCrash ==
  req' = [r \in Requests |->
            IF Running(r) THEN [Idle EXCEPT !.at = "crashed", !.key = req[r].key]
                          ELSE req[r]]

(* The local variables of one create().                                    *)
Locals ==
  [at : Places, key : Keys \cup {Null}, gateway : Gateways \cup {Null},
   fallbacks : Seq(Gateways), txn : Transaction \cup {Null},
   answer : Answers \cup {Null}]

RequestTypeOK == req \in [Requests -> Locals]
=============================================================================
