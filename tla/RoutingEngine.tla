---------------------------- MODULE RoutingEngine ----------------------------
(***************************************************************************)
(* RoutingEngineService: the circuit breaker of every gateway, kept in the *)
(* row of gateway_stats and in the key circuit:open:<gateway> (the         *)
(* cooldown).  getRankedGateways, recordSuccess and recordFailure read the *)
(* row, change the object and save it some awaits later, without a lock,   *)
(* so overlapping payments interleave inside them; save() writes the whole *)
(* object back.                                                            *)
(*                                                                         *)
(* A payment uses the engine as create() does: rank, then attempt the      *)
(* ranked gateways one after the other, recording every outcome.  Scores   *)
(* are the subject of GatewayRanking; here a payment may try its gateways  *)
(* in any order.                                                           *)
(*                                                                         *)
(* The cooldown keys go through RedisService: to Redis, which drops them   *)
(* after 30 seconds, or, once the connection was lost, to the Map, which   *)
(* keeps them.                                                             *)
(***************************************************************************)
EXTENDS PaymentDefs, FiniteSets

CONSTANTS
  Gateways,   \* the configured gateways
  Payments,   \* payments that may be under way at the same time
  RedisMayFail  \* whether the connection to Redis may be lost

ASSUME RoutingAssumption ==
  IsFiniteSet(Gateways) /\ RedisMayFail \in BOOLEAN

VARIABLES
  stats,     \* gateway_stats: a row for every gateway
  isMockMode, \* RedisService has gone over to the Map
  cooldown,  \* cooldown[b]: gateways whose key circuit:open:<gateway> is in b
  pay,       \* the local variables of every payment
  streak,    \* HISTORY: failures since the last success or HALF_OPEN
  mixed      \* HISTORY: gateways whose row was read between another
             \* payment's read and save of it

vars == <<stats, isMockMode, cooldown, pay, streak, mixed>>
redisVars == <<isMockMode, cooldown>>

Backends == {"redis", "memory"}
Active == IF isMockMode THEN "memory" ELSE "redis"

Threshold == 3

(* Of consecutive_failures only `>= 3` is ever tested, so the counter is   *)
(* kept up to the threshold.                                               *)
Stats == [circuitState : CircuitState, consecutiveFailures : 0..Threshold]

Bump(n) == IF n < Threshold THEN n + 1 ELSE n

Resting == [at |-> "idle", rows |-> << >>, todo |-> << >>, left |-> {},
            gateway |-> "none", row |-> << >>]

Init ==
  /\ stats = [g \in Gateways |->
                [circuitState |-> "CLOSED", consecutiveFailures |-> 0]]
  /\ isMockMode = FALSE
  /\ cooldown = [b \in Backends |-> {}]
  /\ pay = [p \in Payments |-> Resting]
  /\ streak = [g \in Gateways |-> 0]
  /\ mixed = {}

(* Payment p is between reading the row of g and saving it.                *)
Holds(p, g) ==
  \/ /\ pay[p].gateway = g
     /\ pay[p].at \in {"delkey", "savesuccess", "setkey", "savefailure"}
  \/ pay[p].at = "rank" /\ pay[p].todo[g] # "done"

(* p reads rows that it may save: those others hold get mixed up.          *)
NoteReads(p, gs) ==
  mixed' = mixed \cup {g \in gs : \E q \in Payments \ {p} : Holds(q, g)}

-----------------------------------------------------------------------------
(* getRankedGateways: statsRepo.find().                                    *)
FindStats(p) ==
  /\ pay[p].at = "idle"
  /\ pay' = [pay EXCEPT ![p] = [Resting EXCEPT
               !.at = "rank", !.rows = stats,
               !.todo = [g \in Gateways |->
                  IF stats[g].circuitState = "OPEN" THEN "get" ELSE "done"]]]
  /\ NoteReads(p, {g \in Gateways : stats[g].circuitState = "OPEN"})
  /\ UNCHANGED <<stats, redisVars, streak>>

(* Mutant: a value that is not in circuit_state_enum.                      *)
CheckCooldownMisspelt(p, g) ==
  /\ pay[p].at = "rank"
  /\ pay[p].todo[g] = "get"
  /\ IF g \in cooldown[Active]
     THEN pay' = [pay EXCEPT ![p].todo[g] = "done"]
     ELSE pay' = [pay EXCEPT ![p].todo[g] = "save",
                    ![p].rows[g] = [circuitState |-> "HALF-OPEN",
                                    consecutiveFailures |-> 0]]
  /\ UNCHANGED <<stats, redisVars, streak, mixed>>

(* For an OPEN row of the snapshot: is the cooldown key still there?       *)
CheckCooldown(p, g) ==
  /\ pay[p].at = "rank"
  /\ pay[p].todo[g] = "get"
  /\ IF g \in cooldown[Active]
     THEN pay' = [pay EXCEPT ![p].todo[g] = "done"]
     ELSE pay' = [pay EXCEPT ![p].todo[g] = "save",
                    ![p].rows[g] = [circuitState |-> "HALF_OPEN",
                                    consecutiveFailures |-> 0]]
  /\ UNCHANGED <<stats, redisVars, streak, mixed>>

(* Mutant: the save is forgotten; only the local copy is HALF_OPEN.        *)
SaveForgotten(p, g) ==
  /\ pay[p].at = "rank"
  /\ pay[p].todo[g] = "save"
  /\ pay' = [pay EXCEPT ![p].todo[g] = "done"]
  /\ UNCHANGED <<stats, redisVars, streak, mixed>>

(* statsRepo.save() of the row moved to HALF_OPEN.                         *)
SaveHalfOpen(p, g) ==
  /\ pay[p].at = "rank"
  /\ pay[p].todo[g] = "save"
  /\ stats' = [stats EXCEPT ![g] = pay[p].rows[g]]
  /\ streak' = [streak EXCEPT ![g] = 0]
  /\ pay' = [pay EXCEPT ![p].todo[g] = "done"]
  /\ UNCHANGED <<redisVars, mixed>>

(* Promise.all is done: the gateways that are not OPEN, or all of them.    *)
(* (The code filters by score; FilterIsByHealth of RankingProofs shows     *)
(* that these are left.)                                                   *)
Usable(rows) == {g \in Gateways : rows[g].circuitState # "OPEN"}

ReturnRanking(p) ==
  LET usable == Usable(pay[p].rows) IN
  /\ pay[p].at = "rank"
  /\ \A g \in Gateways : pay[p].todo[g] = "done"
  /\ pay' = [pay EXCEPT ![p].at = "next", ![p].todo = << >>,
               ![p].left = IF usable = {} THEN Gateways ELSE usable]
  /\ UNCHANGED <<stats, redisVars, streak, mixed>>

(* create(): call the next gateway ...                                     *)
Attempt(p, g) ==
  /\ pay[p].at = "next"
  /\ g \in pay[p].left
  /\ pay' = [pay EXCEPT ![p].at = "charging", ![p].gateway = g,
                        ![p].left = @ \ {g}]
  /\ UNCHANGED <<stats, redisVars, streak, mixed>>

(* ... or give up, after the last one.                                     *)
GiveUp(p) ==
  /\ pay[p].at = "next"
  /\ pay[p].left = {}
  /\ pay' = [pay EXCEPT ![p] = Resting]
  /\ UNCHANGED <<stats, redisVars, streak, mixed>>

-----------------------------------------------------------------------------
(* recordSuccess: findOne(), then the assignments; an unclosed circuit is  *)
(* closed and its key deleted before the save.                             *)
LoadForSuccess(p) ==
  LET g == pay[p].gateway IN
  /\ pay[p].at = "charging"
  /\ pay' = [pay EXCEPT
       ![p].at = IF stats[g].circuitState = "CLOSED" THEN "savesuccess"
                                                     ELSE "delkey",
       ![p].row = [circuitState |-> "CLOSED", consecutiveFailures |-> 0]]
  /\ streak' = [streak EXCEPT ![g] = 0]
  /\ NoteReads(p, {g})
  /\ UNCHANGED <<stats, redisVars>>

DeleteKey(p) ==
  /\ pay[p].at = "delkey"
  /\ cooldown' = [cooldown EXCEPT ![Active] = @ \ {pay[p].gateway}]
  /\ pay' = [pay EXCEPT ![p].at = "savesuccess"]
  /\ UNCHANGED <<stats, isMockMode, streak, mixed>>

SaveSuccess(p) ==
  /\ pay[p].at = "savesuccess"
  /\ stats' = [stats EXCEPT ![pay[p].gateway] = pay[p].row]
  /\ pay' = [pay EXCEPT ![p] = Resting]
  /\ UNCHANGED <<redisVars, streak, mixed>>

(* Mutant: off by one, the second failure trips.                           *)
TripsEarly(row) ==
  row.consecutiveFailures >= Threshold - 1 /\ row.circuitState # "OPEN"

(* After the increment: is it time to trip?                                *)
Trips(row) ==
  row.consecutiveFailures >= Threshold /\ row.circuitState # "OPEN"

(* recordFailure: findOne(), the increment, and the decision to trip.      *)
LoadForFailure(p) ==
  LET g == pay[p].gateway
      row == [stats[g] EXCEPT !.consecutiveFailures = Bump(@)]
  IN
  /\ pay[p].at = "charging"
  /\ pay' = [pay EXCEPT
       ![p].at = IF Trips(row) THEN "setkey" ELSE "savefailure",
       ![p].row = IF Trips(row) THEN [row EXCEPT !.circuitState = "OPEN"]
                                ELSE row]
  /\ streak' = [streak EXCEPT ![g] = Bump(@)]
  /\ NoteReads(p, {g})
  /\ UNCHANGED <<stats, redisVars>>

(* SET circuit:open:<gateway> EX 30.                                       *)
SetKey(p) ==
  /\ pay[p].at = "setkey"
  /\ cooldown' = [cooldown EXCEPT ![Active] = @ \cup {pay[p].gateway}]
  /\ pay' = [pay EXCEPT ![p].at = "savefailure"]
  /\ UNCHANGED <<stats, isMockMode, streak, mixed>>

SaveFailure(p) ==
  /\ pay[p].at = "savefailure"
  /\ stats' = [stats EXCEPT ![pay[p].gateway] = pay[p].row]
  /\ pay' = [pay EXCEPT ![p].at = "next", ![p].gateway = "none", ![p].row = << >>]
  /\ UNCHANGED <<redisVars, streak, mixed>>

(* Redis drops the key after 30 seconds.                                   *)
CooldownExpires(g) ==
  /\ g \in cooldown["redis"]
  /\ cooldown' = [cooldown EXCEPT !["redis"] = @ \ {g}]
  /\ UNCHANGED <<stats, isMockMode, pay, streak, mixed>>

(* The connection to Redis is lost for good.                               *)
Failover ==
  /\ RedisMayFail
  /\ ~isMockMode
  /\ isMockMode' = TRUE
  /\ UNCHANGED <<stats, cooldown, pay, streak, mixed>>

-----------------------------------------------------------------------------
RankStep(p) ==
  \/ FindStats(p)
  \/ \E g \in Gateways : CheckCooldown(p, g) \/ SaveHalfOpen(p, g)
  \/ ReturnRanking(p)

RecordStep(p) ==
  \/ LoadForSuccess(p) \/ DeleteKey(p) \/ SaveSuccess(p)
  \/ LoadForFailure(p) \/ SetKey(p) \/ SaveFailure(p)

PaymentStep(p) ==
  \/ RankStep(p)
  \/ \E g \in Gateways : Attempt(p, g)
  \/ GiveUp(p)
  \/ RecordStep(p)

Next ==
  \/ \E p \in Payments : PaymentStep(p)
  \/ \E g \in Gateways : CooldownExpires(g)
  \/ Failover

Spec == Init /\ [][Next]_vars

(* Payments keep coming and are served; a TTL runs out.                    *)
Fairness ==
  /\ \A p \in Payments : WF_vars(PaymentStep(p))
  /\ \A g \in Gateways : WF_vars(CooldownExpires(g))

FairSpec == Spec /\ Fairness

-----------------------------------------------------------------------------
(* The local variables of a payment in the engine.                         *)
Locals ==
  [at      : {"idle", "rank", "next", "charging", "delkey", "savesuccess",
              "setkey", "savefailure"},
   rows    : [Gateways -> Stats] \cup {<< >>},
   todo    : [Gateways -> {"get", "save", "done"}] \cup {<< >>},
   left    : SUBSET Gateways,
   gateway : Gateways \cup {"none"},
   row     : Stats \cup {<< >>}]

TypeOK ==
  /\ stats \in [Gateways -> Stats]
  /\ isMockMode \in BOOLEAN
  /\ cooldown \in [Backends -> SUBSET Gateways]
  /\ streak \in [Gateways -> 0..Threshold]
  /\ mixed \subseteq Gateways
  /\ pay \in [Payments -> Locals]

(* Nobody has read the row of g without having saved it yet.               *)
Quiet(g) == \A p \in Payments : ~Holds(p, g)

OpenMeansThree(g) ==
  Quiet(g) => (stats[g].circuitState = "OPEN" <=> streak[g] >= Threshold)

(* TRIPS AFTER THREE.  However calls to the gateways overlap, whether      *)
(* Redis is lost or not: as long as no two payments are inside             *)
(* recordSuccess, recordFailure or the readmission for the same gateway at *)
(* the same time, a gateway is OPEN exactly if its last three outcomes,    *)
(* counted from its readmission, are failures.                             *)
TripsAfterThree == \A g \in Gateways \ mixed : OpenMeansThree(g)

(* RECOVERY.  While Redis is there a tripped gateway does not stay OPEN,   *)
(* however payments interleave in its row: its cooldown ends, and the next *)
(* ranking readmits it (getRankedGateways).                                *)
OpenRecovers ==
  []~isMockMode =>
    \A g \in Gateways :
      stats[g].circuitState = "OPEN" ~> stats[g].circuitState # "OPEN"

-----------------------------------------------------------------------------
(* What README.md says, and the code does not do.                          *)

(* "Automatically trips a gateway's state to OPEN after 3 consecutive      *)
(* failures" (README.md:11), also when payments overlap.                   *)
TripsAlways == \A g \in Gateways : OpenMeansThree(g)

(* "routes traffic away for a 30-second cooldown, probes [...] and         *)
(* self-heals" (README.md:11), also on the "resilient local memory         *)
(* fallback" (README.md:9).                                                *)
AlwaysRecovers ==
  \A g \in Gateways :
    stats[g].circuitState = "OPEN" ~> stats[g].circuitState # "OPEN"
=============================================================================
