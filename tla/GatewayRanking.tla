--------------------------- MODULE GatewayRanking ---------------------------
(***************************************************************************)
(* RoutingEngineService as the arithmetic behind its ranking: the totals   *)
(* and the average latency in gateway_stats, and the score that            *)
(* getRankedGateways computes from them.  Each operation is one step;      *)
(* RoutingEngine has the interleavings inside them.                        *)
(*                                                                         *)
(* The code computes scores in doubles.  Here a share is a whole number of *)
(* parts of 1, Unit of them, fine enough to tell any two totals, costs and *)
(* latencies of a behaviour apart; weights and multipliers are in tenths.  *)
(***************************************************************************)
EXTENDS PaymentDefs, Integers, FiniteSets, SequencesExt

CONSTANTS
  Gateways,     \* the configured gateways
  CostBps,      \* cost_bps of each, a column no code writes
  Latencies,    \* latencies that calls to gateways may have, in ms
  MaxOutcomes,  \* bound on the recorded outcomes of a behaviour
  Unit          \* the share 1

ASSUME RankingAssumption ==
  /\ IsFiniteSet(Gateways) /\ Gateways # {}
  /\ CostBps \in [Gateways -> Nat]
  /\ Latencies \subseteq Nat /\ MaxOutcomes \in Nat

(* Shares are fine enough: of totals up to MaxOutcomes, and of latencies.  *)
ASSUME UnitAssumption ==
  /\ Unit \in Nat /\ 800 <= Unit
  /\ 7 * MaxOutcomes * MaxOutcomes <= Unit
  /\ \A l \in Latencies : l * l <= 50 * Unit

VARIABLES
  stats,     \* gateway_stats
  cooldown,  \* gateways whose key circuit:open:<gateway> exists
  last,      \* HISTORY: the last ranking and what it was computed from
  seen,      \* HISTORY: seen[g], the latencies counted in g's average
  recorded   \* HISTORY: the number of outcomes recorded so far

vars == <<stats, cooldown, last, seen, recorded>>

Stats ==
  [successCount : Nat, failureCount : Nat, avgLatencyMs : Nat,
   circuitState : CircuitState, consecutiveFailures : Nat]

NoRanking == [ranked |-> << >>]

Init ==
  /\ stats = [g \in Gateways |->
                [successCount |-> 0, failureCount |-> 0, avgLatencyMs |-> 0,
                 circuitState |-> "CLOSED", consecutiveFailures |-> 0]]
  /\ cooldown = {}
  /\ last = NoRanking
  /\ seen = [g \in Gateways |-> {}]
  /\ recorded = 0

Total(row) == row.successCount + row.failureCount

-----------------------------------------------------------------------------
Share(a, b) == (a * Unit) \div b

Larger(a, b) == IF a > b THEN a ELSE b

SuccessRate(row) ==
  IF Total(row) = 0 THEN Unit ELSE Share(row.successCount, Total(row))

(* Mutant: the cost of a dear gateway counts below 0, without Math.max.    *)
CostScoreUnbounded(g) == Share(300 - CostBps[g], 300)

(* A cost above 300 bps scores like 300.                                   *)
CostScore(g) == Share(Larger(0, 300 - CostBps[g]), 300)

(* An average of 0 means that there is none: 200 ms.  Below 50 ms all      *)
(* latencies score the same.                                               *)
EffectiveLatency(row) ==
  Larger(IF row.avgLatencyMs = 0 THEN 200 ELSE row.avgLatencyMs, 50)

LatencyScore(row) == Share(50, EffectiveLatency(row))

HealthMultiplier(row) == IF row.circuitState = "HALF_OPEN" THEN 3 ELSE 10

(* Mutant: the weights of the two branches exchanged.                      *)
WeightsSwapped(isHigh) ==
  IF isHigh THEN [success |-> 3, cost |-> 5, latency |-> 2]
            ELSE [success |-> 7, cost |-> 1, latency |-> 2]

(* By whether the amount is above 5000.                                    *)
Weights(isHigh) ==
  IF isHigh THEN [success |-> 7, cost |-> 1, latency |-> 2]
            ELSE [success |-> 3, cost |-> 5, latency |-> 2]

(* Mutant: the latency itself instead of its inverse.                      *)
ScoreByLatency(g, row, isHigh) ==
  LET w == Weights(isHigh) IN
  HealthMultiplier(row) *
    (w.success * SuccessRate(row) + w.cost * CostScore(g)
       + w.latency * Share(EffectiveLatency(row), 2000))

Score(g, row, isHigh) ==
  LET w == Weights(isHigh) IN
  HealthMultiplier(row) *
    (w.success * SuccessRate(row) + w.cost * CostScore(g)
       + w.latency * LatencyScore(row))

(* The score of a candidate; that of an OPEN one marks it for the filter.  *)
CandidateScore(g, row, isHigh) ==
  IF row.circuitState = "OPEN" THEN -1 ELSE Score(g, row, isHigh)

-----------------------------------------------------------------------------
(* Math.round(avg * 0.9 + latency * 0.1).  On a half the doubles decide.   *)
Rounded(tenths) ==
  {n \in {tenths \div 10, tenths \div 10 + 1} :
     10 * n - tenths \in -5..5}

(* Mutant: the first latency is averaged with the 0 of the new row.        *)
AverageFromZero(avg, latency) == Rounded(9 * avg + latency)

(* The possible averages after one more latency.                           *)
Average(avg, latency) ==
  IF avg = 0 THEN {latency} ELSE Rounded(9 * avg + latency)

CountOutcome == recorded < MaxOutcomes /\ recorded' = recorded + 1

RecordSuccess(g, latency) ==
  /\ CountOutcome
  /\ \E avg \in Average(stats[g].avgLatencyMs, latency) :
       stats' = [stats EXCEPT ![g] =
         [stats[g] EXCEPT !.successCount = @ + 1, !.consecutiveFailures = 0,
                          !.avgLatencyMs = avg, !.circuitState = "CLOSED"]]
  /\ cooldown' = IF stats[g].circuitState = "CLOSED" THEN cooldown
                                                    ELSE cooldown \ {g}
  /\ seen' = [seen EXCEPT ![g] = @ \cup {latency}]
  /\ last' = NoRanking

(* Mutant: a circuit state that is not in the enum.                        *)
RecordFailureMisspelt(g, latency) ==
  /\ CountOutcome
  /\ stats' = [stats EXCEPT ![g].failureCount = @ + 1,
                            ![g].circuitState = "TRIPPED"]
  /\ UNCHANGED <<cooldown, seen, last>>

(* A latency of 0 is not averaged; the third failure in a row trips.       *)
RecordFailure(g, latency) ==
  LET row == stats[g]
      trips == row.consecutiveFailures + 1 >= 3 /\ row.circuitState # "OPEN"
  IN
  /\ CountOutcome
  /\ \E avg \in IF latency > 0 THEN Average(row.avgLatencyMs, latency)
                               ELSE {row.avgLatencyMs} :
       stats' = [stats EXCEPT ![g] =
         [row EXCEPT !.failureCount = @ + 1, !.consecutiveFailures = @ + 1,
                     !.avgLatencyMs = avg,
                     !.circuitState = IF trips THEN "OPEN" ELSE @]]
  /\ cooldown' = IF trips THEN cooldown \cup {g} ELSE cooldown
  /\ seen' = [seen EXCEPT ![g] = IF latency > 0 THEN @ \cup {latency} ELSE @]
  /\ last' = NoRanking

CooldownExpires(g) ==
  /\ g \in cooldown
  /\ cooldown' = cooldown \ {g}
  /\ last' = NoRanking
  /\ UNCHANGED <<stats, seen, recorded>>

(* The rows after the OPEN ones without a cooldown key were readmitted.    *)
Readmitted ==
  [g \in Gateways |->
     IF stats[g].circuitState = "OPEN" /\ g \notin cooldown
     THEN [stats[g] EXCEPT !.circuitState = "HALF_OPEN", !.consecutiveFailures = 0]
     ELSE stats[g]]

(* The orders of a set in which no gateway comes after a lower key; ties   *)
(* fall as the rows came from the database.                                *)
SortedBy(S, key) ==
  {s \in SetToSeqs(S) :
     \A i, j \in DOMAIN s : i < j => key[s[i]] <= key[s[j]]}

(* candidatesWithScores.filter(c => c.score >= 0).                         *)
Filtered(rows, isHigh) ==
  {g \in Gateways : CandidateScore(g, rows[g], isHigh) >= 0}

(* getRankedGateways(): descending by score, or all of them by cost if the *)
(* filter leaves none.                                                     *)
GetRankedGateways(isHigh) ==
  LET rows == Readmitted
      filtered == Filtered(rows, isHigh)
      descending == [g \in Gateways |-> -CandidateScore(g, rows[g], isHigh)]
  IN
  /\ stats' = rows
  /\ \E ranked \in IF filtered # {} THEN SortedBy(filtered, descending)
                                    ELSE SortedBy(Gateways, CostBps) :
       last' = [ranked |-> ranked, isHigh |-> isHigh, rows |-> rows,
                excluded |-> {g \in cooldown : stats[g].circuitState = "OPEN"}]
  /\ UNCHANGED <<cooldown, seen, recorded>>

-----------------------------------------------------------------------------
Next ==
  \/ \E g \in Gateways, latency \in Latencies :
       RecordSuccess(g, latency) \/ RecordFailure(g, latency)
  \/ \E g \in Gateways : CooldownExpires(g)
  \/ \E isHigh \in BOOLEAN : GetRankedGateways(isHigh)

Spec == Init /\ [][Next]_vars

-----------------------------------------------------------------------------
TypeOK ==
  /\ stats \in [Gateways -> Stats]
  /\ cooldown \subseteq Gateways
  /\ last = NoRanking \/ last.rows \in [Gateways -> Stats]
  /\ seen \in [Gateways -> SUBSET Latencies]
  /\ recorded \in Nat

(* Position of a gateway in the last ranking.                              *)
Before(g, h) ==
  \E i, j \in DOMAIN last.ranked :
    i < j /\ last.ranked[i] = g /\ last.ranked[j] = h

HasRanking == last # NoRanking

(* NOBODY IS FORGOTTEN.  A ranking has every gateway exactly once except   *)
(* those that are OPEN and in their cooldown, and has even these when no   *)
(* other is left.  The filter knows gateways by the sign of their scores   *)
(* alone, so this says that no cost, latency or record of a usable gateway *)
(* makes its score negative, and that the fallback by cost is taken        *)
(* exactly when all circuits are OPEN (getRankedGateways).                 *)
RankingIsComplete ==
  HasRanking =>
    /\ IsInjective(last.ranked)
    /\ Range(last.ranked) =
         IF last.excluded = Gateways THEN Gateways ELSE Gateways \ last.excluded

(* The success rate of a is at least that of b, by cross-multiplication;   *)
(* a gateway without outcomes has rate 1.                                  *)
AsReliable(a, b) ==
  \/ Total(a) = 0
  \/ /\ Total(b) > 0
     /\ a.successCount * Total(b) >= b.successCount * Total(a)
  \/ Total(b) = 0 /\ a.failureCount = 0

(* Costs above 300 bps count as 300 ("Assume maximum cost is 300 bps",     *)
(* routing-engine.service.ts:76).                                          *)
CountedCost(g) == IF CostBps[g] > 300 THEN 300 ELSE CostBps[g]

AsGood(g, h) ==
  LET a == last.rows[g]
      b == last.rows[h]
  IN /\ AsReliable(a, b)
     /\ CountedCost(g) <= CountedCost(h)
     /\ EffectiveLatency(a) <= EffectiveLatency(b)
     /\ b.circuitState = "CLOSED" => a.circuitState = "CLOSED"

(* NO DOMINATED CHOICE.  Among usable gateways one that is as reliable, as *)
(* cheap, as fast and as healthy as another, and better in one of these,   *)
(* is ranked first, for either kind of amount: the four parts of the score *)
(* pull in the right direction and keep their sign through the boundaries  *)
(* (no outcome yet, no latency yet, below 50 ms, above 300 bps).           *)
DominatedComesLater ==
  HasRanking /\ last.excluded # Gateways =>
    \A g, h \in Range(last.ranked) :
      AsGood(g, h) /\ ~AsGood(h, g) => Before(g, h)

(* HIGH VALUE GOES TO THE RELIABLE ("High value: prioritize                *)
(* reliability/success", routing-engine.service.ts:94).  Above 5000, a     *)
(* CLOSED gateway whose success rate is higher by more than 3/7, the       *)
(* weight of cost and latency together against that of success, is ranked  *)
(* before the other whatever the costs and the latencies are.              *)
HighValueGoesToReliable ==
  HasRanking /\ last.excluded # Gateways =>
    \A g, h \in Range(last.ranked) :
      LET a == last.rows[g]
          b == last.rows[h]
      IN /\ last.isHigh /\ a.circuitState = "CLOSED"
         /\ Total(a) > 0 /\ Total(b) > 0
         /\ 7 * (a.successCount * Total(b) - b.successCount * Total(a))
              > 3 * Total(a) * Total(b)
         => Before(g, h)

(* THE AVERAGE IS AN AVERAGE.  avg_latency_ms lies between the least and   *)
(* the greatest latency that went into it, and is 0, which the ranking     *)
(* takes for "no data", only if no latency above 0 was ever recorded:      *)
(* neither the first outcome nor the rounding of later ones moves it out   *)
(* (recordSuccess, recordFailure).                                         *)
AverageIsObserved ==
  \A g \in Gateways :
    LET avg == stats[g].avgLatencyMs IN
    IF avg = 0 THEN seen[g] \subseteq {0}
    ELSE \E lo, hi \in seen[g] : lo <= avg /\ avg <= hi
=============================================================================
