---------------------------- MODULE RankingProofs ----------------------------
(***************************************************************************)
(* The ranking and the averages behind it, for any gateways, costs and     *)
(* latencies and with any number of outcomes.                              *)
(***************************************************************************)
EXTENDS GatewayRanking, FiniteSetTheorems, TLAPS

(* Readmission changes the circuit alone, and leaves OPEN those in their   *)
(* cooldown.                                                               *)
LEMMA ReadmittedRows ==
  ASSUME TypeOK
  PROVE  /\ Readmitted \in [Gateways -> Stats]
         /\ \A g \in Gateways :
              /\ Readmitted[g].avgLatencyMs = stats[g].avgLatencyMs
              /\ Readmitted[g].circuitState = "OPEN"
                   <=> stats[g].circuitState = "OPEN" /\ g \in cooldown
<1> DEFINE Half(g) == [stats[g] EXCEPT !.circuitState = "HALF_OPEN",
                                       !.consecutiveFailures = 0]
<1>1. ASSUME NEW g \in Gateways
      PROVE  /\ stats[g] \in Stats /\ Half(g) \in Stats
             /\ Half(g).avgLatencyMs = stats[g].avgLatencyMs
             /\ Half(g).circuitState = "HALF_OPEN"
  <2>1. stats[g] \in Stats
    BY DEF TypeOK
  <2> QED
    BY <2>1 DEF Stats, CircuitState
<1>2. Readmitted = [g \in Gateways |->
        IF stats[g].circuitState = "OPEN" /\ g \notin cooldown
        THEN Half(g) ELSE stats[g]]
  BY DEF Readmitted
<1> HIDE DEF Half
<1> QED
  BY <1>1, <1>2

(* A sorted order of a finite set has each of its elements once.           *)
LEMMA SortedHasAll ==
  ASSUME NEW S, IsFiniteSet(S), NEW key, NEW s \in SortedBy(S, key)
  PROVE  IsInjective(s) /\ Range(s) = S
<1> DEFINE n == Cardinality(S)
<1>1. n \in Nat
  BY FS_CardinalityType
<1>2. s \in [1..n -> S] /\ \A i, j \in 1..n : i # j => s[i] # s[j]
  BY DEF SortedBy, SetToSeqs
<1> HIDE DEF n
<1>3. IsInjective(s)
  BY <1>2 DEF IsInjective
<1>4. s \in Injection(1..n, S)
  BY <1>2, <1>3 DEF Injection
<1>5. Cardinality(1..n) = n
  BY <1>1, FS_Interval
<1>6. s \in Surjection(1..n, S)
  BY <1>4, <1>5, FS_Injection DEF n
<1>7. \A x \in S : \E i \in 1..n : s[i] = x
  BY <1>6 DEF Surjection
<1>8. Range(s) = S
  BY <1>2, <1>7 DEF Range
<1> QED
  BY <1>3, <1>8

(* The moving average lies between the old average and the new latency,    *)
(* and does not fall to 0 from above.                                      *)
LEMMA AverageBetween ==
  ASSUME NEW avg \in Nat, NEW latency \in Nat, NEW n \in Average(avg, latency)
  PROVE  /\ n \in Nat
         /\ avg = 0 => n = latency
         /\ avg # 0 => /\ n # 0
                       /\ avg <= n \/ latency <= n
                       /\ n <= avg \/ n <= latency
<1>1. CASE avg = 0
  BY <1>1 DEF Average
<1>2. CASE avg # 0
  <2> DEFINE t == 9 * avg + latency
             q == t \div 10
  <2>1. t \in Nat /\ q \in Nat
    OBVIOUS
  <2>2. n \in {q, q + 1} /\ 10 * n - t \in -5..5
    BY <1>2 DEF Average, Rounded
  <2> HIDE DEF q
  <2>3. n \in Nat /\ 10 * n >= t - 5 /\ 10 * n <= t + 5
    BY <2>1, <2>2
  <2> QED
    BY <1>2, <2>3
<1> QED
  BY <1>1, <1>2

-----------------------------------------------------------------------------
(* The types hold at the start.                                            *)
LEMMA TypeInit == Init => TypeOK
BY DEF Init, TypeOK, Stats, CircuitState

(* What recording an outcome does to the row of g.                         *)
LEMMA RecordWrites ==
  ASSUME TypeOK, NEW g \in Gateways, NEW latency \in Latencies,
         RecordSuccess(g, latency) \/ RecordFailure(g, latency)
  PROVE  \E r \in Stats :
           /\ stats' = [stats EXCEPT ![g] = r]
           /\ \/ /\ r.avgLatencyMs \in Average(stats[g].avgLatencyMs, latency)
                 /\ seen' = [seen EXCEPT ![g] = @ \cup {latency}]
              \/ /\ r.avgLatencyMs = stats[g].avgLatencyMs
                 /\ seen' = seen
<1>0. stats[g] \in Stats /\ latency \in Nat /\ seen \in [Gateways -> SUBSET Latencies]
  BY RankingAssumption DEF TypeOK
<1>1. \A avg \in Average(stats[g].avgLatencyMs, latency) : avg \in Nat
  BY <1>0, AverageBetween DEF Stats
<1>2. CASE RecordSuccess(g, latency)
  <2> DEFINE m == stats[g].successCount + 1
             Row(avg) == [stats[g] EXCEPT !.successCount = m,
                            !.consecutiveFailures = 0, !.avgLatencyMs = avg,
                            !.circuitState = "CLOSED"]
  <2>1. PICK avg \in Average(stats[g].avgLatencyMs, latency) :
          stats' = [stats EXCEPT ![g] = Row(avg)]
    BY <1>0, <1>2 DEF RecordSuccess, TypeOK
  <2>2. avg \in Nat /\ m \in Nat /\ "CLOSED" \in CircuitState
    BY <1>0, <1>1 DEF Stats, CircuitState
  <2> HIDE DEF m
  <2>3. Row(avg) \in Stats /\ Row(avg).avgLatencyMs = avg
    BY <1>0, <2>2 DEF Stats
  <2>4. seen' = [seen EXCEPT ![g] = @ \cup {latency}]
    BY <1>2 DEF RecordSuccess
  <2> HIDE DEF Row
  <2> QED
    BY <2>1, <2>3, <2>4
<1>3. CASE RecordFailure(g, latency)
  <2> DEFINE state == IF /\ stats[g].consecutiveFailures + 1 >= 3
                         /\ stats[g].circuitState # "OPEN"
                      THEN "OPEN" ELSE stats[g].circuitState
             m == stats[g].failureCount + 1
             n == stats[g].consecutiveFailures + 1
             Row(avg) == [stats[g] EXCEPT !.failureCount = m,
                            !.consecutiveFailures = n,
                            !.avgLatencyMs = avg, !.circuitState = state]
  <2>1. PICK avg \in IF latency > 0
                     THEN Average(stats[g].avgLatencyMs, latency)
                     ELSE {stats[g].avgLatencyMs} :
          stats' = [stats EXCEPT ![g] = Row(avg)]
    BY <1>0, <1>3 DEF RecordFailure
  <2>2. avg \in Nat /\ state \in CircuitState /\ m \in Nat /\ n \in Nat
    BY <1>0, <1>1, <2>1 DEF Stats, CircuitState
  <2> HIDE DEF state, m, n
  <2>3. Row(avg) \in Stats /\ Row(avg).avgLatencyMs = avg
    BY <1>0, <2>2 DEF Stats
  <2>4. seen' = IF latency > 0 THEN [seen EXCEPT ![g] = @ \cup {latency}] ELSE seen
    BY <1>0, <1>3 DEF RecordFailure
  <2> HIDE DEF Row
  <2> QED
    BY <2>1, <2>3, <2>4
<1> QED
  BY <1>2, <1>3

(* No operation breaks the types.                                          *)
LEMMA TypeStep == TypeOK /\ [Next]_vars => TypeOK'
<1> SUFFICES ASSUME TypeOK, [Next]_vars PROVE TypeOK'
  OBVIOUS
<1>1. ASSUME NEW g \in Gateways, NEW latency \in Latencies,
             RecordSuccess(g, latency) \/ RecordFailure(g, latency)
      PROVE  TypeOK'
  <2>1. PICK r \in Stats :
          /\ stats' = [stats EXCEPT ![g] = r]
          /\ seen' = seen \/ seen' = [seen EXCEPT ![g] = @ \cup {latency}]
    BY <1>1, RecordWrites
  <2>2. cooldown' \subseteq Gateways /\ last' = NoRanking /\ recorded' \in Nat
    <3>1. cooldown' \subseteq Gateways /\ last' = NoRanking
      BY <1>1 DEF TypeOK, RecordSuccess, RecordFailure
    <3>2. recorded' = recorded + 1
      BY <1>1 DEF RecordSuccess, RecordFailure, CountOutcome
    <3> QED
      BY <3>1, <3>2 DEF TypeOK
  <2> QED
    BY <2>1, <2>2 DEF TypeOK
<1>2. ASSUME NEW g \in Gateways, CooldownExpires(g)
      PROVE  TypeOK'
  BY <1>2 DEF CooldownExpires, TypeOK
<1>3. ASSUME NEW isHigh \in BOOLEAN, GetRankedGateways(isHigh)
      PROVE  TypeOK'
  <2>1. stats' = Readmitted /\ last'.rows = Readmitted
        /\ UNCHANGED <<cooldown, seen, recorded>>
    BY <1>3 DEF GetRankedGateways
  <2> QED
    BY <2>1, ReadmittedRows DEF TypeOK
<1>4. CASE UNCHANGED vars
  BY <1>4 DEF TypeOK, vars
<1> QED
  BY <1>1, <1>2, <1>3, <1>4 DEF Next

(* TYPES of gateway_stats and of the ranking: averages stay natural        *)
(* numbers through Math.round, circuit states stay in the enum.            *)
THEOREM RankingTypeOK == Spec => []TypeOK
BY TypeInit, TypeStep, PTL DEF Spec

(* THE AVERAGE IS AN AVERAGE, for any latencies and any number of them:    *)
(* between the least and the greatest of those counted, and 0 only if none *)
(* above 0 was (recordSuccess, recordFailure).                             *)
THEOREM AverageIsAnAverage == Spec => []AverageIsObserved
<1>1. Init => AverageIsObserved
  BY DEF Init, AverageIsObserved
<1>2. ASSUME TypeOK, AverageIsObserved, [Next]_vars
      PROVE  AverageIsObserved'
  <2>1. ASSUME NEW g \in Gateways, NEW latency \in Latencies,
               RecordSuccess(g, latency) \/ RecordFailure(g, latency)
        PROVE  AverageIsObserved'
    <3>0. /\ stats \in [Gateways -> Stats] /\ seen \in [Gateways -> SUBSET Latencies]
          /\ Latencies \subseteq Nat
      BY <1>2, RankingAssumption DEF TypeOK
    <3>1. PICK r \in Stats :
            /\ stats' = [stats EXCEPT ![g] = r]
            /\ \/ /\ r.avgLatencyMs \in Average(stats[g].avgLatencyMs, latency)
                  /\ seen' = [seen EXCEPT ![g] = @ \cup {latency}]
               \/ r.avgLatencyMs = stats[g].avgLatencyMs /\ seen' = seen
      BY <1>2, <2>1, RecordWrites
    <3>2. stats'[g] = r /\ \A h \in Gateways \ {g} : /\ stats'[h] = stats[h]
                                                     /\ seen'[h] = seen[h]
      BY <3>0, <3>1
    <3> DEFINE old == stats[g].avgLatencyMs
               new == r.avgLatencyMs
               counted == seen[g]
    <3>3. old \in Nat /\ new \in Nat /\ counted \subseteq Nat /\ latency \in Nat
      BY <3>0 DEF Stats
    <3>4. IF old = 0 THEN counted \subseteq {0}
          ELSE \E lo, hi \in counted : lo <= old /\ old <= hi
      BY <1>2 DEF AverageIsObserved
    <3>5. \/ new \in Average(old, latency) /\ seen'[g] = counted \cup {latency}
          \/ new = old /\ seen'[g] = counted
      BY <3>0, <3>1
    <3> HIDE DEF old, new, counted
    <3>6. IF new = 0 THEN seen'[g] \subseteq {0}
          ELSE \E lo, hi \in seen'[g] : lo <= new /\ new <= hi
      <4>1. CASE new = old /\ seen'[g] = counted
        BY <3>4, <4>1
      <4>2. CASE new \in Average(old, latency) /\ seen'[g] = counted \cup {latency}
        <5>1. CASE old = 0
          <6>1. new = latency
            BY <3>3, <4>2, <5>1, AverageBetween
          <6> QED
            BY <3>3, <3>4, <4>2, <5>1, <6>1
        <5>2. CASE old # 0
          <6>1. /\ new # 0 /\ (old <= new \/ latency <= new)
                /\ (new <= old \/ new <= latency)
            BY <3>3, <4>2, <5>2, AverageBetween
          <6>2. PICK lo \in counted, hi \in counted : lo <= old /\ old <= hi
            BY <3>4, <5>2
          <6>3. \E x \in counted \cup {latency} : x <= new
            BY <3>3, <6>1, <6>2
          <6>4. \E x \in counted \cup {latency} : new <= x
            BY <3>3, <6>1, <6>2
          <6> QED
            BY <4>2, <6>1, <6>3, <6>4
        <5> QED
          BY <5>1, <5>2
      <4> QED
        BY <3>5, <4>1, <4>2
    <3> QED
      BY <1>2, <3>2, <3>6 DEF AverageIsObserved, new
  <2>2. ASSUME NEW isHigh \in BOOLEAN, GetRankedGateways(isHigh)
        PROVE  AverageIsObserved'
    <3>1. stats' = Readmitted /\ seen' = seen
      BY <2>2 DEF GetRankedGateways
    <3> QED
      BY <1>2, <3>1, ReadmittedRows DEF AverageIsObserved
  <2>3. ASSUME UNCHANGED <<stats, seen>>
        PROVE  AverageIsObserved'
    BY <1>2, <2>3 DEF AverageIsObserved
  <2> QED
    BY <1>2, <2>1, <2>2, <2>3 DEF Next, CooldownExpires, vars
<1> QED
  BY <1>1, <1>2, RankingTypeOK, PTL DEF Spec

-----------------------------------------------------------------------------
(* Multiplication keeps the order.                                         *)
LEMMA TimesMonotone ==
  ASSUME NEW x \in Nat, NEW y \in Nat, NEW z \in Nat, x <= y
  PROVE  x * z <= y * z
OBVIOUS

(* A share is the quotient, rounded down.                                  *)
LEMMA ShareBounds ==
  ASSUME NEW a \in Nat, NEW b \in Nat \ {0}
  PROVE  /\ Share(a, b) \in Nat
         /\ Share(a, b) * b <= a * Unit
         /\ a * Unit < (Share(a, b) + 1) * b
<1> DEFINE p == a * Unit
           q == p \div b
<1>1. p \in Nat
  BY UnitAssumption
<1> HIDE DEF p
<1>2. q \in Nat /\ q * b <= p /\ p < q * b + b
  BY <1>1
<1>3. (q + 1) * b = q * b + b
  BY <1>2
<1> QED
  BY <1>2, <1>3 DEF Share, p

(* No score is negative, whatever the cost, the latency and the record.    *)
LEMMA ScoreNotNegative ==
  ASSUME NEW g \in Gateways, NEW row \in Stats, NEW isHigh \in BOOLEAN
  PROVE  Score(g, row, isHigh) \in Nat
<1>1. SuccessRate(row) \in Nat
  <2>1. row.successCount \in Nat /\ row.failureCount \in Nat
    BY DEF Stats
  <2>2. Total(row) \in Nat /\ row.successCount \in Nat /\ Unit \in Nat
    BY <2>1, UnitAssumption DEF Total
  <2>3. Total(row) # 0 => Share(row.successCount, Total(row)) \in Nat
    BY <2>2, ShareBounds
  <2> QED
    BY <2>2, <2>3 DEF SuccessRate
<1>2. CostScore(g) \in Nat
  <2> DEFINE c == Larger(0, 300 - CostBps[g])
  <2>1. c \in Nat
    <3>1. CostBps[g] \in Nat
      BY RankingAssumption
    <3> QED
      BY <3>1 DEF Larger
  <2> HIDE DEF c
  <2>2. Share(c, 300) \in Nat
    BY <2>1, ShareBounds
  <2> QED
    BY <2>2 DEF CostScore, c
<1>3. LatencyScore(row) \in Nat
  <2>1. row.avgLatencyMs \in Nat
    BY DEF Stats
  <2>2. EffectiveLatency(row) \in Nat \ {0}
    BY <2>1 DEF EffectiveLatency, Larger
  <2>3. Share(50, EffectiveLatency(row)) \in Nat
    BY <2>2, ShareBounds
  <2> QED
    BY <2>3 DEF LatencyScore
<1> DEFINE x == SuccessRate(row)
           y == CostScore(g)
           z == LatencyScore(row)
           w == Weights(isHigh)
           m == HealthMultiplier(row)
<1>4. Score(g, row, isHigh) = m * (w.success * x + w.cost * y + w.latency * z)
  BY DEF Score
<1>5. w.success \in Nat /\ w.cost \in Nat /\ w.latency \in Nat /\ m \in {3, 10}
  BY DEF Weights, HealthMultiplier
<1> DEFINE a == w.success * x
           b == w.cost * y
           c == w.latency * z
<1>6. x \in Nat /\ y \in Nat /\ z \in Nat
  BY <1>1, <1>2, <1>3
<1>7. a \in Nat /\ b \in Nat /\ c \in Nat
  <2> HIDE DEF x, y, z, w
  <2> QED
    BY <1>5, <1>6
<1> HIDE DEF a, b, c, m
<1>8. m * (a + b + c) \in Nat
  BY <1>5, <1>7
<1> QED
  BY <1>4, <1>8 DEF a, b, c

(* The filter by score leaves out those that are OPEN in their cooldown,   *)
(* and nobody else.                                                        *)
LEMMA FilterIsByHealth ==
  ASSUME TypeOK, NEW isHigh \in BOOLEAN
  PROVE  /\ Filtered(Readmitted, isHigh) =
              Gateways \ {g \in cooldown : stats[g].circuitState = "OPEN"}
         /\ \A g \in Filtered(Readmitted, isHigh) :
              Readmitted[g].circuitState # "OPEN"
<1> DEFINE rows == Readmitted
<1>1. rows \in [Gateways -> Stats]
  BY ReadmittedRows
<1>2. \A g \in Gateways :
        rows[g].circuitState = "OPEN" <=> stats[g].circuitState = "OPEN" /\ g \in cooldown
  BY ReadmittedRows
<1> HIDE DEF rows
<1>3. ASSUME NEW g \in Gateways
      PROVE  CandidateScore(g, rows[g], isHigh) >= 0 <=> rows[g].circuitState # "OPEN"
  <2>1. Score(g, rows[g], isHigh) \in Nat
    BY <1>1, ScoreNotNegative
  <2> QED
    BY <2>1 DEF CandidateScore
<1>4. Filtered(rows, isHigh) = {g \in Gateways : rows[g].circuitState # "OPEN"}
  BY <1>3 DEF Filtered
<1> QED
  BY <1>2, <1>4 DEF rows

(* NOBODY IS FORGOTTEN, for any gateways, costs, records and latencies:    *)
(* the filter by score drops only those that are OPEN in their cooldown,   *)
(* and the ranking has every other gateway once, or all of them if there   *)
(* is no other (getRankedGateways).                                        *)
THEOREM RankingHasAll == Spec => []RankingIsComplete
<1>1. Init => RankingIsComplete
  BY DEF Init, RankingIsComplete, HasRanking
<1>2. ASSUME TypeOK, RankingIsComplete, [Next]_vars
      PROVE  RankingIsComplete'
  <2>1. CASE \E isHigh \in BOOLEAN : GetRankedGateways(isHigh)
    <3> PICK isHigh \in BOOLEAN : GetRankedGateways(isHigh)
      BY <2>1
    <3> DEFINE usable == Filtered(Readmitted, isHigh)
               excluded == {g \in cooldown : stats[g].circuitState = "OPEN"}
    <3>1. /\ last'.excluded = excluded
          /\ \E key : \/ usable # {} /\ last'.ranked \in SortedBy(usable, key)
                      \/ usable = {} /\ last'.ranked \in SortedBy(Gateways, key)
      BY DEF GetRankedGateways
    <3>2. usable = Gateways \ excluded /\ excluded \subseteq Gateways
      BY <1>2, FilterIsByHealth DEF TypeOK
    <3> HIDE DEF usable, excluded
    <3>3. IsFiniteSet(Gateways) /\ IsFiniteSet(usable)
      BY <3>2, RankingAssumption, FS_Subset
    <3>4. \/ usable # {} /\ IsInjective(last'.ranked) /\ Range(last'.ranked) = usable
          \/ usable = {} /\ IsInjective(last'.ranked) /\ Range(last'.ranked) = Gateways
      BY <3>1, <3>3, SortedHasAll
    <3> QED
      BY <3>1, <3>2, <3>4 DEF RankingIsComplete
  <2>2. CASE last' = NoRanking
    BY <2>2 DEF RankingIsComplete, HasRanking, NoRanking
  <2>3. CASE UNCHANGED vars
    BY <1>2, <2>3 DEF RankingIsComplete, HasRanking, NoRanking, vars
  <2> QED
    BY <1>2, <2>1, <2>2, <2>3
       DEF Next, RecordSuccess, RecordFailure, CooldownExpires
<1> QED
  BY <1>1, <1>2, RankingTypeOK, PTL DEF Spec

(* A larger fraction has at least the share of a smaller one.              *)
LEMMA ShareMonotone ==
  ASSUME NEW a \in Nat, NEW b \in Nat \ {0}, NEW c \in Nat, NEW d \in Nat \ {0},
         a * d >= c * b
  PROVE  Share(a, b) >= Share(c, d)
<1> DEFINE s == Share(a, b)
           t == Share(c, d)
<1>1. s \in Nat /\ t \in Nat /\ a * Unit < (s + 1) * b /\ t * d <= c * Unit
  BY ShareBounds
<1> HIDE DEF s, t
<1> SUFFICES ASSUME s + 1 <= t PROVE FALSE
  BY <1>1 DEF s, t
<1>2. (s + 1) * b <= t * b
  BY <1>1
<1>3. a * Unit < t * b
  BY <1>1, <1>2, UnitAssumption
<1>4. (a * Unit) * d < (t * b) * d
  BY <1>1, <1>3, UnitAssumption
<1>5. (t * d) * b <= (c * Unit) * b
  BY <1>1, TimesMonotone, UnitAssumption
<1>6. (c * b) * Unit <= (a * d) * Unit
  BY TimesMonotone, UnitAssumption
<1> QED
  BY <1>1, <1>4, <1>5, <1>6, UnitAssumption

(* It has more, if the fractions differ by more than the resolution.       *)
LEMMA ShareStrict ==
  ASSUME NEW a \in Nat, NEW b \in Nat \ {0}, NEW c \in Nat, NEW d \in Nat \ {0},
         NEW n \in Nat, a * d >= c * b + n, b * d <= n * Unit
  PROVE  Share(a, b) > Share(c, d)
<1> DEFINE s == Share(a, b)
           t == Share(c, d)
<1>1. s \in Nat /\ t \in Nat /\ a * Unit < (s + 1) * b /\ t * d <= c * Unit
  BY ShareBounds
<1> HIDE DEF s, t
<1> SUFFICES ASSUME s <= t PROVE FALSE
  BY <1>1 DEF s, t
<1>2. (s + 1) * b <= (t + 1) * b
  BY <1>1, TimesMonotone
<1>3. a * Unit < (t + 1) * b
  BY <1>1, <1>2, UnitAssumption
<1>4. (a * Unit) * d < ((t + 1) * b) * d
  BY <1>1, <1>3, UnitAssumption
<1>5. (t * d) * b <= (c * Unit) * b
  BY <1>1, TimesMonotone, UnitAssumption
<1>6. (c * b + n) * Unit <= (a * d) * Unit
  BY TimesMonotone, UnitAssumption
<1>7. ((t + 1) * b) * d = (t * d) * b + b * d
  BY <1>1
<1>8. (c * b + n) * Unit = (c * Unit) * b + n * Unit
  BY UnitAssumption
<1>9. (a * Unit) * d = (a * d) * Unit
  BY UnitAssumption
<1> QED
  BY <1>1, <1>4, <1>5, <1>6, <1>7, <1>8, <1>9, UnitAssumption

(* A row whose totals and latency the shares can tell apart.               *)
Measured(row) ==
  /\ row \in Stats
  /\ Total(row) <= MaxOutcomes
  /\ row.avgLatencyMs * row.avgLatencyMs <= 50 * Unit

(* The success rate as a fraction; that of a new gateway is 1.             *)
RateOf(row) == IF Total(row) = 0 THEN 1 ELSE row.successCount
RateOutOf(row) == IF Total(row) = 0 THEN 1 ELSE Total(row)

(* The success rate is the share of that fraction.                         *)
LEMMA SuccessRateIs ==
  ASSUME NEW row, Measured(row)
  PROVE  /\ RateOf(row) \in Nat /\ RateOutOf(row) \in Nat \ {0}
         /\ RateOf(row) <= RateOutOf(row)
         /\ RateOutOf(row) \in 1..MaxOutcomes \/ RateOutOf(row) = 1
         /\ SuccessRate(row) = Share(RateOf(row), RateOutOf(row))
         /\ SuccessRate(row) \in Nat /\ SuccessRate(row) <= Unit
<1> DEFINE s == row.successCount
           f == row.failureCount
<1>0. s \in Nat /\ f \in Nat /\ Total(row) = s + f /\ s + f <= MaxOutcomes
  BY DEF Measured, Stats, Total
<1> HIDE DEF s, f
<1>1. /\ RateOf(row) \in Nat /\ RateOutOf(row) \in Nat \ {0}
      /\ RateOf(row) <= RateOutOf(row)
      /\ RateOutOf(row) \in 1..MaxOutcomes \/ RateOutOf(row) = 1
  BY <1>0, RankingAssumption DEF RateOf, RateOutOf, s
<1>2. Share(1, 1) = Unit
  BY UnitAssumption DEF Share
<1>3. SuccessRate(row) = Share(RateOf(row), RateOutOf(row))
  BY <1>2 DEF SuccessRate, RateOf, RateOutOf
<1>4. Share(RateOf(row), RateOutOf(row)) <= Share(1, 1)
  BY <1>1, ShareMonotone, ShareBounds
<1> QED
  BY <1>1, <1>2, <1>3, <1>4, ShareBounds

(* AsReliable compares those fractions.                                    *)
LEMMA AsReliableIs ==
  ASSUME NEW a, NEW b, Measured(a), Measured(b)
  PROVE  AsReliable(a, b) <=> RateOf(a) * RateOutOf(b) >= RateOf(b) * RateOutOf(a)
<1>0. /\ a.successCount \in Nat /\ a.failureCount \in Nat
      /\ b.successCount \in Nat /\ b.failureCount \in Nat
  BY DEF Measured, Stats
<1>1. CASE Total(a) = 0 /\ Total(b) = 0
  BY <1>0, <1>1 DEF AsReliable, RateOf, RateOutOf
<1>2. CASE Total(a) = 0 /\ Total(b) # 0
  BY <1>0, <1>2 DEF AsReliable, RateOf, RateOutOf, Total
<1>3. CASE Total(a) # 0 /\ Total(b) = 0
  BY <1>0, <1>3 DEF AsReliable, RateOf, RateOutOf, Total
<1>4. CASE Total(a) # 0 /\ Total(b) # 0
  <2>1. Total(b) > 0
    BY <1>0, <1>4 DEF Total
  <2> QED
    BY <1>4, <2>1 DEF AsReliable, RateOf, RateOutOf
<1> QED
  BY <1>1, <1>2, <1>3, <1>4

(* The more reliable gateway has the higher success rate, even if the      *)
(* totals differ by a single outcome.                                      *)
LEMMA ReliableScores ==
  ASSUME NEW a, NEW b, Measured(a), Measured(b), AsReliable(a, b)
  PROVE  /\ SuccessRate(a) >= SuccessRate(b)
         /\ ~AsReliable(b, a) => SuccessRate(a) > SuccessRate(b)
<1> DEFINE p == RateOf(a)
           q == RateOutOf(a)
           u == RateOf(b)
           v == RateOutOf(b)
<1>1. /\ p \in Nat /\ q \in Nat \ {0} /\ u \in Nat /\ v \in Nat \ {0}
      /\ q \in 1..MaxOutcomes \/ q = 1
      /\ v \in 1..MaxOutcomes \/ v = 1
      /\ SuccessRate(a) = Share(p, q) /\ SuccessRate(b) = Share(u, v)
  BY SuccessRateIs
<1>2. p * v >= u * q /\ (~AsReliable(b, a) => p * v > u * q)
  <2>1. ~(u * q >= p * v) => p * v > u * q
    BY <1>1
  <2> QED
    BY <2>1, AsReliableIs
<1> HIDE DEF p, q, u, v
<1>3. q * v <= 1 * Unit
  <2>0. MaxOutcomes \in Nat /\ Unit \in Nat /\ 800 <= Unit
    BY RankingAssumption, UnitAssumption
  <2>1. CASE q = 1 /\ v = 1
    BY <2>0, <2>1
  <2>2. CASE q <= MaxOutcomes /\ v <= MaxOutcomes /\ MaxOutcomes >= 1
    <3>1. q * v <= MaxOutcomes * v /\ v * MaxOutcomes <= MaxOutcomes * MaxOutcomes
      BY <1>1, <2>0, <2>2, TimesMonotone
    <3>2. MaxOutcomes * MaxOutcomes <= Unit
      BY <2>0, UnitAssumption
    <3> QED
      BY <1>1, <2>0, <3>1, <3>2
  <2> QED
    BY <1>1, <2>0, <2>1, <2>2
<1>4. Share(p, q) >= Share(u, v)
  BY <1>1, <1>2, ShareMonotone
<1>5. p * v > u * q => Share(p, q) > Share(u, v)
  <2> SUFFICES ASSUME p * v > u * q PROVE Share(p, q) > Share(u, v)
    OBVIOUS
  <2>1. p * v >= u * q + 1
    BY <1>1
  <2> QED
    BY <1>1, <1>3, <2>1, ShareStrict
<1> QED
  BY <1>1, <1>2, <1>4, <1>5

(* The cheaper gateway has the higher cost score.                          *)
LEMMA CheapScores ==
  ASSUME NEW g \in Gateways, NEW h \in Gateways, CountedCost(g) <= CountedCost(h)
  PROVE  /\ CostScore(g) \in Nat /\ CostScore(h) \in Nat
         /\ CostScore(g) >= CostScore(h)
         /\ CountedCost(g) < CountedCost(h) => CostScore(g) > CostScore(h)
<1> DEFINE x == CountedCost(g)
           y == CountedCost(h)
           c == 300 - x
           d == 300 - y
<1>1. x \in 0..300 /\ y \in 0..300 /\ x <= y
  <2>1. CostBps[g] \in Nat /\ CostBps[h] \in Nat
    BY RankingAssumption
  <2> QED
    BY <2>1 DEF CountedCost
<1>2. Larger(0, 300 - CostBps[g]) = c /\ Larger(0, 300 - CostBps[h]) = d
  <2>1. CostBps[g] \in Nat /\ CostBps[h] \in Nat
    BY RankingAssumption
  <2> QED
    BY <2>1 DEF Larger, CountedCost
<1>4. CostScore(g) = Share(c, 300) /\ CostScore(h) = Share(d, 300)
  BY <1>2 DEF CostScore
<1> HIDE DEF x, y
<1>3. c \in Nat /\ d \in Nat /\ c >= d /\ (x < y => c >= d + 1)
  BY <1>1
<1> HIDE DEF c, d
<1>5. Share(c, 300) \in Nat /\ Share(d, 300) \in Nat /\ Share(c, 300) >= Share(d, 300)
  <2>1. c * 300 >= d * 300 /\ 300 \in Nat \ {0}
    BY <1>3
  <2> QED
    BY <1>3, <2>1, ShareBounds, ShareMonotone
<1>6. ASSUME c >= d + 1 PROVE Share(c, 300) > Share(d, 300)
  <2>1. c * 300 >= d * 300 + 300 /\ 300 * 300 <= 300 * Unit
    BY <1>3, <1>6, UnitAssumption
  <2> QED
    BY <1>3, <2>1, ShareStrict
<1> QED
  BY <1>3, <1>4, <1>5, <1>6 DEF x, y

(* The faster gateway has the higher latency score, and none has 0.        *)
LEMMA FastScores ==
  ASSUME NEW a, NEW b, Measured(a), Measured(b),
         EffectiveLatency(a) <= EffectiveLatency(b)
  PROVE  /\ LatencyScore(a) \in Nat /\ LatencyScore(b) \in Nat
         /\ LatencyScore(a) > 0
         /\ LatencyScore(a) >= LatencyScore(b)
         /\ EffectiveLatency(a) < EffectiveLatency(b) =>
              LatencyScore(a) > LatencyScore(b)
<1>1. ASSUME NEW row, Measured(row)
      PROVE  /\ EffectiveLatency(row) \in Nat /\ EffectiveLatency(row) >= 50
             /\ EffectiveLatency(row) * EffectiveLatency(row) <= 50 * Unit
  <2> DEFINE l == row.avgLatencyMs
  <2>1. l \in Nat /\ l * l <= 50 * Unit
    BY <1>1 DEF Measured, Stats
  <2> HIDE DEF l
  <2>2. EffectiveLatency(row) \in {l, 50, 200} /\ EffectiveLatency(row) >= 50
    BY <2>1 DEF EffectiveLatency, Larger, l
  <2> QED
    BY <2>1, <2>2, UnitAssumption
<1> DEFINE l == EffectiveLatency(a)
           m == EffectiveLatency(b)
<1>2. /\ l \in Nat \ {0} /\ m \in Nat \ {0} /\ l >= 50 /\ l <= m
      /\ l * l <= 50 * Unit /\ m * m <= 50 * Unit
  BY <1>1
<1>3. LatencyScore(a) = Share(50, l) /\ LatencyScore(b) = Share(50, m)
  BY DEF LatencyScore
<1> HIDE DEF l, m
<1>4. Share(50, l) \in Nat /\ Share(50, m) \in Nat /\ Share(50, l) >= Share(50, m)
  <2>1. 50 * m >= 50 * l /\ 50 \in Nat
    BY <1>2
  <2> QED
    BY <1>2, <2>1, ShareBounds, ShareMonotone
<1>5. Share(50, l) > 0
  <2>1. l * 1 <= l * l
    BY <1>2, TimesMonotone
  <2>2. Share(50, l) = 0 => 50 * Unit < l
    BY <1>2, ShareBounds
  <2> QED
    BY <1>2, <1>4, <2>1, <2>2, UnitAssumption
<1>6. ASSUME l < m PROVE Share(50, l) > Share(50, m)
  <2>1. 50 * m >= 50 * l + 50
    BY <1>2, <1>6
  <2>2. l * m <= m * m
    BY <1>2, TimesMonotone
  <2>3. l * m <= 50 * Unit
    BY <1>2, <2>2, UnitAssumption
  <2> QED
    BY <1>2, <2>1, <2>3, ShareStrict
<1> QED
  BY <1>3, <1>4, <1>5, <1>6 DEF l, m

(* The parts of a score are shares of at most 1.                           *)
LEMMA PartsBounded ==
  ASSUME NEW g \in Gateways, NEW row, Measured(row)
  PROVE  /\ SuccessRate(row) \in Nat /\ SuccessRate(row) <= Unit
         /\ CostScore(g) \in Nat /\ CostScore(g) <= Unit
         /\ LatencyScore(row) \in Nat /\ LatencyScore(row) <= Unit
         /\ LatencyScore(row) > 0
<1>0. \A n \in Nat \ {0} : Share(n, n) = Unit
  <2> SUFFICES ASSUME NEW n \in Nat \ {0} PROVE Share(n, n) = Unit
    OBVIOUS
  <2> DEFINE s == Share(n, n)
  <2>1. s \in Nat /\ s * n <= n * Unit /\ n * Unit < (s + 1) * n
    BY ShareBounds
  <2> HIDE DEF s
  <2>2. s + 1 <= Unit => (s + 1) * n <= Unit * n
    BY <2>1, TimesMonotone, UnitAssumption
  <2>3. Unit + 1 <= s => (Unit + 1) * n <= s * n
    BY <2>1, TimesMonotone, UnitAssumption
  <2>4. (Unit + 1) * n = Unit * n + n /\ Unit * n = n * Unit
    BY UnitAssumption
  <2>5. s = Unit
    BY <2>1, <2>2, <2>3, <2>4, UnitAssumption
  <2> QED
    BY <2>5 DEF s
<1>1. CostScore(g) \in Nat /\ CostScore(g) <= Unit
  <2> DEFINE c == Larger(0, 300 - CostBps[g])
  <2>1. c \in 0..300
    <3>1. CostBps[g] \in Nat
      BY RankingAssumption
    <3> QED
      BY <3>1 DEF Larger
  <2>2. CostScore(g) = Share(c, 300)
    BY DEF CostScore
  <2> HIDE DEF c
  <2>3. 300 * 300 >= c * 300 /\ 300 \in Nat \ {0} /\ c \in Nat
    BY <2>1
  <2>4. Share(300, 300) >= Share(c, 300) /\ Share(c, 300) \in Nat
    BY <2>3, ShareMonotone, ShareBounds
  <2> QED
    BY <1>0, <2>2, <2>3, <2>4, UnitAssumption
<1>2. LatencyScore(row) \in Nat /\ LatencyScore(row) <= Unit
  <2> DEFINE l == EffectiveLatency(row)
  <2>1. l \in Nat \ {0} /\ l >= 50
    <3>1. row.avgLatencyMs \in Nat
      BY DEF Measured, Stats
    <3> QED
      BY <3>1 DEF EffectiveLatency, Larger
  <2>2. LatencyScore(row) = Share(50, l)
    BY DEF LatencyScore
  <2> HIDE DEF l
  <2>3. 50 * l >= 50 * 50 /\ 50 \in Nat \ {0}
    BY <2>1
  <2>4. Share(50, 50) >= Share(50, l) /\ Share(50, l) \in Nat
    BY <2>1, <2>3, ShareMonotone, ShareBounds
  <2> QED
    BY <1>0, <2>2, <2>3, <2>4, UnitAssumption
<1>3. LatencyScore(row) > 0
  <2>1. EffectiveLatency(row) <= EffectiveLatency(row)
    BY DEF Measured, Stats, EffectiveLatency, Larger
  <2> QED
    BY <2>1, FastScores
<1> QED
  BY <1>1, <1>2, <1>3, SuccessRateIs

(* What goes into the score of g, before its health.                       *)
Weighted(g, row, isHigh) ==
  Weights(isHigh).success * SuccessRate(row) + Weights(isHigh).cost * CostScore(g)
    + Weights(isHigh).latency * LatencyScore(row)

(* All the weights count.                                                  *)
LEMMA WeightedIs ==
  ASSUME NEW g \in Gateways, NEW row, Measured(row), NEW isHigh \in BOOLEAN
  PROVE  /\ Weighted(g, row, isHigh) =
              IF isHigh
              THEN 7 * SuccessRate(row) + CostScore(g) + 2 * LatencyScore(row)
              ELSE 3 * SuccessRate(row) + 5 * CostScore(g) + 2 * LatencyScore(row)
         /\ Weighted(g, row, isHigh) \in Nat /\ Weighted(g, row, isHigh) > 0
         /\ Score(g, row, isHigh) = HealthMultiplier(row) * Weighted(g, row, isHigh)
<1>1. /\ SuccessRate(row) \in Nat /\ CostScore(g) \in Nat
      /\ LatencyScore(row) \in Nat /\ LatencyScore(row) > 0
  BY PartsBounded
<1>2. Weighted(g, row, isHigh) =
        IF isHigh
        THEN 7 * SuccessRate(row) + CostScore(g) + 2 * LatencyScore(row)
        ELSE 3 * SuccessRate(row) + 5 * CostScore(g) + 2 * LatencyScore(row)
  BY <1>1 DEF Weighted, Weights
<1>3. Score(g, row, isHigh) = HealthMultiplier(row) * Weighted(g, row, isHigh)
  BY DEF Score, Weighted
<1>4. Weighted(g, row, isHigh) \in Nat /\ Weighted(g, row, isHigh) > 0
  BY <1>1, <1>2
<1> QED
  BY <1>2, <1>3, <1>4

(* A gateway that is as good as another in every respect, and better in    *)
(* one, has the higher score for either kind of amount.                    *)
LEMMA DominatingScores ==
  ASSUME NEW g \in Gateways, NEW h \in Gateways, NEW isHigh \in BOOLEAN,
         NEW a, NEW b, Measured(a), Measured(b),
         a.circuitState # "OPEN", b.circuitState # "OPEN",
         AsReliable(a, b), CountedCost(g) <= CountedCost(h),
         EffectiveLatency(a) <= EffectiveLatency(b),
         b.circuitState = "CLOSED" => a.circuitState = "CLOSED",
         \/ ~AsReliable(b, a)
         \/ ~(CountedCost(h) <= CountedCost(g))
         \/ ~(EffectiveLatency(b) <= EffectiveLatency(a))
         \/ ~(a.circuitState = "CLOSED" => b.circuitState = "CLOSED")
  PROVE  Score(g, a, isHigh) > Score(h, b, isHigh)
<1> DEFINE x == Weighted(g, a, isHigh)
           y == Weighted(h, b, isHigh)
<1>0. /\ CountedCost(g) \in Nat /\ CountedCost(h) \in Nat
      /\ EffectiveLatency(a) \in Nat /\ EffectiveLatency(b) \in Nat
      /\ a.circuitState \in CircuitState /\ b.circuitState \in CircuitState
  BY RankingAssumption DEF CountedCost, Measured, Stats, EffectiveLatency, Larger
<1>1. /\ SuccessRate(a) \in Nat /\ SuccessRate(b) \in Nat
      /\ CostScore(g) \in Nat /\ CostScore(h) \in Nat
      /\ LatencyScore(a) \in Nat /\ LatencyScore(b) \in Nat
  BY PartsBounded
<1>2. /\ SuccessRate(a) >= SuccessRate(b)
      /\ ~AsReliable(b, a) => SuccessRate(a) > SuccessRate(b)
  BY ReliableScores
<1>3. /\ CostScore(g) >= CostScore(h)
      /\ CountedCost(g) < CountedCost(h) => CostScore(g) > CostScore(h)
  BY CheapScores
<1>4. /\ LatencyScore(a) >= LatencyScore(b)
      /\ EffectiveLatency(a) < EffectiveLatency(b) => LatencyScore(a) > LatencyScore(b)
  BY FastScores
<1>5. /\ x = IF isHigh THEN 7 * SuccessRate(a) + CostScore(g) + 2 * LatencyScore(a)
             ELSE 3 * SuccessRate(a) + 5 * CostScore(g) + 2 * LatencyScore(a)
      /\ y = IF isHigh THEN 7 * SuccessRate(b) + CostScore(h) + 2 * LatencyScore(b)
             ELSE 3 * SuccessRate(b) + 5 * CostScore(h) + 2 * LatencyScore(b)
      /\ x \in Nat /\ y \in Nat /\ x > 0
      /\ Score(g, a, isHigh) = HealthMultiplier(a) * x
      /\ Score(h, b, isHigh) = HealthMultiplier(b) * y
  BY WeightedIs
<1> HIDE DEF x, y
<1>6. x >= y
  BY <1>1, <1>2, <1>3, <1>4, <1>5
<1>7. /\ SuccessRate(a) > SuccessRate(b) => x > y
      /\ CostScore(g) > CostScore(h) => x > y
      /\ LatencyScore(a) > LatencyScore(b) => x > y
  BY <1>1, <1>2, <1>3, <1>4, <1>5
<1>8. /\ ~(CountedCost(h) <= CountedCost(g)) => CountedCost(g) < CountedCost(h)
      /\ ~(EffectiveLatency(b) <= EffectiveLatency(a)) =>
           EffectiveLatency(a) < EffectiveLatency(b)
  BY <1>0
<1>9. x > y \/ (a.circuitState = "CLOSED" /\ b.circuitState # "CLOSED")
  BY <1>2, <1>3, <1>4, <1>7, <1>8
<1>10. /\ HealthMultiplier(a) = IF a.circuitState = "CLOSED" THEN 10 ELSE 3
       /\ HealthMultiplier(b) = IF b.circuitState = "CLOSED" THEN 10 ELSE 3
  BY <1>0 DEF HealthMultiplier, CircuitState
<1>11. CASE a.circuitState = "CLOSED" /\ b.circuitState # "CLOSED"
  BY <1>5, <1>6, <1>10, <1>11
<1>12. CASE a.circuitState = "CLOSED" <=> b.circuitState = "CLOSED"
  BY <1>5, <1>9, <1>10, <1>12
<1> QED
  BY <1>11, <1>12

(* Above 5000, a success rate higher by more than 3/7 outweighs any costs  *)
(* and latencies.                                                          *)
LEMMA ReliableOutweighs ==
  ASSUME NEW g \in Gateways, NEW h \in Gateways,
         NEW a, NEW b, Measured(a), Measured(b),
         a.circuitState = "CLOSED", Total(a) > 0, Total(b) > 0,
         7 * (a.successCount * Total(b) - b.successCount * Total(a))
           > 3 * Total(a) * Total(b)
  PROVE  Score(g, a, TRUE) > Score(h, b, TRUE)
<1> DEFINE p == a.successCount
           q == Total(a)
           u == b.successCount
           v == Total(b)
           s == SuccessRate(a)
           t == SuccessRate(b)
           m == MaxOutcomes
<1>0. /\ p \in Nat /\ q \in Nat \ {0} /\ u \in Nat /\ v \in Nat \ {0}
      /\ q <= m /\ v <= m /\ m \in Nat
  BY RankingAssumption DEF Measured, Stats, Total
<1>1. 7 * (p * v - u * q) > 3 * q * v
  OBVIOUS
<1>2. s = Share(p, q) /\ t = Share(u, v)
  BY DEF SuccessRate
<1> HIDE DEF p, q, u, v, s, t, m
<1>3. s \in Nat /\ t \in Nat /\ p * Unit < (s + 1) * q /\ t * v <= u * Unit
  BY <1>0, <1>2, ShareBounds
<1>4. 7 * (q * v) <= Unit
  <2>1. q * v <= m * v /\ v * m <= m * m
    BY <1>0, TimesMonotone
  <2>2. 7 * m * m <= Unit
    BY UnitAssumption DEF m
  <2> QED
    BY <1>0, <2>1, <2>2, UnitAssumption
(* The larger rate, times both totals, with what rounding may take away.   *)
<1>5. (7 * s) * (q * v) + 7 * (q * v) > (7 * t + 3 * Unit) * (q * v) + Unit
  <2> DEFINE w == q * v
             pv == p * v
             uq == u * q
  <2>0. w \in Nat /\ pv \in Nat /\ uq \in Nat /\ Unit \in Nat /\ 3 * q * v = 3 * w
    BY <1>0, UnitAssumption
  <2>1. 7 * pv >= 7 * uq + 3 * w + 1
    BY <1>0, <1>1, <2>0
  <2>2. (p * Unit) * v < ((s + 1) * q) * v
    BY <1>0, <1>3, UnitAssumption
  <2>3. (p * Unit) * v = pv * Unit /\ ((s + 1) * q) * v = s * w + w
    BY <1>0, <1>3, UnitAssumption
  <2>4. (t * v) * q <= (u * Unit) * q
    BY <1>0, <1>3, TimesMonotone, UnitAssumption
  <2>5. (t * v) * q = t * w /\ (u * Unit) * q = uq * Unit
    BY <1>0, <1>3, UnitAssumption
  <2> HIDE DEF w, pv, uq
  <2>6. (7 * uq + 3 * w + 1) * Unit <= (7 * pv) * Unit
    BY <2>0, <2>1, TimesMonotone
  <2>7. (7 * uq + 3 * w + 1) * Unit = 7 * (uq * Unit) + 3 * (w * Unit) + Unit
    BY <2>0
  <2>8. (7 * pv) * Unit = 7 * (pv * Unit)
    BY <2>0
  <2>9. (7 * s) * w = 7 * (s * w) /\ (7 * t + 3 * Unit) * w = 7 * (t * w) + 3 * (w * Unit)
    BY <1>3, <2>0
  <2> DEFINE A == pv * Unit
             B == uq * Unit
             C == w * Unit
             D == s * w
             F == t * w
  <2>10. A \in Nat /\ B \in Nat /\ C \in Nat /\ D \in Nat /\ F \in Nat
    BY <1>3, <2>0
  <2>11. A < D + w /\ F <= B /\ 7 * B + 3 * C + Unit <= 7 * A
    BY <2>2, <2>3, <2>4, <2>5, <2>6, <2>7, <2>8
  <2> HIDE DEF A, B, C, D, F
  <2>12. 7 * D + 7 * w > 7 * F + 3 * C + Unit
    BY <2>0, <2>10, <2>11
  <2> QED
    BY <2>9, <2>12 DEF D, F, C, w
<1>6. 7 * s > 7 * t + 3 * Unit
  <2> DEFINE w == q * v
             z == 7 * t + 3 * Unit
  <2>1. w \in Nat /\ z \in Nat /\ Unit \in Nat /\ (7 * s) * w > z * w
    BY <1>0, <1>3, <1>4, <1>5, UnitAssumption
  <2> HIDE DEF w, z
  <2>2. 7 * s <= z => (7 * s) * w <= z * w
    BY <1>3, <2>1, TimesMonotone
  <2> QED
    BY <1>3, <2>1, <2>2 DEF z
<1> DEFINE x == Weighted(g, a, TRUE)
           y == Weighted(h, b, TRUE)
<1>7. /\ x = 7 * s + CostScore(g) + 2 * LatencyScore(a)
      /\ y = 7 * t + CostScore(h) + 2 * LatencyScore(b)
      /\ x \in Nat /\ y \in Nat
      /\ Score(g, a, TRUE) = HealthMultiplier(a) * x
      /\ Score(h, b, TRUE) = HealthMultiplier(b) * y
  BY WeightedIs DEF s, t
<1> HIDE DEF x, y
<1>8. /\ CostScore(g) \in Nat /\ LatencyScore(a) \in Nat
      /\ CostScore(h) \in Nat /\ CostScore(h) <= Unit
      /\ LatencyScore(b) \in Nat /\ LatencyScore(b) <= Unit
  BY PartsBounded
<1>9. x > y
  BY <1>3, <1>6, <1>7, <1>8, UnitAssumption
<1>10. HealthMultiplier(a) = 10 /\ (HealthMultiplier(b) = 3 \/ HealthMultiplier(b) = 10)
  BY DEF HealthMultiplier
<1>11. 10 * x > 3 * y /\ 10 * x > 10 * y
  BY <1>7, <1>9
<1> QED
  BY <1>7, <1>10, <1>11

-----------------------------------------------------------------------------
(* In a sorted order the lower of two keys comes first.                    *)
LEMMA LowerComesFirst ==
  ASSUME NEW S, NEW key, NEW s \in SortedBy(S, key), \A z \in S : key[z] \in Int,
         NEW x \in Range(s), NEW y \in Range(s), key[x] < key[y]
  PROVE  \E i, j \in DOMAIN s : i < j /\ s[i] = x /\ s[j] = y
<1>1. PICK i \in DOMAIN s, j \in DOMAIN s : s[i] = x /\ s[j] = y
  BY DEF Range
<1>2. DOMAIN s = 1..Cardinality(S) /\ \A k \in DOMAIN s : s[k] \in S
  BY DEF SortedBy, SetToSeqs
<1>3. key[x] \in Int /\ key[y] \in Int /\ i \in Int /\ j \in Int
  BY <1>1, <1>2
<1>4. \A k, l \in DOMAIN s : k < l => key[s[k]] <= key[s[l]]
  BY DEF SortedBy
<1>5. i # j /\ ~(j < i)
  BY <1>1, <1>3, <1>4
<1> QED
  BY <1>1, <1>3, <1>5

(* No gateway has more outcomes than were recorded.                        *)
TotalsCounted ==
  /\ recorded <= MaxOutcomes
  /\ \A g \in Gateways : Total(stats[g]) <= recorded

(* Readmission leaves the totals alone.                                    *)
LEMMA ReadmittedTotals ==
  ASSUME TypeOK, NEW g \in Gateways
  PROVE  Total(Readmitted[g]) = Total(stats[g])
<1>1. stats[g] \in Stats
  BY DEF TypeOK
<1> QED
  BY <1>1 DEF Readmitted, Total, Stats

(* An outcome counts once.                                                 *)
LEMMA OutcomeCounts ==
  ASSUME TypeOK, NEW g \in Gateways, NEW latency \in Latencies,
         RecordSuccess(g, latency) \/ RecordFailure(g, latency)
  PROVE  /\ Total(stats'[g]) = Total(stats[g]) + 1
         /\ \A h \in Gateways \ {g} : stats'[h] = stats[h]
         /\ recorded < MaxOutcomes /\ recorded' = recorded + 1
<1>0. stats[g] \in Stats /\ stats \in [Gateways -> Stats]
  BY DEF TypeOK
<1>1. recorded < MaxOutcomes /\ recorded' = recorded + 1
  BY DEF RecordSuccess, RecordFailure, CountOutcome
<1>2. \A h \in Gateways \ {g} : stats'[h] = stats[h]
  BY <1>0 DEF RecordSuccess, RecordFailure
<1>3. \/ /\ stats'[g].successCount = stats[g].successCount + 1
         /\ stats'[g].failureCount = stats[g].failureCount
      \/ /\ stats'[g].successCount = stats[g].successCount
         /\ stats'[g].failureCount = stats[g].failureCount + 1
  <2>1. CASE RecordSuccess(g, latency)
    <3>1. PICK avg : stats' = [stats EXCEPT ![g] =
            [stats[g] EXCEPT !.successCount = @ + 1, !.consecutiveFailures = 0,
                             !.avgLatencyMs = avg, !.circuitState = "CLOSED"]]
      BY <2>1 DEF RecordSuccess
    <3> QED
      BY <1>0, <3>1 DEF Stats
  <2>2. CASE RecordFailure(g, latency)
    <3>1. PICK avg, state : stats' = [stats EXCEPT ![g] =
            [stats[g] EXCEPT !.failureCount = @ + 1, !.consecutiveFailures = @ + 1,
                             !.avgLatencyMs = avg, !.circuitState = state]]
      BY <2>2 DEF RecordFailure
    <3> QED
      BY <1>0, <3>1 DEF Stats
  <2> QED
    BY <2>1, <2>2
<1>4. stats[g].successCount \in Nat /\ stats[g].failureCount \in Nat
  BY <1>0 DEF Stats
<1> QED
  BY <1>1, <1>2, <1>3, <1>4 DEF Total

(* The bound on all outcomes bounds those of each gateway.                 *)
LEMMA TotalsAreCounted == Spec => []TotalsCounted
<1>1. Init => TotalsCounted
  BY RankingAssumption DEF Init, TotalsCounted, Total
<1>2. ASSUME TypeOK, TotalsCounted, [Next]_vars
      PROVE  TotalsCounted'
  <2>0. \A g \in Gateways : Total(stats[g]) \in Nat
    BY <1>2 DEF TypeOK, Stats, Total
  <2>1. ASSUME NEW g \in Gateways, NEW latency \in Latencies,
               RecordSuccess(g, latency) \/ RecordFailure(g, latency)
        PROVE  TotalsCounted'
    <3>1. /\ Total(stats'[g]) = Total(stats[g]) + 1
          /\ \A h \in Gateways \ {g} : stats'[h] = stats[h]
          /\ recorded < MaxOutcomes /\ recorded' = recorded + 1
      BY <1>2, <2>1, OutcomeCounts
    <3>2. recorded \in Nat /\ MaxOutcomes \in Nat
      BY <1>2, RankingAssumption DEF TypeOK
    <3>3. recorded' <= MaxOutcomes
      BY <3>1, <3>2
    <3>4. ASSUME NEW h \in Gateways PROVE Total(stats'[h]) <= recorded'
      <4>1. Total(stats[h]) <= recorded /\ Total(stats[h]) \in Nat
        BY <1>2, <2>0 DEF TotalsCounted
      <4>2. Total(stats'[h]) \in {Total(stats[h]), Total(stats[h]) + 1}
        BY <3>1
      <4> QED
        BY <3>1, <3>2, <4>1, <4>2
    <3> QED
      BY <3>3, <3>4 DEF TotalsCounted, Total
  <2>2. CASE \E isHigh \in BOOLEAN : GetRankedGateways(isHigh)
    <3>1. stats' = Readmitted /\ recorded' = recorded
      BY <2>2 DEF GetRankedGateways
    <3>2. \A g \in Gateways : Total(stats'[g]) = Total(stats[g])
      BY <1>2, <3>1, ReadmittedTotals
    <3> QED
      BY <1>2, <3>1, <3>2 DEF TotalsCounted, Total
  <2>3. CASE UNCHANGED <<stats, recorded>>
    BY <1>2, <2>3 DEF TotalsCounted, Total
  <2> QED
    BY <1>2, <2>1, <2>2, <2>3 DEF Next, CooldownExpires, vars
<1> QED
  BY <1>1, <1>2, RankingTypeOK, PTL DEF Spec

(* So the shares are fine enough for every row that is ranked.             *)
LEMMA RankedAreMeasured ==
  ASSUME TypeOK, TotalsCounted, AverageIsObserved, NEW g \in Gateways
  PROVE  Measured(Readmitted[g])
<1> DEFINE row == Readmitted[g]
           avg == stats[g].avgLatencyMs
<1>1. row \in Stats /\ row.avgLatencyMs = avg /\ Total(row) = Total(stats[g])
  BY ReadmittedRows, ReadmittedTotals
<1>2. Total(row) <= MaxOutcomes
  <2>1. /\ Total(stats[g]) <= recorded /\ recorded <= MaxOutcomes
        /\ stats[g].successCount \in Nat /\ stats[g].failureCount \in Nat
    BY DEF TotalsCounted, TypeOK, Stats
  <2>2. Total(stats[g]) \in Nat /\ recorded \in Nat /\ MaxOutcomes \in Nat
    BY <2>1, RankingAssumption DEF TypeOK, Total
  <2> QED
    BY <1>1, <2>1, <2>2
<1>3. avg * avg <= 50 * Unit
  <2>1. avg \in Nat
    BY DEF TypeOK, Stats
  <2>2. CASE avg = 0
    BY <2>2, UnitAssumption
  <2>3. CASE avg # 0
    <3>1. PICK hi \in seen[g] : avg <= hi
      BY <2>3 DEF AverageIsObserved
    <3>2. hi \in Nat /\ hi * hi <= 50 * Unit
      BY <3>1, RankingAssumption, UnitAssumption DEF TypeOK
    <3> HIDE DEF avg
    <3>3. avg * avg <= hi * avg /\ avg * hi <= hi * hi
      BY <2>1, <3>1, <3>2, TimesMonotone
    <3> QED
      BY <2>1, <3>2, <3>3, UnitAssumption
  <2> QED
    BY <2>2, <2>3
<1> QED
  BY <1>1, <1>2, <1>3 DEF Measured

(* What a ranking of usable gateways is: every two of them are in the      *)
(* order of their scores, computed from measured rows.                     *)
RankedByScore ==
  HasRanking /\ last.excluded # Gateways =>
    /\ last.isHigh \in BOOLEAN
    /\ \A g, h \in Range(last.ranked) :
         /\ g \in Gateways /\ h \in Gateways
         /\ Measured(last.rows[g]) /\ last.rows[g].circuitState # "OPEN"
         /\ Score(g, last.rows[g], last.isHigh) > Score(h, last.rows[h], last.isHigh)
              => Before(g, h)

(* getRankedGateways() sorts by score.                                     *)
LEMMA RanksByScore ==
  ASSUME TypeOK, TotalsCounted, AverageIsObserved,
         NEW isHigh \in BOOLEAN, GetRankedGateways(isHigh)
  PROVE  RankedByScore'
<1> DEFINE rows == Readmitted
           usable == Filtered(rows, isHigh)
           key == [g \in Gateways |-> -CandidateScore(g, rows[g], isHigh)]
           excluded == {g \in cooldown : stats[g].circuitState = "OPEN"}
<1>1. /\ last'.rows = rows /\ last'.isHigh = isHigh /\ last'.excluded = excluded
      /\ usable # {} => last'.ranked \in SortedBy(usable, key)
  BY DEF GetRankedGateways
<1>2. usable = Gateways \ excluded /\ excluded \subseteq Gateways
      /\ \A g \in usable : rows[g].circuitState # "OPEN"
  BY FilterIsByHealth DEF TypeOK
<1>3. IsFiniteSet(usable)
  BY <1>2, RankingAssumption, FS_Subset
<1>4. \A g \in Gateways : Measured(rows[g])
  BY RankedAreMeasured
<1>5. \A g \in usable : key[g] = -Score(g, rows[g], isHigh)
                            /\ Score(g, rows[g], isHigh) \in Nat
  <2> SUFFICES ASSUME NEW g \in usable
               PROVE  /\ key[g] = -Score(g, rows[g], isHigh)
                      /\ Score(g, rows[g], isHigh) \in Nat
    OBVIOUS
  <2>1. g \in Gateways /\ rows[g] \in Stats /\ rows[g].circuitState # "OPEN"
    BY <1>2, <1>4 DEF Measured
  <2> HIDE DEF rows, usable
  <2>2. CandidateScore(g, rows[g], isHigh) = Score(g, rows[g], isHigh)
    BY <2>1 DEF CandidateScore
  <2> QED
    BY <2>1, <2>2, ScoreNotNegative
<1>6. \A g \in usable : key[g] \in Int
  <2> HIDE DEF rows, usable, key
  <2> QED
    BY <1>5
<1>7. \A g, h \in usable :
        Score(g, rows[g], isHigh) > Score(h, rows[h], isHigh) => key[g] < key[h]
  <2> SUFFICES ASSUME NEW g \in usable, NEW h \in usable,
                      Score(g, rows[g], isHigh) > Score(h, rows[h], isHigh)
               PROVE  key[g] < key[h]
    OBVIOUS
  <2> HIDE DEF rows, usable
  <2> DEFINE x == Score(g, rows[g], isHigh)
             y == Score(h, rows[h], isHigh)
  <2>1. key[g] = -x /\ key[h] = -y /\ x \in Nat /\ y \in Nat /\ x > y
    BY <1>5
  <2> HIDE DEF x, y, key
  <2> QED
    BY <2>1
<1> HIDE DEF rows, usable, key, excluded
<1> SUFFICES ASSUME excluded # Gateways,
                    NEW g \in Range(last'.ranked), NEW h \in Range(last'.ranked)
             PROVE  /\ g \in Gateways /\ h \in Gateways
                    /\ Measured(rows[g]) /\ rows[g].circuitState # "OPEN"
                    /\ Score(g, rows[g], isHigh) > Score(h, rows[h], isHigh)
                         => Before(g, h)'
  BY <1>1 DEF RankedByScore, Before, HasRanking, Score, HealthMultiplier, Weights,
       SuccessRate, CostScore, LatencyScore, EffectiveLatency, Measured, Total
<1>8. last'.ranked \in SortedBy(usable, key) /\ Range(last'.ranked) = usable
  BY <1>1, <1>2, <1>3, SortedHasAll
<1>9. g \in usable /\ h \in usable /\ usable \subseteq Gateways
  BY <1>2, <1>8
<1>10. ASSUME Score(g, rows[g], isHigh) > Score(h, rows[h], isHigh)
       PROVE  Before(g, h)'
  <2>1. key[g] < key[h]
    BY <1>7, <1>9, <1>10
  <2>2. \E i, j \in DOMAIN last'.ranked : i < j /\ last'.ranked[i] = g /\ last'.ranked[j] = h
    BY <1>6, <1>8, <1>9, <2>1, LowerComesFirst
  <2> QED
    BY <2>2 DEF Before
<1> QED
  BY <1>2, <1>4, <1>9, <1>10

(* Rankings stay sorted by score.                                          *)
LEMMA RankingIsByScore == Spec => []RankedByScore
<1>1. Init => RankedByScore
  BY DEF Init, RankedByScore, HasRanking
<1>2. ASSUME TypeOK, TotalsCounted, AverageIsObserved, RankedByScore, [Next]_vars
      PROVE  RankedByScore'
  <2>1. CASE \E isHigh \in BOOLEAN : GetRankedGateways(isHigh)
    BY <1>2, <2>1, RanksByScore
  <2>2. CASE last' = NoRanking
    BY <2>2 DEF RankedByScore, HasRanking, NoRanking
  <2>3. CASE last' = last
    BY <1>2, <2>3 DEF RankedByScore, HasRanking, NoRanking, Before, Score,
         HealthMultiplier, Weights, SuccessRate, CostScore, LatencyScore,
         EffectiveLatency, Measured, Total
  <2> QED
    BY <1>2, <2>1, <2>2, <2>3
       DEF Next, RecordSuccess, RecordFailure, CooldownExpires, vars
<1> QED
  BY <1>1, <1>2, RankingTypeOK, TotalsAreCounted, AverageIsAnAverage, PTL DEF Spec

(* NO DOMINATED CHOICE, for any gateways, costs, totals and latencies: a   *)
(* usable gateway that is as reliable, cheap (up to 300 bps), fast and     *)
(* healthy as another, and better in one of these, is ranked first         *)
(* (getRankedGateways).                                                    *)
THEOREM DominatedIsLater == Spec => []DominatedComesLater
<1>1. ASSUME RankedByScore PROVE DominatedComesLater
  <2> SUFFICES ASSUME HasRanking, last.excluded # Gateways,
                      NEW g \in Range(last.ranked), NEW h \in Range(last.ranked),
                      AsGood(g, h), ~AsGood(h, g)
               PROVE  Before(g, h)
    BY DEF DominatedComesLater
  <2>1. /\ last.isHigh \in BOOLEAN /\ g \in Gateways /\ h \in Gateways
        /\ Measured(last.rows[g]) /\ last.rows[g].circuitState # "OPEN"
        /\ Measured(last.rows[h]) /\ last.rows[h].circuitState # "OPEN"
        /\ Score(g, last.rows[g], last.isHigh) > Score(h, last.rows[h], last.isHigh)
             => Before(g, h)
    BY <1>1 DEF RankedByScore
  <2>2. Score(g, last.rows[g], last.isHigh) > Score(h, last.rows[h], last.isHigh)
    BY <2>1, DominatingScores DEF AsGood
  <2> QED
    BY <2>1, <2>2
<1> QED
  BY <1>1, RankingIsByScore, PTL

(* HIGH VALUE GOES TO THE RELIABLE, for any gateways, totals, costs and    *)
(* latencies: above 5000 a CLOSED gateway whose success rate is higher by  *)
(* more than 3/7 is ranked before the other (getRankedGateways).           *)
THEOREM HighValueIsSafe == Spec => []HighValueGoesToReliable
<1>1. ASSUME RankedByScore PROVE HighValueGoesToReliable
  <2> SUFFICES ASSUME HasRanking, last.excluded # Gateways, last.isHigh,
                      NEW g \in Range(last.ranked), NEW h \in Range(last.ranked),
                      last.rows[g].circuitState = "CLOSED",
                      Total(last.rows[g]) > 0, Total(last.rows[h]) > 0,
                      7 * (last.rows[g].successCount * Total(last.rows[h])
                             - last.rows[h].successCount * Total(last.rows[g]))
                        > 3 * Total(last.rows[g]) * Total(last.rows[h])
               PROVE  Before(g, h)
    BY DEF HighValueGoesToReliable
  <2>1. /\ last.isHigh = TRUE /\ g \in Gateways /\ h \in Gateways
        /\ Measured(last.rows[g]) /\ Measured(last.rows[h])
        /\ Score(g, last.rows[g], last.isHigh) > Score(h, last.rows[h], last.isHigh)
             => Before(g, h)
    BY <1>1 DEF RankedByScore
  <2>2. Score(g, last.rows[g], TRUE) > Score(h, last.rows[h], TRUE)
    BY <2>1, ReliableOutweighs
  <2> QED
    BY <2>1, <2>2
<1> QED
  BY <1>1, RankingIsByScore, PTL
=============================================================================
