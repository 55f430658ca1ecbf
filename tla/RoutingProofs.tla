---------------------------- MODULE RoutingProofs ----------------------------
(***************************************************************************)
(* The circuit breaker trips after three failures, for any number of       *)
(* gateways and of payments in flight.                                     *)
(***************************************************************************)
EXTENDS RoutingEngine, TLAPS

-----------------------------------------------------------------------------
(* The locals of a payment, by the place it is at.                         *)
HalfOpenRow == [circuitState |-> "HALF_OPEN", consecutiveFailures |-> 0]
ClosedRow == [circuitState |-> "CLOSED", consecutiveFailures |-> 0]

Recorders == {"delkey", "savesuccess", "setkey", "savefailure"}

LocalsOK(l) ==
  /\ l.at = "rank" =>
       /\ l.rows \in [Gateways -> Stats]
       /\ l.todo \in [Gateways -> {"get", "save", "done"}]
       /\ \A g \in Gateways : l.todo[g] = "save" => l.rows[g] = HalfOpenRow
  /\ l.at \in Recorders \cup {"charging"} => l.gateway \in Gateways
  /\ l.at \in Recorders => l.row \in Stats

TypeInv == TypeOK /\ \A p \in Payments : LocalsOK(pay[p])

(* Payment p is inside recordSuccess or recordFailure for gateway g.       *)
Records(p, g) == pay[p].gateway = g /\ pay[p].at \in Recorders

(* A row says of the last n outcomes what it should.                       *)
Agrees(row, n) ==
  /\ row.consecutiveFailures = n
  /\ row.circuitState = "OPEN" <=> n >= Threshold

(* As long as readers of a row did not overlap, one payment at most has it *)
(* in hand; the saved row agrees with the history, or the one about to be  *)
(* saved does.                                                             *)
RowInv(g) ==
  /\ \A p, q \in Payments : Holds(p, g) /\ Holds(q, g) => p = q
  /\ (\A p \in Payments : ~Records(p, g)) => Agrees(stats[g], streak[g])
  /\ \A p \in Payments : Records(p, g) => Agrees(pay[p].row, streak[g])

BreakerInv == \A g \in Gateways \ mixed : RowInv(g)

-----------------------------------------------------------------------------
(* The counter stays within the threshold.                                 *)
LEMMA Bumped ==
  ASSUME NEW n \in 0..Threshold
  PROVE  Bump(n) \in 0..Threshold /\ (Bump(n) < Threshold => n < Threshold)
         /\ (n >= Threshold => Bump(n) = n)
BY DEF Bump, Threshold

(* The rows the engine writes are rows.                                    *)
LEMMA RowsTyped ==
  /\ HalfOpenRow \in Stats /\ ClosedRow \in Stats
  /\ \A s \in Stats : /\ s.circuitState \in CircuitState
                      /\ s.consecutiveFailures \in 0..Threshold
BY DEF HalfOpenRow, ClosedRow, Stats, CircuitState, Threshold

(* What a step does to the payment that takes it.                          *)
Sets(p, l) == pay' = [pay EXCEPT ![p] = l]

(* A step of payment p changes the locals of p alone.                      *)
LEMMA SetsTyped ==
  ASSUME TypeInv, NEW p \in Payments, NEW l \in Locals, LocalsOK(l), Sets(p, l)
  PROVE  /\ pay' \in [Payments -> Locals]
         /\ \A q \in Payments : LocalsOK(pay'[q])
         /\ pay'[p] = l /\ \A q \in Payments : q # p => pay'[q] = pay[q]
<1>1. pay \in [Payments -> Locals] /\ \A q \in Payments : LocalsOK(pay[q])
  BY DEF TypeInv, TypeOK
<1>2. pay'[p] = l /\ \A q \in Payments : q # p => pay'[q] = pay[q]
  BY <1>1 DEF Sets
<1>3. pay' \in [Payments -> Locals]
  BY <1>1 DEF Sets
<1> QED
  BY <1>1, <1>2, <1>3

(* What a payment with locals l holds and records, as Holds and Records    *)
(* say it of the payments there are.                                       *)
LRecords(l, g) == l.gateway = g /\ l.at \in Recorders
LHolds(l, g) == LRecords(l, g) \/ (l.at = "rank" /\ l.todo[g] # "done")

(* Holding and recording are seen from the locals.                         *)
LEMMA HoldsByLocals ==
  ASSUME NEW p, NEW g
  PROVE  /\ Records(p, g) <=> LRecords(pay[p], g)
         /\ Holds(p, g) <=> LHolds(pay[p], g)
         /\ Records(p, g)' <=> LRecords(pay'[p], g)
         /\ Holds(p, g)' <=> LHolds(pay'[p], g)
BY DEF Records, Holds, LRecords, LHolds, Recorders

(* A step that leaves the row of g and its history alone, and takes the    *)
(* row no further into hand, keeps its invariant.                          *)
LEMMA Undisturbed ==
  ASSUME NEW g, RowInv(g), NEW p \in Payments, NEW l,
         pay'[p] = l, \A q \in Payments : q # p => pay'[q] = pay[q],
         stats'[g] = stats[g], streak'[g] = streak[g],
         LHolds(l, g) => LHolds(pay[p], g),
         LRecords(l, g) <=> LRecords(pay[p], g),
         LRecords(l, g) => l.row = pay[p].row
  PROVE  RowInv(g)'
<1>1. \A q \in Payments :
        /\ Records(q, g)' <=> Records(q, g)
        /\ Holds(q, g)' => Holds(q, g)
        /\ Records(q, g) => pay'[q].row = pay[q].row
  BY HoldsByLocals
<1>2. (\A q, r \in Payments : Holds(q, g) /\ Holds(r, g) => q = r)'
  BY <1>1 DEF RowInv
<1>3. ((\A q \in Payments : ~Records(q, g)) => Agrees(stats[g], streak[g]))'
  BY <1>1 DEF RowInv, Agrees
<1>4. (\A q \in Payments : Records(q, g) => Agrees(pay[q].row, streak[g]))'
  BY <1>1 DEF RowInv, Agrees
<1> QED
  BY <1>2, <1>3, <1>4 DEF RowInv

(* A payment that is alone with the row of g may load and save it, if what *)
(* it holds or leaves agrees with the history.                             *)
LEMMA SoleHolder ==
  ASSUME NEW g, NEW p \in Payments, NEW l,
         pay'[p] = l, \A q \in Payments : q # p => pay'[q] = pay[q],
         \A q \in Payments : q # p => ~Holds(q, g),
         LRecords(l, g) => Agrees(l.row, streak'[g]),
         ~LRecords(l, g) => Agrees(stats'[g], streak'[g])
  PROVE  RowInv(g)'
<1>1. \A q \in Payments : q # p => ~Holds(q, g)' /\ ~Records(q, g)'
  BY HoldsByLocals DEF Holds, Records, Recorders
<1>2. (\A q, r \in Payments : Holds(q, g) /\ Holds(r, g) => q = r)'
  BY <1>1
<1>3. ((\A q \in Payments : ~Records(q, g)) => Agrees(stats[g], streak[g]))'
  BY HoldsByLocals DEF Agrees
<1>4. (\A q \in Payments : Records(q, g) => Agrees(pay[q].row, streak[g]))'
  BY <1>1, HoldsByLocals DEF Agrees
<1> QED
  BY <1>2, <1>3, <1>4 DEF RowInv

-----------------------------------------------------------------------------
(* Types and breaker invariant, action by action.                          *)
Inv == TypeInv /\ BreakerInv

(* An action that gives payment p well-formed locals, saves a well-formed  *)
(* row and keeps the invariant of every row that is still not mixed up.    *)
LEMMA StepKeeps ==
  ASSUME Inv, NEW p \in Payments, NEW l \in Locals, LocalsOK(l), Sets(p, l),
         stats' \in [Gateways -> Stats], isMockMode' \in BOOLEAN,
         cooldown' \in [Backends -> SUBSET Gateways],
         streak' \in [Gateways -> 0..Threshold],
         mixed' \subseteq Gateways, mixed \subseteq mixed',
         \A g \in Gateways \ mixed' : RowInv(g) => RowInv(g)'
  PROVE  Inv'
<1>1. TypeInv'
  BY SetsTyped DEF Inv, TypeInv, TypeOK
<1>2. BreakerInv'
  BY DEF Inv, BreakerInv
<1> QED
  BY <1>1, <1>2 DEF Inv

(* An action that leaves the rows and their history alone, and with which  *)
(* payment p takes no row into hand.                                       *)
LEMMA LocalStep ==
  ASSUME Inv, NEW p \in Payments, NEW l \in Locals, LocalsOK(l), Sets(p, l),
         UNCHANGED <<stats, streak, mixed, isMockMode>>,
         cooldown' \in [Backends -> SUBSET Gateways],
         \A g \in Gateways :
           /\ LHolds(l, g) => LHolds(pay[p], g)
           /\ LRecords(l, g) <=> LRecords(pay[p], g)
           /\ LRecords(l, g) => l.row = pay[p].row
  PROVE  Inv'
<1>1. TypeOK
  BY DEF Inv, TypeInv
<1>2. pay'[p] = l /\ \A q \in Payments : q # p => pay'[q] = pay[q]
  BY SetsTyped DEF Inv
<1>3. \A g \in Gateways \ mixed' : RowInv(g) => RowInv(g)'
  BY <1>2, Undisturbed
<1> QED
  BY <1>1, <1>3, StepKeeps DEF TypeOK

(* getRankedGateways() returns when no row is in hand.                     *)
LEMMA ReturnRankingStep ==
  ASSUME Inv, NEW p \in Payments, ReturnRanking(p)
  PROVE  Inv'
<1> DEFINE left == IF Usable(pay[p].rows) = {} THEN Gateways
                                               ELSE Usable(pay[p].rows)
           l == [pay[p] EXCEPT !.at = "next", !.todo = << >>, !.left = left]
<1> USE DEF Inv
<1>1. TypeInv /\ TypeOK /\ pay[p] \in Locals /\ pay[p].at = "rank"
  BY DEF TypeInv, TypeOK, ReturnRanking
<1>2. left \subseteq Gateways
  BY DEF Usable
<1> HIDE DEF left
<1>3. l \in Locals /\ l.at = "next"
  BY <1>1, <1>2 DEF Locals
<1>4. Sets(p, l)
  BY <1>1 DEF ReturnRanking, Sets, TypeOK, left
<1> HIDE DEF l
<1>5. LocalsOK(l)
  BY <1>3 DEF LocalsOK, Recorders
<1>6. UNCHANGED <<stats, streak, mixed, isMockMode, cooldown>>
  BY DEF ReturnRanking, redisVars
<1>7. \A g \in Gateways :
        ~LHolds(l, g) /\ ~LRecords(l, g) /\ ~LRecords(pay[p], g)
  BY <1>1, <1>3 DEF LHolds, LRecords, Recorders
<1> QED
  BY <1>1, <1>3, <1>4, <1>5, <1>6, <1>7, LocalStep DEF TypeOK

(* Calling a gateway touches no row.                                       *)
LEMMA AttemptStep ==
  ASSUME Inv, NEW p \in Payments, NEW h \in Gateways, Attempt(p, h)
  PROVE  Inv'
<1> DEFINE l == [pay[p] EXCEPT !.at = "charging", !.gateway = h,
                               !.left = @ \ {h}]
<1> USE DEF Inv
<1>1. TypeInv /\ TypeOK /\ pay[p] \in Locals /\ pay[p].at = "next"
  BY DEF TypeInv, TypeOK, Attempt
<1>2. l \in Locals /\ l.at = "charging" /\ l.gateway = h
  BY <1>1 DEF Locals
<1>3. Sets(p, l)
  BY <1>1 DEF Attempt, Sets, TypeOK
<1> HIDE DEF l
<1>4. LocalsOK(l)
  BY <1>2 DEF LocalsOK, Recorders
<1>5. UNCHANGED <<stats, streak, mixed, isMockMode, cooldown>>
  BY DEF Attempt, redisVars
<1>6. \A g \in Gateways :
        ~LHolds(l, g) /\ ~LRecords(l, g) /\ ~LRecords(pay[p], g)
  BY <1>1, <1>2 DEF LHolds, LRecords, Recorders
<1> QED
  BY <1>1, <1>2, <1>3, <1>4, <1>5, <1>6, LocalStep DEF TypeOK

(* A payment at rest holds nothing.                                        *)
LEMMA RestingOK == Resting \in Locals /\ LocalsOK(Resting) /\ Resting.at = "idle"
BY DEF Resting, Locals, LocalsOK, Recorders

(* Neither does giving up.                                                 *)
LEMMA GiveUpStep ==
  ASSUME Inv, NEW p \in Payments, GiveUp(p)
  PROVE  Inv'
<1>1. TypeInv /\ TypeOK /\ pay[p].at = "next" /\ Sets(p, Resting)
  BY DEF Inv, TypeInv, GiveUp, Sets
<1>2. UNCHANGED <<stats, streak, mixed, isMockMode, cooldown>>
  BY DEF GiveUp, redisVars
<1>3. \A g \in Gateways : ~LHolds(Resting, g) /\ ~LRecords(Resting, g)
                          /\ ~LRecords(pay[p], g)
  BY <1>1, RestingOK DEF LHolds, LRecords, Recorders
<1> QED
  BY <1>1, <1>2, <1>3, RestingOK, LocalStep DEF TypeOK

(* Looking at the cooldown keeps the row in hand or lets go of it.         *)
LEMMA CheckCooldownStep ==
  ASSUME Inv, NEW p \in Payments, NEW h \in Gateways, CheckCooldown(p, h)
  PROVE  Inv'
<1> DEFINE Gone == [pay[p] EXCEPT !.todo[h] = "save", !.rows[h] = HalfOpenRow]
           There == [pay[p] EXCEPT !.todo[h] = "done"]
           l == IF h \in cooldown[Active] THEN There ELSE Gone
<1> USE DEF Inv
<1>1. /\ TypeInv /\ TypeOK /\ pay[p] \in Locals
      /\ pay[p].at = "rank" /\ pay[p].todo[h] = "get"
  BY DEF TypeInv, TypeOK, CheckCooldown
<1>2. LocalsOK(pay[p])
  BY DEF TypeInv
<1>3. /\ pay[p].todo \in [Gateways -> {"get", "save", "done"}]
      /\ pay[p].rows \in [Gateways -> Stats]
      /\ \A g \in Gateways : pay[p].todo[g] = "save"
                             => pay[p].rows[g] = HalfOpenRow
  BY <1>1, <1>2 DEF LocalsOK
<1>4. /\ Gone \in Locals /\ Gone.at = "rank"
      /\ Gone.todo = [pay[p].todo EXCEPT ![h] = "save"]
      /\ Gone.rows = [pay[p].rows EXCEPT ![h] = HalfOpenRow]
  BY <1>1, <1>3, RowsTyped DEF Locals
<1>5. /\ There \in Locals /\ There.at = "rank"
      /\ There.todo = [pay[p].todo EXCEPT ![h] = "done"]
      /\ There.rows = pay[p].rows
  BY <1>1, <1>3 DEF Locals
<1>6. Sets(p, l)
  BY <1>1 DEF CheckCooldown, Sets, TypeOK, HalfOpenRow
<1> HIDE DEF Gone, There
<1>7. LocalsOK(Gone) /\ LocalsOK(There)
  BY <1>3, <1>4, <1>5, RowsTyped DEF LocalsOK, Recorders
<1>8. l \in Locals /\ LocalsOK(l) /\ l.at = "rank"
  BY <1>4, <1>5, <1>7
<1>9. \A g \in Gateways : l.todo[g] # "done" => pay[p].todo[g] # "done"
  BY <1>1, <1>3, <1>4, <1>5
<1> HIDE DEF l
<1>10. UNCHANGED <<stats, streak, mixed, isMockMode, cooldown>>
  BY DEF CheckCooldown, redisVars
<1>11. \A g \in Gateways : /\ LHolds(l, g) => LHolds(pay[p], g)
                           /\ ~LRecords(l, g) /\ ~LRecords(pay[p], g)
  BY <1>1, <1>8, <1>9 DEF LHolds, LRecords, Recorders
<1> QED
  BY <1>1, <1>6, <1>8, <1>10, <1>11, LocalStep DEF TypeOK

(* Between loading and saving the row: the cooldown key.                   *)
LEMMA KeySteps ==
  ASSUME Inv, NEW p \in Payments, DeleteKey(p) \/ SetKey(p)
  PROVE  Inv'
<1> DEFINE to == IF pay[p].at = "delkey" THEN "savesuccess" ELSE "savefailure"
           l == [pay[p] EXCEPT !.at = to]
<1> USE DEF Inv
<1>1. /\ TypeInv /\ TypeOK /\ pay[p] \in Locals /\ LocalsOK(pay[p])
      /\ pay[p].at \in Recorders /\ to \in Recorders
  BY DEF TypeInv, TypeOK, DeleteKey, SetKey, Recorders
<1>2. /\ l \in Locals /\ l.at = to /\ l.row = pay[p].row
      /\ l.gateway = pay[p].gateway
  BY <1>1 DEF Locals, Recorders
<1>3. Sets(p, l)
  BY <1>1 DEF DeleteKey, SetKey, Sets, TypeOK
<1> HIDE DEF l, to
<1>4. LocalsOK(l)
  BY <1>1, <1>2 DEF LocalsOK, Recorders
<1>5. UNCHANGED <<stats, streak, mixed, isMockMode>>
  BY DEF DeleteKey, SetKey
<1>6. pay[p].gateway \in Gateways
  BY <1>1 DEF LocalsOK
<1>7. cooldown' \in [Backends -> SUBSET Gateways]
  BY <1>1, <1>6 DEF DeleteKey, SetKey, TypeOK, Backends, Active
<1>8. \A g \in Gateways : /\ LHolds(l, g) => LHolds(pay[p], g)
                          /\ LRecords(l, g) <=> LRecords(pay[p], g)
                          /\ LRecords(l, g) => l.row = pay[p].row
  BY <1>1, <1>2 DEF LHolds, LRecords, Recorders
<1> QED
  BY <1>1, <1>2, <1>3, <1>4, <1>5, <1>7, <1>8, LocalStep

(* Reads noted: a row that stays out of mixed is in no other hand.         *)
LEMMA NotedReads ==
  ASSUME Inv, NEW p \in Payments, NEW gs \in SUBSET Gateways, NoteReads(p, gs)
  PROVE  /\ mixed' \subseteq Gateways /\ mixed \subseteq mixed'
         /\ \A g \in gs \ mixed' : \A q \in Payments : q # p => ~Holds(q, g)
BY DEF Inv, TypeInv, TypeOK, NoteReads

(* With no other payment at the row, and this one not recording, the saved *)
(* row is the one that agrees with the history.                            *)
LEMMA SavedRowAgrees ==
  ASSUME NEW g, RowInv(g), NEW p \in Payments, ~LRecords(pay[p], g),
         \A q \in Payments : q # p => ~Holds(q, g)
  PROVE  Agrees(stats[g], streak[g])
<1>1. \A q \in Payments : ~Records(q, g)
  BY HoldsByLocals DEF LHolds
<1> QED
  BY <1>1 DEF RowInv

(* Reading the rows takes the OPEN ones into hand.                         *)
LEMMA FindStatsStep ==
  ASSUME Inv, NEW p \in Payments, FindStats(p)
  PROVE  Inv'
<1> DEFINE open == {g \in Gateways : stats[g].circuitState = "OPEN"}
           todo == [g \in Gateways |->
                      IF stats[g].circuitState = "OPEN" THEN "get" ELSE "done"]
           l == [Resting EXCEPT !.at = "rank", !.rows = stats, !.todo = todo]
<1> USE DEF Inv
<1>1. TypeInv /\ TypeOK /\ pay[p].at = "idle" /\ stats \in [Gateways -> Stats]
  BY DEF TypeInv, TypeOK, FindStats
<1>2. /\ todo \in [Gateways -> {"get", "save", "done"}]
      /\ \A g \in Gateways : todo[g] # "save" /\ (g \notin open => todo[g] = "done")
  OBVIOUS
<1>3. Sets(p, l) /\ NoteReads(p, open)
  BY DEF FindStats, Sets
<1> HIDE DEF todo, open
<1>4. l \in Locals /\ l.at = "rank" /\ l.todo = todo /\ l.rows = stats
  BY <1>1, <1>2 DEF Locals, Resting
<1> HIDE DEF l
<1>5. LocalsOK(l)
  BY <1>1, <1>2, <1>4 DEF LocalsOK, Recorders
<1>6. UNCHANGED <<stats, streak, isMockMode, cooldown>>
  BY DEF FindStats, redisVars
<1>7. open \subseteq Gateways
  BY DEF open
<1>8. /\ mixed' \subseteq Gateways /\ mixed \subseteq mixed'
      /\ \A g \in open \ mixed' : \A q \in Payments : q # p => ~Holds(q, g)
  BY <1>3, <1>7, NotedReads
<1>9. pay'[p] = l /\ \A q \in Payments : q # p => pay'[q] = pay[q]
  BY <1>1, <1>3, <1>4, <1>5, SetsTyped
<1>10. ASSUME NEW g \in Gateways \ mixed', RowInv(g)
       PROVE  RowInv(g)'
  <2>1. ~LRecords(l, g) /\ ~LRecords(pay[p], g)
    BY <1>1, <1>4 DEF LRecords, Recorders
  <2>2. CASE g \in open
    <3>1. \A q \in Payments : q # p => ~Holds(q, g)
      BY <1>8, <2>2
    <3>2. Agrees(stats'[g], streak'[g])
      BY <1>6, <1>10, <2>1, <3>1, SavedRowAgrees
    <3> QED
      BY <1>9, <2>1, <3>1, <3>2, SoleHolder
  <2>3. CASE g \notin open
    <3>1. ~LHolds(l, g)
      BY <1>2, <1>4, <2>1, <2>3 DEF LHolds
    <3> QED
      BY <1>6, <1>9, <1>10, <2>1, <3>1, Undisturbed
  <2> QED
    BY <2>2, <2>3
<1> QED
  BY <1>1, <1>3, <1>4, <1>5, <1>6, <1>8, <1>10, StepKeeps DEF TypeOK

(* recordSuccess and recordFailure load a row: what they will save agrees  *)
(* with the history of outcomes, this one included.                        *)
LEMMA Loads ==
  ASSUME Inv, NEW p \in Payments, NEW to \in Recorders, NEW row \in Stats,
         NEW n \in 0..Threshold, pay[p].at = "charging",
         Sets(p, [pay[p] EXCEPT !.at = to, !.row = row]),
         streak' = [streak EXCEPT ![pay[p].gateway] = n],
         NoteReads(p, {pay[p].gateway}),
         UNCHANGED <<stats, isMockMode, cooldown>>,
         Agrees(stats[pay[p].gateway], streak[pay[p].gateway]) => Agrees(row, n)
  PROVE  Inv'
<1> DEFINE h == pay[p].gateway
           l == [pay[p] EXCEPT !.at = to, !.row = row]
<1> USE DEF Inv
<1>1. TypeInv /\ TypeOK /\ pay[p] \in Locals /\ LocalsOK(pay[p])
  BY DEF TypeInv, TypeOK
<1>2. h \in Gateways
  BY <1>1 DEF LocalsOK, Recorders
<1>3. l \in Locals /\ l.at = to /\ l.row = row /\ l.gateway = h /\ Sets(p, l)
  BY <1>1, <1>2 DEF Locals, Recorders
<1> HIDE DEF l
<1>4. LocalsOK(l)
  BY <1>2, <1>3 DEF LocalsOK, Recorders
<1>5. /\ mixed' \subseteq Gateways /\ mixed \subseteq mixed'
      /\ h \notin mixed' => \A q \in Payments : q # p => ~Holds(q, h)
  BY <1>2, NotedReads
<1>6. pay'[p] = l /\ \A q \in Payments : q # p => pay'[q] = pay[q]
  BY <1>1, <1>3, <1>4, SetsTyped
<1>7. streak' \in [Gateways -> 0..Threshold] /\ streak'[h] = n
      /\ \A g \in Gateways : g # h => streak'[g] = streak[g]
  BY <1>1, <1>2 DEF TypeOK
<1>8. ASSUME NEW g \in Gateways \ mixed', RowInv(g)
      PROVE  RowInv(g)'
  <2>1. ~LRecords(pay[p], g)
    BY DEF LRecords, Recorders
  <2>2. CASE g = h
    <3>1. \A q \in Payments : q # p => ~Holds(q, h)
      BY <1>5, <2>2
    <3>2. Agrees(row, n)
      BY <1>8, <2>1, <2>2, <3>1, SavedRowAgrees
    <3>3. LRecords(l, g) /\ Agrees(l.row, streak'[g])
      BY <1>3, <1>7, <2>2, <3>2 DEF LRecords
    <3> QED
      BY <1>6, <2>2, <3>1, <3>3, SoleHolder
  <2>3. CASE g # h
    <3>1. ~LRecords(l, g) /\ ~LHolds(l, g)
      BY <1>3, <2>3 DEF LRecords, LHolds, Recorders
    <3> QED
      BY <1>6, <1>7, <1>8, <2>1, <2>3, <3>1, Undisturbed
  <2> QED
    BY <2>2, <2>3
<1> QED
  BY <1>1, <1>3, <1>4, <1>5, <1>7, <1>8, StepKeeps DEF TypeOK

(* recordSuccess loads: closed, count 0.                                   *)
LEMMA LoadForSuccessStep ==
  ASSUME Inv, NEW p \in Payments, LoadForSuccess(p)
  PROVE  Inv'
<1> DEFINE to == IF stats[pay[p].gateway].circuitState = "CLOSED"
                 THEN "savesuccess" ELSE "delkey"
<1>1. pay \in [Payments -> Locals]
  BY DEF Inv, TypeInv, TypeOK
<1>2. to \in Recorders /\ Agrees(ClosedRow, 0) /\ 0 \in 0..Threshold
  BY DEF Recorders, Agrees, ClosedRow, Threshold
<1>3. Sets(p, [pay[p] EXCEPT !.at = to, !.row = ClosedRow])
  BY <1>1 DEF LoadForSuccess, Sets, ClosedRow
<1>4. /\ streak' = [streak EXCEPT ![pay[p].gateway] = 0]
      /\ NoteReads(p, {pay[p].gateway})
      /\ UNCHANGED <<stats, isMockMode, cooldown>>
      /\ pay[p].at = "charging"
  BY DEF LoadForSuccess, redisVars
<1> HIDE DEF to
<1> QED
  BY <1>2, <1>3, <1>4, RowsTyped, Loads

(* The row after one more failure: the count goes on, and the third in a   *)
(* row opens the circuit.                                                  *)
Failed(row) == [row EXCEPT !.consecutiveFailures = Bump(@)]
Decided(row) == IF Trips(row) THEN [row EXCEPT !.circuitState = "OPEN"] ELSE row

(* One more failure agrees with a history that is longer by one.           *)
LEMMA FailureAgrees ==
  ASSUME NEW s \in Stats, NEW n \in 0..Threshold
  PROVE  /\ Decided(Failed(s)) \in Stats
         /\ Agrees(s, n) => Agrees(Decided(Failed(s)), Bump(n))
<1>1. /\ Failed(s) \in Stats
      /\ Failed(s).consecutiveFailures = Bump(s.consecutiveFailures)
      /\ Failed(s).circuitState = s.circuitState
  BY Bumped, RowsTyped DEF Failed, Stats
<1> DEFINE f == Failed(s)
<1> HIDE DEF f
<1>2. /\ f \in Stats
      /\ f.consecutiveFailures = Bump(s.consecutiveFailures)
      /\ f.circuitState = s.circuitState
  BY <1>1 DEF f
<1>3. /\ Decided(f) \in Stats
      /\ Decided(f).consecutiveFailures = f.consecutiveFailures
      /\ Decided(f).circuitState = IF Trips(f) THEN "OPEN" ELSE f.circuitState
  BY <1>2 DEF Decided, Stats, CircuitState
<1>4. Agrees(s, n) => Agrees(Decided(f), Bump(n))
  BY <1>2, <1>3, Bumped DEF Agrees, Trips, Bump, Threshold
<1> QED
  BY <1>3, <1>4 DEF f

(* recordFailure loads: one more failure, and the trip if it is the third. *)
LEMMA LoadForFailureStep ==
  ASSUME Inv, NEW p \in Payments, LoadForFailure(p)
  PROVE  Inv'
<1> DEFINE h == pay[p].gateway
           row == Failed(stats[h])
           to == IF Trips(row) THEN "setkey" ELSE "savefailure"
<1>1. /\ pay \in [Payments -> Locals] /\ LocalsOK(pay[p])
      /\ stats \in [Gateways -> Stats] /\ streak \in [Gateways -> 0..Threshold]
  BY DEF Inv, TypeInv, TypeOK
<1>2. pay[p].at = "charging" /\ to \in Recorders
  BY DEF LoadForFailure, Recorders
<1>3. h \in Gateways
  BY <1>1, <1>2 DEF LocalsOK
<1>4. Sets(p, [pay[p] EXCEPT !.at = to, !.row = Decided(row)])
  BY <1>1 DEF LoadForFailure, Sets, Failed, Decided
<1>5. /\ streak' = [streak EXCEPT ![h] = Bump(streak[h])]
      /\ NoteReads(p, {h})
      /\ UNCHANGED <<stats, isMockMode, cooldown>>
  BY <1>1, <1>3 DEF LoadForFailure, redisVars
<1>6. /\ Decided(row) \in Stats
      /\ Agrees(stats[h], streak[h]) => Agrees(Decided(row), Bump(streak[h]))
  BY <1>1, <1>3, FailureAgrees
<1>7. Bump(streak[h]) \in 0..Threshold
  BY <1>1, <1>3, Bumped
<1> HIDE DEF row, to
<1> QED
  BY <1>2, <1>4, <1>5, <1>6, <1>7, Loads

(* A payment that holds the row of a gateway saves it and lets go of it.   *)
LEMMA Saves ==
  ASSUME Inv, NEW p \in Payments, NEW h \in Gateways, NEW row \in Stats,
         NEW n \in 0..Threshold, NEW l \in Locals, LocalsOK(l), Sets(p, l),
         LHolds(pay[p], h), ~LHolds(l, h),
         stats' = [stats EXCEPT ![h] = row],
         streak' = [streak EXCEPT ![h] = n],
         UNCHANGED <<mixed, isMockMode, cooldown>>,
         RowInv(h) => Agrees(row, n),
         \A g \in Gateways : g # h =>
           /\ LHolds(l, g) => LHolds(pay[p], g)
           /\ ~LRecords(l, g) /\ ~LRecords(pay[p], g)
  PROVE  Inv'
<1> USE DEF Inv
<1>1. TypeInv /\ TypeOK
  BY DEF TypeInv
<1>2. pay'[p] = l /\ \A q \in Payments : q # p => pay'[q] = pay[q]
  BY <1>1, SetsTyped
<1>3. /\ stats' \in [Gateways -> Stats] /\ streak' \in [Gateways -> 0..Threshold]
      /\ stats'[h] = row /\ streak'[h] = n
      /\ \A g \in Gateways : g # h => stats'[g] = stats[g] /\ streak'[g] = streak[g]
  BY <1>1 DEF TypeOK
<1>4. ASSUME NEW g \in Gateways \ mixed', RowInv(g)
      PROVE  RowInv(g)'
  <2>1. CASE g = h
    <3>1. \A q \in Payments : q # p => ~Holds(q, g)
      BY <1>4, <2>1, HoldsByLocals DEF RowInv
    <3>2. ~LRecords(l, g) /\ Agrees(stats'[g], streak'[g])
      BY <1>3, <1>4, <2>1 DEF LHolds
    <3> QED
      BY <1>2, <3>1, <3>2, SoleHolder
  <2>2. CASE g # h
    BY <1>2, <1>3, <1>4, <2>2, Undisturbed
  <2> QED
    BY <2>1, <2>2
<1> QED
  BY <1>1, <1>3, <1>4, StepKeeps DEF TypeOK

(* The readmission is saved: a new history begins.                         *)
LEMMA SaveHalfOpenStep ==
  ASSUME Inv, NEW p \in Payments, NEW h \in Gateways, SaveHalfOpen(p, h)
  PROVE  Inv'
<1> DEFINE l == [pay[p] EXCEPT !.todo[h] = "done"]
<1>1. /\ pay \in [Payments -> Locals] /\ LocalsOK(pay[p])
      /\ pay[p].at = "rank" /\ pay[p].todo[h] = "save"
  BY DEF Inv, TypeInv, TypeOK, SaveHalfOpen
<1>2. /\ pay[p].todo \in [Gateways -> {"get", "save", "done"}]
      /\ pay[p].rows \in [Gateways -> Stats]
      /\ \A g \in Gateways : pay[p].todo[g] = "save"
                             => pay[p].rows[g] = HalfOpenRow
  BY <1>1 DEF LocalsOK
<1>3. /\ l \in Locals /\ l.at = "rank" /\ l.rows = pay[p].rows
      /\ l.todo = [pay[p].todo EXCEPT ![h] = "done"]
  BY <1>1, <1>2 DEF Locals
<1>4. Sets(p, l)
  BY <1>1 DEF SaveHalfOpen, Sets
<1> HIDE DEF l
<1>5. LocalsOK(l)
  BY <1>2, <1>3 DEF LocalsOK, Recorders
<1>6. /\ stats' = [stats EXCEPT ![h] = HalfOpenRow]
      /\ streak' = [streak EXCEPT ![h] = 0]
      /\ UNCHANGED <<mixed, isMockMode, cooldown>>
  BY <1>1, <1>2 DEF SaveHalfOpen, redisVars
<1>7. Agrees(HalfOpenRow, 0) /\ HalfOpenRow \in Stats /\ 0 \in 0..Threshold
  BY RowsTyped DEF Agrees, HalfOpenRow, Threshold
<1>8. LHolds(pay[p], h) /\ ~LHolds(l, h)
  BY <1>1, <1>2, <1>3 DEF LHolds, LRecords, Recorders
<1>9. \A g \in Gateways : g # h => /\ LHolds(l, g) => LHolds(pay[p], g)
                                   /\ ~LRecords(l, g) /\ ~LRecords(pay[p], g)
  BY <1>1, <1>2, <1>3 DEF LHolds, LRecords, Recorders
<1> QED
  BY <1>3, <1>4, <1>5, <1>6, <1>7, <1>8, <1>9, Saves

(* recordSuccess and recordFailure save what they loaded and changed.      *)
LEMMA RecordSaves ==
  ASSUME Inv, NEW p \in Payments, SaveSuccess(p) \/ SaveFailure(p)
  PROVE  Inv'
<1> DEFINE h == pay[p].gateway
           Next1 == [pay[p] EXCEPT !.at = "next", !.gateway = "none",
                                   !.row = << >>]
           l == IF pay[p].at = "savesuccess" THEN Resting ELSE Next1
<1>1. /\ pay \in [Payments -> Locals] /\ LocalsOK(pay[p])
      /\ pay[p].at \in Recorders /\ streak \in [Gateways -> 0..Threshold]
  BY DEF Inv, TypeInv, TypeOK, SaveSuccess, SaveFailure, Recorders
<1>2. h \in Gateways /\ pay[p].row \in Stats
  BY <1>1 DEF LocalsOK
<1>3. Next1 \in Locals /\ Next1.at = "next"
  BY <1>1 DEF Locals
<1>4. Sets(p, l)
  BY <1>1 DEF SaveSuccess, SaveFailure, Sets
<1> HIDE DEF Next1
<1>5. LocalsOK(l) /\ l \in Locals /\ l.at \in {"idle", "next"}
  BY <1>3, RestingOK DEF LocalsOK, Recorders
<1> HIDE DEF l
<1>6. /\ stats' = [stats EXCEPT ![h] = pay[p].row]
      /\ streak' = [streak EXCEPT ![h] = streak[h]]
      /\ UNCHANGED <<mixed, isMockMode, cooldown>>
  BY <1>1 DEF SaveSuccess, SaveFailure, redisVars
<1>7. LRecords(pay[p], h) /\ LHolds(pay[p], h) /\ streak[h] \in 0..Threshold
  BY <1>1, <1>2 DEF LHolds, LRecords
<1>8. RowInv(h) => Agrees(pay[p].row, streak[h])
  BY <1>7, HoldsByLocals DEF RowInv
<1>9. \A g \in Gateways : /\ ~LHolds(l, g) /\ ~LRecords(l, g)
                          /\ g # h => ~LRecords(pay[p], g)
  BY <1>5 DEF LHolds, LRecords, Recorders
<1> QED
  BY <1>2, <1>4, <1>5, <1>6, <1>7, <1>8, <1>9, Saves

(* Redis, and nothing else, changes.                                       *)
LEMMA RedisSteps ==
  ASSUME Inv, Failover \/ \E g \in Gateways : CooldownExpires(g)
  PROVE  Inv'
<1>1. UNCHANGED <<stats, pay, streak, mixed>>
  BY DEF Failover, CooldownExpires
<1>2. isMockMode' \in BOOLEAN /\ cooldown' \in [Backends -> SUBSET Gateways]
  BY DEF Inv, TypeInv, TypeOK, Failover, CooldownExpires
<1>3. TypeInv'
  BY <1>1, <1>2 DEF Inv, TypeInv, TypeOK, LocalsOK
<1>4. BreakerInv'
  BY <1>1 DEF Inv, BreakerInv, RowInv, Agrees, Holds, Records
<1> QED
  BY <1>3, <1>4 DEF Inv

(* The invariant holds at the start.                                       *)
LEMMA InvInit == Init => Inv
<1> SUFFICES ASSUME Init PROVE Inv
  OBVIOUS
<1>1. \A p \in Payments : pay[p] = Resting
  BY DEF Init
<1>2. stats = [g \in Gateways |-> ClosedRow] /\ ClosedRow \in Stats
  BY RowsTyped DEF Init, ClosedRow
<1>3. TypeInv
  <2>1. stats \in [Gateways -> Stats] /\ pay \in [Payments -> Locals]
    BY <1>2, RestingOK DEF Init
  <2>2. /\ cooldown \in [Backends -> SUBSET Gateways]
        /\ isMockMode \in BOOLEAN /\ mixed \subseteq Gateways
    BY DEF Init
  <2>3. streak \in [Gateways -> 0..Threshold]
    BY DEF Init, Threshold
  <2> QED
    BY <1>1, <2>1, <2>2, <2>3, RestingOK DEF TypeInv, TypeOK
<1>4. \A p \in Payments, g \in Gateways : ~Holds(p, g) /\ ~Records(p, g)
  BY <1>1, RestingOK DEF Holds, Records, Recorders
<1>5. \A g \in Gateways : Agrees(stats[g], streak[g])
  BY <1>2 DEF Init, Agrees, ClosedRow, Threshold
<1> QED
  BY <1>3, <1>4, <1>5 DEF Inv, BreakerInv, RowInv

(* Every step keeps the invariant.                                         *)
LEMMA InvStep == Inv /\ [Next]_vars => Inv'
<1> SUFFICES ASSUME Inv, [Next]_vars PROVE Inv'
  OBVIOUS
<1>1. ASSUME NEW p \in Payments, PaymentStep(p)
      PROVE  Inv'
  BY <1>1, FindStatsStep, CheckCooldownStep, SaveHalfOpenStep,
     ReturnRankingStep, AttemptStep, GiveUpStep, LoadForSuccessStep,
     LoadForFailureStep, KeySteps, RecordSaves
     DEF PaymentStep, RankStep, RecordStep
<1>2. CASE UNCHANGED vars
  <2>1. TypeInv'
    BY <1>2 DEF Inv, TypeInv, TypeOK, LocalsOK, vars
  <2>2. BreakerInv'
    BY <1>2 DEF Inv, BreakerInv, RowInv, Agrees, Holds, Records, vars
  <2> QED
    BY <2>1, <2>2 DEF Inv
<1> QED
  BY <1>1, <1>2, RedisSteps DEF Next

(* ROUTING INVARIANT.  Types and the agreement of every row that was never *)
(* read twice at a time with the outcomes of its gateway.                  *)
THEOREM RoutingInvariant == Spec => []Inv
BY InvInit, InvStep, PTL DEF Spec

(* TYPES.  Whatever number of payments interleaves in the engine, rows,    *)
(* cooldown keys and the locals of the payments keep their types.          *)
THEOREM RoutingTypeOK == Spec => []TypeOK
<1>1. Inv => TypeOK
  BY DEF Inv, TypeInv
<1> QED
  BY <1>1, RoutingInvariant, PTL

(* TRIPS AFTER THREE, for any number of gateways and payments: a row that  *)
(* no two payments had in hand at once is OPEN exactly after three         *)
(* failures since the last success or readmission, counted by              *)
(* recordFailure through its load, trip and save.                          *)
THEOREM BreakerTrips == Spec => []TripsAfterThree
<1>1. ASSUME Inv, NEW g \in Gateways \ mixed, Quiet(g)
      PROVE  stats[g].circuitState = "OPEN" <=> streak[g] >= Threshold
  <2>1. \A p \in Payments : ~Records(p, g)
    BY <1>1 DEF Quiet, Holds, Records, Recorders
  <2> QED
    BY <1>1, <2>1 DEF Inv, BreakerInv, RowInv, Agrees
<1>2. Inv => TripsAfterThree
  BY <1>1 DEF TripsAfterThree, OpenMeansThree
<1> QED
  BY <1>2, RoutingInvariant, PTL
=============================================================================
