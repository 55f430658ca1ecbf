---------------------------- MODULE LedgerProofs ----------------------------
(***************************************************************************)
(* What the abstract ledger guarantees, for every set of keys and          *)
(* gateways.  Every specification that refines LedgerSpec inherits it.     *)
(***************************************************************************)
EXTENDS TransactionLedger, TLAPS

(* The allow-list leads from states to states, and never back to           *)
(* INITIATED.                                                              *)
LEMMA AllowListTyped ==
  \A s \in TransactionState :
    VALID_TRANSITIONS[s] \subseteq TransactionState \ {"INITIATED"}
BY DEF VALID_TRANSITIONS, TransactionState

(* What transition() computes from a row is a row in the target state.     *)
LEMMA AppliedTyped ==
  ASSUME NEW row \in Transaction, NEW to \in TransactionState,
         NEW meta \in Metadata
  PROVE  /\ Applied(row, to, meta) \in Transaction
         /\ Applied(row, to, meta).currentState = to
<1> DEFINE gw  == IF meta.gateway # Null THEN meta.gateway ELSE row.selectedGateway
           id  == IF meta.gatewayTxnId # Null THEN meta.gatewayTxnId
                                              ELSE row.gatewayTxnId
           n   == IF meta.incrementAttempt THEN row.attemptCount + 1
                                           ELSE row.attemptCount
           fin == IF to = "RECONCILED" THEN TRUE ELSE row.finalReconciled
<1>1. gw \in Gateways /\ id \in GatewayTxnIds \cup {Null}
  BY DEF Transaction, Metadata
<1>2. n \in Nat
  BY DEF Transaction, Metadata
<1>3. fin \in BOOLEAN
  BY DEF Transaction
<1>4. Applied(row, to, meta) =
        [currentState |-> to, selectedGateway |-> gw, gatewayTxnId |-> id,
         attemptCount |-> n, finalReconciled |-> fin]
  BY DEF Applied
<1> HIDE DEF gw, id, n, fin
<1> QED
  BY <1>1, <1>2, <1>3, <1>4 DEF Transaction

(* The audit entry of an update is an audit entry.                         *)
LEMMA EntryTyped ==
  ASSUME NEW from \in TransactionState, NEW row \in Transaction
  PROVE  /\ EntryFor(from, row) \in AuditEntry
         /\ EntryFor(from, row).fromState = from
         /\ EntryFor(from, row).toState = row.currentState
BY DEF EntryFor, AuditEntry, Transaction

(* A freshly inserted row is a row.                                        *)
LEMMA NewTyped ==
  ASSUME NEW g \in Gateways
  PROVE  /\ NewTransaction(g) \in Transaction
         /\ NewTransaction(g).currentState = "INITIATED"
BY DEF NewTransaction, Transaction, TransactionState

(* Every ledger step preserves the types.                                  *)
LEMMA LedgerTypeStep == LedgerTypeOK /\ [LedgerNext]_ledgerVars => LedgerTypeOK'
<1> SUFFICES ASSUME LedgerTypeOK, [LedgerNext]_ledgerVars
             PROVE  LedgerTypeOK'
  OBVIOUS
<1> USE DEF LedgerTypeOK
<1>1. ASSUME NEW k \in Keys, NEW g \in Gateways, Insert(k, g)
      PROVE  LedgerTypeOK'
  BY <1>1, NewTyped DEF Insert
<1>2. ASSUME NEW k \in Keys, LogCreation(k)
      PROVE  LedgerTypeOK'
  BY <1>2 DEF LogCreation
<1>3. ASSUME NEW k \in Keys, NEW to \in TransactionState,
             NEW meta \in Metadata, Transition(k, to, meta)
      PROVE  LedgerTypeOK'
  <2>1. txns[k] \in Transaction
    BY <1>3 DEF Transition, CanTransition
  <2>2. Applied(txns[k], to, meta) \in Transaction
    BY <2>1, AppliedTyped
  <2>3. EntryFor(txns[k].currentState, Applied(txns[k], to, meta)) \in AuditEntry
    BY <2>1, <2>2, EntryTyped DEF Transaction
  <2> QED
    BY <1>3, <2>2, <2>3 DEF Transition
<1>4. CASE UNCHANGED ledgerVars
  BY <1>4 DEF ledgerVars
<1> QED
  BY <1>1, <1>2, <1>3, <1>4 DEF LedgerNext

(* TYPES OF THE LEDGER.  The tables only ever hold well-formed rows.       *)
THEOREM LedgerTypeCorrect == LedgerSpec => []LedgerTypeOK
<1>1. LedgerInit => LedgerTypeOK
  BY DEF LedgerInit, LedgerTypeOK
<1> QED
  BY <1>1, LedgerTypeStep, PTL DEF LedgerSpec

(* Every ledger step keeps the audit trail a path that ends at the row.    *)
LEMMA AuditStep ==
  LedgerTypeOK /\ AuditTrailIsPath /\ [LedgerNext]_ledgerVars => AuditTrailIsPath'
<1> SUFFICES ASSUME LedgerTypeOK, AuditTrailIsPath, [LedgerNext]_ledgerVars
             PROVE  AuditTrailIsPath'
  OBVIOUS
<1>1. ASSUME NEW k \in Keys, NEW g \in Gateways, Insert(k, g)
      PROVE  AuditTrailIsPath'
  <2> SUFFICES ASSUME NEW j \in Keys
               PROVE  (EntriesAllowed(j) /\ EntriesLinked(j) /\ TrailMeetsRow(j))'
    BY DEF AuditTrailIsPath
  <2>1. audit' = audit /\ (j # k => txns'[j] = txns[j])
    BY <1>1 DEF Insert, LedgerTypeOK
  <2>2. EntriesAllowed(j)' /\ EntriesLinked(j)'
    BY <2>1 DEF AuditTrailIsPath, EntriesAllowed, EntriesLinked
  <2>3. TrailMeetsRow(j)'
    <3>1. CASE j = k
      <4>1. audit'[k] = << >> /\ txns'[k] = NewTransaction(g)
        BY <1>1, <2>1 DEF Insert, LedgerTypeOK, AuditTrailIsPath, TrailMeetsRow
      <4> QED
        BY <3>1, <4>1, NewTyped, NullAssumption DEF TrailMeetsRow
    <3>2. CASE j # k
      BY <3>2, <2>1 DEF AuditTrailIsPath, TrailMeetsRow
    <3> QED
      BY <3>1, <3>2
  <2> QED
    BY <2>2, <2>3
<1>2. ASSUME NEW k \in Keys, LogCreation(k)
      PROVE  AuditTrailIsPath'
  BY <1>2 DEF LogCreation, AuditTrailIsPath, EntriesAllowed, EntriesLinked, TrailMeetsRow
<1>3. ASSUME NEW k \in Keys, NEW to \in TransactionState,
             NEW meta \in Metadata, Transition(k, to, meta)
      PROVE  AuditTrailIsPath'
  <2> DEFINE row == txns[k]
             new == Applied(row, to, meta)
             entry == EntryFor(row.currentState, new)
  <2>1. row \in Transaction /\ row.currentState \in TransactionState
    BY <1>3 DEF Transition, CanTransition, LedgerTypeOK, Transaction
  <2>2. new \in Transaction /\ new.currentState = to
    BY <2>1, AppliedTyped
  <2>3. entry \in AuditEntry /\ entry.fromState = row.currentState /\ entry.toState = to
    BY <2>1, <2>2, EntryTyped
  <2>4. to \in VALID_TRANSITIONS[row.currentState]
    BY <1>3 DEF Transition, CanTransition
  <2>5. audit[k] \in Seq(AuditEntry)
    BY DEF LedgerTypeOK
  <2>6. /\ audit'[k] = Append(audit[k], entry)
        /\ txns'[k] = new
        /\ \A j \in Keys : j # k => audit'[j] = audit[j] /\ txns'[j] = txns[j]
    BY <1>3 DEF Transition, LedgerTypeOK
  <2> HIDE DEF row, new, entry
  <2>7. /\ Len(audit'[k]) = Len(audit[k]) + 1
        /\ audit'[k][Len(audit[k]) + 1] = entry
        /\ \A i \in 1..Len(audit[k]) : audit'[k][i] = audit[k][i]
        /\ Len(audit[k]) \in Nat
    BY <2>5, <2>6, <2>3
  <2>8. EntriesAllowed(k)'
    BY <2>3, <2>4, <2>7 DEF AuditTrailIsPath, EntriesAllowed
  <2>9. /\ txns[k] # Null
        /\ Len(audit[k]) > 0 =>
             /\ audit[k][1].fromState = "INITIATED"
             /\ audit[k][Len(audit[k])].toState = row.currentState
        /\ Len(audit[k]) = 0 => row.currentState = "INITIATED"
    BY <1>3, <2>5 DEF AuditTrailIsPath, TrailMeetsRow, Transition, CanTransition, row
  <2>10. EntriesLinked(k)'
    <3> SUFFICES ASSUME NEW i \in 1..Len(audit'[k]) - 1
                 PROVE  audit'[k][i].toState = audit'[k][i+1].fromState
      BY DEF EntriesLinked
    <3>1. CASE i = Len(audit[k])
      BY <3>1, <2>3, <2>7, <2>9
    <3>2. CASE i # Len(audit[k])
      <4>1. i \in 1..Len(audit[k]) - 1
        BY <3>2, <2>7
      <4> QED
        BY <4>1, <2>7 DEF AuditTrailIsPath, EntriesLinked
    <3> QED
      BY <3>1, <3>2
  <2>11. TrailMeetsRow(k)'
    <3>0. audit'[k] # << >>
      BY <2>7
    <3>1. txns'[k] # Null /\ txns'[k].currentState = to
      BY <2>2, <2>6, NullAssumption
    <3>2. audit'[k][1].fromState = "INITIATED"
      BY <2>3, <2>7, <2>9
    <3>3. audit'[k][Len(audit'[k])].toState = to
      BY <2>3, <2>7
    <3> QED
      BY <3>0, <3>1, <3>2, <3>3 DEF TrailMeetsRow
  <2>12. ASSUME NEW j \in Keys, j # k
         PROVE  (EntriesAllowed(j) /\ EntriesLinked(j) /\ TrailMeetsRow(j))'
    BY <2>6, <2>12 DEF AuditTrailIsPath, EntriesAllowed, EntriesLinked, TrailMeetsRow
  <2> QED
    BY <2>8, <2>10, <2>11, <2>12 DEF AuditTrailIsPath
<1>4. CASE UNCHANGED ledgerVars
  BY <1>4 DEF ledgerVars, AuditTrailIsPath, EntriesAllowed, EntriesLinked, TrailMeetsRow
<1> QED
  BY <1>1, <1>2, <1>3, <1>4 DEF LedgerNext

(* AUDIT TRAIL OF THE LEDGER.  The trail of every transaction is a path of *)
(* the lifecycle graph from INITIATED to its current state.                *)
THEOREM LedgerAuditTrail == LedgerSpec => []AuditTrailIsPath
<1>1. LedgerInit => AuditTrailIsPath
  BY DEF LedgerInit, AuditTrailIsPath, EntriesAllowed, EntriesLinked, TrailMeetsRow
<1> QED
  BY <1>1, LedgerTypeCorrect, AuditStep, PTL DEF LedgerSpec

(* TERMINAL STATES.  No ledger step moves a FAILED or RECONCILED           *)
(* transaction or removes a transaction.                                   *)
THEOREM LedgerTerminalStays == LedgerSpec => TerminalStays
<1> DEFINE Stays ==
      \A k \in Keys : txns[k] # Null =>
        /\ txns'[k] # Null
        /\ txns[k].currentState \in Terminal =>
             txns'[k].currentState = txns[k].currentState
<1>1. LedgerTypeOK /\ [LedgerNext]_ledgerVars => [Stays]_ledgerVars
  <2> SUFFICES ASSUME LedgerTypeOK, LedgerNext
               PROVE  Stays
    OBVIOUS
  <2> USE DEF LedgerTypeOK
  <2>1. ASSUME NEW k \in Keys, NEW g \in Gateways, Insert(k, g)
        PROVE  Stays
    BY <2>1 DEF Insert
  <2>2. ASSUME NEW k \in Keys, LogCreation(k)
        PROVE  Stays
    BY <2>2 DEF LogCreation
  <2>3. ASSUME NEW k \in Keys, NEW to \in TransactionState,
               NEW meta \in Metadata, Transition(k, to, meta)
        PROVE  Stays
    <3>1. txns[k] \in Transaction /\ to \in VALID_TRANSITIONS[txns[k].currentState]
      BY <2>3 DEF Transition, CanTransition
    <3>2. txns[k].currentState \notin Terminal
      BY <3>1 DEF VALID_TRANSITIONS, Terminal, TransactionState
    <3>3. Applied(txns[k], to, meta) # Null
      BY <3>1, AppliedTyped, NullAssumption
    <3> QED
      BY <2>3, <3>2, <3>3 DEF Transition
  <2> QED
    BY <2>1, <2>2, <2>3 DEF LedgerNext
<1> QED
  BY <1>1, LedgerTypeCorrect, PTL DEF LedgerSpec, TerminalStays
=============================================================================
