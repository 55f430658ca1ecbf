------------------------- MODULE StateMachineProofs -------------------------
(***************************************************************************)
(* transition(), statement by statement, for any number of callers,        *)
(* transactions and gateways: the types, the row-lock invariants, and the  *)
(* refinement of the ledger, from which the audit trail and the terminal   *)
(* states follow.                                                          *)
(*                                                                         *)
(* The inductive invariant is IInv.  AuditTrailIsPath alone is not         *)
(* inductive: Commit writes what the caller computed earlier, so one needs *)
(* that the row it was computed from is still the committed row.           *)
(***************************************************************************)
EXTENDS StateMachine, LedgerProofs

IInv == TypeOK /\ NoStaleDecision /\ NoOrphanLock

(* The initial state satisfies the invariant.                              *)
LEMMA InitIInv == Init => IInv
<1> SUFFICES ASSUME Init PROVE IInv
  OBVIOUS
<1>1. TypeOK
  BY DEF Init, TypeOK, LedgerInit, LedgerTypeOK
<1>2. NoStaleDecision
  BY DEF Init, NoStaleDecision, HoldsCurrentRow, InTransaction
<1>3. NoOrphanLock
  BY DEF Init, NoOrphanLock
<1> QED
  BY <1>1, <1>2, <1>3 DEF IInv

(* A caller about to commit writes exactly what the ledger's atomic        *)
(* transition of the committed row would write.                            *)
LEMMA CommitIsTransition ==
  ASSUME IInv, NEW c \in Callers, Commit(c)
  PROVE  /\ call[c] \in CallRecord
         /\ Transition(call[c].key, call[c].to, call[c].meta)
<1> DEFINE k == call[c].key
<1>1. /\ call[c] \in CallRecord
      /\ txns[k] \in Transaction
      /\ fromState[c] = txns[k].currentState
      /\ call[c].to \in VALID_TRANSITIONS[txns[k].currentState]
      /\ entity[c] = Applied(txns[k], call[c].to, call[c].meta)
  BY DEF IInv, NoStaleDecision, HoldsCurrentRow, Commit, InTransaction
<1>2. k \in Keys /\ txns[k] # Null
  BY <1>1, NullAssumption DEF CallRecord
<1> QED
  BY <1>1, <1>2 DEF Commit, Transition, CanTransition

(* The ledger part of every step is a ledger step or a stutter.            *)
LEMMA StepRefines == IInv /\ [Next]_vars => [LedgerNext]_ledgerVars
<1> SUFFICES ASSUME IInv, [Next]_vars
             PROVE  [LedgerNext]_ledgerVars
  OBVIOUS
<1>1. ASSUME NEW c \in Callers, Commit(c)
      PROVE  LedgerNext
  BY <1>1, CommitIsTransition, MetasAssumption DEF LedgerNext, CallRecord
<1>2. ASSUME NEW k \in Keys, Environment(k)
      PROVE  LedgerNext
  BY <1>2 DEF Environment, LedgerNext
<1>3. ASSUME NEW c \in Callers,
             NEW k \in Keys, NEW to \in TransactionState, NEW meta \in Metas,
             Begin(c, k, to, meta)
      PROVE  UNCHANGED ledgerVars
  BY <1>3 DEF Begin
<1>4. ASSUME NEW c \in Callers,
             SelectForUpdate(c) \/ NotFound(c) \/ Reject(c)
               \/ SaveTransaction(c) \/ SaveAuditLog(c) \/ Abort(c)
      PROVE  UNCHANGED ledgerVars
  BY <1>4 DEF SelectForUpdate, NotFound, Reject, SaveTransaction, SaveAuditLog, Abort
<1>5. CASE UNCHANGED vars
  BY <1>5 DEF vars
<1> QED
  BY <1>1, <1>2, <1>3, <1>4, <1>5 DEF Next, CallerStep

(* What the end of a database transaction leaves behind.                   *)
LEMMA EndPreserves ==
  ASSUME TypeOK, NoOrphanLock, NEW c \in Callers, End(c)
  PROVE  /\ pc' \in [Callers -> {"idle", "begun"} \cup InTransaction]
         /\ call' \in [Callers -> CallRecord \cup {Null}]
         /\ entity' \in [Callers -> Transaction \cup {Null}]
         /\ fromState' \in [Callers -> TransactionState \cup {Null}]
         /\ rowLock' \in [Keys -> Callers \cup {Null}]
         /\ NoOrphanLock'
         /\ pc'[c] = "idle"
         /\ \A d \in Callers : d # c =>
              /\ pc'[d] = pc[d] /\ call'[d] = call[d]
              /\ entity'[d] = entity[d] /\ fromState'[d] = fromState[d]
              /\ \A k \in Keys : rowLock[k] = d => rowLock'[k] = d
<1>1. /\ pc' \in [Callers -> {"idle", "begun"} \cup InTransaction]
      /\ call' \in [Callers -> CallRecord \cup {Null}]
      /\ entity' \in [Callers -> Transaction \cup {Null}]
      /\ fromState' \in [Callers -> TransactionState \cup {Null}]
      /\ rowLock' \in [Keys -> Callers \cup {Null}]
  BY DEF End, TypeOK
<1>2. /\ pc'[c] = "idle"
      /\ \A d \in Callers : d # c =>
           /\ pc'[d] = pc[d] /\ call'[d] = call[d]
           /\ entity'[d] = entity[d] /\ fromState'[d] = fromState[d]
           /\ \A k \in Keys : rowLock[k] = d => rowLock'[k] = d
  BY DEF End, TypeOK
<1>3. NoOrphanLock'
  <2> SUFFICES ASSUME NEW k \in Keys, rowLock'[k] # Null
               PROVE  /\ pc'[rowLock'[k]] \in InTransaction
                      /\ call'[rowLock'[k]].key = k
    BY DEF NoOrphanLock
  <2>1. rowLock'[k] = rowLock[k] /\ rowLock[k] # c /\ rowLock[k] # Null
    BY DEF End
  <2>2. rowLock[k] \in Callers
    BY <2>1 DEF TypeOK
  <2> QED
    BY <2>1, <2>2, <1>2 DEF NoOrphanLock
<1> QED
  BY <1>1, <1>2, <1>3

(* A call that ends without a commit preserves the invariant.              *)
LEMMA EndWithoutCommit ==
  ASSUME IInv, NEW c \in Callers, End(c), UNCHANGED ledgerVars
  PROVE  IInv'
<1>1. TypeOK'
  BY EndPreserves DEF IInv, TypeOK, LedgerTypeOK, ledgerVars
<1>2. NoStaleDecision'
  <2> SUFFICES ASSUME NEW d \in Callers
               PROVE  HoldsCurrentRow(d)'
    BY DEF NoStaleDecision
  <2>1. CASE d = c
    BY <2>1, EndPreserves DEF IInv, HoldsCurrentRow, InTransaction
  <2>2. CASE d # c
    <3>1. /\ pc'[d] = pc[d] /\ call'[d] = call[d] /\ txns' = txns
          /\ entity'[d] = entity[d] /\ fromState'[d] = fromState[d]
          /\ \A k \in Keys : rowLock[k] = d => rowLock'[k] = d
      BY <2>2, EndPreserves DEF IInv, ledgerVars
    <3>2. HoldsCurrentRow(d)
      BY DEF IInv, NoStaleDecision
    <3>3. pc[d] \in InTransaction => call[d].key \in Keys
      BY <3>2 DEF HoldsCurrentRow, CallRecord, InTransaction
    <3> QED
      BY <3>1, <3>2, <3>3 DEF HoldsCurrentRow
  <2> QED
    BY <2>1, <2>2
<1> QED
  BY <1>1, <1>2, EndPreserves DEF IInv

(* Every step preserves the invariant.                                     *)
LEMMA StepIInv == IInv /\ [Next]_vars => IInv'
<1> SUFFICES ASSUME IInv, [Next]_vars
             PROVE  IInv'
  OBVIOUS
<1>0. LedgerTypeOK'
  BY StepRefines, LedgerTypeStep DEF IInv, TypeOK
<1>1. ASSUME NEW c \in Callers,
             NEW k \in Keys, NEW to \in TransactionState, NEW meta \in Metas,
             Begin(c, k, to, meta)
      PROVE  IInv'
  <2>1. TypeOK'
    BY <1>0, <1>1 DEF IInv, TypeOK, Begin, CallRecord
  <2>2. NoStaleDecision'
    <3> SUFFICES ASSUME NEW d \in Callers PROVE HoldsCurrentRow(d)'
      BY DEF NoStaleDecision
    <3>1. CASE d = c
      BY <1>1, <3>1 DEF Begin, HoldsCurrentRow, InTransaction, CallRecord, IInv, TypeOK
    <3>2. CASE d # c
      BY <1>1, <3>2 DEF Begin, HoldsCurrentRow, NoStaleDecision, IInv, TypeOK, ledgerVars
    <3> QED
      BY <3>1, <3>2
  <2>3. NoOrphanLock'
    BY <1>1 DEF Begin, NoOrphanLock, IInv, TypeOK, InTransaction
  <2> QED
    BY <2>1, <2>2, <2>3 DEF IInv
<1>2. ASSUME NEW c \in Callers, SelectForUpdate(c)
      PROVE  IInv'
  <2>1. /\ call[c] \in CallRecord /\ call[c].key \in Keys
        /\ txns[call[c].key] \in Transaction
    BY <1>2 DEF SelectForUpdate, IInv, NoStaleDecision, HoldsCurrentRow,
                TypeOK, LedgerTypeOK, CallRecord
  <2>2. TypeOK'
    BY <1>0, <1>2, <2>1 DEF IInv, TypeOK, SelectForUpdate, InTransaction
  <2>3. NoStaleDecision'
    <3> SUFFICES ASSUME NEW d \in Callers PROVE HoldsCurrentRow(d)'
      BY DEF NoStaleDecision
    <3>1. CASE d = c
      BY <1>2, <2>1, <3>1 DEF SelectForUpdate, HoldsCurrentRow, InTransaction,
                              IInv, TypeOK, ledgerVars
    <3>2. CASE d # c
      <4>1. HoldsCurrentRow(d)
        BY DEF IInv, NoStaleDecision
      <4>2. pc[d] \in InTransaction => call[d].key # call[c].key /\ call[d].key \in Keys
        BY <1>2, <4>1, CallersAssumption
           DEF SelectForUpdate, HoldsCurrentRow, CallRecord, InTransaction
      <4>3. /\ pc'[d] = pc[d] /\ call' = call /\ txns' = txns
            /\ entity'[d] = entity[d] /\ fromState' = fromState
            /\ \A k \in Keys : k # call[c].key => rowLock'[k] = rowLock[k]
        BY <1>2, <3>2 DEF SelectForUpdate, IInv, TypeOK, ledgerVars
      <4> QED
        BY <4>1, <4>2, <4>3 DEF HoldsCurrentRow
    <3> QED
      BY <3>1, <3>2
  <2>4. NoOrphanLock'
    BY <1>2, <2>1 DEF SelectForUpdate, NoOrphanLock, IInv, TypeOK, InTransaction
  <2> QED
    BY <2>2, <2>3, <2>4 DEF IInv
<1>3. ASSUME NEW c \in Callers, NotFound(c) \/ Reject(c) \/ Abort(c)
      PROVE  IInv'
  BY <1>3, EndWithoutCommit DEF NotFound, Reject, Abort
<1>4. ASSUME NEW c \in Callers, SaveTransaction(c)
      PROVE  IInv'
  <2>1. /\ call[c] \in CallRecord /\ call[c].key \in Keys
        /\ rowLock[call[c].key] = c
        /\ entity[c] = txns[call[c].key] /\ entity[c] \in Transaction
        /\ call[c].to \in TransactionState /\ call[c].meta \in Metadata
    BY <1>4, MetasAssumption DEF SaveTransaction, IInv, NoStaleDecision,
                HoldsCurrentRow, CallRecord, InTransaction
  <2>2. /\ Applied(entity[c], call[c].to, call[c].meta) \in Transaction
        /\ entity[c].currentState \in TransactionState
    BY <2>1, AppliedTyped DEF Transaction
  <2>3. TypeOK'
    BY <1>0, <1>4, <2>2 DEF IInv, TypeOK, SaveTransaction, InTransaction
  <2>4. NoStaleDecision'
    <3> SUFFICES ASSUME NEW d \in Callers PROVE HoldsCurrentRow(d)'
      BY DEF NoStaleDecision
    <3>1. CASE d = c
      BY <1>4, <2>1, <3>1 DEF SaveTransaction, HoldsCurrentRow, InTransaction,
                              IInv, TypeOK, ledgerVars
    <3>2. CASE d # c
      BY <1>4, <3>2 DEF SaveTransaction, HoldsCurrentRow, NoStaleDecision,
                        IInv, TypeOK, ledgerVars
    <3> QED
      BY <3>1, <3>2
  <2>5. NoOrphanLock'
    BY <1>4, CallersAssumption
       DEF SaveTransaction, NoOrphanLock, IInv, TypeOK, InTransaction
  <2> QED
    BY <2>3, <2>4, <2>5 DEF IInv
<1>5. ASSUME NEW c \in Callers, SaveAuditLog(c)
      PROVE  IInv'
  <2>1. TypeOK'
    BY <1>0, <1>5 DEF IInv, TypeOK, SaveAuditLog, InTransaction
  <2>2. NoStaleDecision'
    BY <1>5 DEF SaveAuditLog, NoStaleDecision, HoldsCurrentRow, InTransaction,
                IInv, TypeOK, ledgerVars
  <2>3. NoOrphanLock'
    BY <1>5 DEF SaveAuditLog, NoOrphanLock, IInv, TypeOK, InTransaction
  <2> QED
    BY <2>1, <2>2, <2>3 DEF IInv
<1>6. ASSUME NEW c \in Callers, Commit(c)
      PROVE  IInv'
  <2>1. End(c) /\ TypeOK /\ NoOrphanLock
    BY <1>6 DEF Commit, IInv
  <2>2. TypeOK'
    BY <1>0, <2>1, EndPreserves DEF TypeOK
  <2>3. NoStaleDecision'
    <3> SUFFICES ASSUME NEW d \in Callers PROVE HoldsCurrentRow(d)'
      BY DEF NoStaleDecision
    <3>1. CASE d = c
      BY <2>1, <3>1, EndPreserves DEF HoldsCurrentRow, InTransaction
    <3>2. CASE d # c
      <4>1. HoldsCurrentRow(d) /\ HoldsCurrentRow(c)
        BY DEF IInv, NoStaleDecision
      <4>2. pc[d] \in InTransaction => call[d].key # call[c].key /\ call[d].key \in Keys
        BY <1>6, <3>2, <4>1 DEF Commit, HoldsCurrentRow, CallRecord, InTransaction
      <4>3. \A k \in Keys : k # call[c].key => txns'[k] = txns[k]
        BY <1>6 DEF Commit, IInv, TypeOK, LedgerTypeOK
      <4>4. /\ pc'[d] = pc[d] /\ call'[d] = call[d]
            /\ entity'[d] = entity[d] /\ fromState'[d] = fromState[d]
            /\ \A k \in Keys : rowLock[k] = d => rowLock'[k] = d
        BY <2>1, <3>2, EndPreserves
      <4> QED
        BY <4>1, <4>2, <4>3, <4>4 DEF HoldsCurrentRow, InTransaction
    <3> QED
      BY <3>1, <3>2
  <2> QED
    BY <2>1, <2>2, <2>3, EndPreserves DEF IInv
<1>7. ASSUME NEW k \in Keys, Environment(k)
      PROVE  IInv'
  <2>1. UNCHANGED smVars
    BY <1>7 DEF Environment
  <2>2. TypeOK'
    BY <1>0, <2>1 DEF IInv, TypeOK, smVars
  <2>3. \A j \in Keys : txns[j] # Null => txns'[j] = txns[j]
    BY <1>7 DEF Environment, Insert, LogCreation, IInv, TypeOK, LedgerTypeOK
  <2>4. NoStaleDecision'
    <3> SUFFICES ASSUME NEW d \in Callers PROVE HoldsCurrentRow(d)'
      BY DEF NoStaleDecision
    <3>1. HoldsCurrentRow(d)
      BY DEF IInv, NoStaleDecision
    <3>2. pc[d] \in InTransaction => txns'[call[d].key] = txns[call[d].key]
      BY <2>3, <3>1, NullAssumption DEF HoldsCurrentRow, CallRecord, InTransaction
    <3> QED
      BY <2>1, <3>1, <3>2 DEF HoldsCurrentRow, InTransaction, smVars
  <2>5. NoOrphanLock'
    BY <2>1 DEF NoOrphanLock, IInv, smVars
  <2> QED
    BY <2>2, <2>4, <2>5 DEF IInv
<1>8. CASE UNCHANGED vars
  BY <1>8 DEF vars, smVars, ledgerVars, IInv, TypeOK, LedgerTypeOK, NoStaleDecision,
              HoldsCurrentRow, NoOrphanLock
<1> QED
  BY <1>1, <1>2, <1>3, <1>4, <1>5, <1>6, <1>7, <1>8 DEF Next, CallerStep

(* The conjunction of types and row-lock invariants is inductive.          *)
THEOREM Inductive == Spec => []IInv
BY InitIInv, StepIInv, PTL DEF Spec

(* TYPES.  Tables, call records and locks keep their types.                *)
THEOREM TypeCorrect == Spec => []TypeOK
<1>1. IInv => TypeOK
  BY DEF IInv
<1> QED
  BY <1>1, Inductive, PTL

(* NO STALE DECISION.  Between SELECT ... FOR UPDATE and COMMIT the row a  *)
(* caller decided on stays the committed row, however callers interleave   *)
(* and wherever they die.                                                  *)
THEOREM DecisionsAreCurrent == Spec => []NoStaleDecision
<1>1. IInv => NoStaleDecision
  BY DEF IInv
<1> QED
  BY <1>1, Inductive, PTL

(* NO ORPHAN LOCK.  Every way out of transition() gives the row lock back. *)
THEOREM LocksAreOwned == Spec => []NoOrphanLock
<1>1. IInv => NoOrphanLock
  BY DEF IInv
<1> QED
  BY <1>1, Inductive, PTL

(* REFINEMENT.  The statements of transition() implement the atomic,       *)
(* audited, allow-listed transition of the ledger.                         *)
THEOREM RefinesLedger == Spec => LedgerSpec
<1>1. Init => LedgerInit
  BY DEF Init
<1> QED
  BY <1>1, StepRefines, Inductive, PTL DEF Spec, LedgerSpec

(* AUDIT TRAIL.  With transition() as it is coded, the committed trail of  *)
(* every transaction is a lifecycle path to its current state.             *)
THEOREM AuditTrailCorrect == Spec => []AuditTrailIsPath
BY RefinesLedger, LedgerAuditTrail, PTL

(* TERMINAL STATES.  No interleaving of transition() calls moves a FAILED  *)
(* or RECONCILED transaction.                                              *)
THEOREM TerminalIsFinal == Spec => TerminalStays
BY RefinesLedger, LedgerTerminalStays, PTL
=============================================================================
