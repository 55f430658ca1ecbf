---------------------------- MODULE StateMachine ----------------------------
(***************************************************************************)
(* StateMachineService.transition(): one database transaction that locks   *)
(* the row (SELECT ... FOR UPDATE), checks the allow-list, saves the row,  *)
(* saves the audit entry and commits.  Concurrent callers (the payment     *)
(* request that executes a transaction, the reconciliation worker) are     *)
(* interleaved between any two statements; a connection or the process may *)
(* die between any two statements.                                         *)
(*                                                                         *)
(* txns and audit are the COMMITTED contents of the tables.  Writes of a   *)
(* running database transaction live in entity/fromState until Commit.     *)
(* The specification refines LedgerSpec: its variables are those of the    *)
(* ledger plus the ones declared here, which the refinement hides.         *)
(***************************************************************************)
EXTENDS TransactionLedger

CONSTANTS
  Callers,    \* asynchronous calls of transition() that may overlap
  Metas,      \* the metadata arguments they pass
  MaxTrail    \* BOUND: no call starts on a transaction with a longer trail

ASSUME CallersAssumption == Null \notin Callers
ASSUME MetasAssumption == Metas \subseteq Metadata
ASSUME MaxTrailAssumption == MaxTrail \in Nat

VARIABLES
  pc,         \* where each caller is inside transition()
  call,       \* its arguments
  entity,     \* its in-memory Transaction object
  fromState,  \* its local fromState
  rowLock     \* holder of the row lock of each transaction

smVars == <<pc, call, entity, fromState, rowLock>>
vars == <<ledgerVars, smVars>>

CallRecord ==
  [key : Keys, to : TransactionState, meta : Metas]

InTransaction == {"locked", "saved", "logged"}

-----------------------------------------------------------------------------
Init ==
  /\ LedgerInit
  /\ pc = [c \in Callers |-> "idle"]
  /\ call = [c \in Callers |-> Null]
  /\ entity = [c \in Callers |-> Null]
  /\ fromState = [c \in Callers |-> Null]
  /\ rowLock = [k \in Keys |-> Null]

(* The call and its BEGIN.                                                 *)
Begin(c, k, to, meta) ==
  /\ pc[c] = "idle"
  /\ Len(audit[k]) < MaxTrail
  /\ pc' = [pc EXCEPT ![c] = "begun"]
  /\ call' = [call EXCEPT ![c] = [key |-> k, to |-> to, meta |-> meta]]
  /\ UNCHANGED <<ledgerVars, entity, fromState, rowLock>>

(* Mutant: a plain SELECT, without setLock('pessimistic_write').           *)
SelectWithoutLock(c) ==
  LET k == call[c].key IN
  /\ pc[c] = "begun"
  /\ txns[k] # Null
  /\ pc' = [pc EXCEPT ![c] = "locked"]
  /\ entity' = [entity EXCEPT ![c] = txns[k]]
  /\ rowLock' = [rowLock EXCEPT ![k] = c]
  /\ UNCHANGED <<ledgerVars, call, fromState>>

(* SELECT ... FOR UPDATE returns the latest committed row and its lock.    *)
SelectForUpdate(c) ==
  LET k == call[c].key IN
  /\ pc[c] = "begun"
  /\ txns[k] # Null
  /\ rowLock[k] = Null
  /\ pc' = [pc EXCEPT ![c] = "locked"]
  /\ entity' = [entity EXCEPT ![c] = txns[k]]
  /\ rowLock' = [rowLock EXCEPT ![k] = c]
  /\ UNCHANGED <<ledgerVars, call, fromState>>

(* The database transaction of c is over: it holds no lock any more.       *)
End(c) ==
  /\ pc' = [pc EXCEPT ![c] = "idle"]
  /\ call' = [call EXCEPT ![c] = Null]
  /\ entity' = [entity EXCEPT ![c] = Null]
  /\ fromState' = [fromState EXCEPT ![c] = Null]
  /\ rowLock' = [k \in Keys |-> IF rowLock[k] = c THEN Null ELSE rowLock[k]]

(* No such row: NotFoundException, rollback.                               *)
NotFound(c) ==
  /\ pc[c] = "begun"
  /\ txns[call[c].key] = Null
  /\ End(c)
  /\ UNCHANGED ledgerVars

(* Mutant: the exception leaves the database transaction open.             *)
RejectKeepsLock(c) ==
  /\ pc[c] = "locked"
  /\ call[c].to \notin VALID_TRANSITIONS[entity[c].currentState]
  /\ pc' = [pc EXCEPT ![c] = "idle"]
  /\ call' = [call EXCEPT ![c] = Null]
  /\ entity' = [entity EXCEPT ![c] = Null]
  /\ UNCHANGED <<ledgerVars, fromState, rowLock>>

(* The target is not on the allow-list: BadRequestException, rollback.     *)
Reject(c) ==
  /\ pc[c] = "locked"
  /\ call[c].to \notin VALID_TRANSITIONS[entity[c].currentState]
  /\ End(c)
  /\ UNCHANGED ledgerVars

(* Mutant: the allow-list is not consulted.                                *)
SaveUnchecked(c) ==
  /\ pc[c] = "locked"
  /\ pc' = [pc EXCEPT ![c] = "saved"]
  /\ fromState' = [fromState EXCEPT ![c] = entity[c].currentState]
  /\ entity' = [entity EXCEPT ![c] = Applied(@, call[c].to, call[c].meta)]
  /\ UNCHANGED <<ledgerVars, call, rowLock>>

(* Mutant: fromState is read after currentState is assigned.               *)
SaveThenReadFrom(c) ==
  /\ pc[c] = "locked"
  /\ call[c].to \in VALID_TRANSITIONS[entity[c].currentState]
  /\ pc' = [pc EXCEPT ![c] = "saved"]
  /\ entity' = [entity EXCEPT ![c] = Applied(@, call[c].to, call[c].meta)]
  /\ fromState' = [fromState EXCEPT ![c] = entity'[c].currentState]
  /\ UNCHANGED <<ledgerVars, call, rowLock>>

(* Mutant: the row is saved outside the database transaction.              *)
SaveAutoCommitted(c) ==
  LET updated == Applied(entity[c], call[c].to, call[c].meta) IN
  /\ pc[c] = "locked"
  /\ call[c].to \in VALID_TRANSITIONS[entity[c].currentState]
  /\ pc' = [pc EXCEPT ![c] = "saved"]
  /\ fromState' = [fromState EXCEPT ![c] = entity[c].currentState]
  /\ entity' = [entity EXCEPT ![c] = updated]
  /\ txns' = [txns EXCEPT ![call[c].key] = updated]
  /\ UNCHANGED <<creationLogged, audit, call, rowLock>>

(* Mutate the entity and save it (uncommitted).                            *)
SaveTransaction(c) ==
  /\ pc[c] = "locked"
  /\ call[c].to \in VALID_TRANSITIONS[entity[c].currentState]
  /\ pc' = [pc EXCEPT ![c] = "saved"]
  /\ fromState' = [fromState EXCEPT ![c] = entity[c].currentState]
  /\ entity' = [entity EXCEPT ![c] = Applied(@, call[c].to, call[c].meta)]
  /\ UNCHANGED <<ledgerVars, call, rowLock>>

(* Save the audit entry (uncommitted).                                     *)
SaveAuditLog(c) ==
  /\ pc[c] = "saved"
  /\ pc' = [pc EXCEPT ![c] = "logged"]
  /\ UNCHANGED <<ledgerVars, call, entity, fromState, rowLock>>

(* COMMIT publishes the row and the audit entry together.                  *)
Commit(c) ==
  LET k == call[c].key IN
  /\ pc[c] = "logged"
  /\ txns' = [txns EXCEPT ![k] = entity[c]]
  /\ audit' = [audit EXCEPT ![k] = Append(@, EntryFor(fromState[c], entity[c]))]
  /\ End(c)
  /\ UNCHANGED creationLogged

(* A statement fails or the process dies: PostgreSQL rolls back.           *)
Abort(c) ==
  /\ pc[c] # "idle"
  /\ End(c)
  /\ UNCHANGED ledgerVars

CallerStep(c) ==
  \/ SelectForUpdate(c)
  \/ NotFound(c)
  \/ Reject(c)
  \/ SaveTransaction(c)
  \/ SaveAuditLog(c)
  \/ Commit(c)

(* TransactionsService.create(), which inserts the row and its first audit *)
(* entry outside transition().                                             *)
Environment(k) ==
  /\ \/ \E g \in Gateways : Insert(k, g)
     \/ k \notin creationLogged /\ LogCreation(k)
  /\ UNCHANGED smVars

Next ==
  \/ \E c \in Callers :
       \/ \E k \in Keys, to \in TransactionState, meta \in Metas :
            Begin(c, k, to, meta)
       \/ CallerStep(c)
       \/ Abort(c)
  \/ \E k \in Keys : Environment(k)

Spec == Init /\ [][Next]_vars

(* The database executes every statement it was given, and PostgreSQL's    *)
(* lock queue serves waiters in turn: a caller that waits for a row lock   *)
(* which is released again and again gets it (strong fairness).            *)
Fairness ==
  \A c \in Callers : WF_vars(CallerStep(c)) /\ SF_vars(SelectForUpdate(c))

FairSpec == Spec /\ Fairness

-----------------------------------------------------------------------------
TypeOK ==
  /\ LedgerTypeOK
  /\ pc \in [Callers -> {"idle", "begun"} \cup InTransaction]
  /\ call \in [Callers -> CallRecord \cup {Null}]
  /\ entity \in [Callers -> Transaction \cup {Null}]
  /\ fromState \in [Callers -> TransactionState \cup {Null}]
  /\ rowLock \in [Keys -> Callers \cup {Null}]

(* The part of the inductive invariant that ties a caller's local copies   *)
(* to the committed row.                                                   *)
HoldsCurrentRow(c) ==
  LET k == call[c].key IN
  /\ pc[c] # "idle" => call[c] \in CallRecord
  /\ pc[c] \in InTransaction => rowLock[k] = c /\ txns[k] \in Transaction
  /\ pc[c] = "locked" => entity[c] = txns[k]
  /\ pc[c] \in {"saved", "logged"} =>
       /\ fromState[c] = txns[k].currentState
       /\ call[c].to \in VALID_TRANSITIONS[txns[k].currentState]
       /\ entity[c] = Applied(txns[k], call[c].to, call[c].meta)

(* NO STALE DECISION.  From SELECT ... FOR UPDATE to COMMIT the row a      *)
(* caller validated against, and computed its update from, is still the    *)
(* committed row: nothing another caller did in between is overwritten     *)
(* (state-machine.service.ts, the pessimistic_write lock).                 *)
NoStaleDecision == \A c \in Callers : HoldsCurrentRow(c)

(* NO ORPHAN LOCK.  A row lock is only ever held by a caller that is       *)
(* inside transition() on that row; every way out, the two exceptions and  *)
(* a failure included, gives it back.                                      *)
NoOrphanLock ==
  \A k \in Keys : rowLock[k] # Null =>
    pc[rowLock[k]] \in InTransaction /\ call[rowLock[k]].key = k

(* Every call of transition() returns: no caller waits for a row lock      *)
(* forever (transition() has no timeout of its own).                       *)
CallsReturn == \A c \in Callers : pc[c] # "idle" ~> pc[c] = "idle"
=============================================================================
