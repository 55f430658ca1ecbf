------------------------- MODULE TransactionLedger -------------------------
(***************************************************************************)
(* What the `transactions` and `audit_log` tables promise to the rest of   *)
(* the system: a transaction is inserted once per idempotency key, and     *)
(* every later change of its state is one atomic step that obeys the       *)
(* allow-list and appends one entry to the audit trail.                    *)
(*                                                                         *)
(* This is the abstract specification.  StateMachine implements the step   *)
(* Transition by a database transaction with a row lock and is shown to    *)
(* refine LedgerSpec; TransactionsService and Reconciliation are built on  *)
(* the actions of this module.                                             *)
(*                                                                         *)
(* A transaction is named by its idempotency key: the unique index makes   *)
(* key and primary key interchangeable.                                    *)
(***************************************************************************)
EXTENDS PaymentDefs

CONSTANTS
  Keys,       \* idempotency keys, one potential transaction each
  Gateways,   \* payment gateways (GatewayProvider)
  Null        \* SQL NULL, a JavaScript undefined, or a row that is absent

(* The id a gateway gives to its charge of a transaction.  Adapters derive *)
(* it from the gateway's answer, so it names the charge.                   *)
GatewayTxnIds == Keys \X Gateways

(* A row of `transactions`; only the columns the code reads back are kept. *)
Transaction ==
  [currentState    : TransactionState,
   selectedGateway : Gateways,
   gatewayTxnId    : GatewayTxnIds \cup {Null},
   attemptCount    : Nat,
   finalReconciled : BOOLEAN]

(* A row of `audit_log` written by a transition.                           *)
AuditEntry ==
  [fromState : TransactionState, toState : TransactionState, gateway : Gateways]

(* The optional metadata argument of transition(); Null is `undefined`.    *)
Metadata ==
  [gateway          : Gateways \cup {Null},
   gatewayTxnId     : GatewayTxnIds \cup {Null},
   incrementAttempt : BOOLEAN]

ASSUME NullAssumption ==
  /\ Null \notin Keys
  /\ Null \notin Gateways
  /\ Null \notin GatewayTxnIds
  /\ Null \notin Transaction

VARIABLES
  txns,            \* the transactions table: a row, or Null, for every key
  creationLogged,  \* keys whose "transaction created" audit row is written
  audit            \* the transitions in audit_log, per key, in commit order

ledgerVars == <<txns, creationLogged, audit>>

-----------------------------------------------------------------------------
(* The fields transition() assigns, in the order the code assigns them.    *)
Applied(row, to, meta) ==
  [currentState    |-> to,
   selectedGateway |-> IF meta.gateway # Null THEN meta.gateway
                                              ELSE row.selectedGateway,
   gatewayTxnId    |-> IF meta.gatewayTxnId # Null THEN meta.gatewayTxnId
                                                   ELSE row.gatewayTxnId,
   attemptCount    |-> IF meta.incrementAttempt THEN row.attemptCount + 1
                                                ELSE row.attemptCount,
   finalReconciled |-> IF to = "RECONCILED" THEN TRUE ELSE row.finalReconciled]

(* `metadata.gateway ?? selectedGateway` is the updated row's gateway.     *)
EntryFor(from, updated) ==
  [fromState |-> from,
   toState   |-> updated.currentState,
   gateway   |-> updated.selectedGateway]

CanTransition(k, to) ==
  txns[k] # Null /\ to \in VALID_TRANSITIONS[txns[k].currentState]

(* Mutant: the transaction is created before a gateway is chosen.          *)
NewWithoutGateway(g) ==
  [currentState    |-> "INITIATED",
   selectedGateway |-> Null,
   gatewayTxnId    |-> Null,
   attemptCount    |-> 0,
   finalReconciled |-> FALSE]

NewTransaction(g) ==
  [currentState    |-> "INITIATED",
   selectedGateway |-> g,
   gatewayTxnId    |-> Null,
   attemptCount    |-> 0,
   finalReconciled |-> FALSE]

-----------------------------------------------------------------------------
LedgerInit ==
  /\ txns = [k \in Keys |-> Null]
  /\ creationLogged = {}
  /\ audit = [k \in Keys |-> << >>]

(* INSERT of a new transaction; the unique index admits one per key.       *)
Insert(k, g) ==
  /\ txns[k] = Null
  /\ txns' = [txns EXCEPT ![k] = NewTransaction(g)]
  /\ UNCHANGED <<creationLogged, audit>>

(* The "transaction created" audit row, a statement of its own.            *)
LogCreation(k) ==
  /\ txns[k] # Null
  /\ creationLogged' = creationLogged \cup {k}
  /\ UNCHANGED <<txns, audit>>

(* One committed transition: row and audit entry change together.          *)
Transition(k, to, meta) ==
  /\ CanTransition(k, to)
  /\ txns' = [txns EXCEPT ![k] = Applied(@, to, meta)]
  /\ audit' = [audit EXCEPT ![k] =
                 Append(@, EntryFor(txns[k].currentState,
                                    Applied(txns[k], to, meta)))]
  /\ UNCHANGED creationLogged

LedgerNext ==
  \E k \in Keys :
    \/ \E g \in Gateways : Insert(k, g)
    \/ LogCreation(k)
    \/ \E to \in TransactionState, meta \in Metadata : Transition(k, to, meta)

LedgerSpec == LedgerInit /\ [][LedgerNext]_ledgerVars

-----------------------------------------------------------------------------
LedgerTypeOK ==
  /\ txns \in [Keys -> Transaction \cup {Null}]
  /\ creationLogged \in SUBSET Keys
  /\ audit \in [Keys -> Seq(AuditEntry)]

(* Every recorded transition was on the allow-list.                        *)
EntriesAllowed(k) ==
  \A i \in 1..Len(audit[k]) :
    audit[k][i].toState \in VALID_TRANSITIONS[audit[k][i].fromState]

(* Each entry starts where its predecessor ended.                          *)
EntriesLinked(k) ==
  \A i \in 1..Len(audit[k]) - 1 :
    audit[k][i].toState = audit[k][i+1].fromState

(* The trail starts at INITIATED and ends at the state of the row.         *)
TrailMeetsRow(k) ==
  /\ txns[k] = Null => audit[k] = << >>
  /\ txns[k] # Null =>
       IF audit[k] = << >>
       THEN txns[k].currentState = "INITIATED"
       ELSE /\ audit[k][1].fromState = "INITIATED"
            /\ audit[k][Len(audit[k])].toState = txns[k].currentState

(* AUDIT TRAIL.  At any moment the committed audit entries of a            *)
(* transaction, in commit order, are a path of the lifecycle graph from    *)
(* INITIATED to the current state: no transition is missing, none is       *)
(* recorded that did not happen, whoever of the payment request and the    *)
(* reconciliation worker made it (state-machine.service.ts transition).    *)
AuditTrailIsPath ==
  \A k \in Keys : EntriesAllowed(k) /\ EntriesLinked(k) /\ TrailMeetsRow(k)

(* A late or duplicate webhook, or a slow payment request, never moves a   *)
(* FAILED or RECONCILED transaction, nor deletes a transaction             *)
(* (VALID_TRANSITIONS and the check in transition()).                      *)
TerminalStays ==
  [][\A k \in Keys :
       txns[k] # Null =>
         /\ txns'[k] # Null
         /\ txns[k].currentState \in Terminal =>
              txns'[k].currentState = txns[k].currentState]_ledgerVars
=============================================================================
