# Payment orchestration layer: TLA+ verification project

The modules in this directory model the payment orchestrator of this repository
(NestJS, PostgreSQL, Redis), check it with TLC on small instances, and prove
its safety with TLAPS for every number of keys, gateways, requests and webhooks:
the state machine, the payment path with all its faults, the webhooks, the circuit
breakers, the ranking. Paths below are relative to the repository.

## 1. The system

| Part | State it keeps | Operations | Where |
|---|---|---|---|
| Ledger | tables `transactions`, `audit_log` | insert, log creation, transition | `src/transactions/entities`, the migration |
| State machine | row locks, an open database transaction per call | `transition()` | `src/transactions/state-machine.service.ts` |
| Transactions service | idempotency lock and cache; locals of each request | `create()` (lock, insert, failover loop), reads | `src/transactions/transactions.service.ts` |
| Redis service | Redis or an in-memory Map; `isMockMode` | `get`, `set`, `del`, `lpush`, `brpop` | `src/redis/redis.service.ts` |
| Webhook ingestion | table `webhook_events`, the queue | `ingest()`, `pushEvent()` | `src/webhooks/webhooks.service.ts`, `reconciliation-queue.service.ts` |
| Reconciliation worker | the popped event and its locals | `pollQueue`, `processEvent`, `driveToReconciled` | `src/webhooks/reconciliation-worker.service.ts` |
| Routing engine | table `gateway_stats`, keys `circuit:open:*` | `getRankedGateways`, `recordSuccess`, `recordFailure` | `src/gateways/routing-engine.service.ts` |
| Adapters | none; configuration | `charge()` of Stripe, Razorpay, PayU, UPI | `src/gateways/adapters` |
| Webhook controller | none; configuration | four endpoints: verify, name the event, `ingest()` | `src/webhooks/webhooks.controller.ts` |
| Gateways (external) | charges | answer a charge, send webhooks | seen through the adapters |

**Interaction.** A client's `POST /payments` runs `create()`, which holds the
Redis key `idempotency:<key>`, asks the routing engine for a ranking, inserts
the transaction and then, gateway after gateway, moves it through the state
machine and calls the adapter in a race with a 1.5 s timer. Gateways send
webhooks; `ingest()` stores each under a unique index and pushes its id on a
Redis list; one worker pops ids, looks the transaction up and drives it to
`RECONCILED` through the same state machine. So a request and the worker can be
at work on the same row, several requests can carry the same key, and all of
them share the Redis service, which may lose its store at any time.

**What is hard.** Node runs one step at a time, but every `await` is a point
where anything else may happen: other requests, the worker, a timer, an expired
key, a lost connection, a crash. The database is the only place with real
mutual exclusion (row lock, unique indexes). `PROJECT.json` lists the hazards,
each at its line.

**What makes each part correct.**

- State machine: a call decides on the row it overwrites; row and audit entry
  change together; locks are given back on every path; terminal means terminal.
- Payment path: one charge per key and gateway; no charge without an audit
  entry; `SUCCESS` only if a gateway accepted; an outcome once told stands; `FAILED`
  only when every ranked gateway was tried, and no charge after it; as long as the process lives, an unsettled payment is in somebody's hands.
- Redis service: none of this depends on its contents, since they can vanish.
- Ingestion and worker: each webhook is worked on at most once, and only on its
  own transaction; none is dropped for a reason the worker could avoid.
- Routing engine: trips after three failures, readmits after the cooldown; a
  ranking loses no gateway and never prefers one that is worse in every respect.
- Adapters and controller: a success with real keys is a real charge; the id that
  was stored is the id that is looked for; only repetitions count as duplicates.

## 2. Modules

| Module | Models |
|---|---|
| `PaymentDefs` | the enumerations and the allow-list |
| `TransactionLedger` | abstract specification `LedgerSpec` of the two tables |
| `StateMachine` | `transition()`, one action per SQL statement |
| `LedgerProofs`, `StateMachineProofs` | theorems about the ledger and `transition()` |
| `GatewayNetwork` | the gateways (external) |
| `RedisService` | both backends of the Redis service |
| `TransactionsService` | `create()`, one action per await |
| `Reconciliation` | `ingest()` and the worker |
| `PaymentSystem` | the composition, the faults, the properties |
| `IdempotentPayments` | abstract specification of what a merchant is promised |
| `PaymentInvariants` | the parts of the inductive invariants of `PaymentSystem` |
| `PaymentProofs` | `PaymentSystem`: types, ledger, audit trail, charges |
| `PaymentWebhookProofs` | `PaymentSystem`: what webhooks and worker may do |
| `PaymentAnswersProofs` | `PaymentSystem`: locks, answers, refinement of `IdempotentPayments` |
| `RoutingEngine` | the circuit breakers, one action per await, used by payments as `create()` does |
| `GatewayRanking` | totals, average latency, score and order of the ranking |
| `GatewayAdapters` | `charge()` of the four adapters and `isGatewayConfigured()`, as tables |
| `RedisConnection` | the one connection that polling, pushing and requests share |
| `WebhookPath` | endpoints, deduplication, queue, id extraction and lookup, composed with the adapters and the connection |
| `RoutingProofs`, `RankingProofs`, `WebhookPathProofs` | theorems about these three |
| `MCStateMachine`, `MCPaymentSystem`, `MCRoutingEngine`, `MCGatewayRanking`, `MCWebhookPath` | small instances for TLC |

`StateMachine`, `GatewayNetwork` and `RedisService` extend `TransactionLedger`;
`TransactionsService` and `Reconciliation` extend `RedisService`;
`PaymentSystem` extends those two. Each module leaves the variables of the
others unchanged in its own actions, and `PaymentSystem` joins them. `WebhookPath`
extends `GatewayAdapters` and `RedisConnection`. `PaymentSystem` and `WebhookPath`
look at the same path from two sides: the first interleaves `create()`, `ingest()`
and the worker await by await and takes the ids as given; the second takes each of
them as a step and has the payload fields, the configuration and the stored
ids. In the same way `RoutingEngine` has the interleavings and `GatewayRanking` the
arithmetic.

**Abstract specifications.** `LedgerSpec` (`TransactionLedger`) is refined by
`StateMachine` (checked and proved). `PaymentSystem` changes the tables with the ledger's
own actions, so it keeps to `LedgerSpec` by construction, which no run checks again; what that
rests on is the refinement by `StateMachine`.
`PaymentsSpec` (`IdempotentPayments`) is refined by `PaymentSystem` under all faults
(checked and proved): the mapping takes a row to its `Outcome` (none, pending, success, failed,
reconciled), the number of calls of a gateway to `charged`, and the answers
of the requests to `told`. It says that a payment is created once, charged at most
once per gateway, settled once and after a charge, and that no client is told what was
never so. It allows a charge to start after the payment was settled, because the
code does: a request that has committed `PROCESSING` does not look again, while
a webhook may settle the payment.

### State and code

- `txns`, `audit` and `creationLogged` are the committed contents of the tables.
  A transaction is named by its idempotency key. Columns nobody reads back
  (merchant, amount, currency, timestamps, reasons, raw responses) are left out;
  `finalReconciledAt` is kept as whether it is set. The ranking a payment was created with
  (`selected_gateway` and `fallback_gateways` of the insert) is the history variable `ranked`
  of `PaymentSystem`: no step depends on it.
- In `StateMachine` the uncommitted writes of a call live in `entity` and
  `fromState` until `Commit`; `rowLock` is PostgreSQL's row lock. `Abort` is a
  failed statement or a dead connection at any point.
- In `PaymentSystem` a call of `transition()` is one step, `Transition` of the
  ledger. This is sound because `StateMachine` refines `LedgerSpec`, which is
  checked and proved; between the calls everything interleaves.
- `req[r].at` is the await at which a request stands. A database error after a
  statement took effect is the error at the next place, so both a lost
  statement and a lost reply are covered.
- A failed Redis command sets `isMockMode` and is repeated on the Map: `Failover`
  followed by the operation. `lpush`/`brpop` have no such fallback (`PushFails`).
- A gateway transaction id names the charge it came from. A webhook is described by the
  charge it is about, its type, the id `extractGatewayTxnId` finds in it, and
  the `idempotencyKey` of its payload, if any.
- TypeORM's `save()` of a loaded `gateway_stats` row makes the row equal to the
  object, hence `SaveSuccess`, `SaveFailure` and `SaveHalfOpen` write the whole
  row; the select it does first is not a step of its own.
- `RoutingEngine` keeps the cooldown keys of both stores: Redis drops them, the Map
  does not. `streak` and `mixed` are history variables for `TripsAfterThree`:
  the failures since the last success or readmission, and the gateways whose row
  was read between another payment's read and save of it.
- `GatewayRanking` computes scores in whole parts of 1, `Unit` of them, instead of doubles;
  `UnitAssumption` says how fine they must be so that shares that differ have different
  parts. As in the code, an `OPEN` candidate scores -1, and the filter and the fallback by
  cost look at the sign of the score alone (`CandidateScore`, `Filtered`). Equal scores may come in any order, and where `Math.round` meets a half both
  results are possible. `last`, `seen` and `recorded` are history.
- `GatewayAdapters` knows an amount by its last two digits and a setting by
  whether it is absent, a placeholder, the mock value of the tests, or real. Each
  adapter is a record: its mock mode, the endings it simulates in any mode,
  those of them that fail, and which id it takes from the reply.
- In `WebhookPath` a webhook is a set of payload fields about a charge;
  `FieldValue` (external) says what a gateway puts into them. `wire` is the sequence of
  commands on the connection; Redis answers its head. LPUSH and BRPOP make the
  list a queue, so `list` is written with its oldest element first.
- Definitions that begin with the comment "Mutant:" are wrong on purpose. They
  are used by no specification; `PROJECT.json` ("mutants") says which definition
  each may replace to see that the property named there fails.

## 3. Runs

`tlc -config X.cfg M` in this directory.

| Run | Config, module | Shows |
|---|---|---|
| state_machine | `MCStateMachine.cfg`, `MCStateMachine` | overlapping calls of `transition()` refine the ledger; decisions are never stale, locks never orphaned, the trail is a path, terminal states stay; every call returns |
| payment_system | `MCPaymentSystem.cfg`, `MCPaymentSystem` | the safety of the whole system under all faults; it refines `IdempotentPayments`; a payment has `FAILED` only when every gateway of its ranking was called, and none is called after that |
| payment_system_live | `MCPaymentSystemLive.cfg`, `MCPaymentSystem` | every request is answered; every payment is settled; webhooks without a key are worked off; and, as safety: in every state somebody is at work on an unsettled payment, and a stored webhook without a key is not lost |
| routing | `MCRouting.cfg`, `MCRoutingEngine` | with overlapping payments and with or without Redis, OPEN means three failures in a row unless reads and saves of the row were mixed; with Redis a tripped gateway is readmitted |
| ranking | `MCGatewayRanking.cfg`, `MCGatewayRanking` | rankings are complete: no cost, latency or record makes a score negative, for which the filter would drop a gateway as `OPEN`; they never prefer a dominated gateway, send high values to the reliable one; averages are averages |
| webhook_path | `MCWebhookPath.cfg`, `MCWebhookPath` | only its own, verified webhook reconciles a payment; only repetitions are duplicates; stored ids are found; simulated amounts do not pass for charges; the shared connection starves neither the queue nor the requests |

Three of these properties are stated with an exception, because the code does
not do better, and name it: `LiveSuccessIsReal` leaves out Razorpay, whose adapter
simulates amounts that end in 99 or 00 with real keys too and then reports
success (the property also sets aside adapters in mock mode, whose successes are simulated by
intention); `DuplicateIsRetry` leaves out PayU, whose events are named by the
payment they are about, and payloads without any id, which are all `'unknown'`;
`AckedIsProcessed` leaves out webhooks that carry the idempotency key, because
these can find the row while the payment request is still at work on it, lose the
race, and are then dropped by `pollQueue`. `StoredIdReconciles` and `EveryGatewayReconciles` have
no case of UPI: its adapter stores the id of a payment link, which none of the fields the
worker reads carries.

The following runs end with a violation. Each states what a document or comment
of the repository says and shows an execution of the code that differs; the
quotations are in `PROJECT.json` ("findings"). Of `retry_after_failure` the repository says two
things: the comment quoted there, that the key is cleaned up "so it can be retried", and the
test `idempotency.spec.ts`, "Test 4", which expects an `INITIATED` row found in the database
to be returned and cached. The code does what the test says, and so the retry the
comment announces retries nothing.

| Run | What happens |
|---|---|
| retry_after_failure | a retry after an error is answered with an unfinished transaction, cached for 24 h as completed |
| early_webhook | a webhook that overtakes the commit of `SUCCESS` is marked processed without effect |
| failure_reconciles | a webhook about a failure reconciles the payment |
| routing_lost_update | concurrent failures are counted once; the circuit does not trip |
| routing_fallback | on the in-memory store the cooldown never ends; the gateway stays `OPEN` |
| unmatched_webhook | Razorpay and PayU webhooks with the stored id are looked up by another id and reconcile nothing |

### Bounds

- `MaxTrail` (StateMachine) stops new calls on a transaction once its trail has that many
  entries. Four entries contain every edge of the lifecycle graph and the
  cycle through `RETRY_PENDING`; calls in flight may still go beyond. The proofs hold
  for any bound.
- One key, two requests, two gateways: every request is a duplicate of the
  other, and the failover loop has a fallback. Two requests are enough for
  each to be the holder, the duplicate and the retry of the other; they are
  interchangeable (symmetry in `payment_system`, which checks no liveness). Transactions
  that could be confused with each other are the subject of `webhook_path`.
- One webhook in `payment_system`, any number of times, with a key in its payload, so that
  the worker can find the transaction at any point of the loop. That a second webhook overwrites
  the first in the one slot of the in-memory queue does not happen in this run (two
  webhooks there take it from 0.9 to 5 million states); `WebhookHandledOnce` has it
  for any number. In all runs a webhook may carry the idempotency key itself, although what
  `create()` sends to an adapter is `${key}_${gateway}`: the model allows more than gateways do
  that echo it.
- The webhooks of `payment_system` report acceptance. `SuccessIsBacked` is stated for
  those: a webhook about a failure is taken for a confirmation by the worker,
  which `failure_reconciles` shows.
- A request is used once, so each run is finite; therefore deadlock is not
  checked where the system may come to rest.
- `consecutive_failures` is kept up to 3 in `RoutingEngine`, since only `>= 3` is ever asked.
- `routing` takes one gateway and two payments, the smallest case of overlap on a row
  (rows of different gateways do not interact); `routing_fallback` two gateways,
  so that another one is left to serve payments.
- `MaxOutcomes` = 6 (GatewayRanking): two gateways can both trip, or one trip, be
  readmitted and be compared with one that has a record. Costs are 320 and
  50 bps, one above the 300 that `getRankedGateways` takes for the maximum; latencies 0, 1 and 1500 ms are the boundaries
  (not averaged on failure, below 50 ms, the timeout).
- `Unit` = 1000000 (GatewayRanking): 7 * 6 * 6 parts would do for the totals of the run, 1500 *
  1500 / 50 = 45000 for its latencies.
- `Faults` is empty in `payment_system_live`, for its liveness; `SomebodyIsAtWork` and
  `StoredIsNotLost` name the faults they allow, and the proofs cover these.
- `MaxDeliveries` = 2 (WebhookPath): a webhook and its repetition, two webhooks of a
  payment, or one of each payment; a payment is tried on one gateway. The webhooks are those
  of `MCWebhooks`: all fields, wrong signature, no field at all, only the stored id. The
  configurations are all settings real, and a partial one in which Razorpay is not
  configured and the UPI adapter simulates.

### Fairness

- `StateMachine`: the database executes the statements it was given (weak
  fairness of each caller's next step) and its lock queue serves waiters in
  turn (strong fairness of `SelectForUpdate`). New calls are not assumed.
- `PaymentSystem`: every await of the program resolves, since database and Redis
  answer, the timer fires and the worker polls. Clients and gateways owe nothing:
  a charge may stay undecided and a webhook may never come. `Faults` is
  empty in these runs: after a crash nothing in the code resumes a payment.
- `RoutingEngine`: payments keep coming and are served, and a TTL runs out. The
  outcomes of the charges are not constrained. Nothing makes Redis fail or not fail.
- `WebhookPath`: Redis answers the command at the head of the connection or lets its
  timeout end, and the worker's loop goes on. Clients and gateways owe nothing.

## 4. Proofs

`tlapm M.tla` for each of `LedgerProofs`, `StateMachineProofs`, `PaymentProofs`,
`PaymentWebhookProofs`, `PaymentAnswersProofs`, `RoutingProofs`, `RankingProofs` and
`WebhookPathProofs`. Every part of an inductive invariant was first checked by TLC as an
invariant of the instance of its module (`MCPaymentSystem`, `MCRouting`,
`MCWebhookPath`), the last three of `PaymentSystem` also with expiring keys and, for
`SomebodyIsAtWork`, the loss of Redis.

**Assumptions.** All are named and stand in the module that declares the constants:

- `Null` is none of the values it is told apart from: keys, gateways, ids, rows,
  callers, cache entries, answers, webhooks (`NullAssumption`, `CallersAssumption`,
  `CacheAssumption`, `RequestsAssumption`, `EventsAssumption`).
- The set of gateways is finite (`RequestsAssumption`, `RoutingAssumption`,
  `RankingAssumption`) and, for rankings, not empty: the enumeration has four.
- `EventsAssumption`: the id and the key in a webhook, if it has any, are those of the charge it
  is about. `WebhookAssumption`: gateway, payment and number identify a webhook.
- Costs, latencies and bounds are natural numbers, `Metas` is of the type of the
  metadata argument, `Faults` is any set of the modelled faults.
- `UnitAssumption`: the parts in which scores are computed are finer than the difference of
  any two success rates of at most `MaxOutcomes` outcomes (with the weights of high
  amounts, hence the factor 7) and of any two latency shares (50 / l). It is about the
  model's arithmetic, not the program: for all totals and latencies there is such a `Unit`.

Nothing is assumed about the number of keys, gateways, callers, requests, payments,
or webhooks, and the bounds of the runs may have any value. One hypothesis
is stated in the theorems that need it: `OnlySuccessEvents`, that webhooks report accepted
charges (`SuccessHasCharge`, `ColumnsNameCharges`). Without it both are false, which is what
the run `failure_reconciles` is about. Costs may have any value; those above 300 bps count
as 300 in `DominatedComesLater` (`CountedCost`), because of two such gateways both cost scores
are 0 and the cheaper one is not preferred ("Assume maximum cost is 300 bps",
`routing-engine.service.ts:76`).

**Ledger** (`LedgerProofs`). `LedgerTypeCorrect`; `LedgerAuditTrail`: the audit
entries are a path of the lifecycle graph that ends at the row's state. The
invariant is inductive together with the type invariant: a transition appends
an entry that starts where the last one ended, because that is the row's
state. `LedgerTerminalStays`: the allow-list of a terminal state is empty.

**State machine** (`StateMachineProofs`). The inductive invariant is

    IInv == TypeOK /\ NoStaleDecision /\ NoOrphanLock

`TypeOK` alone does not say why a commit is legal: `Commit` writes a local copy
made several statements earlier. `NoStaleDecision` says that a caller inside
its database transaction holds the row lock, and that its copy is the committed row
(or what `Applied` makes of it, with an allowed target). A commit by
someone else cannot break this, since that caller would hold the same lock;
`NoOrphanLock` is its counterpart, that whoever the lock names is really inside
`transition()` on that row. From `IInv` follow

- `TypeCorrect`, `DecisionsAreCurrent`, `LocksAreOwned`: the three parts (no run checks `TypeOK`
  of this module, since the theorem has it for every instance);
- `RefinesLedger`: `Spec => LedgerSpec`. `Commit` is the step `Transition`
  (`CommitIsTransition`), the environment's steps are `Insert` and `LogCreation`,
  everything else leaves the tables alone (`StepRefines`);
- `AuditTrailCorrect` and `TerminalIsFinal`: from the ledger's theorems through
  the refinement, without a second induction.

**Payment system.** The invariants of `PaymentSystem` speak about tables, gateways and
answers; none is inductive, because what a step may do depends on where its
request or the worker stands. `PaymentInvariants` says what is true at each place. The
proofs build on each other in this order:

1. `PaymentTypes` (`TypeInv`): besides `TypeOK`, which locals are set at which place.
   With it, from the ledger's theorems, `PaymentAuditTrail`: each step is an `Insert`, a
   `LogCreation`, a `Transition` or leaves the tables alone, by construction (the lemma
   `PaymentUsesLedger`).
2. `Ownership` (`OwnInv == OneOwner /\ FailoverOrder /\ ChargedAtMostOnce`). The lock and the
   cache play no part, since either store may lose them. What counts is the unique
   index: a row is inserted once, so at most one request per key is past its insert
   (`OneOwner`), and no gateway is called before. That request has called neither its
   current gateway, while it stands before the charge, nor any of its fallbacks, which
   are without repetition (`FailoverOrder`). Hence `NoDoubleCharge`. `FailedIsNotCharged`:
   only the owner writes `FAILED`, since the worker's ladder has no such rung, and it
   has then left the loop for the cache (`FailedIsOver`); nobody else calls a gateway.
   `FailedIsLastResort`: the ranking is recorded by the insert that makes a request the
   owner (`RankingNoted`), and of its gateways the owner has given up only such as were
   called (`GivenUpAreCalled`); when its list is empty after a failed call, all were.
3. `NoUnauditedCharge`: a request that stands at the charge has its attempt in the trail
   (`ChargeFollowsAudit`), and the trail only grows. `AttemptCountIsAudited`: the
   counter and the number of `PROCESSING` entries grow together, in every transition.
4. `WebhookOwnership` (`WebhookInv`): a webhook under way is about a charge that was
   asked for (`WebhooksHaveCharges`), the id of a row names a charge of this row, so the
   worker drives the payment of its own webhook (`DrivesOwnPayment`), and whoever may
   make a transition comes after the creation was logged (`CreationLogged`). Hence
   `CreationIsLoggedFirst`; with the acceptance behind each webhook and each
   believing request (`AcceptedEvidence`) `SuccessHasCharge` and `ColumnsNameCharges`.
5. `ProcessedIsSettled`: a payment at rest stays at rest (`RestStays`), and the worker gets
   to mark an event with key and id only over a payment at rest (`MarksSettled`).
   `WebhookHandledOnce`: the unique index lets an event in once, and its one copy is
   being pushed, in one place of one queue, or in the worker's hands (`OneCopy`).
6. `NoPaymentIsAbandoned`: `SomebodyIsAtWork` is inductive with `TypeInv`. A transition
   that is committed leaves its maker, request or worker, at a place that agrees with the
   new state (`OwnerMovesRow`, `RequestKeepsWork`, `WorkerKeepsWork`). One that is rejected
   was asked for by somebody who did not agree with the row, since from a place that
   agrees the next transition is always allowed (`WorkingGoesOn`, `NextUpAllowed`); so
   whoever was at work still is. Any key may expire and Redis be lost.
   `NoWebhookIsLost`: an event of which the worker knows only the charge finds a row that
   is `SUCCESS` or `RECONCILED`, where requests move nothing (`RequestLeavesSuccess`), so
   what the worker has read stays true (`KeylessIsSettled`) and it is never rejected; as
   long as Redis is in use (`RedisInUse`) a push overwrites nothing (`PushKeepsQueued`) and a
   pop takes one event (`PopKeepsQueued`).
   These two are the safety behind `EventuallySettled` and `AckedIsProcessed`: TLC adds, on
   the instance, that somebody who is at work gets on.
7. `LocksAreReleased`: the Map is unused until Redis is lost (`MapUnused`), and a lock in it
   belongs to a request that is still inside `create()`.
8. `AnswersAreKept`: the rows that requests have loaded and are about to return or cache
   stand as well (`CopiesStand`), because rows move along the lifecycle and what
   can follow a final answer is one step (`SUCCESS` to `RECONCILED`).
9. `PaymentsAreIdempotent`: `Spec => PaymentsSpec`. Each step changes at most one of
   the three mapped variables: an answer is a telling (`ToldStep`), a call is a charge
   (`ChargeStep`), a transition is a settlement or invisible (`OutcomeStep`); the guards
   of the abstract steps come from the invariants above.

**Circuit breakers** (`RoutingProofs`). `BreakerTrips` needs to know what the payment that
has the row in hand is about to save. `RowInv(g)`: as long as reads and saves of the
row of `g` were not mixed, at most one payment holds it; if nobody is recording an
outcome, the saved row agrees with the history, else the row to be saved does.

**Ranking** (`RankingProofs`). `RankingHasAll`: a score is never negative, whatever the cost
and the record (`ScoreNotNegative`), so the filter by its sign drops exactly the `OPEN` ones
(`FilterIsByHealth`), which are the `OPEN` ones still cooling down; and a sorted order is a sequence without
repetition, as long as there are eligible gateways, so each of them occurs in it
(the pigeonhole principle, `FS_Injection`). `AverageIsAnAverage`: the
weighted mean of the old average and a latency lies between them whichever way it is rounded
(`AverageBetween`).
`DominatedIsLater` and `HighValueIsSafe` are about the score, so first about shares: `Share`
lies between 0 and `Unit` (`ShareBounds`), respects the order of fractions
(`ShareMonotone`), and tells two of them apart when they differ by enough for `Unit`
(`ShareStrict`). With these, the more reliable, the cheaper and the faster gateway has the
higher part of the score (`ReliableScores`, `CheapScores`, `FastScores`), and the weighted sum
of the parts, times 0.3 for a gateway that is `HALF_OPEN`, keeps the order
(`DominatingScores`, `ReliableOutweighs`). They need totals and latencies that `Unit` can
tell apart: `TotalsAreCounted` shows that no gateway has more outcomes than were recorded,
and `AverageIsAnAverage` bounds the average by a latency. Last, a ranking is in the order
of scores computed from such rows (`RankingIsByScore`).

**Webhooks** (`WebhookPathProofs`). `PathInv`: a row has the id its adapter gives
(`StoredIds`), gateways have charges only of payments tried on them (`ChargesHaveRows`), stored
webhooks were verified and are about charges (`StoredIsVerified`), and what is on the
wire, in the list or in the worker's hands was stored before (`InTransit`). With what
`extractGatewayTxnId` and the endpoints compute from a payload (`FirstIsFirst` and the lemmas after
it) follow `OwnWebhookReconciles`, `DuplicatesAreRetries`, `NoPhantomCharge` and
`StoredIdIsFound`.

**Only model-checked.** Liveness (`CallsReturn`, `RequestsAnswered`, `EventuallySettled`,
`AckedIsProcessed`, `OpenRecovers`, `StoredIsProcessed`, `RequestsGetThrough`), which is beyond
the prover. Every invariant and action property of the passing runs has a theorem.

## 5. Not modelled

- Exact doubles: two scores that are equal in parts of `Unit` may differ in the code by a
  rounding, and come in either order.
- How adapters build their requests, and how signatures are computed: hashing and
  formatting of strings, no state. A signature is right or wrong.
- A ranking inside `PaymentSystem`: `RankGateways` takes any order of any set of
  gateways, which includes every ranking of the engine. The engine's tables
  are read by nothing else in the payment path.
- Crashes inside the routing engine: a save that does not happen is a payment
  whose outcome was not recorded; the row stays as the last save left it.
- Several gateways per payment in `WebhookPath`; `PaymentSystem` has failover.
- `history()` and its order by `created_at`: no clock is modelled, the trail is in commit
  order.
- How many payments probe a `HALF_OPEN` gateway: the code does not limit them,
  although `README.md:11` speaks of a single one.
- Read-only endpoints, validation, dependency injection, start-up, the
  manual script `src/test-stripe-db.ts`.
- Time: timers and TTLs may fire at any moment, which includes the real ones.
- What becomes of a charge that a gateway accepts after its call timed out: the
  model reaches such states (also with two gateways accepting one payment); the
  code does nothing about them and no document says what should happen. That they
  are in the audit trail is `ChargeIsAudited`; what a late webhook makes of the row is
  `ColumnsAgree`.
- More than one process: two instances would add Maps, not shared state.

## 6. Plan

Done, in this order: ledger and state machine with proofs; Redis service, payment path,
ingestion and worker; their composition; the circuit breakers on both stores; the
abstract specification `IdempotentPayments`; adapters, endpoints, connection and matching
of webhooks; the ranking.

Then the proofs: types, refinement of the abstract specifications and all safety
invariants of `PaymentSystem`; the breakers; the webhook path; completeness of rankings
and averages. Last, the order of rankings, and what neither request nor worker may do to
a payment: fail it early, charge it after `FAILED`, abandon it, lose its webhook.

Left for later: liveness by hand from `SomebodyIsAtWork` and `StoredIsNotLost` (a measure that
every step of whoever is at work decreases), and a run in which a crash happens once and the
liveness that is left after it is stated.
