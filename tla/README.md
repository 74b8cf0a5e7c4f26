# A verification project for ig-trader

ig-trader is a Python trading system: a Frozen V1 strategy evaluated once a
minute, a hypothetical ("shadow") book kept in PostgreSQL under an execution
lease, a guarded path that trades an IG *demo* account from a local operator
console, a tournament of strategies that only observes, and a set of offline
replays, data-qualification jobs and strategy laboratories. This directory
models the parts of it where several processes, crashes, lost replies and stale
reads meet.

- [Modules](#modules)
- [The system](#the-system) (inventory)
- [What is modelled, and how it corresponds to the code](#what-is-modelled)
- [Runs, bounds and fairness](#runs)
- [What is proved](#what-is-proved)
- [Finding, and behaviour worth knowing](#findings)
- [What is not modelled](#what-is-not-modelled)
- [Plan](#plan)

Paths below are relative to `src/ig_trader/` unless they begin with another
directory of the repository (`docs/`, `tools/`, `migrations/`).

## Modules

| Module | What it is |
| --- | --- |
| `FencedLedger` | abstract: what the lease promises the tables it protects |
| `ExecutionLease` | `execution_lease.py` and the SQL functions of migration 002 |
| `PositionBook` | abstract: what the shadow runtime promises about its position |
| `ShadowRuntime` | `shadow_runtime.py`, `shadow_execution.py`, `shadow_postgres_store.py` |
| `DemoExecution` | `demo_execution.py`, `demo_store.py`, the retries of `http_client.py` |
| `DemoOperator` | `demo_operator.py`: registry, start, worker loop, console commands |
| `PaperTrade` | abstract: what the offline paper lifecycle promises about an intent's money |
| `OfflinePaper` | `offline_paper/`: conductor, paper broker, journal |
| `PriceStream` | `shadow01/stream_bridge.py` over `local_demo_stream_transport.py`: two threads on one queue |
| `ReadOnlySmoke` | `shadow01/live_readonly_smoke.py` and its session, over `PriceStream` |
| `ReadOnlySession` | `session.py`, `http_client.py`, `shadow01/local_demo_read_only.py` and `read_only_broker.py` under the five one-shot probes |
| `Tournament` | `shadow01/runtime.py` on the append-only store `shadow01/storage.py` |
| `DatabaseBootstrap` | `db_bootstrap.py`: the four jobs that change the execution database |
| `DQ03Handoff` | `dq03/`: the three phases, their files, and the loaders of the tournament and the laboratories |
| `G3APipeline` | `tools/g3a_market_data.py`: acquisition, publication and restart |
| `HistoricalReplay` | `g3b_replay/`: the two passes of the exact replay |
| `ResearchLab` | `strategy_lab/`, `sl02/`, `sl03/`, `sl04/`: the evaluation of one combination |
| `MC*` | small instances for TLC; each `.cfg` is one run |
| `*Proofs` (8 modules) | theorems, checked by TLAPS |

`ReadOnlySmoke` composes with `PriceStream` by extending it: the smoke's actions
start the stream's operations and wait for them; `ReadOnlySession` extends it too, for
the one probe that opens a stream, and `MCReadOnlySmoke` checks the smoke and the
probes, of which a behaviour has one. `ExecutionLease` implements
`FencedLedger`, `ShadowRuntime` implements `PositionBook`, `OfflinePaper` implements
`PaperTrade`. `MCDQ03` and
`MCG3APipeline` each check a program together with one that computes on what it
accepted: the two share no state, and a behaviour is of one or the other.

Definitions whose comment begins with "Mutant:" are not part of the model. Each
is a plausible mistake in the code (a dropped guard, a swapped order); a
property is kept only if some mutant breaks it. `PROJECT.json` lists them, and
maps every definition to the lines of code it stands for.

## The system

The parts where state is shared, lost or stale come first.

### Execution lease (`execution_lease.py`, `migrations/postgresql/002_*.sql`)

- *State*: one row of `trading.worker_leases` (owner, fencing token, expiry), a
  token sequence; per replica a coordinator with `lease` and `lease_state`.
- *Operations*: `try_acquire`, `renew`, `release`, `assert_current`,
  `run_fenced` (opens a transaction, locks the row, runs a callback, commits).
- *Interaction*: the shadow store writes only inside `run_fenced`; triggers on
  the protected tables check the fence a second time.
- *Hard*: replies lost after commit, connections that break with COMMIT on the
  wire, crashes inside a transaction, expiry during a transaction, two replicas
  with one hostname, `nextval` running before the row lock.
- *Correct when*: a superseded holder never writes again; a coordinator only
  believes in a token it was granted; a lost lease frees itself.

### Shadow runtime (`shadow_runtime.py`, `shadow_execution.py`, `shadow_postgres_store.py`)

- *State*: candle buffers in memory; intents with a lifecycle in PostgreSQL
  (fenced); an evidence ledger, one slot per cycle and instrument, that must be
  durable and shared (`shadow_runtime.py:234`) but is neither fenced nor in the
  intent's transaction.
- *Operations*: `evaluate` (buffer, verdict or intent, evidence) and `advance`
  (one lifecycle step of an intent, then its evidence).
- *Hard*: each operation is a chain of separate calls; any may fail, the lease
  may move on between two of them, another runtime may be ahead, and a restart
  replays old candles into an empty buffer.
- *Correct when*: at most one hypothetical position is unresolved, evidence
  names a real intent and never runs ahead of it, and is never rewritten.

### Demo execution (`demo_execution.py`, `demo_store.py`, `http_client.py`)

- *State*: one SQLite record per intent with a lifecycle; the broker's own
  orders, deals and confirmations.
- *Operations*: `submit`, `reconcile_open`, `request_close`, `reconcile_close`;
  store `get`, `put`, `replace`, `incomplete_records`.
- *Hard*: a request may reach the broker and its reply be lost; the HTTP client
  repeats requests that time out; `replace` overwrites what another process
  wrote; the process may die between any two calls.
- *Correct when*: an intent is ordered once and on record, no position is
  recorded, closed or reported closed against the broker's facts, and every
  record that waits for the broker is resolved.

### Demo operator (`demo_operator.py`, `demo_operator_models.py`)

- *State*: one SQLite row: state, pid, heartbeat, kill switch.
- *Operations*: `start` (preflight, claim, launch, assign), `worker_loop`
  (heartbeat, cycle, leave), `stop`, `pause`, `resume`, `emergency_kill`,
  release of the kill, `close_all_demo_positions`. Dashboard buttons run these
  commands as subprocesses.
- *Hard*: each registry call is a transaction, each command is several; workers
  judge by rows read earlier; any process may die, be slow, or be launched and
  never assigned.
- *Correct when*: one worker at a time is inside its cycle, a kill stops what
  it should and is not bypassed, a stop ends the worker.

### Offline paper (`offline_paper/`)

- *State*: two SQLite files of one directory: the journal `trade-intents.db`
  (runs, risk decisions, intents with lifecycle events, exit requests, an
  evidence chain) and the broker's books `paper-broker.db` (orders with fills,
  positions, exits, an account).
- *Operations*: one `run` of a conductor on a fixture: `initialize_run`, the
  analysis and its evidence, `create_intent`, then `_resume`, which takes the
  intent from state to state through `submit`, `close` and `transition`.
- *Hard*: the two files share no transaction; a run may die between any two
  calls and be started again; each call may fail, and a failed read looks like
  an absent row; nothing keeps two runs off one directory.
- *Correct when*: nothing is ordered or closed twice, the journal never says
  more than the books or its own evidence, and an interrupted intent ends.

### Quote stream and read-only smoke (`shadow01/stream_bridge.py`, `local_demo_stream_transport.py`, `live_readonly_smoke.py`, `read_only_broker.py`)

- *State*: three layers that each keep a connected flag and a set of subscribed
  items: bridge, session-bound transport, queueing client; the client's queue of
  at most `_MAX_PENDING_UPDATES`; the smoke's budgets, allowance, session and
  report.
- *Operations*: connect, subscribe, receive, unsubscribe, disconnect, a bounded
  restoration and the representative reconnection; the smoke runs them once, in
  a fixed order, with one `finally`.
- *Interaction*: Lightstreamer's thread calls back into the client (an update, a
  lost connection) between any two steps of the caller's thread.
- *Hard*: a lost connection found only at the next call, an overflow, a failure
  half way through a restoration, a session that expires between two requests,
  a budget that runs out before the cleanup.
- *Correct when*: the layers agree whenever no call is under way, an update is
  delivered in order or its loss is reported, and the smoke ends, passes only if
  every phase did, and reports whatever it left open.

### Read-only session and probes (`session.py`, `http_client.py`, `shadow01/local_demo_read_only.py`, `read_only_broker.py`, `live_contract_probe.py`, `live_schedule_contract_probe.py`, `live_v2_schedule_contract_probe.py`, `bounded_final_clock_smoke.py`)

- *State*: the session manager's tokens and account; the transport's counts per route,
  the evidence of the last schedule read, the diagnostic of the last refusal; the
  broker's logical counters; a probe's phase, budget and report.
- *Operations*: a request goes down through four layers and comes back; each probe logs
  in, reads one to five documents, logs out and reports, once.
- *Interaction*: each layer checks the session for itself; the HTTP client repeats a
  request whose reply was lost, and tells the transport of every attempt.
- *Hard*: tokens that end between two layers' checks, an implicit login to whatever
  account, a repeated login of which both arrived, limits that the cleanup shares.
- *Correct when*: what was counted is what was sent and within the limits, a document
  that is handed up is of the expected account, a probe that passes read what it had to
  and left nothing open.

### Shadow tournament (`shadow01/runtime.py`, `storage.py`, `outcomes.py`, `clock.py`)

- *State*: one SQLite store whose tables are append-only (runs with their epoch,
  provider health, readiness, snapshots, insights, decisions, outcome labels); a
  stop marker on disk; per monitor, what it has in memory.
- *Operations*: `probe`, `create_epoch` (a human's gate), `monitor` (wait for the
  17:10 New York anchor, observe every market, resolve old outcomes), `stop`.
- *Hard*: an anchor has a grace of one second; a process wakes late, dies between
  two rows, or runs beside another one; a label is written from rows another
  process may be writing.
- *Correct when*: an observation is whole, of one process, and was taken at its
  anchor after the epoch; the epoch never changes; a label carries a session that
  is complete and later than its decision; no anchor is met by silence.

### Database bootstrap (`db_bootstrap.py`)

- *State*: the schema, its migration ledger, owners and grants of the execution
  database; the runtime role's membership in an owner role, which a job takes for
  a moment; no state of its own.
- *Operations*: `bootstrap-admin`, `ownership-remediate`, `privilege-repair`,
  `privilege-drift-repair` (and read-only verifications).
- *Hard*: two jobs started by hand at the same time, a job that dies between the
  grant of a membership and its removal, a COMMIT whose reply is lost.
- *Correct when*: objects and ledger only go from one accepted state to the next,
  a PASS reports what is so, a temporary membership is taken back.

### Historical data qualification (`dq03/`) and its readers (`shadow01/registry.py`, `sl02/evidence.py`)

- *State*: a directory with a registry, a manifest and a history validation
  (other files are reports), each rewritten in place by every phase.
- *Operations*: `resolve` (phase 1), `history` (2), `streaming-smoke` (3), each
  an execution of the command line; the two loaders.
- *Hard*: phases die between two files and overlap; a later phase rebuilds a file
  from what an earlier one left; readers read three files one after the other.
- *Correct when*: a market is unlocked only on a history sample of its own symbol,
  contract, resolution and account, and validated evidence is not lost.

### G3A market data (`tools/g3a_market_data.py`)

- *State*: raw answers, a run state, normalized series, manifests and evidence, all
  files that are created once and verified ever after.
- *Operations*: an online acquisition page by page with bounded attempts; an
  offline requalification of the raw files; both can be started again.
- *Hard*: a death between a temporary file and its link, a repeated run whose
  derived bytes must equal the first run's, two executions at once.
- *Correct when*: what evidence cites is what lies on disk, and nothing published
  ever changes.

### G3B replay (`g3b_replay/`, `frozen_v1_policy.py`)

- *State*: the accepted candles (read-only), a paper account with one position, the
  candidates, the position that waits for its planned exit, the audit.
- *Operations*: `run`: minute by minute, windows and candidates; then cycle by cycle,
  settle, rank, veto, submit and plan the exit.
- *Hard*: windows of four resolutions next to a gap; the exit is known in advance and
  booked at a later cycle.
- *Correct when*: a candidate reads closed candles of one side of the gap, and every
  decision is the one that an account without foresight would have taken.

### Strategy laboratories (`strategy_lab/`, `sl02/`, `sl03/`, `sl04/`)

- *State*: none across runs but artifacts; inside one evaluation the slices of a
  history, the selected variant and the results of test and walk-forward windows.
- *Operations*: acquire, block, split, select, test, walk forward, stress, classify.
- *Hard*: boundaries of slices, segments and trades; what is selected on which
  candles; a verdict that is the last of many.
- *Correct when*: nothing is selected or closed with later candles, and a
  combination is called ready only if its evidence says so.

### Components not modelled

| Component | State and operations | Hard behaviour | Correct when |
| --- | --- | --- | --- |
| Cloud runtime (`cloud_runtime.py`) | `ServiceState` set by start, shutdown and probes | start finishing after shutdown was requested | never ready after a shutdown |
| Shadow position repository (`shadow_position_state.py`) | `create`, `transition` under the lease | expected status against the row, replayed creates | one writer wins, a repeated create adopts only its equal |
| Transport and streaming of the demo path (`demo_transport.py`, `demo_stream.py`, `streaming.py`, `market_data.py`) | network adapters | external service | parsing only |
| Amounts of the Frozen V1 policy (`frozen_v1_policy.py`, `risk.py`, `portfolio.py`) | pure decisions over amounts | rounding, limits | sizes within limits |
| Strategies (`strategies/`) | pure indicators | floating point | - |
| Demo qualification (`demo_qualification*.py`, `demo_pnl.py`) | reports over finished trades | - | - |
| Clock, warm-up and dry-snapshot diagnostics (`shadow01/*diagnostic.py`, `dry_snapshot.py`) | evaluations of documents read elsewhere | - | - |
| Legacy helpers, dashboard, infrastructure, other tools | wrappers, presentation, deployment | - | - |

**How the parts interact.** The shadow runtime's store borrows its right to write
from the lease, and the runtime asks the strategy and the policy for a decision;
at this commit no program of the repository runs it (the cloud service runs with
its worker disabled and only reports the lease's status), so what calls it, and
how often, is a choice in the model. The lease's tables and roles are made by the
bootstrap jobs. The demo operator's processes share the demo execution's SQLite
file and the broker account, and are kept apart by the registry row in that same
file. The offline conductor keeps to its own two files. The tournament and the
laboratories read what DQ-03 left on disk; the tournament reads quotes through the
stream and keeps its own store. The G3B
replay reads the package that G3A accepted, and the laboratories the evidence of DQ-03
and histories of their own; neither shares state with a running system.

## What is modelled

In each module an action is one call that can be interleaved with others: a
database transaction, a broker request, or the step between two of them. Logging,
formatting, input validation and telemetry are left out.

### `ExecutionLease`, implementing `FencedLedger`

| Model | Code |
| --- | --- |
| `row`, `seq` | `trading.worker_leases`, `worker_lease_fencing_token_seq` |
| `txn` | the server's transaction of `run_fenced`: holder of the row lock |
| `lease`, `leaseState` | `ExecutionLeaseCoordinator.lease`, `lease_state` |
| `call`, `drawn` | where a store call is; the token its `nextval` drew |
| `log`, `grantee` | history: committed fenced writes, who was granted a token |
| `DrawToken`, `Acquire*` | `try_acquire`; the upsert of `acquire_execution_lease` |
| `Renew*`, `Release*` | `renew`, `release` and their SQL functions |
| `BeginFenced`, `LockFence`, `Fence*` | the fence check that opens `run_fenced` |
| `StageWrite`, `Commit`, `RejectCallback`, `FailCallback` | callback, triggers, commit |
| `LoseConnection`, `Crash`, `Server*`, `Tick` | the environment |

Acquisition takes two steps because `nextval` runs before the conflicting row is
locked; the fence check takes two because its snapshot may be older than the
lock. Time is `ttl` ticks of the server's clock, which does not step back. The
fenced operations need no lease time of their own: one that outlives the lease
keeps its row lock, so nobody takes over before it ends.

### `ShadowRuntime`, implementing `PositionBook`

| Model | Code |
| --- | --- |
| `candles` | `FinalizedCandleBuffer`: last minute and length of the window |
| `op` | the operation a runtime is inside, with what it has read |
| `book` | `trade_intents` and `shadow_position_state` per cycle |
| `evidence` | `ShadowEvidenceStore.records` per cycle and instrument |
| `auth` | each coordinator: standby, leader, or a leader taken over and unaware |
| `EvaluateWithoutSignal`, `EvaluateSignal`, `RecordVerdict` | `evaluate` up to a verdict |
| `CountPositions`, `CheckAvailable`, `AdoptIntent`, `PutIntent`, `CreateRejected`, `RecordIntent` | creation of an intent, call by call |
| `BeginAdvance`, `Transition`, `KeepLifecycle`, `TransitionRejected`, `RecordLifecycle` | `advance` |
| `Fail`, `Crash`, `Acquire`, `Demote`, `FinalizeMinute` | errors, restarts, the lease, time |

Abstractions. `S0_WAIT` stands for every verdict that the candles, the quote and
the account decide. A `Level` stands for entry, stop and target. A runtime does
one operation at a time. The lease is reduced to `auth`, because `ExecutionLease`
proves what a fenced write needs. Where two reads are merged into a step (the
store read and the evidence probe that begin `advance`; appending the candle and
the first store call) nothing another runtime does can tell them apart or the
later write decides anyway. Conflicts of the risk fingerprint and time stamps
that go backwards end in an error, which is `Fail`. `FAILED_SAFE` is never
reached from this core.

### `DemoExecution`

| Model | Code |
| --- | --- |
| `book` | `demo_execution_records`; a record is lifecycle, known position, acknowledged close |
| `op` | what each process is doing, the record it read and the one it will write |
| `orders`, `closes` | requests of an intent that reached the broker |
| `deal`, `confirms` | the broker: external, modelled from how the code reads it |
| `BeginSubmit` ... `Create` | `submit`: prepare, check the cycle, put, mark, send |
| `Retry`, `CanRetry` | `HTTPClient._request`, which repeats a request that timed out |
| `*ReconcileOpen`, `ConfirmOpen`, `ListOpen` | `reconcile_open` |
| `BeginFlatten`, `CheckOwnership`, `NextClose`, `Close`, `AwaitClose` | `close_all_demo_positions`, `request_close` |
| `*ReconcileClose`, `ConfirmClose`, `ListClose` | `reconcile_close` |
| `Replace`, `Put` | the store's writes |
| `Abandon` | a death, a store error, a refusing authority gate |

An intent's own deal stands for its epic, direction and size. The worker submits
and reconciles, consoles reconcile and close. `submit` belongs to the core, but
the worker of this commit has no strategy adapter that calls it: the model lets
the worker call it at any time. One process submits; that this is all there is
follows from `DemoOperator`'s `ServingIsRegistered`.

### `DemoOperator`

| Model | Code |
| --- | --- |
| `reg` | the row of `demo_operator_control` |
| `pc`, `child` | where each process is; the worker a start command launched |
| `late` | history: closes a flatten sent after the kill in force was activated |
| `BeginStart`, `AcquireStart`, `Launch`, `SetWorkerPid`, `AbandonStart` | `start` |
| `Heartbeat`, `ReadState`, `EndCycle`, `StopWorker`, `Leave`, `FailWorker` | `worker_once`, `worker_loop` |
| `RequestStop`, `Pause`, `Resume`, `EmergencyKill`, `ReleaseKill` | registry methods of one transaction |
| `BeginFlatten`, `CloseAuthority`, `SendClose` | `close_all_demo_positions` |
| `Die`, `Age` | a process ends; `HEARTBEAT_MAX_AGE` passes |

A heartbeat is fresh until `Age`, which may happen at once: nothing relates the
20 seconds to the 3-second poll. `heartbeat` returns a row it reads after its
transaction, so the two are separate steps. Process identifiers are not reused.

### `OfflinePaper`

| Model | Code |
| --- | --- |
| `opened`, `risk`, `life`, `reached`, `lineage`, `request` | the tables of `trade-intents.db` |
| `order`, `position`, `exited`, `balance` | the tables of `paper-broker.db`; an order and its fill are one value |
| `at`, `source`, `held` | a conductor: its next call, its fixture, what it read |
| `Start`, `ReadState` | `cli_main`, `initialize_run`, the head of `run` |
| `DecideRisk`, `RiskUnknown`, `CreateIntent`, `AppendLineage` | the analysis and its records |
| `ReadIntent`, `NextCall`, `Transition` | the loop of `_resume` |
| `ReadOrder`, `ReadFill`, `Submit` | `ORDER_SUBMITTED` |
| `ReadConfirmation`, `ReadOpenPosition`, `RecordExitRequest`, `ReadExit`, `Close`, `ReadReconciliation` | the states after it |
| `FailIntentSafe`, `CallFails`, `Crash` | `_fail_safe`, SQLite errors, a death |

A step is one call, hence one transaction of one file; `AfterAppend`,
`AfterMove` and `NextCall` say what the code does next. A fixture has one
candidate and its exit candle reaches one level or is ambiguous (`Exitable`);
prices, sizes and vetoes that depend on the market alone are left out, and so are
the evidence rows a run writes before it creates the intent: nothing reads them,
and one that fails blocks the run as the calls next to it do. `Down` marks a run
that a death or a failed call cut short. A balance counts credited closings.

`PaperTrade` has one variable for the trade of each intent (none, claimed, rejected,
open, asked, closed) and the credit. `TradeOf` is the mapping: an intent is claimed
once the journal has `ORDER_SUBMITTED`, asked to exit once it has the request and
`EXIT_REQUESTED`; rejected, open and closed are rows of the books that fit together,
and rows that do not (a position without an accepted order, an exit with the position
open) are torn, which no trade is. So the refinement says that an order is claimed
before it is placed, that the order and its position, and the exit, the closing and the
credit, are never seen apart, that one position is open at a time and that each of these
happens once.

### `PriceStream`

| Model | Code |
| --- | --- |
| `bridge` | `_connected`, `_subscribed_epics`, `_reconnect_required`, attempts left |
| `link` | the transport's own `_connected` and `_subscribed_epics` |
| `client` | the queueing client: flags set by callbacks, its subscriptions, its queue |
| `call`, `outcome` | where the caller's thread is, how its operation ended |
| `sent`, `got` | history: callbacks of each subscription, the last one delivered |
| `Connect`, `OpenClient`, `ConnectReturns` | `connect` through the three layers |
| `Subscribe`, `SubscribeItem`, `SubscribeReturns` | `subscribe_prices`, item by item |
| `Receive`, `NextUpdates`, `ReceiveFails` | `receive_price_update` and its errors |
| `Unsubscribe`, `Remove`, `UnsubscribeReturns`, `Disconnect` | the way back |
| `Restore`, `Attempt`, `Exhausted` | `reconnect_and_restore` |
| `Representative`, `RepresentativeReconnects` | `reconnect_representative_prices` |
| `ItemUpdate`, `Queued`, `ConnectionLost` | the callbacks of Lightstreamer's thread |
| `StepFails`, `CallFails`, `TearDown` | a layer's call that raises |

A step is what the caller's thread does between two points where it lets the
client's lock go. An update is its item and its number. Callers connect only a
bridge without subscriptions, as the smoke does (otherwise `connect` after a
failure leaves `subscribed_epics` though the transport has none). Late callbacks
of an ended subscription whose item is subscribed again on the same connection are
not modelled.

### `ReadOnlySmoke`

| Model | Code |
| --- | --- |
| `phase`, `todo` | where `LiveReadOnlySmokeV2.run` is, and what the phase has left |
| `rest` | the session, the historical allowance, the request budget |
| `report` | what has been found so far |
| `Preflight` ... `ReadHistory` | the REST phases, each request through `_BudgetedCachedSmokeBroker` |
| `Request`, `Answers`, `OverBudget` | `authorized_request` with its one re-login; `ShadowSmokeRequestBudget` |
| `ConnectStream` ... `CollectSucceeds` | `_exercise_stream` |
| `CleanupUnsubscribes`, `CleanupDisconnects`, `NoBridge`, `Logout` | `_cleanup_stream`, the `finally` block, the verdict |
| `Expire` | external: tokens end after their lifetime |

The phase `off` lets the bridge's operations be called in any order, as its tests
and the contract probe do, so the stream's properties do not rest on the smoke's
order.

### `ReadOnlySession`

| Model | Code |
| --- | --- |
| `manager` | `SessionManager`: its tokens, the account they are of, the session at the broker |
| `transport` | `SessionManagerReadOnlyTransport`: attempts in all, by route and of logins; the version last dispatched, the contract of the last schedule read, the last diagnostic |
| `broker` | `ReadOnlyBrokerRequestCounters` |
| `request` | the request under way: the layer it is in, its attempt |
| `probe` | which probe, where its `run` is, what it will report |
| `wire` | history: attempts by route, the account a read went out under, open sessions |
| `Ask`, `Prove`, `Identify` | the broker's `_request`, the transport's proof of the account |
| `EnterManager`, `LoginAttempt`, `ReadAttempt`, `LogoutAttempt` | `session.py`, attempt by attempt |
| `OverLimit`, `Reserved`, `Refused`, `TryAgain` | the observer that reserves every attempt; the client's retries |
| `Answered` | the second proof, the schedule's evidence |
| `HistoryRead` ... `ClockRead` | what each probe makes of an answer |
| `StreamStart` ... `FinalDisconnects` | Gate 09 over the bridge of `PriceStream` |
| `FinalLogsOut` ... `ProbeReports`, `Verdict` | the `finally` blocks and the verdicts |

A document is worth one of five `Contents` to its reader. Gate 09 uses the factory
without limits and three attempts; the others one attempt and hard limits. Tokens may
expire before any step.

### `Tournament`

| Model | Code |
| --- | --- |
| `clock` | three parts of a New York day: before the anchor, its grace, after it |
| `stop` | the stop marker file |
| `epoch`, `probes`, `readiness`, `rows`, `long`, `labels` | the store's tables |
| `guarded`, `whole` | the insert trigger of `epoch_readiness` exists; history: no schema script that was cut short has left it missing |
| `run` | per process: what its memory holds |
| `OpenStore`, `CreateTriggers`, `CutShort` | the script `initialize` runs at a process's first write: its DROP and CREATE of that trigger, and an end between statements |
| `BeginProbe`, `ProbeReads` | `pre_epoch_provider_probe` |
| `CheckReadiness`, `InsertReadiness`, `CreateEpoch` | readiness under its trigger, the human gate |
| `StartMonitor`, `Sleep`, `Observe`, `WakeLate`, `SeeStop`, `AfterCycle`, `EnterCycle` | the loop of `monitor` |
| `BeginCycle`, `NextMarket`, `PreflightMarket`, `ReadMarket`, `WriteLabel`, `PersistMarket` | `run_observation_cycle`, market by market |
| `AppendRow` | the three append methods that have no caller under `src/` but are the store's interface |
| `RequestStop`, `Tick`, `Crash` | the environment |

A market's bundle of rows is one transaction in the code and one step here; rows
appended one by one (`AppendRow`) are steps of their own. Quotes and candles are
reduced to the session they belong to. A schema script acts on the others alike whoever
runs it, so each is the run of a process of its own; only the gate's own script must
have come to its end before `CreateEpoch`. Of its sixteen triggers the model has the
insert trigger of `epoch_readiness`: the others repeat what the store's statements ask
themselves (an unset epoch, readiness that only grows), or forbid updates and deletes that no statement makes.
Provider-health rows other than a probe's `HEALTHY` one are left out. `Horizons` counts usable bars, as the code
does.

### `DatabaseBootstrap`

| Model | Code |
| --- | --- |
| `schema`, `ledger`, `owner` | per migration: objects, ledger row, owning role |
| `durable`, `principal`, `members` | roles, and who is a temporary member |
| `grants`, `public` | the runtime role's privileges by group; PUBLIC's EXECUTE |
| `job`, `left` | per execution its memory; memberships nobody will take back |
| `EnsureRuntimePrincipal` ... `MigrationsApplied`, `Raise` | `run_bootstrap_admin` |
| `CreateDurableOwner`, `ReassignOwned` | `run_ownership_remediation` |
| `Authorise`, `RevokeMembership`, `RevokeFails`, `Audit` | `run_privilege_repair` |
| `MayRepair`, `RestorePrivileges` | `run_privilege_drift_repair` |
| `StatementFails`, `Die` | a failed statement or lost reply; a stopped container |

A step is a transaction. Objects and privileges are grouped by migration; the
groups' `Weight`s (19, 8, 3, 1, 1) add up to the 32 labels the code counts, because
the drift repair demands exactly 28 missing. A repair that meets a group its owner
role does not own fails as a whole. The read-only modes change nothing and are left
out.

### `DQ03Handoff`

| Model | Code |
| --- | --- |
| `registry`, `manifest`, `history` | the three files that are read again |
| `execution` | per execution: phase, account, what it loaded and sampled |
| `loader` | a reader's progress through the files |
| `resolved`, `read`, `overlapped`, `disturbed` | history: what was resolved and sampled, whether executions overlapped |
| `Begins`, `Resolve`, `BeginLater`, `CheckContext`, `LoadResolutions`, `Sample` | `main` and what its phases compute |
| `ReadPrevious`, `WriteRegistry`, `WriteHistory`, `WriteManifest` | `write_dq03_artifacts`, file by file, each emptied and filled |
| `OpenRegistry`, `CheckManifest`, `OpenHistory`, `LoaderReturns` | both loaders: the tournament's checks all three files, the laboratories' reads registry and history |
| `Die` | an execution ends between two steps of a file |

What the broker answers is chosen; requests, their limiter and budget are left
out, as are files that nothing reads.

### `G3APipeline`

| Model | Code |
| --- | --- |
| `file`, `temporary`, `sources` | artifacts, their `.tmp` files, evidence set aside |
| `memory` | per process: what it has loaded, asked and derived |
| `Start`, `LoadState`, `Login`, `LoadSource` | the head of `run`, online and offline |
| `LoadDocument`, `TakeAnswer`, `Rejected`, `Take` | raw store, request with bounded attempts, acquisition page by page |
| `Verify`, `OpenTemporary`, `FillTemporary`, `Publish`, `Unlink` | `write_create_or_verify` |
| `WriteDerived`, `WriteEvidence`, `End`, `Failed` | datasets, manifests, evidence, errors |
| `SetAside`, `Die` | the operator; a death |

One series stands for twelve (three instruments, four resolutions), document 0 for the
search and the market detail. `Modes` are the online acquisition and the offline
requalification. The third way to call the program, `--raw-cache-run-id` without
`--offline-cache-only`, logs in, takes the start time of another run
(`g3a_market_data.py:497`) and reads and fills that run's raw files; it is left out, and
so are `errors/` files, the session, the secret scan and the rendered report.

### `HistoricalReplay`

| Model | Code |
| --- | --- |
| `market` | the dataset: per instrument and minute a candle; and the signals |
| `minute`, `resetAfter`, `candidates` | the first loop of `run`, `reset_after`, `candidates_by_cycle` |
| `pending`, `account`, `audit` | `PendingReplayPosition`, the paper broker, `candidate_audit` |
| `ScanMinute`, `RefuseGap`, `EndScan`; `Eligible`, `ClosedWindow`, `Ready` | the first loop; `closed_window` and the warm-up |
| `Execute*`, `Settled`, `Veto`, `PlanExit` | the second loop; `_close_pending`, the policy's vetoes, `_plan_exit` |
| `EndReplay` | the last position |

A candle is what it does to an open trade: nothing, up, down, or both levels at once. A
signal comes with the market, because the strategy is a function of the window that
ends at its minute. `Lived` is the reference: the same account taken forward minute by
minute. `ExecuteUnpriced` is the replay's failure on an instrument without a pip value.

### `ResearchLab`

| Model | Code |
| --- | --- |
| `study`, `data` | the programme and what it knows of its source; the history |
| `stage`, `slices`, `chosen`, `tested`, `windows`, `status` | how far `_evaluate` is, and its results |
| `Blocked`, `Block` | `_blocked_reason`, `_blocked_status` |
| `Segment`, `Spans`, `Partitions`, `WindowsOf` | `GapSafeResearchSegmenter`, `partitions`, `chronological_splits`, `walk_forward_windows` |
| `Trade`, `Simulation`, `SimulateAll` | `_simulate_trade`, `run` and `_simulate`, `_simulate_segmented` |
| `WalkedAll`, `WalkForward` | `_walk_forward_segmented`, `_walk_forward` |
| `Selection`, `Score`, `FirstBest` | `_select`, `max` over the variants |
| `Classification`, `StressPassed`, `Final` | `classify_result`, `_stress`, `_final_classification` |

A candle is again what it does to a trade, whose level is therefore the same for every
trade; a rule's signal belongs to its variant and candle and needs a minimum history in
the slice. A stop below the broker's minimum is a signal `TIGHT`. Results are whole
numbers (hundredths of half a unit of risk), costs a fixed share of the risk.
Drawdown, profit factor and expectancy are the code's, without divisions. `aligned` says
that the data do not diverge materially from the broker's: `NO_OVERLAP_AVAILABLE` blocks
as little as agreement does (`sl02/evidence.py:281`), so a combination can be ready
without a single candle of its source having been compared. A group of
slices is a set, which `InOrder` reads from the left; `Simulation` is the loop over the
candles as a function of the candle at which it looks for the next entry.

## Runs

| Run | Instance | Shows |
| --- | --- | --- |
| `lease_replicas` | 2 replicas under one hostname, TTL 2, 2 tokens, 3 writes | fencing, genuine authority, refinement of `FencedLedger`; a forsaken lease frees, an acquisition is answered |
| `shadow_replicas` | 2 replicas, 1 instrument, 1 level, 2 minutes | one position, evidenced and permanent |
| `shadow_contention` | 2 runtimes of a leader, 2 instruments, 2 levels, 1 minute | evidence follows the book, refinement of `PositionBook` |
| `demo_recovery` | worker and console, 2 intents of a cycle, no HTTP retry, 2 requests | one order, on record; positions and closes agree with the broker; records of an order that arrived are resolved |
| `demo_http_retry` | worker, 1 intent, 2 attempts | *violated*: an order is sent twice |
| `demo_operator` | 2 starts, 2 workers, 1 flatten | one serving worker; kill and stop are kept |
| `paper_recovery` | 2 runs of one fixture, the second also of another, with an ambiguous exit | both databases together make the steps of one trade per intent; journal, books and evidence agree; an intent ends |
| `smoke_stream` | 3 items, 2 representatives, queue of 2, 2 restorations, 2 updates a subscription, 2 logins; or one of five probes, 3 attempts where they are repeated, 3 sessions, 3 clock markets | the layers agree, nothing is dropped in silence; the smoke ends, earns its PASS and leaves nothing open unreported. *Probes*: what is sent is counted and limited, documents are of the account, what passes is closed |
| `tournament` | 2 processes, 1 market, 2 days, 1 row appended singly, horizon 1 | whole and prospective observations, an epoch that is final (its evidence too, outside the window in which a schema script has left its trigger missing), causal labels; an anchor is answered |
| `database_jobs` | 2 jobs of any mode on a database in any state, 2 faults | the schema is only migrated, a PASS is true, memberships end |
| `dq03_handoff` | 4 executions (3 once two overlapped), 2 resolutions, 1 death, 2 symbols, 2 contracts, 2 accounts; or 3 programmes, 2 variants, histories of 19 candles | what is unlocked was validated, of one origin; validated markets are not lost. *Laboratory*: nothing looks ahead, readiness is earned |
| `g3a_resume` | 2 processes, 3 starts, 2 pages, 2 attempts, 1 death; or 2 instruments, 8 minutes, windows of 2 | cited files are on disk; published files stay. *Replay*: candidates are clean, decisions are lived |

**Why the bounds are enough.** *Lease*: the hazards are about an old holder, a
new one and a third generation: three tokens and three writes give the pattern
old-new-old that fencing forbids, and a common hostname is the worst case for
telling holders apart. *Shadow*: the book needs two cycles for a second position and
two runtimes for a race; instruments and levels matter only within one cycle, so
the second run has those instead. A warm-up of one candle already separates a
replay after a restart (a gap and an incomplete window) from the first life.
*Demo*: two requests of a kind are one more than the broker may get; two starts and
two workers are the smallest case of a double worker; the flatten sends as many
closes as it likes. *Paper*: on the common fixture both runs take the same intent
through the same calls, at once or after a death, and with the other one the second
run meets the first one's intent and open position. *Stream*: a queue of two
overflows with three updates, and two of the three items being representatives lets
a reconnection drop one item and keep two; the two restorations allow one that fails
and one that succeeds; the second login is the one behind the budget's back.
*Probes*: three sessions are the login, a repetition of it that arrived too and the
implicit one; three of the four clock markets are a first, a middle and a last.
*Tournament*: two days are a decision and its outcome; a late wake, a missed day and
a label from the day's own session all happen within them, two processes are the
smallest race of monitors, and one market suffices because markets are observed one
after the other and share no row. *Database*: two jobs are the smallest overlap,
every initial state of the tables that the inspection can tell apart is there, and
with two faults one job may die and the other lose a reply. *DQ-03*: phase 1, phase
2, a phase 1 that dies or is of another account, and a later phase that meets the
mixture are four executions; two symbols may share a contract or exchange them.
*G3A*: a first execution, one that resumes and one that follows, or an offline one on
what they left; page 2 is the first whose loss leaves a page behind it. *Replay*: eight
minutes hold a gap, the warm-up after it in both resolutions, and two trades of which
the first ends before, at or after the second's cycle; the instruments compete at one
of the cycles, one is not priced, and one loss reaches the daily limit.
*Laboratory*: with a warm-up of 1 candle for 21, segments of 4 for 300, phases of 3 for
60, windows of 4 and 3 for 60 and 30, and 1 or 2 trades for 30 or 100, nineteen candles
give each phase several trades and segmented histories with phases in two segments;
all thirteen classifications that the three programmes can reach are reached.

TLC counts 32 thousand states for `lease_replicas`, 1.2 million for
`shadow_replicas`, 103 thousand for `demo_recovery`, 23 thousand for
`demo_operator`, 344 thousand for `paper_recovery`, 380 thousand for
`smoke_stream`, 397 thousand for `tournament`, 691 thousand for `database_jobs`, 2.7
million for `dq03_handoff` and 1.1 million for `g3a_resume`.

Symmetry is used in safety runs only: the replicas of `shadow_replicas` together
with their runtimes, instruments and levels in `shadow_contention`, jobs,
executions, contracts and accounts, processes. Deadlock is not checked where
everything may come to rest: in the demo modules (all intents settled, all processes
ended), in the smoke (it is done and the updates are spent), in the tournament (the
bounded clock stops), in `dq03_handoff` and `g3a_resume` (the executions are spent,
a replay or an evaluation is over).

**Fairness.** *Lease*: time passes; the server ends sessions whose client is gone
(a dead client's socket is closed or times out); a callback is straight-line code and
ends; a statement waiting for a row lock is not passed over for ever, because
PostgreSQL serves the queue in order (strong fairness). No process is obliged to
start a call. *Demo execution*: the worker polls every three seconds. A death, or an exception
of a round, ends it (`Down`), and somebody starts it again (`Restart`): the code
does not do that by itself, so `IncompleteIsResolved` is a promise to an operator
who does. It dies finitely often, and a read repeated for ever is
at some time answered; the broker decides what it received and lists what it
opened. Consoles are obliged to nothing. The property is about records whose order
arrived: a create lost on its way is polled as `AMBIGUOUS` for ever. *Operator*: a process that runs goes on
until it ends or dies; no command ever has to be typed, and heartbeats need not
age. *Offline paper*: a run goes on until it ends, every fixture is run again and
again (again an operator's part), and calls fail and runs die finitely often. A
run that ended by itself and one that was cut short are told apart (`Down`), so
that excluding failures does not exclude normal ends. `IntentSettles` says that
whenever some intent is unsettled, all are settled later, or there are two of them.
*Smoke*: its one thread goes on, because every wait in it is bounded by a timeout;
neither updates nor lost connections have to come. *Tournament*: time passes, and a
monitor's thread goes on as long as its process lives; nobody has to start one,
grant an epoch or probe. The database, DQ-03 and G3A runs check safety only and
assume no fairness.

## What is proved

TLAPS proves the following for all values of the constants that satisfy the `ASSUME`s of
the modules (disjoint kinds of processes, non-empty TTL, "none" values outside their
sets, a queue of at least one, finitely many symbols, and the like; each is stated where
its constant is declared). Each rests on an invariant that is inductive; TLC checked its
parts first.

**`ExecutionLeaseProofs`**: `InductiveInvariant` with `TypeCorrect`, `TokenFreshness`,
`FencingHolds`, `AuthorityIsGenuine`; `LeaseImplementsFencedLedger`; `NoInterleaving`
(`GenerationsDoNotInterleave`, which is proved only). Fencing alone is not inductive:
that the open transaction is current needs `RowAndSessionsAgree` (whose session it is,
and whether its client is still there) and genuine authority needs `TokensAreFresh` (a
drawn token belongs to one acquisition and was never granted). The refinement maps the
row's token, the granted tokens and the committed writes to the abstract ledger; then
`NoInterleaving` is the abstract theorem, read through the mapping. Of the abstract
ledger itself `NoResurrectionHolds`: its invariant adds that every write's generation
was installed, and that only writes of the current generation follow a write of the
current generation.

**`ShadowRuntimeProofs`**: `TypeCorrect`, `OnePosition`, `EvidenceTrailsBook`,
`PositionsAreEvidenced`, `OperationsFollowBook`, `LedgerIsPermanent`,
`RuntimeImplementsBook`. The strengthening is `OperationFollowsBook`: what a runtime
read and is about to write stays true while others move the intent on, because
lifecycles only advance and terms never change. The proof classifies the steps first
(`StepKind`: book, evidence, or neither) and shows each invariant from the class, so
that most actions are looked at once.

**`DemoProofs`**, of the executions: `InductiveInvariant` with `TypeCorrect`,
`OrdersAreOnRecord`, `RecordsFollowBroker`; `OneOrderPerIntent`. `Holds` says what a
process knows while it is inside an operation: the record it is about to write was read
from the book or follows from what the broker answered, and neither is undone by others,
since a deal that was opened stays opened and one that is gone stays gone. `BrokerFits`
relates requests, deals and confirmations. `OneOrderPerIntent` is proved under
`OneSender` (one attempt a request, one worker), with a second invariant over the first:
an order was sent, or somebody is about to send it, never both. The assumption is the
one that the HTTP client's retries break (`demo_http_retry`); that there is one worker
is `ServingIsRegistered`.

Of the operator: `Invariant` (of `OperatorIInv`) with `OperatorTypeCorrect`,
`OneServingWorker`, `KillHolds`. The invariant adds which process may own a claim (a
start command while STARTING; without a claim only a killed row names a process), that
an assigning start has launched a worker, and that a flatten which is about to send
under a kill has sent nothing since.

**`OfflinePaperProofs`**: `Invariant` with `TypeCorrect`, `OrdersAreOnRecord`,
`BooksHold`, `JournalHolds`; the action property `TablesAreDurable`; and the refinement
`PaperImplementsTrade`. The safety
properties relate tables that no single call reads together, so they need `Needs`: what
a run knows at each of its calls (a submission was claimed, a verdict is in the chain,
an exit was asked for). Because the tables are durable a run's knowledge survives every
step of the others, and its own step establishes what its next call needs; the tables'
properties then follow call by call. For the refinement a step is one of four kinds
(`StepKinds`): it enters a state in the journal, records the request, or moves the books
by `Submit` or `Close`; the invariant gives the abstract state before each. One more
fact is needed, that an exit is asked for only on the way that leads through the
acceptance (`AskedWasAccepted`): a position would otherwise open already asked to exit.
`BooksHold` is what the refinement says of the books, told of the tables themselves.

**`TournamentProofs`**, of the tournament: `InductiveInvariant` with `TypeCorrect`,
`BundlesHold`, `EvidenceHolds`, `LabelsHold`; `EpochHolds`. The invariant adds `Fits`
(what a monitor holds of its anchor and its markets fits the clock), `EpochIsGranted`
(an epoch follows a readiness row with a healthy probe), `RowsFollowEpoch` and
`GuardIsKept`: the insert trigger exists unless a script is under way or one was cut
short. `EpochHolds` needs the last: readiness that arrives after the epoch arrives in
that window, the epoch itself moves never. For all numbers of processes, markets, days
and horizons.

Of the data it begins with (`DQ03Handoff`): `HandoffTypeCorrect`,
`UnlockedWasValidated`, `EvidenceHasOneOrigin`, `HandoffLosesNothing`, for all numbers
of executions, symbols, contracts, samples, accounts and deaths. The three action
properties are about the moment a loader returns: the first holds always, the second
without overlap, the third without deaths too; the invariant `HandoffIInv` has a part
for each. `SamplesWereRead` holds whatever
happens: a sample that passed, in a file or in a memory, was read. `OriginsFit` is for
executions that do not overlap, but may die between any two of their files: then at most
one is under way; each row of the registry is `Rooted` in a resolution of the registry's
account and a reading for that very resolution, and `Owned` by the account if the
manifest is of it too; and `Knows` says, program point by program point, what an
execution holds that lets it write such a row. A later phase augments the registry it
finds, which is another account's if that one died before its manifest: which is why
ownership is claimed only under the account's own manifest. `NothingIsLost` is for days
without a death: outside of an execution's writing the three files are `Sound` (one
account, one phase, and for every validated row with a contract of its own exactly one
sample that proves it), and `Carries` says what of that the writer has in its hands
while they are not.

**`DatabaseBootstrapProofs`**: `InductiveInvariant` with `TypeCorrect`, `PassIsTrue`,
`MembershipsEnd`; `OneMigrationAtATime`. `Fits` says what an execution has established
at each of its steps; it survives the steps of any number of other executions because
objects, ledger rows, roles and grants are only ever added.

**`ReadOnlyProofs`**, of the stream: `StreamIsFaithfulInSmoke` and
`StreamIsFaithfulInSession`, for any items, queue, attempts and callbacks, under the
smoke and under the probes. `StreamIInv` adds to the types what each layer knows of the
others while a call is under way (`CallIsInStep`), and that the queue is a run of each
item's consecutive numbers up to the last one that came, unless the client is marked as
overflowed or lost (`QueueIsKnown`).

Of the smoke: `SmokeTypeCorrect`, `SmokesEndClean`. `SmokeIInv` follows a session and a
stream from the step that opens them to the report: outside the phases that may hold one
the stream is closed, and a report that will pass still has every part it needs.

Of the probes: `SessionTypeCorrect`, `RequestsStayCounted`, `ProbesAreHonest`. That the
transport's total is the sum of what was sent, route by route, needs a sum over any
finite set of routes (`SumOver`, which `SumsExist` shows to exist and `SumGrows` to grow
by one with one of its terms). `SessionIInv` adds that a login the probe asked for is
counted before it is sent, that sessions are those which logins opened, that an answered
document was read under the account the manager's tokens are of, and what a probe has
read and still holds at each of its steps.

**`MarketDataProofs`**, of the acquisition: `AcquisitionTypeCorrect`,
`EvidenceStaysBacked`, `NothingPublishedChanges`, for any number of executions, pages,
attempts, starts and deaths. `AcquisitionIInv` says of each execution what it has
published or compared at each of its steps (`IsBacked`, `WriteIsReady`), of the files
that what one cites is on disk as cited (`FilesAgree`), and that the pages agree with
the answers taken. The first two are claimed until two executions overlap, whose
temporary files are shared.

Of the replay: `ReplayKnowsNoFuture`, for any market, instruments, exits, reset times
and limits. Its reference account is a function defined by recursion over the minutes
(`Life`); `ReplayIInv` says that the account which books its planned exits late is, once
the exit that is due has been booked, the account that was lived up to the cycle under
consideration, and that the candidates of the first loop are those whose windows were
closed and clear of the gap.

Of the laboratories: `LabLooksAtNoFuture` and `ReadyIsEarned`, for any histories with
any gaps and closed hours, any variants, warm-up, thresholds, segment and window sizes.
`LabIInv` says that a study which was not blocked holds, at each stage, exactly what the
stages before it determine: the slices of its history, the selection made on them, the
trades of the untouched slices, the windows. The rest of the argument is about the
operators, none of which mentions the stage:

- *The engine.* The loop over the candles is a recursive function; that one exists
  (`SimulationIs`), and what its results have in common, is shown backwards from the end
  of the slice (`Backwards`). Its trades lie in the slice, were asked for, and follow each
  other (`SimulateIs`); it depends on the history up to the end of the slice only
  (`SimulateKnown`); and if the history ends where a closed trade closed, that trade is
  its last (`SimulateClosed`).
- *The slices.* Segments have no gap inside and lie apart (`SpansAre`); the phases are cut
  off at positions, which grow with the candles, so each ends before the next begins
  (`PhasesFollow`), and with one span something is always left to test on
  (`SomethingIsUntouched`). Windows lie in their span (`WindowsAre`).
- *Groups of slices.* Each slice has a rank (`RankExists`), reading them by rank is
  reading them in order, and flattening keeps what holds of each slice and of neighbours
  (`FlattenComes`, `SimulateAllIs`).
- *Selection and results.* The maximum of the variants is one of them (`FirstBestIs`) and
  depends only on comparisons of known slices (`SelectionKnown`, `BestOfKnown`); the net
  result is the gross one less the costs of each trade (`NetIs`), so a champion earns its
  costs, and under stress one and a half times them.

The proofs assume of the constants what the module states: positive sizes, a minimum
history for each variant, and histories with a movement, a signal and hours for every
candle and gaps between them.

Induction over the numbers, where the last two modules need it, is done without the
library's schemes: a set that contains 0 and with each number the next contains them all
(`NaturalsFrom`), by the least element of what it leaves out.

**Model-checked only**: the liveness properties, which are beyond the prover. Every other
property of a passing run is the statement of a theorem. The drawdown, the profit factor
and the score of a variant are taken as the code computes them: that each fold over
trades is what its name says is not stated.

## Findings

One violated run reproduces a disagreement between the code and its own comment;
`PROJECT.json` quotes both. `demo_http_retry`: `demo_execution.py:409` says a
submission is never retried; `http_client.py:130` repeats a POST that timed out.

Other behaviour met while modelling, which a reader of the code should know of.
Where the text of the repository says otherwise it is quoted; the models allow all
of it unless noted.

*Lease and shadow runtime*

- `docs/G4B-02B1-EXECUTION-LEASE.md:41` promises the next holder a greater token.
  The token is drawn before the row is locked (migration 002, line 60), so a delayed
  contender installs a smaller one. Tokens stay unique, and fencing, which compares
  for equality, is unaffected.
- `shadow_runtime.py:670` means to prove that the ledger will accept the next
  lifecycle before the intent is changed, but the probe writes back the old one.
  After one failure between a transition and its evidence the next `advance` moves
  the intent two stages ahead of its evidence, which can then never follow.
- The evidence slot that was checked (`shadow_runtime.py:265`) is not reserved. After
  a crash between the intent and its evidence the replayed candle fills the slot with
  a warm-up verdict, the intent is stuck, and later candidates end in
  `TOTAL_POSITION_LIMIT`.
- A runtime whose own cycle's intent was put by another runtime between two reads
  counts it and ends in `TOTAL_POSITION_LIMIT` instead of adopting it.

*Demo execution and operator*

- A record left in `SUBMITTING` by a death is not among those `demo_store.py:137`
  hands to reconciliation (`_INCOMPLETE`, line 42).
- A close is sent before anything is recorded of it (`demo_execution.py:510`); after a
  lost reply the next `close_all` sends it again.
- Whether a cycle has an intent is checked in one transaction and the intent put in
  another, with no unique constraint on the cycle (`demo_execution.py:586`): one
  worker is what keeps it to one.
- `AMBIGUOUS` after a close is the same state as `AMBIGUOUS` after a create. A slow
  reconciliation can overwrite `CLOSED_RECONCILED` with it; the worker settles the
  record again.
- A stop that arrives during a cycle ends the worker without a report: the row
  stays in `STOP_REQUESTED` until the next start finds its heartbeat old.
- A child whose first heartbeat comes before its assignment ends at once, and
  `start` still reports RUNNING.
- The `SAFE_STOP` that `acquire_start` writes for a live worker with an old
  heartbeat is undone by the error it raises in the same transaction.

*Offline paper*

- `paper_broker.py:204` answers any SQLite error with an unrecorded rejection; the
  conductor journals it as the order's verdict and reconciles the intent
  (`conductor.py:449`), and the report, finding no fill, says `ACCEPTED_AND_CLOSED`.
  `docs/G2-01-OFFLINE-PAPER-E2E.md:100` says such states block.
- A run that dies between `create_intent` and its `TRADE_INTENT` row, or between
  `POSITION_OPEN` and its `POSITION` row, leaves a hole in the evidence chain that no
  later run fills.
- Two runs of different fixtures on one directory may both create an intent; every
  later run is then blocked (`IntentSettles` excepts this).
- A risk veto that came of a failed read is recorded, and refuses the decision of
  every later run of the cycle.

*Stream and smoke*

- A session that expires in the middle of the smoke is renewed by the transport, which
  the smoke's budget of one authentication does not count; one that expires before
  the logout cannot be logged out, and the report says `FAILED`.
- The refusals of the transport that guard against a disagreeing bridge are never
  reached by it: `LayersAgree`, a part of `StreamIsFaithful`, is why.
- `connect` after a failed session leaves the bridge's old items in
  `subscribed_epics` although the new transport has none (`stream_bridge.py:200`
  calls it the confirmed or pending-restoration set). Neither caller does this, and the
  model excludes it.

*Read-only session*

- A login whose reply is lost or whose account is not the expected one leaves its
  session open: the probe never had it, closes nothing and reports its cleanup as
  passed. A login that is repeated may leave a second session.
- The session manager logs in again between the transport's two proofs. The document of
  another account is read, and then refused by the second proof.
- The diagnostic is cleared only when the first proof has passed, so that a logout
  refused by the proof is reported with the status of an earlier refusal.
- Gate 13 classifies its document before the logout; its status does not show a
  logout that failed (`cleanup_passed` does).
- `_LazyLocalDemoReadOnlyStreamTransport` logs in by itself and is used by nothing.

*Tournament*

- The command line never passes a `canonical_quote_provider` (`shadow01/__main__.py:75`),
  so the monitor that ships records no observation at all; and its `probe` uses the
  current time, which has to be 17:10:00.000000 in New York exactly.
- Horizons count usable bars: a label may carry a later session than the calendar
  suggests. `persist_resolved_outcomes` and the three single-row append methods have
  no caller.
- A label that another monitor wrote first raises an integrity error, which blocks that
  market's observation for the anchor; it is not tried again that day.
- `initialize` (`shadow01/storage.py:85`) runs its schema script at each process's first
  write, in autocommit: it drops every trigger (1493) and creates it again (1512), without
  `IF NOT EXISTS`. `record_epoch_readiness` checks the epoch outside a transaction (181)
  before it inserts (184). A probe whose check is out of date therefore adds readiness to
  an epoch that exists, if another process is between the DROP and the CREATE. Two scripts
  that overlap can make one of them fail; one that fails, is locked out or dies between
  the two leaves the table without its trigger until another process's script. The epoch
  itself does not move, and it was granted on readiness that was there
  (`EpochIsFinal`, `Reopening`).
- A human may grant a past epoch; the stop marker is never removed by the code; a
  monitor that sleeps past the next anchor's day never reports that day.

*Database jobs*

- A death between the grant of the membership and its removal leaves it, and every
  later bootstrap (and remediation) then refuses. The reply of the commit that grants
  the membership for `privilege-repair` may be lost (`db_bootstrap.py:1534`): the
  membership stays until the next repair.
- Bootstrap needs the durable owner role, which only remediation creates, which needs
  the runtime principal, which only bootstrap creates: neither runs on a blank
  database, although `docs/G4B-02B2A-DB-BOOTSTRAP.md:30` says blank means apply.
- A bootstrap that passes leaves the objects of migrations 001 and 002 owned by the
  bootstrap role until a remediation. A repair does not consult the ledger, and
  `read_runtime_privileges` does not look at PUBLIC's EXECUTE.

*DQ-03*

- Phases 2 and 3 write the manifest with the current time, which renews the 24 hours
  of freshness that the resolution is entitled to, any number of times.
- If phase 1 of another account dies between registry and manifest, a later phase of
  the first account loads the foreign registry. The tournament's loader refuses the
  result; the laboratories' preflight reads neither manifest nor contexts and takes it.
- Two symbols resolved to one contract share the cached sample, which carries the
  first one's symbol: the tournament locks both (`HandoffIsComplete` excepts this).
- Overlapping executions lose rows and can attach a validation to a row that another
  resolution made.
- `candidate_demo_registry` is always empty, because `cost_model_status` never leaves
  `INCOMPLETE`. Outside the model: a 403 does not stop the following symbols'
  requests, failed history requests are not counted, the request limiter's window
  restarts with each process, and an httpx timeout ends the execution without
  artifacts.

*G3A*

- `docs/G3A-01-AUTHORITATIVE-MARKET-DATA.md:63` says that a failed run resumes. Series
  manifests carry the time of retrieval, so an online run that died after its first
  one is refused (`IMMUTABLE_OUTPUT_CONFLICT`) for ever; an offline requalification
  takes the source's time and can resume. A failed run writes evidence itself, so
  the same command is refused until an operator sets the evidence aside.
- A temporary file left by a death makes the next execution fail once; its `finally`
  removes the file. Two overlapping executions share the temporary name: one can
  publish what the other is still writing, and cited hashes then differ from the disk.
- Evidence that an operator has set aside is accepted as the offline source, whatever
  later executions of the run did, as long as its execution did not fail: evidence of a
  `G3AError` carries no timezone offset and is refused (`g3a_market_data.py:608`). A
  login to the wrong account leaves the session open with cleanup `NOT_REQUIRED`.

*Replay and laboratories*

- `daily_loss_pct` of G3B is cumulative, so that its daily limit, once reached, holds for
  the rest of the replay; an instrument without a pip value makes the whole replay fail
  in `floor(nan)`.
- SL02 classifies by the stress test also what is unstable or rejected, SL03 only a
  champion; in SL02 a stop below the broker's minimum is widened, in SL03 rejected.

## What is not modelled

The map covers about 20 % of the implementation's lines, and about all of its
concurrent and restartable state. Most of the rest has no state that survives a call
or is shared: strategies, indicators, statistics and rankings are functions of
floating-point series whose results a small instance cannot tell right from wrong; probes, authentication diagnostics
and adapters are I/O against a live service; dashboards, reports and tools format what
others computed; deployment files are configuration. `PROJECT.json` lists each part
with its reason.

Of the state that could be modelled and is not: `ServiceState` of the cloud runtime
(start against shutdown, few lines), the shadow position repository (its transaction is
the fenced write of `ExecutionLease` and its lifecycle that of `PositionBook`).

Within the modelled parts: the lease's heartbeat telemetry and connection
settings; prices, sizes and fingerprints; SQLite locking errors (they are
`Abandon` or `Fail`); a stray second deal of an order sent twice, which is only
counted as a request; market discovery and snapshots of the operator; reuse of
process identifiers and unreaped children, which only keep a claim longer; the report
and the dry snapshot of the smoke; the contents of quotes, bars and engine
decisions in the tournament; read-only modes of the database jobs; the broker's side
of DQ-03 and the request limiter; the package's hashes, the second run that must give the
same bytes and the report of the G3B replay; sources, alignment, indicators, ranking,
portfolio, bootstrap and artifacts of the laboratories.

## Plan

1. *(done)* `FencedLedger`, `ExecutionLease`, their proofs.
2. *(done)* `PositionBook`, `ShadowRuntime`, their proofs.
3. *(done)* `DemoExecution`, `DemoOperator`, their proofs.
4. *(done)* `PaperTrade`, `OfflinePaper`, their proofs.
5. *(done)* `PriceStream`, `ReadOnlySmoke`, `ReadOnlySession`.
6. *(done)* `Tournament`, `DatabaseBootstrap`, their proofs.
7. *(done)* `DQ03Handoff`, `G3APipeline`, their proofs.
8. *(done)* `HistoricalReplay`, `ResearchLab`, their proofs.
9. *(done)* the proofs about `PriceStream`, `ReadOnlySmoke`, `ReadOnlySession`.
10. `ServiceState` of the cloud runtime; the laboratories' ranking.
