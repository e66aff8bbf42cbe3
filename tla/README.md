# Verification of the MT5 Execution Bridge

This directory holds TLA+ specifications of the MT5 Execution Bridge (`src/` of
this repository), TLC configurations that check them on small instances, and
proofs, checked by TLAPS, that hold for every instance. The bridge accepts
trading signals over local HTTP, stores them in SQLite, and has one worker take
each through a fixed pipeline of checks that ends in at most one `order_send()`
to a MetaTrader 5 terminal. Money moves in that one call; the question here is
what the bridge knows, says and does about it when calls fail, answers are lost,
the process dies, the source repeats itself, or the market moves meanwhile.

## 1. Inventory

| Part | State it keeps | Operations | Talks to |
|---|---|---|---|
| signal intake: `app/api/signals.py`, `services/signal_service.py`, `models/signal.py` | none | validate, store once, read back | durable store, on the event loop |
| durable store: `storage/database.py`, `storage/migrations.py` | tables `signals`, `executions`, `daily_loss_baseline`; open or closed | insert-if-new, claim, status and column updates, find PROCESSING, daily count, baseline get and set, close | intake and worker through one lock, one transaction per method |
| worker: `worker/execution_worker.py` | `_running`, its task, the thread it awaits | recover, start, claim, run `process_signal` in a thread, stop | store, pipeline |
| pipeline and recovery: `services/execution_service.py` | the local variables of one signal's run | `process_signal`, `reconcile_stuck_signal`, three read-only snapshots | store, gateway, predicates |
| risk predicates: `services/risk_service.py` | none | freshness, risk, stop loss, spread, counts, daily loss, day functions | - |
| volume calculator: `services/volume_calculator.py` | none | risk to volume, rounding, clamping | gateway (`order_calc_profit`) |
| symbol mapper: `services/symbol_mapper.py` | the map | resolve | - |
| terminal gateway: `services/mt5_gateway.py` | `_connected` | initialise, probe, shut down, one method per terminal call | the terminal (external) |
| process: `main.py`, `config.py` | `Settings`, fixed per start | start-up, shutdown in order: worker, gateway, store | all |
| account, status, health routes: `api/` | none | read-only, but they probe the gateway and may initialise it | gateway, on the event loop |
| client and example source: `client/`, `examples/` | none | post a signal, read its status, give up after a time-out | intake |
| scripts: `scripts/` | none | start a bridge, by hand or from the task scheduler | - |

Outside the code, and modelled from how the code uses them: the terminal and its
broker (orders, fills, positions, equity, the logged-in account), the two
clocks, the operating system that may kill the process, and the sources.

What makes it hard:

- *The crash window.* Claiming, the execution row, `order_send`, the reply, the
  two halves of `finish()` are separate transactions and calls; a crash fits
  between any two (`execution_service.py:164-172, 312-314`).
- *The unknown reply.* `order_send` may return nothing although the broker took
  the order, and a resting order may fill long after its job ended (`:316, :340`).
- *The thread that outlives its task.* `stop()` cancels the task, not the thread
  of `asyncio.to_thread`; the pipeline goes on while the gateway is shut down and
  the database closed under it (`execution_worker.py:39`, `main.py:59`).
- *Swallowed exceptions.* The loop logs them and takes the next signal; the
  abandoned one stays PROCESSING until a restart (`execution_worker.py:63`).
- *Values read early, used late.* Equity, account, broker day, position count
  are each read once, some steps before `order_send` (`:203, :230, :253`).
- *Two clocks.* `started_at` is UTC, the trading day is the broker's (`:140, :246`).
- *Restarts with other settings* over the same tables.
- *One connection flag, two threads, no lock.* The worker's thread and the event
  loop probe, clear and set `_connected` (`mt5_gateway.py:71-97`).
- *Two processes, one file.* A bridge started beside a running one recovers and
  starts its worker before it finds the port taken; `claim_next_pending` is a
  SELECT and an UPDATE (`database.py:88-101`).
- *A client that stops waiting* while its request is still on its way
  (`bridge_client.py:55`).

What makes each part correct: intake stores a signal once, keeps what it asked
for, and never disturbs a row that exists. The queue is served in order. The
pipeline sends at most once per signal, only when both live flags allow, within
position, trade and loss limits of the account it sends to, at a bounded risk.
`finish()` and the recovery tell the truth about the exposure left at the
broker, or say that they do not know. Both tables agree. Baselines never move.
Every accepted signal is settled in the end, and every shutdown ends. `PROJECT.json`
lists the hazards one by one, at their lines, with the properties that watch them.

## 2. Modules

| Module | Models | Lines of code it stands for |
|---|---|---|
| `ExecutionStatuses` | the status vocabulary | `models/enums.py` |
| `RiskService` | every predicate and both day functions | `services/risk_service.py` |
| `VolumeCalculator` | `calculate_risk_based_volume` | `services/volume_calculator.py` |
| `ExecutionBridge` | the composed system: store, intake, worker, pipeline, recovery, process, terminal, broker, clocks | the rest of `app/` |
| `Settings` | the settings a process starts with: bounds, both validators, the live flags | `config.py` |
| `SignalLifecycle` | abstract: what a source is promised about a signal | - |
| `BridgeProperties` | properties of `ExecutionBridge`, and its refinement mapping to `SignalLifecycle` | - |
| `MCExecutionBridge` | constants of the TLC instances | - |
| `BridgeProofs` | theorems about `ExecutionBridge`: the core invariant and what follows from it | - |
| `PromiseProofs` | theorem: `ExecutionBridge` implements `SignalLifecycle` | - |
| `RecordProofs` | theorems: tables, queue order, mapping | - |
| `GateProofs` | theorems: what may be sent, and the limits of positions, trades, losses and risk | - |
| `SharedStore` | several processes on one database file, `claim_next_pending` as SELECT and UPDATE | `storage/database.py`, `worker/` |
| `AtomicQueue` | abstract: a queue with an atomic take, which `SharedStore` refines | - |
| `SharedStoreProofs` | theorems: one order per signal, and an atomic queue, however many processes | - |
| `Gateway` | the connection flag, its probe, `initialize`, `shutdown`, under two threads and outages | `services/mt5_gateway.py`, `_ensure_connected`, the snapshots' use of it |
| `GatewayProofs` | theorem: three attempts are enough | - |
| `Sources` | the sources, their client, the two signal routes and the body-size limit, over `SignalLifecycle` | `client/`, `examples/`, `api/signals.py`, `main.py` |
| `SourcesProofs` | theorems: reported new once, and no status goes back | - |
| `OrderRequest` | the schema's validators and the order request | `models/signal.py`, `_build_order_request`, `_resolve_filling_mode` |
| `VolumeReference` | the volume without its arithmetic, as a reference for `VolumeCalculator` | - |
| `VolumeProofs` | theorems: the largest affordable volume up to rounding, the direction and the filling mode of a request | - |

`ExecutionBridge` is the composition; the others each open up what it takes as
one step. `Gateway` stands behind `IdentifyAccount` and `Reconcile`, `SharedStore`
behind `ClaimNextPending`, `OrderRequest` behind `Submit`, `CheckOrder` and
`SendOrder`. `Sources` stands on top: it instantiates `SignalLifecycle`, which
`ExecutionBridge` is shown to implement, as the bridge its requests reach.

### `ExecutionBridge`, action by action

A step is what happens between two points where a crash or another actor can be
noticed: one database transaction or one call of the terminal, with the pure
checks around it. Reads of the terminal whose only effect is a verdict are
grouped with the transaction they precede.

| Action | Code |
|---|---|
| `Submit` | `POST /api/signals`, `insert_signal_if_new`: INSERT OR IGNORE |
| `ClaimNextPending` | `claim_next_pending`, oldest PENDING, attempt count |
| `StartProcessing` | `insert_execution`, freshness, action enablement, mapping, in the code's order |
| `SetSymbolNormalized` | the mapping written before anything later can fail |
| `IdentifyAccount` | `_ensure_connected`, `account_info`, `account_key_for`; equity is read here, once |
| `CheckMarket` | `ensure_symbol`, tick, `server_time`, stop loss, spread, daily count |
| `QueryPositions` | `positions_get` (None is unknown, not zero), position limit |
| `SizeOrder` | baseline get-or-set, daily loss, risk percent, volume |
| `CheckOrder` | `order_check`; dry runs end here |
| `SendOrder` | `order_send` |
| `RecordReply` | retcode written, verdict chosen |
| `FinishExecution`, `SettleSignal` | the two transactions of `finish()` |
| `AbandonJob` | an exception leaves `process_signal`, also because the database was closed or the login is no number |
| `Boot`, `Reconcile`, `StartWorker`, `FailStart` | `lifespan` start-up with accepted settings: find PROCESSING rows, reconcile one at a time, start the loop; an exception ends the process |
| `Stop`, `ShutdownGateway`, `CloseStore`, `Exit` | `lifespan` shutdown; the interpreter joins the thread |
| `Crash` | the process dies, at any point |
| `FillOrder`, `VoidOrder`, `ClosePosition`, `MoveEquity`, `SwitchAccount`, `Tick` | the world |

`job` is the set of locals of `process_signal` that outlive a step, `stage` the
point it has reached; a failed check moves it to `finish`, as each early
`return finish(...)` does. `Continue` and `\odot` read as the chain of `if not
ok: return`. `stuck` is the list `find_stuck_processing` returned at start-up.
`book` is the broker's record of orders; `fill` is `on_send` (filled inside the
call), `working`, `later` (filled afterwards) or `void`.

### The other modules, action by action

`SharedStore`. Per process `phase`, `stuck`, `picked` (the row the SELECT
returned), `job`, `sent`; shared `status` and `id` of the rows. `Start` reads the
PROCESSING rows, `Reconcile` settles one of them, `StartWorker` starts the loop;
`SelectPending` and `ClaimPicked` are the two statements of
`claim_next_pending` (Python's `sqlite3` opens the transaction at the UPDATE, and
the lock is one of its own process); `SendOrder`, `SettleSignal` are the job,
`Leave` is a crash, a stop or the start that finds the port taken.
The mapping to `AtomicQueue` takes the PENDING rows in order of id for the queue.

`Gateway`. `connected` is the flag, `session` what the SDK really has, `pc`
where each thread is between two accesses to either: `ReadFlag`, `Probe`,
`ClearFlag`, `RereadFlag` are the property `connected`, `Initialize`,
`AssignFlag`, `ConfirmFlag` the loop of `_ensure_connected` over `initialize`,
`BeginShutdown`, `CloseSession`, `ForgetConnection` are `shutdown`. `steady` is a
history variable: has the terminal been up since the call began?

`Sources`. `requests` are those on their way, the abandoned ones included; `call`
and `reply` are what a source waits for and what has been answered.
`SendSignal`, `GetSignal`, `Receive`, `GiveUp`, `TimeOut` are the client,
`DispatchTooLarge`, `submit_signal`, `get_signal` the routes behind the
middleware, `Process` any step the abstract bridge may take. A request handled
late has its effect although nobody hears the answer.

`OrderRequest` and `VolumeReference` have no behaviour: their initial states are
the inputs, `_build_order_request` and `CalculateRiskBasedVolume` are evaluated
on each.

### Abstractions

- Columns nobody reads back (messages, prices, timestamps other than
  `started_at`, `deal_ticket`, `calculated_volume`) are left out, and so is an
  `update_execution` call that writes only those.
- Prices are whole points, volumes whole hundredths of a lot, and comparisons of
  fractions are multiplied out. The one quotient that is floored, the number of volume
  steps, is that of floats: where the exact one is a whole number, the float may fall
  `short` of it and lose a step (0.29 / 0.01), in `RiskVolume` and wherever it is used.
  Other float rounding is not modelled: a percentage that meets its limit exactly, a
  profit the terminal returns with digits below its currency's smallest unit, a quotient
  so close below a whole number that the float reaches it.
- A terminal call returns a usable answer or not (`Answers`); what "not" is
  (None, an empty object) the code does not distinguish either. After
  `ShutdownGateway` no call answers until something initialises again.
- In `ExecutionBridge`, `_ensure_connected` with its three attempts is one yes or
  no, or the exception of a login that is no number; `Gateway` has the attempts.
- `history_deals_get` finds the deals of the logged-in account that the broker's
  clock stamped within `RECONCILIATION_LOOKBACK` of the host's UTC now, or fails
  and counts as empty. `server_time` is the last tick's: up to `TickLag` behind.
- In `SharedStore` a reconciliation knows whether the order was sent; that the
  history may fail to show it is `ExecutionBridge`'s matter.
- Every retcode but DONE, DONE_PARTIAL and PLACED is a refusal that leaves no
  order: the reading the code has of it.
- Positions are those of a hedging account: one per filled order.
- Tags are distinct (`TagAssumption`): the 40-bit hash has no collision.
- In `ExecutionBridge` a submission is one that passed schema validation
  (`OrderRequest`). There, an id is a sequence of kinds of characters, and a
  number one of the kinds the validators tell apart.
- A process that `Leave`s `SharedStore` takes its thread with it; the thread that
  outlives its task is `ExecutionBridge`'s.

### Bounds

`MaxUtc` caps the clock, `MaxInterruptions` crashes and stops together; `Faults`
selects the failures an instance explores; `TickLag` bounds the age of a tick;
`MaxOutages`, `MaxStarts` and `MaxFailures` bound outages, starts, and lost
requests, time-outs and restarts in `Gateway`, `SharedStore` and `Sources`;
`MaxIdLength` stands for the 160 of the schema, `MaxEquity`, `MaxRisk`, `MaxLoss`,
`MaxSteps` bound the inputs of the volume. `SwitchMidJob` says whether the login
may change under a running job. No other counter is unbounded: orders, attempts
and execution rows are bounded by the number of signals because nothing is ever
claimed twice, which the runs show and the proofs use.

## 3. What the runs check

| Run | Question | Instance |
|---|---|---|
| `crash_safety` | Is each signal sent at most once and settled once, truthfully, in order, whatever fails? `SafetyInv`, `AtMostOneOrder`, `NoSilentExposure`, `ExecutedMeansFilled`, `AuditAgrees`, `QueueOrder`, `SettledForever`, `DryRunNeverSends`, `KeepsPromise` | two signals, two payloads, live or dry at each start, every fault, two crashes or stops |
| `gates` | Is everything that reaches `order_send` bounded in risk, with a stop, from a configured process, and does every signal keep the symbol it was mapped to? `TypeOK`, `RiskBounded`, `SymbolOnRecord`, `LiveIsConfigured` | one signal of each kind, four quotes, six settings and four that are refused, a coarse volume step |
| `daily_limits` | Do limits hold across fills, days, accounts, restarts, and what escapes the daily count? `PositionLimit`, `TradeLimit`, `UncountedByInterruption`, `LossGuard`, `RoutedOrders`, `BaselineFrozen`; and does a restart find what a crash hid? `RecentDealRecovered` | two signals, two accounts, moving equity and clock, lagging ticks, slow fills, one crash or stop |
| `liveness` | Is every accepted signal settled, does every shutdown end? `AcceptedIsSettled`, `ShutdownEnds`, `KeepsPromiseInTheEnd` | two signals, every fault but an exception, one crash or stop |
| `shared_store` | Do two processes share the queue as if it were atomic, and drain it? `SentOnce`, `ClaimsAreAtomic`, `QueueIsDrained` | two processes, three signals, four starts |
| `gateway` | Is a terminal that is up reached, and does the flag recover? `ReachableIsReached`, `HealsItself` | two threads, two accounts, two outages, a shutdown |
| `sources` | What may a source conclude from an answer, and does it learn the verdict? `CreatedOnce`, `StatusNeverGoesBack`, `VerdictReachesSource` | two sources that share an id, three bodies, one of them too large, one lost request, premature time-out, crash or restart |
| `order_request` | Does the broker get what the source wrote? `TradedAsWritten`, `FillingIsSupported`, `LargestUpToRounding` | every body and set of flags; equity to 30, risk to 3 %, losses of -3 to 3, limits and step to six units, whole quotients missed or not |

Why the bounds are enough for what they ask: a second order for a signal needs
one signal, one lost answer and one restart, and two interruptions let the
recovery itself be interrupted and repeated; a second signal is there for the
queue, for a job that outlives the recovery of another, and for the limits,
which are set to one so that the second signal meets them. Two accounts are the
fewest that can be confused. The clock of `daily_limits` runs over one midnight.
Deadlock checking is on, but the world can always take a step, so it says little;
that nobody waits for ever is what `liveness` shows. `shared_store` and `sources`
switch it off: once everything is settled and no start or failure is left,
nothing is left to do. Three signals let one process hold a stale SELECT while
the other passes two rows; four starts let either process recover what the other
left. One outage makes a stale write of FALSE, the second comes while it is
repaired; `GatewayProofs` has any number. One failure of `sources` is enough for a
late request to meet its own retry and that of another source, and for a crash
between a submission and its answer.

Properties, and how many actors each needs to go wrong:

- `AtMostOneOrder`, `KeepsPromise`: source retry, worker, broker, crash, recovery.
- `NoSilentExposure`: a filled order hidden behind a rejection or failure;
  needs a lost reply or a late fill.
- `AuditAgrees`: the two transactions of `finish()`, torn by a crash and
  completed by the recovery, whose own verdicts are excluded by name.
- `PositionLimit` excludes orders that filled after their job was over: resting
  orders are invisible to `positions_get`, and the code does not claim more.
- `TradeLimit` is about the trades the executions table has, which are those the code
  counts. It counts by the start of the job, in UTC, not by the deal, so a trade may
  straddle: be dealt on a day before whose midnight, as the count takes it, its job
  began. With the broker's clock not ahead of UTC that is one trade a day, a job that
  runs over midnight; with it ahead, it is every trade of the day's first hours (run
  `broker_day`), and only those within the day are limited.
- `UncountedByInterruption` is about the trades the table does not have: a filled order
  whose signal a crash or a stop took out of the pipeline's hands is settled by the
  recovery in the signals table alone. Each such trade costs an interruption of its own.
  It takes a fill, a crash or stop before the bookkeeping, and whatever the recovery and
  later jobs do then; a sent order without an answer and an exception after the send,
  which the code also leaves uncounted, are named as its hypothesis. The run
  `recovered_trade` shows the limit passed by one such trade.
- `SymbolOnRecord` is about signals refused, failed, crashed or recovered after the
  mapping as much as about traded ones (`TEST_PLAN.md:35`, `VALIDATION.md:18-21`): a
  status only a later step writes, an order, or an account on the executions row tells
  that a signal was mapped, and from then on its row must show the symbol, through the
  writes of `finish()` and of the recovery. REVIEW_REQUIRED alone does not tell: the
  recovery gives it to signals that crashed before the mapping too.
- `LargestUpToRounding`: the one volume the calculation may give away is that which
  would lose exactly what is allowed.
- `RoutedOrders` holds when the login does not change mid-job; the run
  `account_switch` shows what happens when it does.
- `RecentDealRecovered` takes a source, the broker's two clocks, a crash before the
  bookkeeping and a restart that reaches the terminal; the deals are within the
  lookback by the broker's clock. It holds with both clocks equal; the run
  `recovery_window` shows what the difference does.
- `LiveIsConfigured` is what the validators are for: no restart, with whatever
  settings, sends from a process that could not name its account.
- `ReachableIsReached`: a call can only be spoilt by what another wrote. Two
  attempts are too few (the mutant), three are enough, which nobody counted.
- `HealsItself`: no order of stale writes, outages and shutdown leaves the flag
  TRUE without a session, or FALSE with the terminal up, for ever.
- `ClaimsAreAtomic` needs both statements, both processes and the recovery of
  one while the other claims; `SentOnce` the same, plus the job in between.
- `CreatedOnce` and `StatusNeverGoesBack` relate what two sources were told, in
  whatever order late requests arrive, to each other and to the store.
- `TradedAsWritten`: whatever is not exactly `BUY` at the end is sold.
- `DryRunNeverSends` is an action property across restarts with other settings.
- `LossGuard` is about the equity the job read: equity may fall between that
  read and the send.

### Fairness

`WF_vars(Work)`: the loop and the executor's thread are ordinary running code
that nothing blocks for ever; terminal calls return. `WF_vars(Lifecycle)`:
start-up, recovery and shutdown run to their end, and a bridge that is down is
started again; the code cannot promise the latter, the operator or the
scheduled task of `scripts/install-autostart.ps1` does. Nothing is assumed of
sources, broker, clock, stops or crashes. Progress needs finitely many
interruptions, which `MaxInterruptions` provides, and no exception inside
`process_signal`, which the code answers with a signal left in PROCESSING until
the next start.

`shared_store`: a process that is up keeps working, and is started again while
the bound allows it. `gateway`: both threads keep running and an outage ends;
nobody is obliged to call. `sources`: a source goes on (strong fairness of its
calls, as it may be busy with another signal again and again), requests are
served while the bridge is up, it comes up again, and it keeps the promise of
`SignalLifecycle`, which `KeepsPromiseInTheEnd` shows `ExecutionBridge` does.

### Disagreements between the code and what is said of it

Each has a run of its own that TLC refutes; `PROJECT.json` has the quotes.

| Run | What is said | What the code does |
|---|---|---|
| `recovered_trade` | recovered trades occupy a daily slot (`database.py:196`) | the recovery never touches the executions row the count reads |
| `broker_day` | daily state is keyed by the broker's clock (`README.md:93`) | the count compares a UTC start with the broker's midnight |
| `account_switch` | a switch of account cannot mix counts (`database.py:195`) | a switch under a running job sends on one account what was checked for the other |
| `recovery_window` | a match in recent history becomes `RECOVERED_EXECUTED` (`PORTFOLIO_CASE_STUDY.md:46`) | the query ends at the host's UTC now, deals are stamped by the broker's clock: ahead of UTC, the last hours are not searched |

Others are visible in the modules, at the definitions named, without a run of
their own:

- `SizeOrder`: without a stop loss (`REQUIRE_STOP_LOSS=false`) the volume
  calculation raises and the signal is stranded, where `VALIDATION.md:81` has
  `REJECTED_VOLUME`.
- `ReconcileVerdict`: a crash before the send goes to review, where
  `PORTFOLIO_CASE_STUDY.md:122` has a retry; `requeue_signal` has no caller.
- `find_stuck_processing`: an unanswered send is settled as review at once and not
  reconciled against history again, which `README.md:178` says of ambiguous outcomes.
- `StartProcessing`: action enablement precedes mapping; `README.md:87` has the
  other order.
- `TERMINAL_STATUSES` lacks `FAILED_MT5_UNAVAILABLE`, which `test_signal_flow.py:24` has.
- `ConnectRaises`: a login that is no number is refused for a live process only; a dry
  one with a stuck signal raises in the recovery and cannot start.
- `Reconcile` of `SharedStore`: a second process settles a row the first is still
  working on, which no crash left behind (`execution_service.py:60`).
- `RereadFlag`: the second read of the flag may see what the other thread wrote, so
  `connected` can be TRUE without a session (`mt5_gateway.py:59`).
- `Initialize` by the event loop: a GET that finds the connection gone logs the
  terminal in, for a source that wants "not change it" (`execution_service.py:96`).
- `_SAFE_SIGNAL_ID`: `$` lets a newline at the end pass (`SIGNAL_SCHEMA.md:23`).

## 4. What is proved

The safety properties the passing runs check are also theorems, but for
`RoutedOrders` and `RecentDealRecovered`: for any sets of signals, payloads, accounts,
settings, quotes, sources and processes, any clocks and faults and any number of
interruptions, unless the last column says otherwise.

| Module | Theorem | States | Needs |
|---|---|---|---|
| `BridgeProofs` | `SafetyCorrect`, `TypeCorrect` | `[]SafetyInv`, `[]TypeOK` | |
| | `NoDuplicateOrder` | `[]AtMostOneOrder` | |
| | `ExposureOnRecord`, `ExecutedIsTrue` | `[]NoSilentExposure`, `[]ExecutedMeansFilled` | |
| | `SettledStays` | `SettledForever` | |
| `PromiseProofs` | `PromiseKept` | `KeepsPromise`: `SignalLifecycle` is implemented | |
| `RecordProofs` | `TablesAgree`, `OldestFirst`, `SymbolIsOnRecord` | `[]AuditAgrees`, `[]QueueOrder`, `[]SymbolOnRecord` | |
| `GateProofs` | `DryRunSendsNothing`, `SendsOnlyConfigured` | `DryRunNeverSends`, `LiveIsConfigured` | |
| | `RiskIsBounded`, `LossIsGuarded`, `BaselineStays` | `[]RiskBounded`, `[]LossGuard`, `BaselineFrozen` | |
| | `PositionsAreLimited` | `[]PositionLimit` | `~SwitchMidJob` |
| | `TradesAreLimited`, `TradesEscapeByInterruption` | `[]TradeLimit`, `[]UncountedByInterruption` | |
| `SharedStoreProofs` | `SharedStoreSendsOnce`, `ClaimsRefineQueue` | `[]SentOnce`, `ClaimsAreAtomic` | |
| `GatewayProofs` | `ThreeAttemptsAreEnough` | `[]ReachableIsReached` | |
| `SourcesProofs` | `ReportedNewOnce`, `SeenGoesForward` | `[]CreatedOnce`, `StatusNeverGoesBack` | |
| `VolumeProofs` | `VolumeIsLargestUpToRounding`, `TradesWhatIsWritten`, `FillsAsSupported` | `[]LargestUpToRounding`, `[]TradedAsWritten`, `[]FillingIsSupported` | |

The hypothesis of `PositionsAreLimited` is what the code itself leaves open: nothing in
it keeps the login while a job runs, and an order sent after a switch meets the positions
of an account that nobody counted. `RoutedOrders` and `RecentDealRecovered` have their
hypotheses, no switch and equal clocks, in their run; the runs `account_switch` and
`recovery_window` are the counterexamples without them, and with them a theorem would
exclude the cases that matter.

*The core.* `AtMostOneOrder` alone is not inductive: that `SendOrder` finds
no earlier order must be known from the job's first step on. `SafetyInv` adds
what carries it. `JobOK`: a job works on a PROCESSING signal of a running
process; up to the send its signal has no order; after the send the reply, and
later the verdict, says whether it has a filled one. `BookOK`: an order's signal
is never queued and never settled as untraded, and two orders have two signals;
hence what `ClaimNextPending` takes has no order. `RecoveryOK`: while anything
is left to reconcile, the process is recovering and those signals are
PROCESSING; hence recovery and pipeline never meet on one signal.
`ExecutedMeansFilled` is a part of the induction because the recovery's verdict
must be justified by the deal it found, which `TagAssumption` ties to the signal.
`Init => SafetyInv` is `InitSafety`; each action has a lemma; `NextSafety` puts
them together, and the corollaries follow. The stages that only read
share `ReadOnlyStage`, `SettleSignal` and `Reconcile` share `StatusSettled`, the
broker's steps share `OrderRewritten`.

*The promise.* `PromiseKept` takes the actions one by one: `Submit`,
`ClaimNextPending`, `SendOrder`, `FillOrder` and `VoidOrder`, `SettleSignal` and
`Reconcile` are `Accept`, `Start`, `Place`, `Resolve`, `Settle`; every other step
changes neither outcome nor exposure. `SafetyInv` supplies the guards: that `Place`
finds no exposure, that a verdict agrees with the exposure at the moment it is
written, and that no settled row is written again.

*The records.* `RecordInv` says what the job knows of its own executions row at its
stage (`JobRecordOK`), that a row that says executed has the ticket of an order of its
signal (`RowsOK`), and that a signal the pipeline settled has a row with its status
(`AuditOK`). It is inductive because between `FinishExecution` and `SettleSignal` the
row already has the verdict the signal is about to get, and a crash in between
leaves the signal to the recovery, whose two verdicts the property excludes.
`QueueInv` adds that ids count the rows; `SymbolInv` that the mapping is stored from
its stage on and that whatever shows a run past the mapping is preceded by it; a signal
that the recovery settles as executed has an order, and so was mapped. `KeyOK`, that the
account on the row is the one of the job, and `DealsInPast`, that no deal is stamped later
than the broker's clock shows, are for the count of trades.

*The limits.* `PositionLimit` is an argument about one number: from `QueryPositions` to
`SendOrder` no position that counts is opened by anyone but this job, since there is
no second job and late fills are counted apart, so the room found is still there
(`RoomOK`). `TradeLimit` counts rows. `CountOK`: from `CheckMarket` on, and until a trade
just sent is counted, the rows started since the day's first moment that say
executed are fewer than the limit; the day the deal falls on is that day or a later
one, whose rows are among those counted, so the one added keeps every day within
the limit (`DaysOK`). `SequenceOK`: a trade is dealt before any later row is started, as
there is one job at a time; hence of two trades of one day the second was not
started before it, and at most one straddles. This half is for a broker's clock not
ahead of UTC, as the property says: a deal is stamped by the broker's clock, a start by
the host's.

*The trades no row counts.* `UncountedByInterruption` is carried by what the job knows
after the send: its row is still PROCESSING until `FinishExecution` (`OpenRow`), and
when an answered order was filled, the reply and then the verdict say so (`AnsweredOK`);
so a job that reaches `SettleSignal` has its row, with the ticket, and `CountedStays`
keeps it. `LostWithItsJob` leaves two ways for a fill to become uncounted, a crash and
the closed store. A crash is an interruption by itself; the store closes after a stop,
whose job, if it has one, reserves the interruption the stop was (`UncountedOK`, `Ending`).

*Risk and loss.* `RiskIsBounded` and `LossIsGuarded` carry the locals from the step that
computes them to the send; the first rests on the floor of the volume being a
floor, the second on the equity being read once. `DryRunSendsNothing`,
`SendsOnlyConfigured` and `BaselineStays` need only that a job runs under the settings of its own
process, which a crash takes with it.

*Two processes.* `SentOnce` needs that a row still to be claimed has left no
trace (`FreshRows`), that two jobs have two signals (`OneJob`), and that a job
that has not sent finds no order (`UnsentJobs`). `ClaimPicked` keeps the first
two because its UPDATE asks for PENDING; `Reconcile`, which asks for nothing,
only because no status it writes is PENDING. The refinement of `AtomicQueue` adds
`IdsOK` (a new id is above all others), `TakenOK` and `PickedOK`: what a SELECT returned,
however long ago, is still the oldest or no longer pending, since nothing
returns to PENDING and newer rows have larger ids. The queue of the mapping gives a row the
place that counts the rows up to it; `NewestIsLast` and `OldestIsFirst` turn a row more
and a row less into `Append`, `Head` and `Tail` by counting, without induction.

*Three attempts.* `SteadyCall` counts what can still spoil a call: `Left` is the
number of FALSEs others may still write, one the other thread learned before the
terminal answered this call, and one of the shutdown. While the terminal is up
nobody learns another, so attempts used plus `Left` never exceed three.

*The sources.* Both theorems are about answers on their way, which speak of a
bridge that has gone on since. `NewOnce`: the one answer that says "new" is either on
its way or received, never both, and belongs to the body stored. `Told`: what a
source has seen is not later than the answer on its way to it, nor that than the
status stored (`Before`). An abandoned request keeps its effect and loses its answer
(`AnswersForgotten`); a late one finds the row there (`AnswerGiven`).

*Volume.* With k whole steps a volume is affordable exactly when k is at most the
exact floor of the formula's quotient (`DivisionBounds`, `Monotonic`); the code's is that
or, where the quotient is whole, one less, so the only volume missed loses exactly what is
allowed. Minimum and maximum are whole steps, so clamping stays among the candidates.

*Assumptions.* The `ASSUME`s of `ExecutionBridge`, `RiskService` and
`VolumeCalculator`: finitely many signals (ids are a count of rows), distinct
tags, actions BUY and SELL, natural numbers where the schema, the settings and the broker
give such, a minimum volume not above the maximum, a day of positive length. Each
is evaluated by TLC in every run. `SharedStore` assumes that the mark for nobody is
neither a signal nor a process, the other modules natural bounds.

*Model-checked only.* `RoutedOrders` and `RecentDealRecovered`, for the reason above.
Liveness, whose fairness is beyond the prover:
`AcceptedIsSettled`, `ShutdownEnds`, `KeepsPromiseInTheEnd`, `QueueIsDrained`, `HealsItself`,
`VerdictReachesSource`. All inductive invariants named above were checked by TLC on the
instances of section 3 before they were proved.

## 5. Plan

Done: the model, its runs, and the theorems of section 4. Left:

1. The violation runs from the other side: how far each hypothesis can be weakened
   (a bound on the switches, a clock ahead by less than a job), and a theorem for it.
2. `Gateway`: what holds of flag and session together at rest, as a theorem, and the
   part of `HealsItself` that is safety: which stale writes can still come.
3. A model of the daily count that also has the trades without a row, to say how far a
   day can exceed its limit: `TradeLimit` and `UncountedByInterruption` in one number.

## 6. Not modelled

HTTP and JSON as such; reading `.env` and the symbol map; logging; what the
snapshots and the status route lay out; `/health`, which touches nothing;
the magic number, deviation and comment texts of the order request; float
rounding other than that of the floored quotient; SQLite's own journal (a transaction happens or does not); the
installation scripts; `models/execution.py`, a data class nothing uses;
`requeue_signal`, which has no caller.

## 7. Running

`tlc -config crash_safety.cfg MCExecutionBridge` for a run (the module of each is
in `PROJECT.json`), `tlapm BridgeProofs.tla` and likewise for the other modules of proofs. `PROJECT.json` lists for every property
of a passing run a mutant: a definition of the module replaced by the form a
plausible bug would give it, kept next to it, under which TLC refutes the property.
