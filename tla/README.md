# Verification of the trading system

TLA+ models, TLC runs and TLAPS proofs for the crypto trading system in
`src/workspace`: the backend (`backend-workspace`), the paper exchange
(`mock-exchange-workspace`), the tuning scripts (`trade-audit-result/scripts/tuning`)
and what they share (`trading-core`). Paths below are relative to those
directories where that is unambiguous.

Contents: 1 the system, 2 the modules, 3 the runs, 4 the proofs, 5 where code and
documents disagree, 6 what is not modelled, and what is left.

## 1. The system

Five kinds of process share Redis (lists, keys with a time to live, pub/sub
channels, a task queue), SQL Server, and, for the paper exchange, SQLite:

- the **data pipeline** (`main.py`): `OHLCVService`, `OrderBookService`,
  `DeltaService` and `ScoringService` on one asyncio loop, plus a listener thread;
- the **dashboard API** (`api/main.py`, FastAPI): one event loop for the signal store and the
  websockets, a thread pool for the configuration endpoints;
- **Celery workers** (`trade/tasks.py`, `engine/tasks.py`), which acknowledge late;
- the **paper exchange** (`mock-exchange-workspace/main.py`): order endpoints,
  `CandleFeed`, `AuditConsumer` and `TickerFeed` on one loop;
- the **exchange** itself, outside the repository.

A candle closes; `OHLCVService` stores and announces it; `ScoringService` scores it
through bias, guard, filter chain and strategies, publishes an alert and pushes an audit
snapshot; the API keeps the alert as a card; the user confirms it; the risk manager sizes it and
a worker places entry, stop loss and take profit and reports back over the same alerts channel;
the paper exchange closes positions as candles hit their levels and hands the result to the audit
services, which also look up what became of every snapshot. The tuning scripts read the signals,
look up what became of them and write new trading parameters; the scoring service picks up the thresholds among them through its
cache, the module weights never (section 5). The circuit breaker stands in front of scoring and confirming.

### Inventory

| component | state | hard behaviour | what makes it correct | modules |
|---|---|---|---|---|
| circuit breaker (`risk/circuit_breaker.py`) | lock rows, Redis flag; loss list, journal, cached peak | several processes without a common transaction, stale copies, a flag with a time to live, a crash between commit and cache | never released early, never pulled in, flag and table agree, the list of losses is that of the journal | `CircuitBreaker`, `LossSeries` |
| execution (`trade/tasks.py`, `executor.py`, `journal.py`) | task queue, orders, journal, registry, status key | lost replies, redelivery, two levels of retry, failing stores | reports name accepted orders, recorded once, every dispatch reported | `TradeExecution` |
| dashboard signals (`api/main.py`) | `_active_signals`, connections | an await inside confirm, several connections, restart | only cards are dispatched, a skipped card stays out | `SignalStore`, `TradeFlow` |
| paper exchange (`exchange/*.py`) | orders, positions, account, history | several commits per handler, failure between them | history explains the balance, results booked once | `MockExchange`, `TradeBook` |
| candle pipeline (`data/ohlcv_service.py`, `price_feed/candle_feed.py`) | `_last_ts`, ring list, events | failed polls and writes, restart over a kept ring | in order, once, without gaps, eventually | `CandlePipeline` |
| delta (`data/delta_service.py`) | cumulative delta, last trade time, history | an await between fetch and count, trades of one millisecond, restart | each trade counted once, history accounts for it | `DeltaTape` |
| scoring (`engine/scoring_service.py`, `engine/filters`, `engine/scorer.py`) | parameter cache, filters, alerts | order of cap, multiplier, clamp, adjustment; filters that raise | nothing leaves past guard or breaker, blind scores capped, more evidence never scores lower | `Scores`, `Evidence`, `ScoringCycle` |
| guard, regime, bias, correlation (`engine/*.py`) | cooldown key | poll, cooldown and cycle race; limits nobody asks for | a dump blocks; regime reads both directions alike | `BtcGuard`, `PriceAction`, `PositionBook` |
| signal algorithms (`engine/smc.py`, `vsa.py`, `order_flow.py`, `confluence.py`, `volume_profile.py`, `indicators`) | none | numeric edges, mirrored comparisons | symmetric, scale-free, persistent readings; volume is conserved | `PriceAction`, `Volumes`, `VolumeProfile`, `Scores` |
| strategies (`strategies/*.py`) | none | levels from zones and distances | stop and targets on their sides | `Strategies` |
| configuration (`config/*.py`) | versioned rows, YAML text and time, caches | concurrent saves, half-written files, masked secrets | one version in force, the last valid text served | `ConfigStore`, `ConfigFile` |
| position monitor, risk manager (`trade/position_monitor.py`, `risk/manager.py`) | registry by asset, memory by order | two indices of one thing, an await inside the check, restart | no trade beyond its share, the registry counts what is held, entries watched | `PositionBook` |
| audit (`mock-exchange-workspace/audit`, `audit/client.py`) | queue, records, jobs in memory | at-most-once queue, jobs lost with the process, late checks | completed once and for good, one counterfactual each | `AuditTrail` |
| backtest (`backtest/*.py`) | open trade, results | order of events inside a candle; metrics of odd series | trades accounted for, stops first, the tuner's labels differ only where its window, its age limit or its finer candles make them, metrics agree | `Backtest`, `Labelling` |
| gap filler (`data/gap_filler.py`) | none | runs of missing stamps, stamps off the grid | nothing is invented, nothing is left to fill | `Gaps` |
| audit analysis (`audit/analysis_engine.py`) | none of its own, it reads the audited trades | ties, unknown regimes, trades without a signal | the advice helps on its own sample | `AuditReports` |
| tuning scripts | labelled sample, one row of parameters | caps, bounds and vetoes in sequence | thresholds stay usable and come to rest | `Tuning`, `Labelling`, `ConfigStore` |
| order book and websocket services, alert texts, HTTP and ticker, shared core, frontend | overwritten keys, presentation | | | not modelled (section 6) |

`PROJECT.json` lists the same components with their files, and every hazard with the
line where it bites and the properties about it.

## 2. Modules

| module | models |
|---|---|
| `CircuitBreaker`, `CircuitBreakerProofs` | the trading lock, any number of processes |
| `LossSeries`, `LedgerProofs` | what trips it: losses, daily total, drawdown from the peak |
| `TradeExecution`, `TradeExecutionProofs` | `execute_trade`, the executor, Celery's delivery |
| `SignalStore` | `_active_signals`, its connections and handlers |
| `TradeFlow`, `TradeFlowProofs` | `TradeExecution` with `SignalStore` in front of it: extends the one, an `INSTANCE` of the other |
| `MockExchange`, `MockExchangeProofs` | the paper exchange, commit by commit |
| `TradeBook` | the abstract promise: a trade is opened, closed, and booked at most once per event |
| `CandlePipeline`, `PipelineProofs` | one symbol and timeframe from the exchange to the readers |
| `DeltaTape`, `LedgerProofs` | the delta of one symbol from the tape to the scoring cycles |
| `ConfigStore`, `ConfigProofs` | versioned configuration rows and their readers |
| `ConfigFile`, `ConfigProofs` | `config.yaml` and its watcher |
| `PositionBook`, `LedgerProofs` | sizing, the registry of open positions, and the limits as they are promised |
| `AuditTrail`, `PipelineProofs` | snapshots, their follow-ups, trade audits |
| `Scores` | points, final score, class |
| `Evidence`, `AnalysisProofs` | what a cycle has detected, finding by finding (it extends `Scores`) |
| `BtcGuard`, `ScoringCycle`, `AnalysisProofs` | the guard, and a scoring cycle with its filters (it extends `Scores` and `BtcGuard`) |
| `Volumes` | the deltas, and candles read by their volume |
| `VolumeProfile`, `LedgerProofs` | the volume profile of the last candles and its value area |
| `PriceAction`, `Strategies`, `AnalysisProofs` | a chart that grows, the readings of it, and the signals made of them |
| `Backtest`, `AnalysisProofs` | the backtesting loop, its metrics and the walk-forward windows |
| `Gaps` | missing candles and what is drawn over them |
| `AuditReports`, `LedgerProofs` | what the audited trades recommend, audit after audit |
| `Tuning`, `LedgerProofs` | one tuning run after another: recommendations, what is applied |
| `Labelling`, `AnalysisProofs` | the tuner's labels beside the backtest's results (it extends `Backtest`) |
| `MCExecution`, `MCPipelines`, `MCServices`, `MCAnalysis` | instances for TLC |

### CircuitBreaker and LossSeries

`rows` is the table in insertion order, `cache` the key `circuit_breaker:locked` with
the last hour in which it answers, `call` the stack frame of each process. A call is cut
at each database or Redis access: `IsLocked` reads the flag, `Select` the newest locked
row into the process's own copy, `NothingLocked`, `StillLocked`, `Extend`/`Release` decide
on that copy, `CacheExpiry` is the Redis write inside `_handle_lock_expiry` and `MaskExpiry`
the one its caller makes afterwards. `Activate` and `CacheActivation` are the commit and
the cache write of `_activate`. The clock counts hours (`Tick`), and a Redis key disappears with
its time to live. `Stop`, `SelectFails` and `ExpiryUpdateFails` are the failures the code
catches or dies of. The 60 seconds the code adds to a time to live are less than one hour of the
model, and so is the time between a commit and the Redis write behind it.

Which trigger fires is free in `CircuitBreaker`; `LossSeries` decides it. There a worker reads
the list of recent losses in one step and writes it in another, so that two results interleave
(`raced` remembers which). An entry of the list also names, in the model only, the trade it is about: so `SeriesComplete` can compare the list
with the losses in the journal that are due, whichever path they took. `skipped` are the trades that the code keeps off the list: it was locked when they
were recorded, or they locked it. `trades` is the journal, from which the daily total and the seven-day peak
are computed, and `peak` the cached peak with its time to live. What the list keeps is a fold
(`Later`) and what trades made a sum over their places in the journal (`Made`), so that both can be reasoned about.

### TradeExecution, SignalStore, TradeFlow

`run[w]` is where worker `w` is in the task, one step per effect: set-up, the three orders
with their attempts, journal, registry, event, status, acknowledgement. `queue` counts
messages by signal and task retries used, `placed` the orders the exchange has accepted. Orders
of a signal are numbered in the order of acceptance, so that "this order" can be compared across
runs. `mishaps` counts what went wrong, by kind, and bounds it; it is a history that
properties use to say which guarantee survives which failure. A lost worker puts its
message back (`task_acks_late`, `task_reject_on_worker_lost`), also between the end of the
task and the acknowledgement. `Awaitable` distinguishes an `ExchangeInterface` from the
synchronous client that `build_ccxt_exchange` returns.

`SignalStore` keeps what is stored under each id: a card, a card marked by confirm, or the
worker's event, which has the same id and takes the card's place. A confirm request is
two actions because it awaits the open positions in between; `held` says whether the
dictionary it read is still the stored one. `TradeFlow` joins them: the second half of
confirm puts a task on the queue, and the worker's events come back on the alerts channel.
It extends `TradeExecution`, so that each of its steps is one of the store, one of a task, or both at once,
and `FlowSpec => Spec` can be stated; `sent` remembers what each dispatch handed over.

### MockExchange and TradeBook

Handlers of the paper exchange do not suspend between database accesses, so one `job` runs
at a time, and is cut at its commits; `Abort` is a commit that fails or a process that dies
there. Amounts are one unit and prices small integers; fees and gains are whole numbers per price
step. `TradeBook` knows trades that are open or closed and which event of each was booked;
`KeepsBook` is the refinement, with a trade's state taken from its row and the bookings from
the history.

### CandlePipeline, DeltaTape, AuditTrail

A candle is its number. `ClosedOf(limit)` is what `fetch_ohlcv` returns without the candle
still forming. The service handles the candles of a batch one after the other (`Push`,
`Trim`, `Publish`); readers on the same loop do not run between them, the feed of the paper
exchange, another process, does. `faults` records what failed, so that each property says under
which faults it holds.

`DeltaTape` has the exchange's trades as `tape`, each with a millisecond and a signed volume; the
fetch is the only await of a poll, so cycles of both timeframes run between fetch and count.
`lastTs` and `storedTs` are the newest time in memory and in Redis, `delta` and `history` the two
keys, `counted` and `dropped` the histories that say what became of each trade.

In `AuditTrail` an event goes from `queue` to `hand` (it has left Redis), to `log`; `jobs` are the
three price checks in memory, `backlog` what the startup backfill works through, `entries` the
counterfactuals and `trades` the verdicts. The clock counts the windows T1, T4 and T16; `Crash`
loses `hand` and `jobs`, `StartService` begins with the backfill. A check can also be lost alone, when the
scheduler skips it as too late or its write is rolled back: no job tries it again, and the record waits for the next restart (`lost`).

### ConfigStore, ConfigFile, PositionBook

`versions` are the rows with their active flag and secret; a request thread deactivates what it
sees and inserts (or activates) in one transaction, and one that waits behind another's lock may
not see the row that was inserted meanwhile (`missed`). The tuner loads in one transaction
and writes in another. A row carries one threshold and one module weight; a version saved from the form gets the column's default weight, since neither
the form nor the ORM model has it. `cached` (`loaded`, `alert`, `weight`), `cycles` and `behind` are the parameter cache of the scoring service:
`Converted` is `_trading_params_to_dict`, which has no key for a weight, so that the scorer works with its default.

`ConfigFile`: `file` has a text and a time; writers leave valid and invalid texts in it, and may
write twice within one tick of its time (`masked`). `Watch` notes the time first and loads afterwards,
as the code does.

`PositionBook`: `hash` is `portfolio:open_positions`, keyed by asset; `memory` is `_open_positions`,
keyed by order. A trade is `decided` (sized and confirmed), filled and registered;
`check_position_closed` looks at the exchange, awaits, and then settles (`Look`, `Settle`), while other trades
of the asset come and go. The endpoint asks for no limit, so `Decide` has none: `Allowed` is what `check_new_signal` would answer, and occurs only in
`DecisionsAllowed`, which the code violates. `shared` and `lost` are histories that name the ways in which the registry loses count.

### Scores, BtcGuard, ScoringCycle

A reading is a record of findings. Points are counted in thirds, sizes in hundredths of the configured
one (both are exact). `ScoringCycle` takes one reading per cycle through
filters, score, cap, multiplier, clamp, thresholds and 4h adjustment to an alert, as one step, because
the cycle has no await; `moves` and `taken` are the closed BTC candles and how many Redis has, `spike` the cooldown. A guard or a breaker that cannot be read lets the signal through (`Unguarded`, `Unchecked`). Filters that are unknown
by name and thresholds that are reversed make a cycle raise (`lost`).

### Volumes, PriceAction, Strategies, Backtest, Gaps, Tuning, AuditReports

Pure code is modelled by operators over sequences of integer candles; fractions are cleared or kept
as pairs, and each operator names its unit. `Strategies` extends `PriceAction`: each strategy's
conditions and the levels it places, prices in four-thousandths so that every factor of the code is an integer.
`PriceAction` keeps the chart itself as state (`seen`): each step appends a candle, since what the engine reads it reads anew on every candle,
and what it still says then is what `ReadingsPersist` is about; together with `MirroredAlike`, which turns the chart upside down, it is `ReadingsHold`. A candle is given by what it adds to the last close.
`Evidence` changes one finding per step, in any order. `VolumeProfile` keeps the candles of the window (`traded`); prices are counted in `BINS`-ths
and volumes in `SHARES`, a common multiple of the candle ranges, so that the part of a candle that a bin gets is a whole number.
`Backtest` adds one candle per step, so that nothing can depend on a later one. `Labelling` is the tuner's view of the same market: it looks at a signal of a certain age, at the first
`OUTCOME_WINDOW` candles after it (96 of five minutes in the code), and its candles may be finer than the backtest's (`finer`), so that what comes first inside one of them is either level.
`TestIsHonest` joins what is promised of the results: `TradesAccounted`, `StopsComeFirst` and `LabelledAsTested`.
`Tuning` has the sample (`labelled`) and the parameters in use (`inUse`): a step labels a signal or is a whole run of the scripts, the threshold sweep,
the weights found coordinate by coordinate, and what is applied after caps, bounds and vetoes. `AuditReports` has the audited trades (`audited`), and reads
its advice from them.

The other computations get their input made up by `MCAnalysis`, and `ComputationsAgree` joins three properties about them. `VolumesAccount` also holds what `Gaps` promises: the longest runs of missing stamps are
reported and filled without a trade or a price outside their neighbours'. `StudiesHold` is about what is computed from finished trades:
tuned weights put more signals in order; net result, profit factor and drawdown tell one story; and the walk-forward windows follow one another. `ReadAlike` compares a chart's readings with those of its mirror and its multiple.

Conditions that overlap, the `elif` chains of the code, are written as `IF` chains: a `CASE` whose guards overlap leaves open
which branch is taken.

## 3. Runs

Bounds are named constants, given in the `.cfg` or in the `INSTANCE` of the MC module.
`MCExecution`, `MCPipelines`, `MCServices` and `MCAnalysis` check modules that share no state (or, for the task and its
flow, a part with the whole): a behaviour
picks one (`focus`) and leaves the others where they begin, so the state space is the sum and not the
product of theirs. They extend the modules that keep state and take the pure ones as instances.

| run | instance | shows |
|---|---|---|
| `breaker_races` | 2 processes, one may fail, 1 lock, 2 regimes, 3 hours | `AutoReleaseNotEarly`, `LockFlagWithinLock`, `UnlockNeverPulledIn` |
| `execution` | task: 1 signal, 2 workers, 2 dispatches, 2 attempts, 1 task retry, 2 mishaps; flow: the same with 1 worker, 1 dashboard, 1 request at a time, restarts; paper exchange: 3 orders, 3 plans, 4 candles, 1 failure anywhere | `ExitsNeedEntry`, `ReportsAreBacked`, `JournalledOnce`, `FilledIsRecorded`, `OnlyCardsDispatched`, `UnconfirmedSkipStays`, `BalanceTrail`, `ResultBookedOnce`, `SettledWhenIdle`, `KeepsBook`, `NothingPassedOver`, `DispatchesReported` |
| `pipelines` | ring, seed and fetch of 3, 5 candles, 2 faults; 1 snapshot, 1 trade, 4 windows, 2 faults | `PublishedOnce`, `NoGaps`, `CounterfactualOnce`, `CompleteStays`, `EveryCandleArrives`, `EverySnapshotCompletes` |
| `services` | delta: 3 trades, 2 cycles, 1 mishap; configuration: 2 requests, 3 versions, 1 outage, and a file with 2 values per setting and 3 times; positions: 2 assets, 3 trades, 2 kinds of loss; losses: 2 workers, 3 trades, 3 hours; breaker: 1 process, 2 locks, 3 hours | `CountedOnce`, `OneInForce`, `ParamsRecent`, `ServesLastValid`, `RiskCounted`, `EntriesWatched`, `SeriesComplete`, `DrawdownSeen`, `FastPathAgrees` |
| `analysis` | cycle: 7 readings, 3 settings, 2 filter lists, 6 ticks; evidence: 13 of 16 findings, each with all its values, those that count alike left out; backtest and labels: 5 candles of 4 shapes, a window of 2; charts up to 6 candles (swings up to 10), volumes and series with gaps 6, deltas and results 5; profiles: 3 candles out of 18 kinds in 4 bins; samples of up to 4 and audits of up to 5 out of 6 labels, 4 settings | `NothingPastTheGuards`, `BlindScoresAreCapped`, `ScoresOrdered`, `ProfileAccounts`, `ReadingsHold`, `LevelsOrdered`, `TestIsHonest`, `ThresholdsSettle`, `AdviceHelps`, `ComputationsAgree` |
| `breaker_extension`, `execution_client`, `candles_newest`, `config_credentials`, `config_weights`, `book_limits`, `audit_shorts` | as small as the disagreement allows | each refutes one sentence of the documents (section 5) |

Each takes from a second to about three minutes (`execution`).

Why the bounds are enough. Two processes are what it takes for a stale copy, and one row for
two handlers of the same expiry; the clock runs past the longest lock and one extension. Three orders
give two positions of one symbol with an exit order between them, or a position hit and replaced;
one failure reaches every commit, and a second one would only cut another job. Two workers with two messages
are the least for overlapping runs of one signal; two mishaps combine a lost reply with a
lost worker, and three were also checked (1.1 million states). Five candles wrap a ring of three and
leave room for a gap; two faults put a restart behind a failed write. One snapshot has three jobs, a backfill and a counterfactual,
and records do not interact; two faults let a crash follow a failed lookup. Three trades on the tape give two of
one millisecond and one after; two requests and three versions are the least for a missed row that
a third party reads; there is one weight in `services`, since nothing but `WeightsLoaded` (`config_weights`, two weights) depends on it.
Two assets and three trades give a second position of an asset beside one of another. Two kinds of loss
let a restart follow a failed write: what is restored from a stale registry then shares its asset with a position it no longer
accounts for, which one loss alone does not show; `Restart` records it as `shared`, and `RiskCounted` is about what remains. A window of two candles out of
five has signals that are too young, trades that outlast it and trades that end within it. Three losses trip the
series, with a window of two hours out of three. Charts of five candles hold a gap, a block and its retest under windows of four; ten hold two swing highs
and lows. Three candles put one of a single price beside two whose ranges share bins. Evidence reaches every combination of the findings that it changes.

Deadlock is not checked where the bounded input of a model is used up and nothing is left to do: that is so in every
instance except the two of `CircuitBreaker` and `candles_newest`, which keep the check.

Fairness. `TradeExecution` assumes weak fairness of each worker's next step: Celery fetches
the next message, and the task has no unbounded wait. `CandlePipeline` assumes weak fairness of the
polling task, which sleeps a bounded time and asks again. `AuditTrail` assumes it of the process (`Run`: it is restarted
when it stops, its consumer and scheduler run) and of time (`Tick`). Nothing is assumed of the
exchange, of users or of failures, whose number the models bound. The liveness properties `DispatchesReported`,
`EveryCandleArrives` and `EverySnapshotCompletes` are stated under these; in `MCExecution` and `MCPipelines` only what is in focus is fair. Other modules state safety only.

Every property of a passing run has a mutant, and one that joins several has one for each of them: an operator (its comment starts with
"Mutant", or its name says how it deviates from the one it follows) that makes a plausible slip of the code, with which TLC refutes that property.

## 4. Proofs

TLAPS checks eight proof modules for every value of the constants, from the named
assumptions of the modules and, where a theorem says so, from an assumption of its own. No proof step is left open.

**CircuitBreakerProofs** (assumptions: durations are positive, those that may fail are processes, the absent regime is no regime).
`AutoReleaseNotEarly` alone is not inductive: a handler acts on its copy of a
row, so nothing in the property says that the copy is not older than the lock's first due hour.
`IInv` adds `RowsOK` (an unlock time is never before the first due hour and lies at most one
extension beyond now unless it is that hour) and `CopyOK` (a copy names an existing row, is
not before its due hour and not after the row's current unlock time). From these: `TypeCorrect`,
`ReleaseNotEarly`, `FlagWithinLock` (cached "1" is gone when the last lock ends) and
`UnlockMonotonic` (an extension is written at or after the copy's unlock
time while the row's own is bounded by `RowsOK`). `FlagAgreesAlone` is about one process without failures
(`Alone`): on top of `IInv` it needs what the process holds between its accesses (`ReadOK`, `FlagOK`), when the key may be cached (`KeyOK`),
and that a lock in force which was never extended is strictly the newest (`TableOK`), because only the newest row is read.

**TradeExecutionProofs** (attempts are positive, task retries natural, the absent signal is no signal). `IInv` adds to the types
that every run is *backed*: the entry order it holds was accepted, and from the exit orders to the registry it holds one. Since accepted
orders stay accepted (`Grows`), lost replies, repeated runs and retries keep it: `TypeCorrect`, `ExitsFollowEntry`, `ReportsBacked`, for
`Awaitable` true and false. A second invariant, `JInv`, follows single orders: no two runs of a signal hold the same one (`Distinct`), one held before the
journal step is not in the journal (`Unfiled`), and one held after it is, while the stores work (`Filed`). From it: `EntriesJournalledOnce`, `FillsRecorded`.

**MockExchangeProofs** (plans, levels, candles, funding and rates are integers of the right sign; `BoundsAssumption` for the two bounds).
`TrailKept`: every booking appends a row that continues the balance. `Ledger` says that what the job in hand is still to close is
open, that rows of the history name existing trades, that a booked result belongs to a closed position with that amount, and that the one
about to be booked has none yet; from it `ResultsBookedOnce` and, with `Sized` (a position has an order and the orders are bounded), the refinement
`ExchangeKeepsBook`: every commit is a step of `TradeBook` or a stutter. `Watchful` says that while a candle is being
handled without failure every position it hits is still on the list or already closed: `NoExitPostponed`. `Announcements` and `Underway`
follow a trade from its row to the booked fee and the announced result: `SettledBetweenHandlers`.

**TradeFlowProofs** (the dashboards are finitely many). It rests on the theorems of `TradeExecutionProofs`. `FlowImplementsTasks`: every step of the composition is a
step of a task, a dispatch or leaves the tasks alone, so what is proved of the tasks holds behind the API (`FlowReportsBacked`). The mapping needs an invariant: what a
confirm request carries across its await is a card of a signal, and a task only runs for what was dispatched (`OnlyDispatchedRun`).
`CardsOnly` follows from the types of that invariant, in which `sent` holds no event. For `SkipsStay` the invariant follows the life of a signal
that was never dispatched under one dashboard: at most one message is about it, it precedes the entry in the store and never follows it
(`InOrder`), and a request that holds the entry holds the stored one.

**PipelineProofs**. `CandlePipeline` (theorems assume `Sizes`: positive numbers for fetch and seed, natural ones for the ring and what is listed at the start): `IInv` adds
that a batch is a run of consecutive closed candles beginning after the mark (`InBatch`), that nothing published is newer than the mark
(`BelowMark`), and that, while polls keep up, the next candle joins the head of the ring (`Joined`): `CandlesOnce`, `RingUnbroken`. `AuditTrail`: time does not pass T16 while an
earlier check waits (`T4First`), nothing is complete before T16 (`NotBefore`), and the backfill has its records to itself (`BackfillOwns`): `EntriesOnce`, `CompletionIsKept`.

**ConfigProofs**. `ConfigStore`: at most one transaction is open, the last committed version is active, open transactions have seen
only existing rows, and without a missed UPDATE nothing else is active: `LastCommitInForce`. With `PARAMS_TTL` positive, the cycles for which the cached threshold may differ from the one in force are bounded by
the cache's own counter: `ParamsFollow`. `ConfigFile`: what is served validates, what the watcher has noted and not served does not,
and its time is never ahead of the file's (`NotAhead`): `ServedIsValid`.

**LedgerProofs** is about what adds something up. `SumFunctionOnSet` and `FoldLeft` of the community modules are recursive *functions* over the subsets of a finite
set, so a value of theirs is found by well-founded induction over those subsets (`WFMin` with the strict subset ordering), stated with a set of
subsets instead of a predicate: every finite set has its table, two tables agree, the operator is an entry of one. From that the lemmas on sums (an
element taken out, a function changed at one point, monotonicity, disjoint sets) and on the fold.

- `PositionBook` (`BookAssumption`: money and percentages are natural numbers): registry entries belong to trades in memory as long as no write failed
  (`RegistryIsWatched`). `RiskInv` for `RiskIsCounted`: no trade risks more than its share (`Capped`, from the cap of the size in every mode); while no asset is
  shared and no write is lost, a trade in flight has its asset to itself (`InFlight`), the registry has the risk of every position held under its asset, and what a check is about to
  remove is not held (`Accounted`). `RiskCounted` alone is not inductive: a check looks and removes in two steps, and a trade is decided and registered in two.
- `DeltaTape` (`TapeAssumption`: positive sizes): `TapeInv` says that what is fetched is a stretch of the tape, that the stored timestamp
  separates the trades counted, once, from those that were not (`StampSeparates`), and that up to it none is passed over but those that share a millisecond (`NonePassed`), each
  under the failures that leave it true; `LedgerInv` that history, running delta and what was dropped add up to the volume counted. Together: `EveryTradeOnce`.
- `LossSeries`, the list (`SeriesAssumption`: the window is at least an hour): `SeriesComplete` alone is not inductive, because the list a worker writes is the one it read.
  `SeriesInv` adds that each trade is recorded by one worker at most (`Apart`), that the list has every loss that is due and not raced, only such as are due, and each once (`ListKept`), that
  what a worker has read is as good as that, but for the losses of those it raced with (`ReadKept`), and that the newest loss
  is the last of the list, so that a list that expires has nothing left of the window (`NewestLast`): `NoLossMissing`.
- `LossSeries`, the drawdown (`SeriesAssumption`: results and the capital are integers, a lock and a day last): the journal is in the order of the exits (`JournalInv`), so
  the trades of the window are a suffix of it, and the equity before each, reconstructed backwards, is the one that was (`EquityBefore`); the largest of these is the highest
  the equity has been (`PeakIsHigh`), and the check locks exactly beyond the limit: `DrawdownLocks`.
- `Tuning` (`TuningAssumption`: thresholds are integers, the swept range reaches no further beyond the safety bounds than a jump): parameters in use stay whole (`TuningInv`). The
  new threshold is the bounded, capped shift towards the best one (`AlertTuned`); a shift that does anything leads towards it and not beyond (`ShiftLeads`), also where the bounds cut it off,
  which is why the range swept matters: `TunedThresholdsSettle`.
- `AuditReports` (`AuditAssumption`: the thresholds tried rise from the default): the best threshold so far is ahead of all tried before it and strictly of the lower ones, along the fold
  (`SuggestedAhead`); win rates are compared by their excess over the overall rate, which adds up over the regimes (`ExcessAdds`, `GroupsTogether`), so leaving out regimes below it cannot
  lower the rest (`FilterHelps`): `AuditAdviceHelps`.
- `VolumeProfile` (`ProfileAssumption`: candles have whole prices and volumes, and `SHARES` divides by their ranges): the edges rise from the lowest to the highest price, what the bins get
  of a candle is a telescoping sum (`ClipSteps`, `RangeSpread`; for one without a range `PointSpread`), and the sums over candles and bins change places (`SumSwap`): `VolumeKept`. For the value
  area the invariant of the loop (`Fits`) bounds the turns that are left by the bins that are left, since what a fold does in its turns is found over sets of turns as the sums are
  (`AreaWidens`, `AreaFits`): `AreaTight`, and together `ProfileIsWhole`.

**AnalysisProofs**. `Scores`: `MoreEvidenceNeverLowers` holds for every record of findings (`AllReadings`), those no run draws included; `Evidence` keeps to such records: `ScoresStayOrdered`.
`ScoringCycle` (`ScoringAssumption`: readings are readings and thresholds integers; `GuardAssumption`: the cooldown is positive): `CycleInv` has what the guard keeps, whole thresholds and
the cap itself: `BlindStaysCapped`, and from the same invariant the action property `GuardsHold`, with the examined candle and the cooldown
told apart, and what gets past either when it cannot be read (`LetThrough`). `Backtest` (`TestAssumption`: distances, steps and rates are positive, and prices larger than the stop's distance): `TestInv` says that trades opened are closed in the order of the signals
or open (`InOrder`), and that no candle since it was opened has touched the stop of the open trade (`NotFlattered`): `NoTradeLost`, `NotFlatteredByTheOrder`.
`PriceAction` (`ChartAssumption`: the low of a candle is the lowest and the high the highest of its prices, which are positive): the chart is a sequence of such candles (`ChartInv`).
The blocks reported are ranked by a strict total order, so each rank is taken once (`EveryRankTaken`, `OrderedTakes`) and each block is a candle the last close is not beyond
(`BlocksHold`); a gap goes on or is filled (`GapsGoOn`) and among open ones there is a newest (`NewestExists`): `ReadingsArePersistent`.
Turning a chart upside down exchanges highs and lows, leanings and levels and keeps the true ranges (`MirrorIs`, `LeaningTurns`, `RangesStay`), so each condition on one side is that of the other on the
turned chart (`BlocksTurn`, `OpenTurns`): `LongAndShortAlike`. With `ReadingsArePersistent` it gives `ChartReadingsHold`.
`Labelling`: on top of `TestInv`, nothing between the entry and the exit of a trade has touched either level, and its exit has (`LabelInv`); later candles leave that as it is (`LabelNext`); from it the first touches in the window are found, case by case, with the window as a parameter (`WindowAssumption`: it is positive) and for finer candles as for the same (`EndedIsLabel`): `TradesLabelledAsTested`, and with the two before it `BacktestIsHonest`.
The windows of the walk-forward analysis, for any sizes: `WindowsFollow`.
`Strategies` (`StrategiesAssumption`: the warm-ups reach back to the candles a pattern looks at): for each pattern some candle that the stop is set behind reaches as far as the last close (`Reaches`, with a lemma for
each strategy; for a retest it is `BlocksHold`), so a margin beyond the extreme of all of them is on the losing side (`StopIsLosing`): `LevelsAreOrdered`.

The larger invariants were model-checked on the instances of section 3 before they were proved. That is how the proof about the registry began with a correction: a restart restores
whatever the registry holds, and after a write that failed this may be the key of an asset that a later trade holds as well.

Only model-checked: the liveness properties (`DispatchesReported`, `EveryCandleArrives`, `EverySnapshotCompletes`), since liveness and `ENABLED` are out of the prover's reach,
and `ComputationsAgree`, what the `analysis` run says of pure code over inputs that it makes up:

- `VolumesAccount`: percentiles sort and gaps filter (`SortSeq`, `SelectSeq`, `SetToSortSeq`), and what those return for every sequence takes induction over data.
- `ReadAlike`: tolerances are shares of a price, so the bias and the change of character of a turned chart are opposite on the bounded prices of the run and not for all; the ADX and the
  scaled chart are folds of fractions. The part that holds for every chart is `MirroredAlike`, and proved.
- `StudiesHold`: the area under the curve and the drawdown relate what two folds over a sequence compute. Its windows are proved (`WindowsFollow`).

## 5. Where the code and its documents disagree

With a run:

- An extended lock does not block: the caller of the expiry handler caches "0" over the "1"
  it has just written (`breaker_extension`).
- With the synchronous client every order is placed up to `MAX_RETRIES` times (`execution_client`).
- The paper exchange checks positions against the oldest candle of the ring (`candles_newest`).
- "Send '***' or empty string to keep existing credentials": a save stores none (`config_credentials`).
- The tuner's module weights never reach the scorer, which says it loads them (`scoring_service.py:398`): the conversion of the row has no key for them (`config_weights`).
- The limits of the portfolio and of correlated groups that `risk/manager.py:11-14` lists as enforced are not asked for when a trade is confirmed: `confirm_signal`
  builds its `RiskManager` without a `CorrelationManager` (`api/main.py:197`, `risk/manager.py:181`; `book_limits`).
- The audit judges a short as a long, since a snapshot has no direction (`audit_shorts`).

Met while modelling, without a run of their own:

- Breaker: a drawdown lock can be released without the review note the header asks for (`circuit_breaker.py:394` and `:16`); a lock can be
  hidden by a "0" cached before another process committed it; a win never resets the series of losses.
- Execution: a refused stop loss still reports Filled (`executor.py:142`); a retried task shows Failed and later Filled.
- Signals: with two dashboards a skipped card returns.
- Audit: a T16 whose write fails is rolled back and logged (`signal_auditor.py:432-434`), one more than 300 s late is skipped by the
  scheduler (`:232`), and no job comes back to it: the record stays partial until the process is restarted.
- Paper exchange: the entry fee is charged twice (`order_manager.py:265`, `:310`); market orders of a closed position are never marked.
- Candles: a restart seeds the ring with candles it already holds; a failed seed publishes old candles again; a symbol whose exchange returns
  only the forming candle at the seed counts it as taken up (the model starts with a closed candle).
- Guard: `btc_guard.py:98` says the last candle is still forming, but the ring holds closed candles only, so the guard looks one candle back;
  `check_alt_signal` (`btc_guard.py:138-203`) is never called, the filter has its own copy of the rules.
- Scoring: the adjusted score is classified by a `SignalScorer()` with default thresholds (`scoring_service.py:436-444`); reversed thresholds,
  which the API accepts, make every cycle raise, and so does a misspelt filter name; a parabolic regime suppresses shorts whichever way the spike goes;
  Fibonacci levels are measured from the top also for a downswing.
- Filters: a breaker that cannot be read lets the signal through (`circuit_breaker_filter.py:54-56`), although its file says it blocks all signals
  while locked. After a pump of BTC the guard's header blocks weak alts, and suppresses all alerts of the cooldown (`btc_guard.py:13-20`); the filter only
  halves the size then, so `NothingPastTheGuards` speaks of dumps.
- Strategies: pinbar raises when there is an order block; flag looks for its impulse between eight and twelve candles back;
  `walk_forward.py` runs without a context builder, so strategies that need one see none.
- Backtest: fees are applied as `engine.py:133-134` and `:243-245` compute them, not as the comment "0.04% per fill" says.
- Metrics: drawdown is measured from the first equity and not from the capital before it, and never from a peak of zero (`metrics.py:157-162`);
  `/api/analytics` reads the journal in no stated order, on which the drawdown depends, and counts open trades as break-even (`main.py:382`, `:397`).
- Audit analysis: the estimate for a fixed stop only counts stops that were hit anyway, so it never exceeds the other rate
  (`analysis_engine.py:300-301`); trades of an unknown regime are never advised against.
- Audit analysis: `_suggest_optimal_threshold` says it maximises "win rate × sample size" (`analysis_engine.py:382`); the code takes the threshold with the largest
  harmonic mean of win rate and share of the sample (`:399-407`).
- Labels and results: a trade that lasts longer than eight hours, or that is younger, is pending for the tuner (`outcome_loader.py:163`, `:196`), and one whose last candle
  reached both levels is a loss of the backtest and may be a win of the tuner, which reads finer candles.
- Configuration: a save from the form puts the weights back to the columns' default, since the ORM model does not have them.
- Tuning: `recommender.py:20` speaks of an improvement where `:175-177` takes the size of a change either way, and the capped threshold's own
  value is not looked at (`:179-181`); `config_applier.py:179-242` deactivates only the row it loaded, and may write a new version with an unchanged value.
- Not called by the running system: `invalidator.check_time_invalidation`, `run_signal_scoring_sync`, `check_alt_signal`, `check_new_signal`; `record_trade_result` and
  `check_drawdown` (so no loss trips the breaker by itself); `load_positions_from_redis` and `check_position_closed`, with `unregister_position` and `record_exit` behind it, though
  `position_monitor.py` calls itself a background task that polls. `LossSeries` and `PositionBook` show what these functions do when they are called.

## 6. What is not modelled, and what is left

- Order book and websocket services: the order book is one key overwritten by each poll, an input of `Scores` as present or absent; the
  websocket variants are not started by `main.py`.
- Alert texts, cards, logs and the parts of the reports that are shown and read by nothing (`alert/*`, confidence intervals, correlations, Sharpe ratio).
- HTTP, ticker, shared wrappers, frontend: transport and presentation. Their failures appear as failures of the callers; that
  `mock_http_client.py:54` drops an order's metadata is why `MockExchange` takes plans without levels.
- Numbers stay whole: floating-point rounding, correlation coefficients, bootstrap intervals and p-values are outside the models, the daily bias from moving
  averages and absorption from the order book are inputs.
- The read-only endpoints of the API and the status poll keep no state.
- The tuner's file of cached outcomes (`outcome_loader.py`): a label once written is taken again as it is; the model labels anew.
- Weights found by the tuner are kept to two decimals while the area they are advised for is that of the unrounded ones; that rounding never costs more than is gained is checked for the samples
  of the run (`StudiesHold`, weights 0.25, 0.875 and 3) and not claimed for others.
- A second dispatch of a card, the candles lost to a store that fails (`NoGaps` and `EveryCandleArrives` except them), two overlapping recordings of a loss, two dashboards, and the lock without its database are hazards without
  a guarantee in the code; `PROJECT.json` notes each.

Worth doing next: the gap filler over a form of sorting and filtering that can be reasoned about (that filling leaves no gap and invents no volume); the composition of
`MockExchange`'s close events with `AuditTrail`, which so far share only the shape of an event; and of `LossSeries` with `CircuitBreaker`, where a lock is more than the hour it ends.
