# A verification of the trading platform's stateful core

The repository is a research and trading platform for Indian equities. Most of it is numerical
(features, regimes, optimisers, statistics) and holds no state from one call to the next. This project
is about the rest: the parts whose correctness depends on the order in which things happen, on
processes that die, on networks that fail and on tasks and threads that overlap. It consists of TLA+
modules translated from the source, TLC configurations that check them on small instances, and TLAPS
proofs of their main properties for every value of the constants.

Paths below are relative to `src/`; `S/` stands for `production/src/`.

- [Inventory](#1-inventory): the system's parts, their state, operations and hazards
- [Plan](#2-plan): the modules, in order, and what is left
- [The modules](#3-the-modules): how state and actions correspond to the code
- [The runs](#4-the-runs): what each shows, bounds, fairness
- [The proofs](#5-the-proofs)
- [What is left out](#6-what-is-left-out)
- [Running it](#7-running-it)

## 1. Inventory

### How the parts fit together

    market_stream ── bars ──> main.on_bar ──> ExecutionPipeline.process_signal
    (one asyncio task                          │ 1 sizing
     + stop() from another)                    │ 2 risk gate ──> InstitutionalRiskEngine ──> HardCircuitBreaker ──> JSON file
                                               │ 3 pre-trade checks                                                   ▲
                                               │ 4 cost, 5 execution adapter ──> broker                              │ the same
                                               │ 6 post-trade checks                                                 │ relative path
    api_server (FastAPI, one event loop) ── its own risk engine ──────────────────────────────────────────────────────┘
      ├ update_market_data (loop) ─┐
      ├ GET /api/state ────────────┼─> StatePublisher ──broadcast──> WebSocket clients
      ├ trade and prediction endpoints ──> TradeLogger (CSV/JSON), PredictionRegistry (SQLite)
      └ prediction updater (thread)

    ExecutionEngine (S/execution/engine.py) ──> OrderManager ──> SmartOrderRouter ──> broker adapters
    BrokerRedundancyManager ──> its own adapters, in priority order       ModelRegistry ──> registry.json, artifacts

Parts interact by plain calls inside a process; by awaits on one event loop (the stream, the
dashboard); by threads (the timeout decorator, `calculate_real_risk`, the prediction registry); and
across processes by files (the breaker's state), SQLite and Redis. The files of the trade log and of the
model registry carry state from one run of a process to the next; their modules assume one process at a time.

### Components

| Component | State it keeps | Operations | What is hard about it | What makes it correct | Status |
|---|---|---|---|---|---|
| Hard circuit breaker (`S/risk/institutional_risk_engine.py` 68-224) | `CircuitBreakerState`, in memory and in a JSON file | start (load, recount), `trigger`, shutdown sequence, `reset`, save | every save may fail, be torn or be cut off by a crash; recovery days are counted only at start; `trigger` saves twice | a halt lasts its recovery period whatever happens between two saves; the file is what memory was; flags tell the truth; one shutdown per halt | modelled |
| Risk engine and risk gate (same file 600-720, `S/risk/limits.py`, `S/execution/unified_execution_engine.py` 234-257) | soft breaker and its days, peak equity, recovery mode | `check_circuit_breaker`, `check_trailing_drawdown_limit`, `end_of_day_update`, the gate of `process_signal` | three breakers with different lifetimes, one of which is reset by hand; thresholds `>` and `>=` | no order passes while any of them stands, in any order of losses, resets, days and restarts | partly |
| Call guards (`S/core/exceptions/error_handling.py`) | circuit state, counts, time of the last failure | `can_execute`, `record_success`, `record_failure`, retry, timeout | admission, call and result are separate steps; timed out calls go on | opens on a run of failures only, closes on proven success only, bounded effects, recovers | modelled |
| Market stream and bars (`S/execution/live/market_stream.py`) | socket, attempts, open bars, cumulative volume | `connect`, `stop`, `_process_tick` | two tasks over one socket, reconnection, ticks late or out of order | each lot in one bar unless it is told of twice, each bar once, comes back | modelled |
| Dashboard publisher (`production/dashboard/api/api_server.py`) | published state, set of connections | refresh, broadcast, connect, disconnect | all tasks interleave at awaits; a set changes under an iteration; a calculation that fails returns nothing found | figures that fit together or are missing, no listener lost, all clients converge, no closed socket kept | partly |
| Trade logger (`S/portfolio/trade_logger.py`) | trades, P&L history, two files read back | `log_trade`, `update_trade`, save, load | files rewritten in place one after the other, failed writes swallowed; an entry is only made if no other trade closed at that instant; ids that are numerals come back as numbers | P&L history is that of the trades | partly |
| Order manager, router (`S/execution/order_manager`, `S/execution/smart_order_router`) | orders, their status and fills; brokers and their metrics | create, submit, fill, cancel, route | fills and cancellations in any order, fills reported twice or of too much; no check of the status; metrics shared by class | the status of an order tells what brokers may still execute of it | modelled |
| Broker adapters (`S/execution/brokers/zerodha_adapter.py`, `S/execution/adapters/paper.py`) | connection, client | connect, disconnect, place, quote | an exception turns into a mock identifier; quotes without a connection | no order counts as rejected that a broker has | partly |
| Broker redundancy (`production/market_data/providers/broker_redundancy.py`) | health status by broker | place with failover, cancel, health checks | a failed answer of an order that was taken; rounds of retries | no broker asked twice; a second copy is pointed to | modelled |
| Live, paper, backtest adapters (`S/execution/adapters`) | positions, trades, daily counts | execute, record | an order and its record are two steps | each order is recorded | planned |
| SEBI compliance (`S/risk/sebi_algo_compliance.py`) | daily counts, positions, kill switch | pre-trade check, record trade, reset | approval and execution are apart; rejected orders count | limits hold of what is executed; nobody is locked out | planned |
| Prediction registry, storage, updater (`S/alpha/prediction_registry.py`, `prediction_storage.py`) | SQLite rows behind one shared connection | record, resolve, sweep of the expired, demote | a commit of one thread commits what all have written; a sweep that raises half way | an outcome a caller gave stays; nothing is lost that cannot be found again | partly |
| Model registry (`production/models/model_registry.py`) | versions, stages, artifacts, JSON file | log, transition, roll back, delete, load, save | version numbers after deletions; record before artifact; torn file | versions are unique; one in production; artifacts are those of their versions | modelled |
| Tick streams on Redis (`production/market_data/ingestion/redis_streams_pipeline.py`) | streams, consumer groups | publish, consume, acknowledge | acknowledged before processed | each tick is processed | planned |
| Pre-/post-trade checks (`S/execution/risk_checks.py`) | daily counters, cooldown | check, update | little: arithmetic over one order | counters follow orders | planned, last |
| Portfolio, backtest, features, regimes, alpha, data layer, monitoring, mathematics | data frames, fitted models | numerical | none that TLC reaches | | not modelled |

The full list of hazards, each at its line and with the properties that answer it, is in
`PROJECT.json`. Those without a property belong to parts still on the plan, or say why they have none.

## 2. Plan

Order: what stops trading comes before what trades, and what is shared and persistent before what is
local.

1. **TradingHalt, HardBreaker** - abstract and detailed breaker, refinement. *Done, proved.*
2. **RiskEngine** - composes the engine and the gate with `INSTANCE HardBreaker`. *Done, safety proved.*
3. **ServiceGuard** - circuit breaker, retry, timeout. *Done, safety proved.*
4. **BarBuilder, MarketStream** - ticks to bars; the connection EXTENDS it. *Done, safety proved.*
5. **LiveDashboard** - event loop interleavings. *Done, safety proved.*
6. **OrderLife, OrderFlow** - order status machine, router, adapters, and the abstract order they
   implement. *Done, proved.*
7. **BrokerRedundancy** - failover, degraded marks, health checks. *Done, proved.*
8. **ModelRegistry** - versions, stages and artifacts over a file with the save discipline of the hard
   breaker's. *Done, proved.*
9. **TradeLog** - trades, history and their two files; LiveDashboard's version number is an
   abstraction of it. *Done, proved.*
10. **PredictionRegistry** - threads over one connection. *Done, proved.*

What is left, in this order:

11. **Compliance** - counts between approval and fill, kill switch (`sebi_algo_compliance.py:231`,
    `:297`).
12. **LiveAdapter** - the live adapter and the pre- and post-trade checks: an order and its record in
    TradeLog are two steps, and the daily counters follow.
13. **TickStreams** - consumer groups, with acknowledgement before processing.
14. **TwoBreakers** - two HardBreaker instances over one file (`api_server.py:86` and the trading
    process); the first thing to show is which of HardBreaker's properties survive.
15. **Prediction storage and the updater** - the second store beside PredictionRegistry and the thread of
    the API server that drives both.

Every safety invariant and action property of a passing run is proved for all values of the constants,
and so are the two refinements; each module to come gets its proofs in the same order - types, then the
inductive invariant checked by TLC, then the theorem. The set of runs is kept small: a run that shows a single
deviation goes once a richer run of its module says more. Five such runs of the first five modules have gone
this way; what they showed is told under [Deviations](#deviations).

## 3. The modules

A definition has the name of the method or attribute it models where TLA+ allows it; `PROJECT.json`
("map") gives the lines of each. Operators that a comment calls *mutants* are plausible mistakes in the
code, kept to show that each property can fail; no specification uses them. Variables marked
*history* record the past for a property; no guard of a modelled step reads them, except that `late`
bounds late ticks, `heard` and `recounted` bound the lots told of, `stopped` bounds calls of `stop()`, `sent`
(BarBuilder) tells a late tick, `submits`, `calls`, `crashes` and `made` bound what they count (`made` also numbers the models), and `added` says
which broker is added next.

### TradingHalt and HardBreaker

`TradingHalt` is the promise: a halt begins at an instant, lasts `RecoveryTicks`, and ends early only by
an override or a fault of storage. A save makes the stored copy current or stale; only a restart from a
stale copy may lose (or find) a halt.

`HardBreaker` is the class. One thread uses it, so a method is a sequence of steps separated where a
crash makes a difference, which is at each save and at the shutdown callback:

| Code | Model |
|---|---|
| `self.state` | `state`; `trigger_time` None is 0 |
| the JSON file: missing, unparsable, good | `file.status` |
| `__init__`, `_load_state`, `_check_recovery` | `Start`, `LoadState`, `CheckRecovery` |
| `_load_state` of a file that cannot be read, or not parsed | `Start` from an inactive state, with `badSave` if the file had said otherwise |
| `_save_state` (open truncates, exceptions swallowed) | `SaveState`: good, unchanged, or torn |
| `trigger` up to its save; `_execute_shutdown` up to its save | `Trigger`, `ExecuteShutdown` |
| `reset(force)` | `Reset(force)` |
| the process dies | `Crash`, at every step, with the file torn if it was saving |
| `datetime.now()`, `timedelta.days` | `now` in half days, `Days` |

Half-day ticks matter because `.days` drops the part of a day. The clock never runs back: the code uses
local wall-clock time, and a clock set back is not modelled. `Visible` maps the breaker to
`TradingHalt`: the running process's state, or while it is down what its next start will load.

### RiskEngine

The engine's attributes (soft breaker and days, peak equity, recovery mode) live in memory, start
fresh on `Restart`, and come on top of `Hard == INSTANCE HardBreaker`. `TriggerHard` is the branch in
which the engine triggers, or finds active, the hard breaker and copies its days. The code sets the
soft breaker after `trigger` returns; the model sets it in `trigger`'s first step, since nothing reads
it in between and a crash drops it. `CheckCircuitBreaker` is called with any loss in `DailyLosses` and
`WeeklyLosses`; the engine's limit is `>` (`HardLimitPassed`), the legacy one of `limits.py` `>=`
(`LegacyLimitReached`), both modelled as they stand. `NewPeak`, `DrawdownBreached`, `ShouldStop` and
`RecordDrawdown` are `check_trailing_drawdown_limit`. `RejectSignal` and `PassSignal` are the gate of
`process_signal`, in its order: hard breaker, soft breaker, drawdown.

What the engine forgets on `Restart`, the history does not: `breach_peak` is the peak of the last drawdown stop
until the NAV exceeds it, `restarted` says that the process was restarted since, and `halt_ended` that the
hard breaker's halt, which the stop triggered and the file carries over a restart, was reset (`ResetHard`) or lost.
Only when both have happened does the gate let an order pass below that peak, and `StoppedUntilNewPeak` says so.

`PassSignal` means that a signal passes the risk gate; the stages after it (among them the pre-trade
checker, which may still refuse) are not part of the module. `update_nav`, `end_of_day_update` and
`HardCircuitBreaker.reset` are the operator's interface: no code of the repository calls them, and the
model lets them happen at any time. Exceptions inside the gate are outside the model, and listed as a
hazard: the gate logs them and lets the order go on.

### ServiceGuard

`with_retry(with_circuit_breaker(with_timeout(func)))`, the order in which the decorators make use of
each other, called by several threads. Each method of `CircuitBreaker` holds its lock and is one step;
`can_execute` is split by its three cases (`Admit`, `HalfOpen`, `Reject`). `Execute` starts the
thread; `Return`, `Raise` and `TimeOut` are its outcomes seen by the caller, and `FinishLate` is an
abandoned thread that ends after its `TimeoutError`. An execution that raises or is abandoned may have
taken effect or not. Failure counts stop at the threshold and ages one past the timeout, because the
code only compares them with these. `healthy` is the service: while it holds, every execution answers
in time and without an exception. A half-open circuit admits every caller, as the code does. An age of
`Timeout + 1` stands for "more than `timeout_seconds`".

### BarBuilder and MarketStream

`BarBuilder` is `_process_tick` with `_volume_delta`: a tick completes and emits the bars of earlier minutes of its
symbol, then opens its own bar or adds to it. A symbol either carries the day's cumulative volume in its
ticks or the volume of each trade. A cumulative tick may carry any volume: more than the last one told, or less,
when it comes out of order (or carries none, which reads as 0). `last_cumulative_volume` is then set back as in
the code, and the lots that the next tick tells of once more are counted again; `recounted` adds them up. The minute of a tick
is any, too, so that one may come late by its minute, its volume or both. Of a bar the model keeps the
volume. A message that is a list is several ticks; a tick without symbol or price changes nothing; a callback
that is a coroutine, which no caller of the repository passes, is not modelled. `MarketStream` is the connection: `connect()`
as `run_live` drives it (a call, five seconds' sleep, the next call), one step per await, `stop()` in the
two parts its await divides it into, and a server that fails and recovers. The loop's
"Max reconnection attempts reached" branch has no action: inside the loop the count is always below the
maximum. A message that cannot be parsed ends the session with the socket still open, as in the code.

### LiveDashboard

Tasks of one event loop interleave at awaits only, so each action runs from one await to the next.
`ReadMetrics`, `CalculateRisk` (the worker thread) and `WriteFigures` are the refresh shared by
`update_market_data` and `GET /api/state`; `StartBroadcast`, `ContinueBroadcast` and `SetChanged` are
`broadcast`, with Python's rule that a set whose size changed makes the iteration raise at its next
element. A set that lost one element and gained another keeps its size, and the iteration goes on over
any of its members (`Add`). `Arrive` ... `Forget` are the life of a WebSocket. A client's object is reused by the model only when nothing refers to it. The trade log is a version number, and
figures are the version they were computed from; `state_lock` is held over single assignments without
an await inside and therefore excludes nobody. `ComeToRest` is not code: it lets the liveness properties
say "once nothing disturbs the system any more". A send to a closed socket raises, which is what the
framework does; a send that hangs is not modelled.

`calculate_real_risk` swallows its exceptions and returns what it has, which may be an empty list and a risk of
zeros; its callers write that beside the new NAV. The figure `positions` is then `Missing` (the risk falls back
together with it, and follows it). `RefreshFails` is an exception outside that function. One way of failing is not modelled: if `get_metrics` raises
(`api_server.py:1928`), `update_market_data` has no await left in its loop and begins again without giving
way, so that the event loop of the server serves nobody until it succeeds.

### OrderLife and OrderFlow

`OrderLife` is what a status promises: how much of an order brokers may still execute. Its `Regular` steps are
those of an order used as intended (sent once, or again after a rejection; cancelled only while no broker has
it; each fill reported once). Its `Irregular` steps lead an order astray, and the code accepts them all:
`SendAgain`, `CancelUnheard` (a broker may have it, and hears nothing) and `FillAstray` (a fill reported twice, or
of more than was executed). Each says what it leaves at the brokers: their part grows only when an order is sent.

`OrderFlow` composes three classes that call each other in one thread. `CreateOrder`, `CancelOrder` and
`AddFill` are the methods of `OrderManager`; `SubmitPlaced` and `SubmitRejected` are the two ends of
`submit_order`, each including `route` (`Best`) and the adapter's `place_order`. Five facts of the code
matter. `get_quote` of the paper adapter does not look at the connection, that of Zerodha's does
(`Quoting`). An exception of Zerodha's client, raised before or after the order was taken, yields a mock
identifier, so that the order is PLACED (the choice of `unfilled'`). Metrics are kept by class name, so that adding
or removing a broker makes fresh those of all brokers of its class. A quantity is a float and Zerodha is asked for
`int(order.quantity)`: an order in `Odd` is of a part of a share more than its whole ones, and `Needed` is never
filled. `add_fill` looks neither at the status nor at what was filled before, so that `AddFill` reports any number
of shares of which a broker has `executed` any part. `unfilled` is the brokers' side: what they took and have
not reported. A fill of an order that does not exist raises and changes no order.

### BrokerRedundancy

One call of `place_order_with_redundancy` is a sequence of steps, one for each broker of each round, between
which brokers fail and recover: `Skip` (not healthy), `Accept`, `Fail`, `NextRound`, `AllFailed`. Only
Zerodha's adapter with a client reaches a broker (`Live`), and it turns every exception into a failed
response, raised after the order was taken or before (`taken`). The other adapters, and Zerodha's
without a client, are mocks that always succeed and hold nothing. `health_status` is UNKNOWN before the
first entry, which counts as healthy. `RunHealthChecks` and `CancelOrder` come between calls: the
manager has no thread of its own.

### TradeLog

`log_trade` and `update_trade` change the memory in one step (`LogTrade`, `UpdateTrade`; `log_trade` of
an id that exists acts as `update_trade`), and then write the two files that are read back, a step
each: `SaveTrades`, `SaveHistory`. A write may succeed, fail before the file is opened, or cut the file;
the code logs the error and goes on. `Crash` may come at any step, and `Restart` loads what is there, of a cut
file the rows before the cut with the last one damaged (`Readable`, `ReadableEntries`). `read_csv` turns a
column of ids that are all numerals into numbers: after such a restart the trades are in memory, but not under
the ids that callers use (`asNumber`, `Found`); an update of them does nothing, and logging one makes it anew, with an
entry of its own. `apart` is the history's account of what one file has and the other has not. The history is
a bag of pairs of instant and profit, because `update_trade` looks for the instant alone. With a database
the load is the same: the SELECT of `_load_trades` (line 512) names columns that the table of
`S/shared/db/database_initializer.py` 101-113 does not have, and falls back to the file.

### ModelRegistry

A version is an id (of the model logged) and a stage. `LogModel` puts the record in memory, then writes
the artifact, and then the registry is saved; if the artifact fails, the call raises and the record stays.
`DeleteModel` removes the directory first. `TransitionModelStage` archives the version in production when it
promotes another; `rollback_model` archives and then calls it, and is therefore the same step. Every call ends with `SaveRegistry`,
which writes the file in place, may fail or cut it, and swallows the error; a cut file
loads as an empty registry. `NextVersion` is the number of versions plus one, as in the code.

### PredictionRegistry

`rows` is the table as the shared connection sees it, `saved` what is committed. Methods that hold the lock
throughout are one step (`RecordPrediction`, `ResolvePrediction`). The sweep `resolve_expired`
is split (the clock before the lock, the SELECT, an UPDATE per row, the commit), because a demotion is logged
without the lock and its commit may come between two UPDATEs. `FailSweep` is a row that raises (one that needs no UPDATE may be the last): the lock
is released, and the rows done stay uncommitted until anybody's next commit. `CheckDemotions` and
`LogDemotion` are two steps without a lock. Predictions are of one strategy; an information coefficient
may have any value once enough outcomes count.

## 4. The runs

### Passing

| Run | Instance | States | Shows |
|---|---|---|---|
| `hard_breaker` | 2 recovery days, clock to 9 half days, no override | 874,237 | the days left never fall short of those that must pass; flags are backed by a shutdown that ran; outside saves the file equals memory; a halt that had its orders cancelled is not shut down again; implements TradingHalt |
| `risk_engine` | 1 recovery day, override allowed, four NAVs (a peak, a higher peak, a loss over the daily limit, a drawdown over 10%), losses below, at and over each limit | 699,114 | no order passes the gate while a well saved file says halted; a loss at a limit stops the day; a drawdown stops until a new peak, or until a restart and the end of the halt it triggered |
| `service_guard` | 2 callers, thresholds 2 and 2, timeout of a tick, 2 attempts | 123,116 | opens on a run of failures; closes on a run of successes in one half-open period; while open each caller begins at most the execution it was admitted for; a call takes effect at most `max_attempts` times; the circuit closes for good once the service is healthy |
| `market_stream` | 2 symbols, one cumulative, 3 minutes, 2 lots, one of them told of again, one late tick per bar, 3 attempts | 1,834,592 | every lot heard of is in one bar, and in another exactly if a tick out of order set the count back over it; a bar is emitted once (again only for a late tick); gives up only after its failures; comes back unless it had given up |
| `live_dashboard` | 2 clients, one request task, one log change | 758,816 | figures shown fit together, or the positions are missing; a listener stays registered; all listeners converge on the newest figures; closed sockets are forgotten |
| `order_flow` | 2 orders of 2 shares, one of them and a half, 3 shares reported, a Zerodha and a paper broker, 2 scores, 3 submissions | 999,864 | the status of an order used as intended tells what brokers may still execute of it, and what they may execute of another grows only when it is sent (implements OrderLife); an order is rejected only for want of a connected broker or because an unconnected paper broker outbids the connected ones |
| `broker_redundancy` | 2 live brokers and a mock, 2 orders, 3 rounds | 29,740 | a call asks no broker twice; when it answers, brokers passed over are marked, and those that hold a copy as degraded |
| `trade_log` | 2 trades, one under a numeral, 2 instants, 2 profits, 3 calls, a crash | 2,013,665 | the history of an instant at which one trade alone ever closed is what that trade says, unless it was changed after closing, logged again after a restart read its id as a number, or a crash found its last change in one file only or a file cut |
| `model_registry` | 1 name, 3 versions, 3 models, stages staging, production, archived | 1,916,048 | one version in production besides those logged there; artifacts match versions unless a change failed half way; a version is overwritten only after a deletion below it |
| `prediction_registry` | 2 threads, 2 predictions, 3 instants, horizon 1 | 58,707 | a sweep never replaces an outcome that a caller gave, and no commit or crash loses it; what is not committed was found by a sweep |

Each module has one type invariant besides; that of ModelRegistry is proved instead of checked.

**Why the bounds are enough.** In `hard_breaker` two recovery days are the least for which a day can be
counted wrongly and still not be the last; nine ticks hold two whole halts, including one that begins at
a half day, and a crash may come at each step. In `risk_engine` one day is enough, because the soft
breaker's own periods of 1 and 3 days are in the code and the hard one's is counted in `hard_breaker`;
`AllowOverride` is true there because it adds behaviours and takes none away. Two callers are the least
that race, thresholds of two the least that tell a run from a single event, and more callers only repeat
the roles (the theorems are for any number). Three minutes give an earlier, a current and a later bar;
two lots separate lots heard from lots missed. Three attempts (10 in the code) allow a session between
failures. Two clients are enough for one that changes the set while another is owed its message; one
change of the log gives old and new figures, which is all `Coherent` and convergence tell apart.
In `order_flow` two shares tell a partial
fill from a whole one, three reported are one too many (or the last of an order of two and a half), three submissions are a repeated one beside another order, and a broker of each class is the least with two
scores; `broker_redundancy` has two brokers that may hold a copy and a mock behind them, and three rounds as the code's default
(`max_retries` 2). In `market_stream` one lot told of again is the double count, and two
symbols show that it stays with its own. In `trade_log` two trades may close at the same instant or not, three calls are log, update and one
more after a crash or failed write. In `model_registry` three models and versions are the least with a deletion below
a version that is then overwritten; one early stage stands for both (no code tells them apart) and one name for
all (names share the file only). In `prediction_registry` two threads race, and a prediction may be made,
expire and be resolved up to an hour ahead of the clock.
`MaxTick`, `MaxVolume`, `MaxLate`, `MaxRecount`, `MaxTold`, `MaxTime`, `MaxCalls`, `MaxCrashes`, `MaxSubmits`, `MaxModels`, `MaxPredictions`
and `MaxVersion` (of LiveDashboard) bound the environment and not the code. No run
uses symmetry: its states are few enough without, and the runs with liveness properties must not.

Deadlock checking is off in `trade_log` alone: a logger that nobody calls any more rests, and its calls are
bounded. Every other specification always has a step to take: a crash and a
restart, a tick, a caller, the server, a broker, or the updater's next round.

### Deviations

Each of these runs checks one sentence the code says about itself, and TLC shows a behaviour that
contradicts it. `PROJECT.json` ("findings") quotes the sentence and tells the behaviour.

| Run | Property | What happens |
|---|---|---|
| `risk_engine_soft` | `SoftBreakerRecovers` | a restart past the recovery period leaves an active hard breaker with 0 days; the soft one copies the 0, `end_of_day_update` never clears it, and orders stay blocked after a successful reset |
| `live_dashboard_broadcast` | `BroadcastReachesAll` | a client that connects or leaves during a broadcast ends the round for everybody |

`ClientsConverge` states what does hold in place of the second: a lost round is made good by the next.

Other places where the code does not do what a comment says or a caller expects, seen in the models without a run of
their own:

- `trigger` saves twice: a process that dies after the first save (`institutional_risk_engine.py:182`) leaves
  a halt whose shutdown sequence is never run. `FlagsTruthful` shows that it does not claim to have.
- The gate asks with a loss of 0.0 (`unified_execution_engine.py:240`), so that the daily limit stops nothing by
  itself. `LossStopsTheDay` is about losses that are reported.
- A failure that arrives while the circuit is open restarts its timeout (`error_handling.py:75`).
  `Recovers` holds all the same.
- After the last attempt each later `connect()` returns at once (`market_stream.py:36`); `ComesBack` is
  conditional on that. `stop()` closes the socket and the connecting task opens another (`:87`).
- A version may be overwritten after a deletion (`model_registry.py:148`), an order may be sent twice or
  cancelled while a broker has it (`order_manager.py:76`, `:84`), and a copy of an order may be live on a broker that
  failed (`broker_redundancy.py:427`): `NoOverwrite`, `ImplementsOrderLife` and `PassedOverAreMarked` say exactly when.
- "Only logs demotion once per strategy per day" (`prediction_registry.py:534`) holds of calls one after the
  other. Two threads that both looked before either logged log one each: `PredictionsTypeOK` allows as many
  as there are threads, and TLC reaches that number with two.
- A tick out of order sets the day's volume back, and the next one counts the lots between once more
  (`market_stream.py:174`). `VolumeAccounted` says by how much.
- "Return 0.0 values if calculation fails" (`api_server.py:230`): an empty list of positions and zero risk are then
  published beside the new NAV, as if there were none (`:195`). `Coherent` allows for nothing else.
- An order of 10.5 is sent as one of 10 (`zerodha_adapter.py:51`), and when those are filled it stays
  PARTIALLY_FILLED (`order_manager.py:127`). A fill reported twice counts twice (`:121`), and makes a
  cancelled order FILLED.
- Trade ids that are numerals, as the broker's order ids are, come back as numbers (`trade_logger.py:540`). An update
  of such a trade after a restart does nothing, and logging it again enters its profit a second time.
- A change whose write fails, which the logger swallows (`trade_logger.py:172`), is in one file only until
  the next good write; a crash before that leaves trades and history at odds.
- A restart forgets the peak a drawdown is measured from (`institutional_risk_engine.py:334`). What still stops
  orders is the halt in the file, until it is reset.

### Fairness

| Specification | Assumed | Why |
|---|---|---|
| `RiskEngine!FairSpec` | `EndOfDayUpdate`, `Restart`, saving and shutting down | a day ends and the operator's job runs; a process that died is started; a process finishes the step it is in. Used for a violation: it makes the counterexample mean something |
| `ServiceGuard!FairSpec` | `Tick`; each caller's step | time passes; the scheduler runs threads; callers keep calling (an idle caller calls again). Nothing is assumed of abandoned threads or of the service; while it is unhealthy `TimeOut` ends a call, and `Recovers` asks for a service that stays healthy |
| `MarketStream!FairSpec` | `ConnectingTask`, `StopEnds` | the event loop resumes a task whose await is over. Nothing is assumed of the server, ticks or `stop()` |
| `LiveDashboard!FairSpec` | `Update`, `Refresh` of each request, `Serve` of each client | the same; the worker thread ends. Nothing is assumed of clients, trades or failures |

All of it is weak fairness; no property needs an actor to win a race. `HardBreaker` and
the five modules after LiveDashboard have safety properties only and no fairness.

## 5. The proofs

Each component's proofs are in a module `<component>_proofs`, except that two components share a module in
`OrdersAndTrades_proofs` (OrderFlow, TradeLog) and `Registries_proofs` (ModelRegistry,
PredictionRegistry); the definitions of TradeLog and PredictionRegistry that would have the names of the other's
are therefore called `LogInit`, `LogNext`, `LogSpec`, `LogTypeOK` and `PredictionsInit`,
`PredictionsNext`, `PredictionsSpec`, `PredictionsTypeOK`. All theorems hold for all values of the constants
that meet the assumption named in the component: thresholds and bounds are naturals, positive where the
code divides the cases by them; the set of clients is finite; a value that stands for no order is not one. Every leaf is checked; the only
facts taken from elsewhere are those of the library (FiniteSetTheorems, which brings in well-founded induction).

| Theorem | States | Along |
|---|---|---|
| `HardBreaker_proofs!TypeCorrect` | `TypeOK` | with `ClockInv`: trigger times, in memory and on disk, lie before now. Without it `CheckRecovery` could yield more days than the period |
| `RecoverySafe` | `RecoveryNeverShortened` | inductive over the type invariant; `CheckRecoveryCounts` and `DaysGrow` are its arithmetic |
| `FlagsSafe` | `FlagsTruthful` | needs `StepsInv`: between trigger and shutdown the flags are still false, and the save after a shutdown is that of an active breaker |
| `FileCurrent` | `FileIsCurrent` | inductive as it stands: a step that leaves `idle` goes to a save |
| `ShutdownOnce` | `ShutdownOncePerHalt` | from `FlagsSafe` and `FileCurrent` |
| `Refinement` | `ImplementsTradingHalt` | step by step: Trigger to Halt, Reset to Resume (with `RecoverySafe`), a save to Persist or RestartFromStaleCopy, a crash to a stutter by `FileCurrent` or to RestartFromStaleCopy |
| `RiskEngine_proofs!EngineDrivesHardBreaker` | `Spec => Hard!Spec` | every step of the engine is a step of the hard breaker or leaves it alone; all theorems above therefore hold in the engine |
| `RiskEngine_proofs!TypeCorrect` | `TypeOK` | the breaker's part is HardBreaker's theorem, for the instance of its proofs (`HB`), which `HardIsHB` shows to be the one the engine uses; the engine's copy of the days is a natural because the breaker's is (`DaysTypes`) |
| `EngineKeepsHalts` | `HB!ImplementsTradingHalt`, `HB!ShutdownOncePerHalt`, `HB!RecoveryNeverShortened`, `HB!FlagsTruthful` | the theorems of the breaker, carried over to the engine that drives it (`HardIsProved`) |
| `FileHaltsOrders` | `NoOrderWhileFileSaysHalted` | `FileIsCurrent` carried over by the previous theorem: at `idle`, memory is the file, and `PassSignal` asks memory |
| `LossStops` | `LossStopsTheDay` | `LossInv`: a loss reported today leaves the soft breaker set, and what clears it - the end of a day, a restart - also ends the day; a reset of the hard breaker does not touch it |
| `DrawdownStops` | `StoppedUntilNewPeak` | a stop is kept twice. `DrawdownInv`: unless the process was restarted since, recovery mode is on and the peak to be passed is the current one. `BreakerHolds`: unless the halt was reset or lost, the hard breaker is active, or will be when the process starts |
| `ServiceGuard_proofs!TypeCorrect` | `TypeOK` | the three invariants below together |
| `Opens`, `Closes` | `OpensOnStreak`, `ClosesOnSuccesses` | `BreakerInv`: closed, the failure count is the run of failures and below the threshold; half open, the success count is the number of successes of this period |
| `Effects` | `EffectsBounded` | `CallsInv`: effects, abandoned executions and the one under way are together at most the attempts |
| `OpenLeaks` | `OpenAdmitsNoMore` | `LeakInv`: who began an execution in this open period is not admitted again in it |
| `MarketStream_proofs!VolumeKept` | `VolumeAccounted` | `VolumeInv`: besides, the stream's cumulative count is the last one heard, so that a tick adds the lots it tells of beyond it, or else sets it back by those that `recounted` adds; `TickMoves` says which bars a tick closes and opens, `TickAccounts` that the sum stays (below) |
| `TypeCorrect` | `TypeOK` | bars and sold lots are naturals bounded by what was heard (`BooksBounded`, from `VolumeInv`); the connection's part is inductive with `AttemptInv` |
| `GivesUp` | `GivesUpLate` | `AttemptInv`: attempts and failures run one step apart, according to where the task is |
| `Emits` | `EmittedOnce` | `EmitInv`: an open bar that was emitted before was opened again by a late tick |
| `LiveDashboard_proofs!TypeCorrect` | `TypeOK` | inductive; connections are finite because clients are |
| `FiguresCoherent` | `Coherent` | `Computed`: a refresh reads positions after metrics, or finds none, and the log only moves on |
| `ListenersStay` | `ListenersRegistered` | `Registered`: a round disconnects only clients that closed, and an object that is reused is no longer referred to |
| `OrdersAndTrades_proofs!TypeCorrect` | `TypeOK` | inductive as it stands |
| `Refinement` | `ImplementsOrderLife` | `StatusInv`: of an order that is not astray, status, fills and what brokers have left of it fit together (of a partly filled one, for example, what was reported and what is left make up its whole shares); then each action maps to a `Regular` or `Irregular` step of OrderLife, or to a stutter |
| `Rejections` | `RejectedOnlyUnconnected` | from `Best` alone, over the type invariant |
| `LogTypes` | `LogTypeOK` | inductive; what is read of a cut file are still trades and entries (`ReadTrades`, `ReadEntries`) |
| `HistoryKept` | `HistoryExact` | `LogInv`, below |
| `BrokerRedundancy_proofs!TypeCorrect`, `AskedOnce`, `FailoverMarks` | `TypeOK`, `TriedOnce`, `PassedOverAreMarked` | `CallInv`: what was asked in this call is marked and stays so until it answers, and orders without a call were sent nowhere |
| `Registries_proofs!TypeCorrect` | `TypeOK` | inductive; the number of versions is a natural because they are finitely many |
| `Overwriting` | `NoOverwrite` | `NumberInv`: a version missing below one that is there was deleted, in memory and in the file; by cardinality, a number that is taken then means such a gap |
| `Promotion` | `OneProduction` | `One`, of the memory and the file: archiving comes before promoting |
| `Artifacts` | `ArtifactsMatch` | `ArtifactInv`: also the file's versions match, or are among those changed since it was written |
| `PredictionsTypes` | `PredictionsTypeOK` | with `SweepInv`, whose lock has one holder (`OneHolder`), and `DemotionInv`: the demotions logged and about to be logged are at most as many as the threads |
| `SavedButSweeps` | `SavedUnlessSwept` | `SweepInv`: a thread that sweeps holds the lock alone, and the rows it has still to do have no outcome; nobody gives them one while the lock is held |
| `CallersOutcomes` | `OutcomesKept` | from `SweepInv`: an UPDATE of a sweep meets a row without an outcome, and a crash only loses rows that a sweep filled |

**The sums of VolumeAccounted.** `TotalVolume` is a fold over a finite set of bars, and the fold is a
recursive function that is *chosen*; that it exists, and that the choice of elements does not matter, must be
proved. The induction theorems of the library take a predicate as a parameter, which the provers cannot
instantiate. `SetInduction` says the same of a set `G` of subsets in place of a predicate: if a subset
of `S` is in `G` as soon as its proper subsets are, `S` is in `G`; it follows from the well-foundedness of strict
inclusion on finite sets. With it `SumExists`, `SumElement` (a member may be taken out first) and `SumSplit` are
ordinary proofs, and no property had to be restated.

**The books of the trade log.** `HistoryExact` is not inductive: it says nothing of the files, from which
the next start reads. `LogInv` gives up when all ids are exempt, after a crash that found or left a file cut; otherwise
it has four parts. `Book(log, bag, ids)`, of a log of trades, a bag of entries and some of the ids: a closed one is among those that
closed at its exit, and the entries of an instant at which no other ever closed are what it says
(`Says`), none if it says nothing. While the process runs the memory is a book of the ids that are not exempt.
`FilesAgree`: files that are not cut are a book of those that are neither exempt nor `apart`; a crash makes exactly
the latter exempt, so that the next start finds a book. `TradesSaved` and `HistorySaved`: a file
that is not cut differs from the memory only in ids changed since it was last written; this is why a good
write of one file leaves `apart` what the other has not (`SavedAgree`). The heart of it is `ChangeBooks`, with one
obligation for the trade a call changes: an update that closes a trade alone finds no entry and makes one, a
repeated one finds its own, and a trade logged anew is either new or, under the number of its id, exempt.

TLC checked `VolumeInv`, `LogInv`, `SweepInv`, `DemotionInv`, `DrawdownInv`, `BreakerHolds`, `StatusInv` and `Computed` as
invariants on the instances of their runs.

**Only model-checked**: `Recovers`, `ComesBack`, `ClientsConverge` and `ClosedForgotten`, because
liveness under fairness is out of the prover's reach. The deviations are counterexamples and need no proof.
The trade log's operations are written without the operators `:>` and `@@`, which the prover cannot expand.

## 6. What is left out

- **Data.** Prices, P&L, reasons, messages and wording. Money appears only where a limit compares it, in
  whole percent; floating-point rounding at a limit is therefore not seen.
- **Parts of modelled components.** In the risk engine VaR, exposure, sizing, the VIX stop and stop
  losses (stateless arithmetic) and the optional Rust checks; in `process_signal` the stages after the
  gate; in the dashboard the other REST endpoints, the login and the token branch of the WebSocket
  endpoint (which accepts the socket twice). `S/state/publisher.py` is a
  copy of the publisher that only a test uses.
- **Parts of the newer components.** In the trade log `positions.csv` and the database, which are written and
  never read back, and concurrent callers; in the order flow positions, balances and the adapters' own
  cancellation, which the order manager never calls; in the prediction registry the figures of `compute_ic` and
  the second store, `prediction_storage.py`; in the model registry loading, comparing and listing.
- **Risk checks, live adapter, SEBI compliance, tick streams.** On the plan; their hazards are listed.
- **Use of the guards.** No module of the repository stacks the decorators yet; ServiceGuard models the
  library as its parts are meant to be combined.
- **Two processes over one breaker file.** Hazard, on the plan.
- **Numerical and I/O parts** (features, regimes, alpha, optimisers, data quality, monitoring,
  mathematics): no control state. **Event engines and backtests**: sequential and deterministic, and unit
  tests reach all of them.
- **Time.** The clocks of HardBreaker and ServiceGuard run forward only.

## 7. Running it

    tlc -workers 2 -config HardBreaker.cfg HardBreaker.tla     # any run of PROJECT.json
    tlapm HardBreaker_proofs.tla                               # any *_proofs module

Each passing run ends within a few minutes. The modules use the community modules FiniteSetsExt
and Functions, and the proofs the theorem library of TLAPS 1.4.5.
