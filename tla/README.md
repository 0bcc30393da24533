# Verification of CryptoTrader

TLA+ models of CryptoTrader (`src/src/cryptotrader`, `src/scripts`) where a mistake costs
money and a unit test hardly looks: the live engine interleaved with the kill-switch and
with the exchange, the controller that starts, stops, halts and resumes engines, the
backtester whose results are only worth something if it trades as the live engine does,
and the parts of the service around them: the trade store, the recorder, the broadcaster,
jobs and model files, the MT5 bridge, the bars, the features and the validation scripts.
Every action is translated from the source; paths below are relative to
`src/src/cryptotrader/` unless they name a directory of `src/`, and `PROJECT.json` ("map")
gives the lines of each definition.

    tlc -workers 2 -config Service.cfg MCService
    tlapm TradeStoreProofs.tla

## 1. The system

The service is one Python process on one asyncio event loop (`api/server.py`). A task runs
alone until it awaits something that really suspends it, so there are no data races between
tasks, but everything read before an `await` may be stale after it. Threads appear in two places: each
SQLite connection has one, and the MT5 routes run in a threadpool. Processes appear in one: the
jobs run the scripts. That, with a crash between any two steps, is where the hazards are.

| component | state | operations | interacts with | what makes it correct |
|---|---|---|---|---|
| Live engine, `live/engine.py` | portfolio, `_halted`, `_stop`, cooldown, last bar | `run`, `stop`, `flatten`, `resume`, `_on_bar`, `_exit`, `_try_enter`, `_adopt_position` | handler, store, stream, controller | one position at a time; no entry while halted or cooling down; book = account; a position leaves at its barriers |
| Execution handlers, `execution/` | ids of the protective orders | `execute`, `place_protective`, `cancel_protective` | exchange | each order sent once, protective orders follow the position |
| Portfolio, `backtest/portfolio.py` | cash, position, trades | `open_position`, `close_position`, `mark` | engine, backtester | open only when flat, close only when open; equity identity |
| Controller, `api/controller.py` | lists of engines, tasks and states, `_halted`, breaker and its baselines | `start`, `stop`, `flatten_all`, `resume`, `_check_circuit_breaker` | engines, API, notifier | one session at a time; a halt reaches every engine; the breaker trips on losses only |
| Backtester, `backtest/engine.py` | bar loop, pending order | `run`, `_step`, `_manage_position` | strategy, risk manager, portfolio | orders fill on the bar after the decision; same life of a position as live |
| Risk manager, `risk/manager.py` | none | `size_order` | engine, backtester | size bounds |
| Strategy, `strategy/ml_strategy.py` | prepared table | `on_market` | features, model | no look-ahead |
| Broadcaster, `live/state.py`, `ws` of `api/server.py` | subscriber queues | `publish`, `subscribe`, `unsubscribe` | websockets | never blocks; the last snapshot is delivered |
| Store, `persistence/database.py` | SQLite file, a connection per engine, batched equity rows | `start_run`, `record_trade`, `record_equity`, `record_observation`, `clear_runs`, `close` | engine, recorder, API | at most one batch lost; trades under their own run; nobody starves |
| Market data, `data/ingestion.py`, `sources.py`, `recorded.py` | frames | paging, retries, stream, poll, as-of merges | engine, trainer | no gap or duplicate, nothing from the future |
| Features, `data/features.py` | bar buffer | `transform`, `prime`, `update` | strategy, trainer | a live row is the row a backtest would have |
| Recorder, `data/recorder.py`, `api/recorder_control.py` | supervisor task, `_want_running` | `start`, `stop`, `_supervise`, `run` | exchange, store | one recorder at a time; restarted after a failure; stopped when told |
| Jobs and scheduler, `api/management.py`, `api/scheduler.py` | job table, schedule file | `start`, `_tick`, `retrain_now` | scripts, API | one running job of a kind; a cadence that survives a restart |
| Models and registry, `ml/`, `scripts/train_model.py` | files of a model | train, `promote_candidate`, `discard_candidate` | engine, jobs | a model and its metadata come from one training |
| MT5 bridge, `integrations/mt5/` | captured bars | `decide`, `append_bars` | MetaTrader terminal | the terminal acts on the position the answer is about |
| Validation scripts, `scripts/walkforward.py`, `holdout.py`, `train_model.py` | folds | one process each | models, market data | a model has seen nothing of what it is scored on |
| Configuration, `config.py`, routes of `api/management.py` | three files and the environment | load, save, redact, pool, block | all | precedence; secrets stay where they belong |
| HTTP API and authentication, notifications, log ring | sessions, a ring of lines | routes | all | call the components above |

The behaviours that are hard, and where: the kill-switch between two awaits of an
exit or an entry (`live/engine.py:300, 338`), requests that fail after the exchange
executed them (`execution/live.py:177`), a crash with a position and native orders on the
exchange (`api/controller.py:383`), the breaker that looks while engines are still being built
(`api/controller.py:224`), a sweep over the engines that suspends at each exit
(`api/controller.py:257`), `stop()` that cancels tasks after a timeout (`api/controller.py:196`), a
write lock held across bars (`persistence/database.py:240`), a recorder told to stop while it
reconnects (`api/recorder_control.py:67`), two files that must change together (`ml/registry.py:50`), the
seams between downloaded and streamed bars (`live/engine.py:117`). The full list, with lines, is
`PROJECT.json` "hazards".

## 2. The modules

| module | models |
|---|---|
| `LiveEngine` | one engine, its handler (real or paper), the `flatten()` calls on it, and the exchange |
| `Controller` | the controller, the circuit breaker and `N` engines as the controller sees them |
| `PositionLifecycle` | the abstract life of a position: one at a time, no reversal without a close, a cooldown after it |
| `Backtest` | the backtester with the portfolio, the risk manager, the simulated execution and the signals of the strategy |
| `TradeStore` | the SQLite file and every connection that writes to it: engines, recorder, clear request |
| `Recorder` | the recorder's controller, its supervisor tasks and the recorders they run |
| `Broadcaster` | the state broadcaster and the websocket routes that drain it |
| `ModelSupply` | jobs, scheduler, training processes and the model files of a symbol |
| `Mt5Bridge` | the terminal, the server's requests, the broker and the captured bars |
| `MarketData` | download, warm-up, first decision, websocket and poll of one engine, against an exchange whose bars go on closing |
| `Features` | every column of `transform()` as the rows it reads, the warm-up, the buffer and `update()` |
| `Validation` | the folds, frames, label windows and calibration rows of the training and validation scripts |
| `Labels`, `Sources`, `Configuration` | pure algorithms: labels, windows and splits; as-of merges; precedence, redaction, pooling and the gate of real orders |
| `MCLiveEngine`, `MCController`, `MCTradeStore`, `MCFeatures` | instances for TLC |
| `MCOffline` | `Backtest` and `ModelSupply`, composed for one run |
| `MCService` | the state machines from `TradeStore` to `Validation` with `Features`, but for `ModelSupply`, composed for one run |
| `MCPure` | the pure algorithms against reference definitions, as assumptions that TLC evaluates |
| `LiveEngineProofs`, `LiveLifecycleProofs`, `ControllerProofs`, `BacktestProofs`, `TradeStoreProofs`, `BarProofs`, `ServiceProofs` | the theorems (section 5) |
| `FoldProofs` | what the sums of those proofs rest on: least and greatest elements, sums by a fold |

`LiveEngine` and `Backtest` both implement `PositionLifecycle` (`ImplementsLifecycle` in each): `side` is the direction of
the portfolio's position, `rest` the bars since the last close. That is what "mirrors the backtester's decision
logic" (`live/engine.py:4`) has to mean for the results of a backtest to carry over.

The modules meet in three places. `LiveEngine`'s `RecordReply` and `StoreFails` are what `TradeStore` answers an engine;
`Controller`'s `phase` of an engine is `TradeStore`'s `life`; and an `OnBar` of `LiveEngine` is one yield of `MarketData`'s stream.

### LiveEngine

`pc[p]` names the await (or the point in a stretch) where task `p` is, `running` the task that
holds the loop. `BarTask` is `run()`; each member of `Killers` is one `flatten()` call.
An action is a stretch of code between two awaits, or a part of one (`Post`, `ExitBegin`
run on inside a stretch: `running` keeps every other task out).

| state | code |
|---|---|
| `pos`, `held`, `trades` | `Portfolio.position`, `Position.bars_held`, `len(Portfolio.trades)` |
| `halted`, `stopReq`, `cooldown`, `seen`, `lastBar`, `adopt` | `_halted`, `_stop`, `_cooldown`, `_trades_seen`, `_last_ts`, `initial_position` |
| `order`, `attempt`, `todo`, `placed`, `ret` | the locals of `_create_with_retry`, `cancel_protective`, `place_protective` and the caller of `_exit` |
| `protective` | `CCXTExecutionHandler._protective[symbol]` |
| `exPos`, `exOrders` | the account: executed quantity, live protective orders |
| `stray` | what `flatten()` calls on an engine that was replaced still ask of the exchange |
| `spared`, `lastTry`, `sinceExit` | history, for properties: whether the last `flatten()` left a position, the last exit attempt, the bars since a close |

| actions | code |
|---|---|
| `Boot`, `OnBar`, `StreamStops`, `StreamFails` | `run`, `_adopt_position`, `_on_bar` up to the barriers |
| `Post`, `ObsReply`, `TryEnter`, `SignalExit`, `NoTrade`, `SyncReply` | the rest of `_on_bar`, `_try_enter`, `_sync_state` |
| `ExitBegin`, `CancelReply`, `ExitFill`, `RecordReply`, `StoreFails` | `_exit` with `cancel_protective`, `execute`, `record_trade` |
| `OrderRetry`, `OrderFails`, `EntryFill` | `_create_with_retry`, `execute`, `_try_enter` after the fill |
| `ReplaceCancelReply`, `StopReply`, `TakeProfitReply` | `place_protective` |
| `Flatten`, `Resume`, `Stop`, `CancelTask`, `Crash`, `Start` | `flatten`, `resume`, `stop`, the controller's cancellation and adoption |
| `StrayCancel`, `StrayFill`, `StrayFails` | the rest of `_exit` of a `flatten()` whose engine `start()` has replaced |
| `NativeTrigger` | the exchange executes a protective order (external) |

Abstractions. A price is what it does to the open position: a bar hits a barrier or not, any
signal may follow. A quantity is a signed number of units; an entry asks for `Size` and,
with `PartialFills`, gets any part of it. Notifications that are awaited are absorbed by the
neighbouring suspension. A request in flight when its task is cancelled or the process
dies is executed before that, or never. An answer may be lost after the exchange acted on the request: a market order then may be sent
again, a protective order rests untracked (`Refused`). `controller.start()` looks at the tasks of the engines only (`api/controller.py:80`), so `Start` does not wait
for `flatten()` calls: theirs go on with the old handler, which the new engine knows nothing of (`stray`). A duplicate or an older bar is ignored by the code
(`live/engine.py`, `_last_ts`), so `OnBar` takes newer ones only. The risk manager may always refuse (`NoTrade`).

### Controller

`lock` is who holds `_lock` and how far `start()` is, `built` the engines of the session so far,
`listed` the length of `_engines`, `call[f]` a `flatten_all()` call and the engine whose exit it
awaits. An engine is its task (`phase`), its halt, whether it has a position, and the equity it
last published; each publication runs `OnEngineUpdate`, which is `_on_engine_update`,
`_risk_breach` and `_check_circuit_breaker` in one stretch. A bar with an entry is two steps, `EngineEnters` (the halt is looked at, `live/engine.py:259`,
and the order sent) and `EntryReply` (its answer, `live/engine.py:300-305`), so that a sweep, a stop or a resume may come between. `stop()` is as it is written: it
goes through the tasks one at a time (`StopNext`, `joined`), asks for the cancellation of one that has not ended after 12 s (`StopTimesOut`, phase `"cancel"`),
does not wait for it, and empties the lists (`StopDone`); the cancelled task ends whenever the loop runs it (`CancelLands`).

`account`, `high`, `swept`, `missed`, `overtaken`, `killed` are history variables. `missed` are the engines whose position the last sweep that reached them
did not close, as their entry was in flight or the exit failed; `overtaken` those halted by a sweep that went on after a `resume()`.

Abstractions. Money is a small integer: an engine starts with `Each` units and a publication moves the equity of
an open engine by at most one. A running engine never publishes exactly 0 (a state of
equity 0 is one not initialised yet). An exit by the engine itself is part of an `EngineStep`: that two exits of one position overlap, and what
an order may do besides being filled, is `LiveEngine`'s subject. `start()` always
passes the read of the account, as it does with real orders; without them it is the same run with
nothing in between. When all of `Calls` are in flight an update that would trip waits.

### Backtest

One bar of `_step()` is three steps, chosen by `phase`: `"open"` executes the order queued on the bar before
(`NothingPending`, `PendingExit`, `PendingEntry`), `"manage"` applies the barriers, starts the cooldown and marks the book
(`CloseBar`), `"decide"` queues the next order (`DecideNothing`, `DecideExit`, `DecideEntry`); `End` is the forced close and the
report. A bar is any `open`, `high`, `low`, `close` from `Prices` with `low` and `high` at the ends: gaps of any size and bars that touch
both barriers are in it.

| state | code |
|---|---|
| `pending` | the `pending` of `run()`: side, quantity, limit price, barrier distances |
| `position`, `trades`, `realized`, `marked` | `Portfolio.position`, `.trades`, `.realized_equity`, the last sample of `.equity_curve` |
| `cooldown`, `seen` | `_cooldown_remaining`, `_trades_seen` |
| `report` | `final_equity` of the report |
| `budget`, `entryFees`, `sinceExit` | history, for properties |

Abstractions. Prices are integers and rates are in `Unit`-ths, with money in `Unit`-ths of a price unit, so
that fees are exact; slippage and quantities are rounded down, where the code has floats. The model (predictions,
filters) may give any signal on any bar. The expected-value gate of `size_order` may refuse any
entry (`DecideNothing`). `EntryTypes` is a set, so one run covers market and limit entries, mixed.
The statistics of the report other than the final equity are left out. As in the code, a stop or a target fills at its own
price also when the bar opens beyond it.

### TradeStore

A connection is a queue of requests and a thread that serves them in order. An `execute` and its `commit` are two
requests with the event loop in between, which is where another task of the engine, a cancellation or a crash gets in.

| state | code |
|---|---|
| `runs`, `seq`, `trades` | committed rows; `seq` is SQLite's AUTOINCREMENT counter |
| `writer`, `dirty` | the write lock of the file (WAL has one), the rows of an engine's open transaction |
| `runId`, `pending` | `_run_id`, `_pending_equity` |
| `pc`, `queue` | where the bar task and a flatten wait, the requests of the connection's thread |
| `life`, `listed`, `session` | engine tasks, the controller's lists and its lock |
| `rec`, `clear`, `doomed` | the recorder's connection, the clear request and the ids it selected |

`InsertRun` … `CommitEquity` are the thread's steps; `OrphanRequest` is a request whose task was cancelled while it
waited; `RefuseEngine`, `RefuseObservation` and `RefuseClear` are `busy_timeout` expiring, which can only happen when the holder
of the lock sleeps until its next bar (`HolderSleeps`); `StartSession` … `Disconnect` are the controller's handling of the
stores; `CheckStopped` … `RefuseClear` the request `POST /api/runs/clear`, whose check and DELETE are two steps. The
counter of a batch moves with its INSERT. `MaxRuns` bounds the ids; with as many ids as engines it never
stops one, since an engine makes one run.

### Recorder, Broadcaster

`Recorder`: a supervisor task is `new`, runs its `MarketRecorder` (`connect`, `sample`, `sleep`), closes or unwinds it, backs off,
or is over; `stop()` sets `_want_running`, tells the recorder it holds (`stopped`), waits for the task and cancels it after
15 s (`StopTimesOut`). `Build` … `Unwound` are the supervisor's stretches. `Broadcaster`: `Publish` is one step because `publish()` has no await;
`Connect`, `Sent`, `Take`, `Leave`, `SendFails` are the websocket route.

### ModelSupply

A training process is a number, and a file holds the number of the process that wrote it, so that a pair matches when the
numbers do. `PostJob` and `PostRetrain` are requests, `SchedulerTick` the scheduler's; each goes through the kinds it starts,
`Spawned` and `Launched` or `LaunchFails` for each: the process is created (`create_subprocess_exec`, whose `await` follows the check) and only then registered, and
another request, or the end of the server, may come before either. `child` is the process a starter has created and not registered yet. `SaveModel`, `WriteMeta`,
`ProcEnds` are a process, which outlives the server (`ServerRestarts`); `PromoteModel`/`PromoteMeta`, `DiscardModel`/`DiscardMeta` the
two moves of the registry, interleaved with the processes. `disturbed` and `unsaved` name circumstances under which the code
makes no promise (section 4 lists what happens then); `excess` counts, for each kind, the launches that overlapped another and the processes that outlived a server.

### Mt5Bridge

The terminal polls on a timer with its last `BarsToSend` closed bars and its position, waits with a
timeout, and acts on the answer. A request is decided and then, with `capture_bars`, appended to the file
(`append`, `merged`, `writing`); meanwhile bars close, the broker's stop or target closes the position, the terminal gives up, or the server dies.

### MarketData, Features, Validation

`MarketData`: `PageArrives` and `PageFails` are `fetch_history`, `Prime` and `ActAtOnce` the warm-up and the decision on its last bar,
`Watch`, `PollLastTwo`, `NextOfBatch`, `FallBack`, `FeedFails` the stream; a bar is its number, `partial` those that were still forming when
they were downloaded. `Features` computes, for each column, the first row at which it is defined and how far back it reads;
`warmup`, the buffer and `update()` follow from the windows, so that the module answers for any configuration. The numbers themselves
are abstracted. `Validation`: a frame is the set of times at which a symbol has a bar, which makes symbols with other
histories, gaps and late listings inputs; a fold is `TrainFold` then `TestFold`.

## 3. The runs

| run | instance | shows |
|---|---|---|
| `live_faults` | 1 flatten call, 3 bars, 2 faults, entries of 2 units, partial fills, lost answers, native triggers; 4.5 M states | `EntryOnlyWhenFlat` (no `open_position` on an open book), `FlattenCloses` (what a halted engine holds is being closed or is one of the positions `flatten()` is known to leave), `ImplementsLifecycle`, `TradesReachTheStore` (a missing trade cost a failure of the store), `HorizonRespected` |
| `live_solo` | real orders, no flatten, 5 bars, 3 starts, 1 fault, recorded observations | `BooksAgree` through crashes and adoption, `ProtectionMatches`, `CooldownRespected` |
| `live_liveness` | 1 flatten call, 2 bars, 2 starts, 1 fault, unreadable account; the second start may come before the call ends | `FlattenEnds`, `BarEnds`, `StopEnds` |
| `live_kill_double` | 1 flatten call | a violation, section 4 |
| `ctl_pair` | 2 symbols, 3 sessions, 2 calls, resume, 2 failures, no breaker (an equity that never moves); 0.7 M states | `OneSession`, `NothingUntracked` (what `stop()` forgets does nothing more), `SweepCloses` (a swept engine has no position but one being closed or `missed`), `ResumeClears` (nobody stays halted after a resume but the `overtaken`) |
| `ctl_single` | 1 symbol, drawdown breaker, equity 1 to 4, 2 sessions, 2 days; 0.8 M states | `TripIsALoss`, `FreshDay` |
| `ctl_liveness` | 2 symbols, 2 sessions, one call of the operator or the breaker, resume, 1 failure; the breaker trips on a partial sum (section 4) | `FlattenAllEnds`, `TripHalts`, `LockReturns` |
| `ctl_kill_misses` | 2 symbols, the kill-switch during `start()` | a violation, section 4 |
| `offline` | a backtest: 5 bars over 3 prices, 2 ATRs, horizon 2, cooldown 1, both entry types, long and short, leverage cap 1; or the models: requests of one operator beside the scheduler, 2 processes, 2 days, 1 restart; 2.8 M states | `PendingFits`, `EquityExplained`, `ReportExplained`, `HorizonRespected`, `StopBounded`, `ImplementsLifecycle`; `PairsMatch`, `OneJobPerKey`, `RetrainCadence` |
| `service` | seven parts, each alone; 1.4 M states (below) | the properties of section 3.1, and the assumptions of `MCPure` |
| `store_locked` | 2 symbols in one session | a violation, section 4 |
| `features_warmup` | the shipped windows | a violation, section 4 |

### 3.1 The parts of `service`

`MCService` (and `MCOffline`) takes one of its parts at the start and lets it move while the others keep an initial state. They share no
variable, so the states of the run are the sum of the parts and not their product, and a property of one part is checked
over all of its behaviours. The two engines of the store are interchangeable; instead of a symmetry set, which would permute the
variables of all parts, `BuiltInOrder` follows only the behaviours in which one of them is built first.

| part | instance | properties |
|---|---|---|
| store | 2 engines in two sessions of one symbol, batch 2, a recorder, one clear or one crash | `LossBounded`: a crash loses no more than a batch of samples. `ReturnedTradesStored`: a trade whose `record_trade` returned is in the file under its own run. `OnlySamplesHoldTheLock`: between bars the lock is held for samples only. `ClearSparesRunning`: a clear never deletes the run of an engine that ran when it was checked |
| recorder | 4 requests of 2 callers, 3 recorders, 1 timeout | `OneRecorder` |
| broadcaster | 2 clients, queues of 2, 5 snapshots | `NewestIsKept` |
| mt5 | 3 bars, 3 polls, 1 fault, cap 2 | `ActsOnWhatItSaw`, `CaptureIsNewest` |
| history | pages of 3, warm-up of 4, histories of 0, 1, 2, 5 bars, 7 bars, 2 failed requests | `EngineSeesEachBarOnce` |
| features | the shipped windows and three optional sources | `LiveRowsAreWhole` |
| validation | histories of 12 and 17 bars, 1 or 3 folds, four shapes of a pooled symbol | `TrainedOnThePast` |
| `MCPure` | all small histories, statistics, sources, files and models | the label loop finds the first touch; a trend label depends on no bar beyond the lookahead, whichever of the compared windows wins; the embargo of the meta model separates; no value attached to a bar is of a time beyond its source's `Reach`, and the two ways in which a source does reach ahead occur; settings, secrets, pools and the two gates of real orders agree |

### 3.2 Bounds

Three bars hold a whole life of a position (entry, one bar older, time barrier at
`Horizon = 2`); five reach a second position after the cooldown, which is what
the stale ids of `protective` need. Two faults allow a failed retry or a failure after another; a third repeats one.
Two symbols are the least at which a sweep suspends between engines and a
sum of equities is partial; a third engine adds only another place in the list. Two sessions are a
restart over an old call, three a restart over a task whose cancellation the second has not seen; two days one midnight. No call waits for another: the liveness run has one,
the safety runs have two, so that a sweep may overtake another. `OrderIds` has four ids, so
that two pairs of protective orders may be live at once and a fifth is refused.
Five bars of a backtest are an entry, an exit, the cooldown and a second entry
that is open when the data ends; with three prices a bar may gap over a barrier, straddle both, or touch none; a risk of 20 % and a
leverage of 1 make either one the binding limit of the size, depending on the ATR.
A store with a batch of 2 has empty, half-full and full batches; two engines are an old connection
that leaked and a new session; a clear or a crash may come between any two steps (`OneDisturbance`; the theorems have any number of both). Queues of two hold a
snapshot that is kept and one that is dropped; three polls are one that was given up, one that overlaps it and one after. Two
processes are two trainings that overlap or follow, also two of one kind when two launches overlap. Pages of three over five bars have a full page, a short one and
one that ends with the forming bar.

Deadlock is not checked in the runs whose cfg says so: when the bars, starts and requests of a bounded run are used up the process has ended.

### 3.3 Fairness

`FairSpec` of `LiveEngine` and `Controller`. A reply that a task awaits arrives (ccxt and the HTTP clients have timeouts, whose
expiry is a fault action), the loop runs a task until it suspends, a created task is run, and
`controller.stop()` cancels after 12 s. Nothing is assumed of the stream, the operator, the market, the calendar, or faults:
`StopEnds` therefore holds with a silent stream too, by the cancellation. The other modules state safety only.

`ctl_single` has one symbol and no daily limit, and `live_solo` no flatten: with more the
properties fail, as the next section says.

## 4. Where code and documentation disagree

These runs end in a counterexample; each property is what the quoted text says.

| run | what happens |
|---|---|
| `live_kill_double` | `flatten()` and the bar's exit both saw the position before their awaits: two market orders, book flat, account reversed. |
| `ctl_kill_misses` | `flatten_all()` during `start()`: engines built later are not halted. |
| `store_locked` | `record_equity` leaves its INSERT uncommitted until the batch is full, and an open transaction holds the file's write lock: the write of another symbol's engine waits 5 s, raises, and ends that engine ("Wait (rather than fail with "database is locked")", `persistence/database.py:146`). |
| `features_warmup` | `warmup` is the longest single window, but `vwap_dev_z` is a z-score over an average: with the shipped windows the first seven live decisions have no features ("has a full backward window", `live/engine.py:212`). |

Others met while modelling; each shows in the models, or is why a property has the exception it has.

Trading:

- A flatten that finds an entry in flight closes nothing; the fill opens a position on the halted engine, which keeps it
  (`src/README.md:214-215`, "closes all positions at market and halts instantly"). The same before the first bar, with an adopted position (`live/engine.py:185`), and
  when the exit fails. `FlattenCloses` (`spared`) and `SweepCloses` (`missed`) say that there is no other such position.
- A failed exit leaves the position without its native stop, which `_exit` cancelled first (`live/engine.py:341`, "the native
  protective stop is the backstop"). After it the next bar exits again only if it touches a barrier again (`live/engine.py:340`).
- With two symbols the first publication during `start()` is compared, alone, with the whole account's baseline: the breaker
  trips without a loss (`api/controller.py:224`).
- A native stop that triggers between bars is followed by the engine's own exit (`NoDoubleExit` with `NativeTriggers`, no flatten).
- `start()` does not wait for a `flatten()` in flight on an engine that has ended (`api/controller.py:80`): the new engine may adopt the position whose exit is on its way (`stray`).
- A protective order whose answer is lost, or comes without an id, rests on the exchange untracked (`execution/live.py:197-216`).
- After a restart the adopted position gets a second pair of protective orders, as the new handler does
  not know the old ids (`execution/live.py:194`, "never stack protective orders").
- A process that dies between the entry fill and the answer to the stop order leaves a bare position (`execution/live.py:15`).
- With `UseRecorded`, a flatten and a resume during the await of the observation let the same bar enter with no cooldown.
- `resume()` keeps the daily baseline: after a daily-loss halt the next publication trips again (`ctl_single` with `MaxDailyLoss = 50`).
- `resume()` during a sweep: the sweep halts the engines it had not reached (the `overtaken` of `ResumeClears`), and clears `_breaker_active`
  under it, so a second sweep may run beside it (`api/controller.py:59`).
- A start after all engines died does not close their stores: the connections leak, and with them a write lock they hold.
- `risk.max_consecutive_losses` (`config.py:234`) is read by no code.
- The report of a backtest takes its final equity from the last mark, before the residual position is closed "for clean
  accounting" (`backtest/engine.py:254`); `ReportExplained` gives the difference exactly. A trade that wins on its first bar has an
  efficiency ratio of 0, which `backtest/portfolio.py:146` explains as "no favourable move existed".
- MT5: after a native exit the same bar is decided again and may enter again ("SAME decision", `integrations/mt5/bridge.py:3`); the answers "no model" and
  "insufficient bars" come before the time exit, so an open position outlives the horizon; the kill-switch does not reach the terminal.

Data, features and training:

- A page limit below what the loop asks for ends the download early (`data/ingestion.py`); the cache is keyed by day and keeps a bar that was forming; a
  single-row warm-up is kept although it is forming (`api/controller.py:460`); the poll reads two rows and skips what an outage of more bars covered.
- `_align_ffill` fills backwards before the first value (`data/sources.py:56`; its comment at 51 says "step forward, no leak"), `_exact_or_nearest` may take a value up to one bar later, a bar after the
  last observation reuses the last bin (`data/recorded.py`), the day after the last sentiment gets none.
- Live, an optional column whose series is not in the frame is 0, although the shipped configuration trains with it (`data/features.py:14`); exponential averages depend on
  the length of the buffer; `rsi_fast`, `stoch_k` and `stoch_d` are not in the list of warm-up windows, and a `vol_pct_window` longer than what another column waits for is
  answered with a filled 0.5 before it is whole (both are what `WindowsFit` excludes, section 5); an `extra_momentum` equal to a momentum window gives the same column twice.
- A label takes the target first when a bar touches both barriers, the exits of the engines the stop first; labels enter at the close, engines at the next open.
- The calibration tail has no embargo; the meta model's embargo is the horizon also for trend labels, whose look-ahead may be longer; the window end `t1` of a trend label is that of the window that won, so the uniqueness weights do not count the bars of the longer windows it was compared with
  (`ml/model.py:109-123`); the halves are not chronological
  with pooled symbols; `holdout.py:68` uses `train_symbols` as given, so the primary may be pooled with itself and its calibration rows are fitted.

Service:

- "Re-starting an identical job that is still running is rejected" (`api/management.py:70`): the check and the registration are on two sides of an await, so two processes of a kind may run (`excess`); a server that dies between spawn and registration leaves one nobody lists. `retrain_now` lists busy jobs as started.
- Promotion is called atomic (`ml/registry.py`) and moves two files, a training writes two: a process that dies between them leaves a mixed pair (`disturbed`); a candidate without metadata keeps the old metadata beside the new model. Training a candidate overwrites the
  active model's holdout slice (`scripts/train_model.py:326`).
- A recorder start during a stop is lost or leaves two supervisors; a second stop may call `cancel()` on None. Scheduler and recorder keep the settings they were built with after a reload.
- The websocket greeting is the idle state, not the aggregate; a client that fails during it stays subscribed (`api/server.py:434`).
- An invalid configuration is written before it is validated (`api/management.py:165`); saving or deleting exchange keys drops every other secret from `secrets.yaml`.
- A capture file torn by a crash is never repaired, and two overlapping requests lose bars of one.

## 5. The proofs

All theorems hold for every value of the constants; `tlapm` checks them with Z3, Zenon and LS4.

`LiveEngineProofs` (assumes `TasksAssumption`, `SwitchAssumption`, `NumberAssumption`, the types of the constants):

- `TypeCorrect`: `Spec => []TypeOK`, one lemma per action.
- `EntrySafe`: `Spec => []EntryOnlyWhenFlat`. Inductive with `TypeOK`: only `BarTask` opens positions, it reaches
  `"entry"` from a stretch in which the book is flat, and killers only close.
- `HaltHolds`: `Spec => []FlattenCloses`, for any number of flatten calls, faults and restarts. `HaltInv` adds what is under way: an entry in flight or an adoption to come on a
  halted engine was there when it was halted, because `TryEnter` looks at the halt and `Flatten` notes what it passes over (`spared`).
- `PaperBooksAgree`: with `~RealOrders`, `BooksAgree`. Invariant `PaperInv`: the waits of the real handler are never reached
  and `exPos = pos` holds in every live state.
- `SoloBooksAgree`: with real orders, adoption, no killers, partial fills, lost answers, lost reads or native triggers,
  `BooksAgree` through crashes and restarts. The invariant `SoloInv` says where book and account may differ
  (before the adoption), that `adopt = exPos` at boot, and that an exit in flight is of `-pos`. Each hypothesis is needed:
  dropping it brings one of the disagreements of section 4 or a known mismatch.

`LiveLifecycleProofs` (same assumptions):

- `LiveLives`: `Spec => Lifecycle!Spec`, by step simulation. `StretchInv`: the bar task keeps the loop through a stretch, and who is about to
  exit has a position; so nobody closes between `Post`, which sees the last trade, and the decision. `RestInv`: once the last trade is seen, a
  flat book has `cooldown + sinceExit >= CooldownBars`, and an entry in flight or an adoption finds a book that is flat and rested.
  `Effects` sorts the steps into those that leave book and cooldown alone, closes, and the nine that are treated one by one.
- `CooldownHolds`: `CooldownRespected`, from the same invariant. Both assume `~UseRecorded`: with an await between `Post` and the
  decision they are false (section 4).
- `HorizonHolds`: `HorizonRespected`. `AgeInv` says that without failures a position of the age of the horizon is on its
  way out, and `LeavingStays` that such an exit ends with no position, whoever closes it.
- `TradesSaved`: `TradesReachTheStore`. `trades` is between `saved + Cardinality(Recording)` and that plus `faults`, where `Recording` are the tasks at the await of
  `record_trade`; `Counts` sorts the steps into those that close, those that save and the rest, and `RecordingMoves` counts the set. It uses
  `CallsAssumption`: the flatten calls are finitely many.
- `PositionProtected`: `ProtectionMatches`, with real orders, two order ids, no flatten calls and no native triggers. `OrdersFit` says, for every await
  of the bar task, which protective orders rest on the exchange and which ids the handler knows; it is kept until a failure or a second
  start. A flatten call cancels the orders of a position that is still open while the bar task waits at the stream, and a native trigger takes an order
  from the exchange that the handler still knows: with either the statement between bars is false.

`ControllerProofs` (assumes `ControllerAssumption`):

- `StopForgetsNothing` and `StartIsExclusive`: `NothingUntracked` and `OneSession`. The invariant `SessionInv` says that a task which
  may still act is listed, that `stop()` has left none behind it (`joined`), and that nothing acts while a `start()` is past its check. Tasks whose cancellation is
  only requested are outside of it: they may end at any time, also in the next session.
- `SweepHolds`: `SweepCloses`, from `SweepInv`: a swept engine is halted, and an entry of it that is in flight was in flight when it was reached.
- `TypeCorrect`: `Spec => []TypeOK`. The money is typed because the sum over the built engines is an integer (`FoldProofs`).
- `NewDayNeverTrips`: `FreshDay`, for any number of engines: the first check of a day sets both baselines to the total it compares with them.
- `ResumeReleases`: `ResumeClears`, for any number of engines, sweeps and resumes. `ClearInv`: on a controller that is not halted every halted engine was overtaken, and every sweep of
  this session still on its way began before a `resume()`.
- `TripsOnLosses`: `TripIsALoss`, with one engine and no daily limit, or while nobody resumes. `LossInv`: what the engine publishes is 0 before its
  handler answered and the account from then on, and no baseline that is checked is above the highest account. With two engines a check between two
  builds compares a part with the whole, and a resume keeps the daily baseline: both are in section 4.

`BacktestProofs` (assumes `BacktestAssumption`, the types of the constants; bars, signals and data length are arbitrary):

- `TypeCorrect`: `Spec => []TypeOK`.
- `OrdersFit`: `PendingFits`, from an invariant that ties the queued order to the book through the three phases: the book does not
  change between the decision and the open, and an entry was decided on a flat book.
- `HorizonHolds`: `HorizonRespected`; a position enters the `"manage"` phase younger than the horizon and leaves
  it younger or closed.
- `ReportHolds`: `ReportExplained`. `MarkInv`: between bars the last mark is the equity at the last close, and no trade is a forced
  close before the end; the rest is the arithmetic of one close (`WorthSplits`).
- `BacktestLives`: `Spec => Lifecycle!Spec`, step simulation. The invariant says that `cooldown` and
  `sinceExit` make up `CooldownBars` while the book is flat, in each phase, and that an entry is only queued when the
  whole cooldown has passed.
- `EquityIsExplained`: `EquityExplained`. Every step is a `BookStep`: nothing, an entry fee or one trade (`BookSteps`), and a trade that is appended adds
  what it earned to the sum (`EarningsGrow`, from `FoldProofs`).
- `StopsAreBounded`: `StopBounded`. `RiskInv` carries the budget from the decision over the queued order to the position: quantity times stop distance
  is within it (`SizedToBudget`, about the two integer divisions of the sizing), whatever price the entry fills at, because the stop moves with the fill. `StoppedOnly`
  says that no other exit makes a trade with that reason, `StopCost` is the arithmetic of the close.

`FoldProofs` (no assumption): what the folds of the community modules return, over sets of any size. Library induction takes an
operator as a parameter, which the provers cannot instantiate, so each fact is proved from a least counterexample: `LeastElement` (from the
well-foundedness of `<`) names the smallest set for which it fails, and the set without one element refutes it. `SumsExist` shows in this way
that the recursive function behind a fold exists, `SumType`, `SumLast` and `SumsAgree` what it returns and that sums over a part and the whole
agree where they meet.

`TradeStoreProofs` (assumes `StoreAssumption`, `ConnsAssumption`; any number of engines, batches, trades, clears and crashes):

- `StoreTypes`: `StoreSpec => []StoreTypeOK`. `Types` has four parts; `Locked` says that the connection with uncommitted
  rows holds the lock, also when it is the recorder's or the clear's; `EnginesSound` ties, for one engine, its tasks to its queue (`Held`: every task that
  waits has exactly its own request there), and says that only the bar task makes the run, before anything else. Neither is inductive without the other.
- `RunsAreSpared`: `ClearSparesRunning`, from `ClearChecked`: what runs is listed, and during a clear only what started after its check runs.
- `TradesAreKept`: `ReturnedTradesStored`. `IdsGivenOnce` says that an uncommitted id is the next one, whoever holds it, so that ids are never
  shared, not even with a cleared run. `TradesKept` counts: returned trades plus commits still due are no more than the trades in the file plus those in the
  open transaction, since either task's commit takes the rows of both.
- `LossIsBounded` and `SamplesHoldTheLock`: `LossBounded` and `OnlySamplesHoldTheLock`, from `BatchInv`. For one engine it ties, for each place its two tasks and their requests
  can be in, the counter `pending` to the samples in the open transaction (`Batched`); a task that was cancelled leaves its request on the
  connection's thread, which still moves both. `LockHasRows` says that a connection which holds the lock has uncommitted rows.

`BarProofs` (assumes `BridgeAssumption`, `MarketDataAssumption`, `FeatureAssumption`):

- `BridgeTypes`, `ActsOnItsAnswer`: `ActsOnWhatItSaw`. `BridgeInvariant` says that the request the terminal waits for is the only one it may act on, that its answer suits what it
  asked (`Suits`), and that a position can only have become flat since.
- `CaptureLosesOnlyTheOldest`: `CaptureIsNewest`. `CaptureSound`: at most one request is appending, what it merged is the newest of the file and its own bars, and every bar
  that arrived and is not in the file is older than as many bars as the cap holds. `NewestKeeps` and `AppendKeepsNewest` are about the cap alone.
- `BarsReachTheEngineOnce`, `DataTypesHold`: `EngineSeesEachBarOnce`. `DownloadInv` (the pages join without a gap), `FedInv` (the warm-up is consecutive, the engine stands at its last
  bar) and `DueInv` (what is due was got, or comes and is newer) are inductive together; the lemmas before them are about sorted sequences of sets.
- `LiveRowsHold`: `LiveRowsAreWhole`, for the windows and sources that satisfy `WindowsFit`. `UnfilledBy` goes through the columns: each is defined from the row on for which it has
  all its bars, and within a buffer of five warm-ups. The filled ones are not, which is why `WindowsFit` asks that the window of `vol_pct` be covered by the
  warm-up or another column, and that the buffer hold `rsi_fast` and the stochastic. The shipped configuration does (115 bars of `vol_pct` against 119 of
  the z-score of `vwap_dev`); with `vol_pct_window = 300` TLC finds a row that is answered too early.
- `SourcesReach`: how far beyond its bar what `Sources` attaches may lie (`Reach`), for every set of bars and of times of a source, with no case left out: taker flow, breadth and cross
  assets up to one bar length when no row has the time of any bar, funding and open interest the first value there is when they begin after the bar, all others, the recorded
  columns, the latest observation and the higher timeframe not at all. `BinsApart`: bins that differ do not overlap; `BinForFacts`: the bin that is looked up is never newer than the bar's own.

`ServiceProofs` (assumes `BroadcasterAssumption`, `RecorderAssumption`, `SupplyAssumption`, `ValidationAssumption`):

- `BroadcastTypes`, `NewestSnapshot`: `NewestIsKept` for queues of any length. `Between` says that a queue is in the order of publication between what the client has
  in hand and the newest; `DropOldestFact` what putting one into a full queue keeps.
- `RecorderTypes`, `OnlyOneRecorder`: `OneRecorder` for any number of requests and timeouts, from an invariant on which supervisors are alone, wanted, or told to stop.
- `MetadataVouch`: `PairsMatch`. While nothing disturbs the writers at most one process is between its two files, and each file pair is either matched or that process's.
- `OneJobRuns`: `OneJobPerKey`. `Bounded` counts: while a kind is being launched, its launchers and the running processes nobody is launching are at most one and the excess; otherwise all
  running processes but the registered one are excess. `Children`: what a starter has created is of the kind it launches. A check that finds the kind free starts the count at one.
- `CadenceKept`: `RetrainCadence`. `CadenceInv` ties `_last_retrain`, the saved time and the day on which the last retraining began.
- `NothingOfTheTestIsKnown`: `TrainedOnThePast`. `ValidationInv`: what a fold fitted or calibrated on are rows before its cut (`TrainStep`), the scored bars are those up to the cut,
  and no calibration row of the primary was fitted. `FirstElements` and `RowFacts` say what cutting a pooled history at a bar leaves of a label's window.
- `LoopFindsFirstTouch`: the recursive loop of the triple barrier computes the label that `FirstTouchLabel` defines, for every history. `LabelFromStep` says how the first touch
  from one bar on follows from the next; `ScanExists` and `ScanGives` use it, with the greatest bar for which the loop fails in the place of an induction.
- `TrendsLookAhead`: every window that is compared for a trend label lies within the lookahead, so that two histories which agree there give the same label and window.
- `EmbargoSeparates`: what the embargo of the meta model keeps apart.
- `KeysTakeEffect`, `GatesAgree`, `PoolIsMeant`: precedence and secrecy of the settings, the two gates of real orders, and the training pool.

Every safety invariant, action property and refinement of a passing run is stated by a theorem, some of them under the hypotheses named above. Only
model-checked are the liveness properties (`FlattenEnds`, `BarEnds`, `StopEnds`, `FlattenAllEnds`, `TripHalts`, `LockReturns`: fairness and ENABLED are out
of reach of the prover), and what those theorems leave out (several engines or resumes for the breaker, flatten calls beside resting orders, where the
runs use instances in which the properties still hold). What `MCPure` checks on small inputs the last theorems of `BarProofs` and `ServiceProofs`
prove for every input.

`BooksAgree` with the paper handler is not a run of its own: `PaperBooksAgree` proves it for every instance.

## 6. Not modelled

- The values of features, the fitting of models and the metrics of an order book: floating point over data frames, without control state. Which rows they read is modelled.
- The statistics of a backtest's report beside the final equity, and the fractional and meta-label scaling of the risk.
- The cache file of `data/ingestion.py` and the paging of the optional sources.
- Reading routes, authentication and the dashboard (they change no state), validation of single settings.
- Symbol mapping and lot sizes of the MT5 bridge, and its `/ingest` route, which only writes to the captured file.
- Notifications and the log ring: best effort, no decision depends on them.
- `sweep.py` and `run_backtest.py`, which only drive the library; `record_features`, which has no caller.

The plan of the project was `LiveEngine`, `Controller` and their proofs; `PositionLifecycle` and `Backtest`; the store and the broadcaster; jobs, registry,
recorder and bridge; the pure algorithms; proofs about the new modules. All of it is done. What a proof could still add is the refinements without `~UseRecorded`, in a weaker form
that allows the trade between the two awaits, and `ProtectionMatches` under flatten calls that do not overlap a placement.
