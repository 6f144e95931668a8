# A TLA+ verification of StrataExec

StrataExec sells a large position in many small chunks. The repository holds a
Rust core (a risk-gated scheduler with five execution strategies, a live engine
that follows a chain, a discrete event simulator, a research program that
compares the strategies, a reinforcement-learning environment) and a Python web backend that runs simulations as background jobs
and streams their progress to a React page. This directory holds TLA+ models of
its core, the TLC configurations that check them, and TLAPS proofs about the
scheduler, the live engine that drives it, the background jobs and their streams,
the discrete event simulator, the reinforcement-learning environment and the
research program.

    tlc -workers 4 -config MC_Scheduler.cfg MC_Scheduler
    tlapm SchedulerProofs.tla

and likewise each of the other `*Proofs` modules and `Sums`.

## 1. The system

| Part | Source | State | Operations | Met by |
|---|---|---|---|---|
| Risk manager | `src/engine/risk.rs` | executed notional, used slippage, emergency draw | `request_execute_chunk` | the scheduler, by call |
| Scheduler | `src/engine/scheduler.rs`, `src/strategies/*.rs` | remaining notional, completed, schedule and step, RegimeAc's own account | `on_block` in five modes | live engine, research runner |
| Live engine | `src/engine/engine.rs`, `src/blockchain/client.rs`, `src/main.rs` | last seen block, metrics | poll loop, `on_new_block`, RPC retries | the HTTP handlers, through `AppState` |
| Control API | `src/api/mod.rs` | `AppState`: flag, counters, published inventory | `/start`, `/stop`, `/status`, `/metrics` | the engine task, concurrently |
| Event simulator | `src/events`, `src/engine/event_loop.rs`, `src/execution` | event queue, pending orders | schedule, pop, route, fill, cancel | strategies, by events |
| Jobs | `web/workers/tasks.py`, `web/services/job_registry.py`, `web/arq_worker.py` | database row, registry, Redis snapshot, queue | run, cancel, abort, time out, redeliver | API, worker, Redis, database |
| Progress | `web/routes/progress.py`, `frontend/src/hooks/useWebSocket.ts` | subscription, page status | stream, poll, `/state` | the job's messages and snapshot |
| RL environment | `src/bin/rl_env/env` | order, episode, book, replay, adversary | reset, step | Python over a pipe, one or a batch |
| Market replay | `src/market/lob_replay.rs`, `counterfactual_lob.rs`, `order_book.rs` | snapshots, cursor, levels, quantity sold | read a file, next, seek, reset, rescale, fill | the RL environment and the runner, by call |
| Market files and estimators | `src/market/agg_trades.rs`, `vpin.rs`, `lob_generator.rs`, `regime.rs`, `gbm.rs`, `garch.rs` | trades, open bucket and window of the VPIN | read a file, window series, add a trade, generate a book | the runner, by call |
| Runner | `src/research/multi_runner.rs` | strategies with their impact, history, prices, replay cursor | run: a step of the market, a block per strategy, liquidation, export | the schedulers, by call; the logger, over a channel |
| Research program | `src/bin/research_sim.rs`, `src/research/experiments.rs`, `src/calibration/impact_fit.rs` | options, files, sums over paths, sheets | calibrate, load, path, sweep, summary, teardown | the runner, by call; the logger thread |
| Accounts | `src/analytics/metrics.rs`, `distribution.rs` | cost components, per-trade costs, labels | record, decompose, split, summarise | the runner and the research program |
| Logger | `src/observability/logger.rs` | bounded channel | send, print, end | the simulation thread, concurrently |
| Model cache, other routes, frontend pages, RL training | `web/services`, `web/routes`, `frontend/src`, `rl` | | | |

(Paths in this file are relative to the repository's root.)

What is hard here, and what each part must get right:

* **Risk manager.** Three ceilings on each chunk interact. The budget, the
  average rate and the reserve must hold together although each draw is only
  compared with what one of them has left; a fair chunk must never be starved.
* **Scheduler.** Two accounts (the order's and the risk manager's; in RegimeAc
  also the strategy's) must agree through denials, the half-size retry, clamps
  and the write-off at the end of an Optimal schedule. No lot may be lost, and
  the modes without a risk gate must finish.
* **Live engine.** Every `await` is a place where `/stop`, a new block or an RPC
  failure may come in. The counters and the published inventory must agree with
  the scheduler up to the block in flight; a stop must take effect; a running
  engine must reach the newest block.
* **Jobs.** The worker and the API write the same row, each from a row it read
  earlier. Cancellations arrive while the job is queued, running, finishing or
  in its own error handler; workers time out and die; arq delivers again; a
  failed path leaves its siblings running. The row must say how the job ended
  and the job must come to rest.
* **Progress.** Pub/sub messages are lost to whoever is not subscribed; the
  snapshot may lag the row. A page must be told the truth, and in the end be
  told.
* **Event simulator.** Decisions are made on fills that are seen late, orders
  stay partly pending, fills carry no owner. Time must not run back and nobody
  may sell more than they have.
* **RL environment.** One object is reset and stepped for episode after
  episode in any order the client chooses, over a replay that may run out. Three modes
  keep their book in three ways: consumed in place, replaced each step, or
  copied from a replay that owns it. `done` must tell the truth, the end of an
  episode must sell exactly what is left, no depth may be sold twice, and
  nothing may leak from one episode into the next.
* **Market files.** Rows come in any order, broken or doubled, in two layouts;
  a day of trades is cut into windows around the snapshots in three ways. No
  depth may be lost in reading, no trade counted twice, and the three must agree.
* **Runner and accounts.** Several strategies share one path, one snapshot per
  step and one pass through the loop, but must not share impact, book or
  accounts; they complete at different steps. The comparison must be fair, the
  history without holes, inventory and costs conserved through dust, warm-up,
  partial fills of a book and forced liquidation.
* **Research program and logger.** Every kind of command line leads to an exit;
  one that says success leaves nothing half done, whatever write fails. Two threads share a bounded
  channel; the join at the end must not wait for ever, and the log must tell the
  run in its order.

## 2. The modules

| Module | Models | Granularity |
|---|---|---|
| `RiskManager` | `engine/risk.rs` | one operator per method; slippage in integer units |
| `Scheduler` (extends `RiskManager`) | `engine/scheduler.rs` and the strategies' chunk rules | one action per `on_block_*` |
| `SellOrder` | nothing: the abstract specification | what a scheduler promises its owner |
| `LiveEngine` (extends `Scheduler`) | `engine/engine.rs`, `blockchain/client.rs`, `api/mod.rs`, `main.rs` | one action per stretch between two awaits |
| `JobLifecycle` | `web/workers/tasks.py`, registry, abort listener, `cancel_job` | one action per await |
| `JobStream` (extends `JobLifecycle`) | `stream_progress`, `/state`, the hook | one action per message, poll, connection |
| `DesLoop` | `events/queue.rs`, `engine/event_loop.rs`, `execution/engine.rs`, `Strategy::on_event` | one action per event type |
| `RlEpisode` | `bin/rl_env/env`, with the replay it reads | one action per request |
| `Liquidation` | nothing: the abstract specification | what an environment promises its client |
| `Vpin` | `market/vpin.rs` | operators on a calculator record |
| `OrderBook` (extends `Vpin`) | `market/order_book.rs`, `lob_generator.rs` | operators on a book record |
| `LobReplay` (extends `OrderBook`) | `market/lob_replay.rs`, both file layouts | operators on a file |
| `AggTrades` (extends `Vpin`) | `market/agg_trades.rs` | operators on a file |
| `Metrics` (extends `Vpin`) | `analytics/metrics.rs`, `distribution.rs` | operators on the accounts of an execution |
| `DebugChannel` | `observability/logger.rs` | one action per send, print, end |
| `MultiRunner` (extends the six above) | `research/multi_runner.rs`, impact models, the observing half of RegimeAC | one action per market step, per block of a strategy, per end |
| `ResearchSim` (extends `MultiRunner`) | `bin/research_sim.rs`, `research/experiments.rs`, `calibration/impact_fit.rs` | one action per stage of `main` |
| `Sums` | nothing: lemmas about the sums the models are stated with | |
| `SchedulerProofs` (extends `Scheduler`), `LiveEngineProofs` (extends `LiveEngine`), `JobLifecycleProofs` (extends `JobLifecycle`), `JobStreamProofs` (extends `JobStream`), `DesLoopProofs` (extends `DesLoop`), `RlEpisodeProofs` (extends `RlEpisode`), `ResearchProofs` (extends `ResearchSim`) | | the proofs |
| `MC_*` | | constants for TLC |

Operators named "Bug shape" in a module are mutations: each is what a definition
of the code would look like with a plausible mistake, and breaks the property
`PROJECT.json` lists it for. No specification uses them.

### RiskManager and Scheduler

`executed_notional`, `used_slippage`, `emergency_used`, `remaining_notional`,
`completed`, `schedule`, `current_step`, `steps_taken` are the fields of the
code under their names; `rac_remaining` is `RegimeAcStrategy.remaining`. A lot is
the dust (1e-8) below which the code calls an order finished; slippage is in a
unit in which `max_slippage_pct` of one lot is an integer, so the divisions are
exact and rounding errors of `f64` are outside the model.

The chunk rules are abstracted to what their formulas guarantee:

* `AlmgrenChriss::schedule`: any trajectory that falls from the total to zero
  (`inventory[0]` and `inventory[t]` are forced, the last trade absorbs the
  rounding).
* `AdaptiveOptimalStrategy::compute_chunk`, `r(1 - sinh(k(h-1))/sinh(kh))`: any
  chunk of at least the linear share `r/h`, as sinh is convex.
* `RegimeAcStrategy::on_block`, `r k/sinh(kh)`: any chunk of at most the linear
  share, as `x < sinh x`; everything on the last step. `set_half_spread` and the
  warm-up only choose `k`, and any choice is allowed.
* `HeuristicStrategy::compute_chunk`: any of `HeuristicChunks`, capped by what is
  left.
* `predict_slippage`: affine in the chunk; a block brings the slope (depth) and
  the constant (volatility).

`on_block_optimal` writes off what is left past the end of its schedule;
`InventoryAccounted` shows that nothing ever is.

### LiveEngine

`pc` is where the engine task stands: in one of the RPC calls, at the ticker, or
between the decision, the counters and the published inventory. HTTP handlers
(`SetRunning`), the chain (`NewBlock`) and shutdown (`CtrlC`, which also stands
for the end of the HTTP server) interleave at every point. The node may answer
with any block number up to the head, lower than before too. `completed /\
UNCHANGED` in `Decide` is the early return of `on_block`. The scheduler's error
(invalid Almgren-Chriss parameters) is left out: `main` would stop as it does
when the retries run out.

### JobLifecycle and JobStream

Jobs share nothing, so one job stands for all; `kind` is which of the three
functions runs it, `deployment` whether there is a Redis queue with a worker or an
asyncio task in the API. Each action is the stretch up to the next await.
`_update_status` is a read and a commit, and SQLAlchemy's session writes a field
only if it changed, hence `SetStatus`. `publish_progress` is the PUBLISH and the
SETEX for a terminal message; of the others only the SETEX is visible. A
`task.cancel()` is delivered at the next await: in the body it enters the
`CancelledError` handler, inside a handler it cuts the handler short. `gather`
raises the first path's error and does not cancel the others (`strays`).

External, modelled from how the code relies on it: arq's redelivery of a
cancelled or lost job, asyncio's cancellation, Redis pub/sub and expiry.
`Expire` is only possible after the job is over: the key lives for an hour after
its last write and `job_timeout` is five minutes. Failures of the database and
the end of the API process are not modelled.

`JobStream` composes the job with one page. `Disconnect` is possible at any time
and nothing forces the stream to be opened, so the three second poll must
suffice on its own.

### DesLoop

One action per event type, each with everything one turn of the loop does: the
execution engine first, then every strategy, then the follow-on events numbered in
the order the loop schedules them. `PartialFill` and `OrderFilled` have the same
effect on every strategy and are one type. Strategies differ in their rule:
`chunk` stands for TWAP, Heuristic and AdaptiveOptimal, which ask for some part of
what they believe is left; `optimal` also stops at the end of its schedule.
Times are integers, and only the order of the delays 1e-9, 1e-6 and of the tick
distance is used. `Vec::retain` is `Retain`, a recursion over the sequence, which
the proofs can unfold. Ticks, prices and cancels lie between 0 and `EndTime`.

Any number of strategies can be registered, and each takes every fill off its
account, whosever order it was: an account is that of its own strategy only when
it is alone. `AccountAgrees` and `SoldByTheEnd` are therefore stated of one
strategy (run `des`), and what two of them do to each other is a run of its own
(`des_shared`).

### RlEpisode

One `RlEnv` and a client that sends any sequence of requests; a request is
handled to its end before the next is read, so each is one action. `mode` and
`episode_steps` come from the command line. The variables are the fields of
`RlEnv` under their names; `cursor` and `book` are those of `lob_replay` and
`current_book`, in counterfactual mode those inside `cf_lob`; `impact` is
`cf_lob.sold_btc` in the order's units. `sold_at`, `charged` and `ready` are
history: what an episode sold into each snapshot, how often it was charged the
baseline, whether the last reset succeeded.

* A book is the snapshot it is a copy of and the depth it has left; price levels
  are summed, since a fill walks all of them.
* An action is any `intended` part of what remains. `RANDOM_HORIZON_*` and
  `RANDOM_SIZE_*` are drawn from `Horizons` and `Sizes`; the fixed values of
  `--fixed-steps` and `--fixed-size` are among them.
* `DustShare` is the 1000 of `0.001 * total_inventory`. A smaller share makes
  the final sliver happen with small numbers.
* `Step` consumes the book in place, moves the market, then dumps into the new
  book. `StepCounterfactual` sells into a copy, moves `cf_lob`, and dumps into a
  copy of the next book, or into this step's copy once the replay has run out.
* What a dump finds no depth for is booked at the punitive price: all of it
  counts as sold, and only what had depth enters `sold_at`.
* `ResetFails` is any failure of the day's data or of the start: the order is
  already restored, the market left as it was.
* `ofi_start` is kept as it is when `--agg-trades` was given and could be read;
  without trades the code sets it to 0 and reads no order flow.

`Liquidation` is the promise to the client: begin with something to sell, move
it from left to sold, be over when all is sold and sell nothing more. A failed
reset counts as a beginning, because the code sells when it is stepped on.
The `--adversarial` agents, prices, rewards and the state vector are left out;
nothing the environment decides depends on the last three.

### The market data: Vpin, OrderBook, LobReplay, AggTrades

Pure code is operators: a calculator, a book, a file are records, an operator
takes one and returns the next. Prices are ticks, volumes whole units, fractions
whole percentages; the `f64` tolerances (1e-12, 1e-15) are zero.

* `AddTrade` fills a bucket a unit at a time, which is the loop of `add_trade`
  with its `min` unrolled. `Endless` is the one case in which that loop does not
  return.
* `FillLevel` is one turn of `fill_side`; the walk stops where the loop breaks,
  since a level taken for nothing is kept as it is.
* A file is a set of columns and a sequence of rows with `None` for what is
  missing or does not parse. `ParseBinanceTall` groups by time stamp in the order
  of first appearance, sorts each side outward, differences, and
  drops what is no level; `ParseWide` pairs columns by number. Text itself is not
  modelled.
* `VpinWindows`, `SortedWindow` and `VolumeInWindow` are the three ways to cut
  the trades, kept as three: by a cursor that only moves forward, by
  `partition_point`, by a filter.

### Metrics

The fields of `ExecutionMetrics` under their names. A percentage of the initial
notional is kept as the amount it is taken of, so that sums stay exact. `Conserved` is what
`decompose` asserts in debug builds, and the books it rests on.

### MultiRunner

`BeginStep` is the head of the loop body: price, VPIN, snapshot and spread, fixed
in `seen` for all strategies. Then each strategy has its turn: `CarryForward`,
`OnBlock` or `BlockFails`; `EndStep` is the early exit and `CloseRun` what follows
the loop. The simulators are any price of `Prices` and, for GARCH, any volatility
of `Volatilities`. TWAP's quantity is computed; the other strategies sell any
part of what they have left, which is what module `Scheduler` leaves of them.
RegimeAC's warm-up and regime are computed, as its labels enter the accounts.
Transient impact halves per step and is forgotten after `MaxAge` steps
(`exp(-rho*dt)` below a threshold in the code). `Dust` is the 1e-6 of the runner,
the scheduler's own 1e-8 being zero.

### ResearchSim and DebugChannel

`line` is the command line, a record of the options given; each `parse_` function
is an operator on it. `main` is where the main thread stands, from `calibrate` to
`exit0` or `exit1`. Events a step emits go to `outbox`, the thread takes no further
step until it has sent them all, and a send waits while the channel is full: so
the interleaving with the logger is that of the code at every single event.
`senders` are the live clones; the logger ends when there is none and the channel
is empty. `exit(1)` kills it where it stands.

Whatever the program writes may fail. A results directory that cannot be written
is `blocked` from the start: `export_csv` fails the run, which exits 1.
`SheetFails` is a directory, a sheet or its header that cannot be written,
`RowsFail` a value of which only some rows can; both end the sweeps with exit 1,
the second with its progress already counted. `Summarise` may write nothing and
goes on, as the code drops all errors of `summary.json`: `summary` is `None`
unless the whole file was written. `Reloading` is where a path reads the file of
snapshots again, which may fail although the first reading did not.

`SweepSetup` and `PathSetup` are the only two ways the program builds a runner.
The sweeps' `force_complete` is the constant `ForceComplete`: the code's default is
`false`, the instance takes `TRUE` to reach the forced liquidation.

## 3. What is checked

| Run | Question | Result |
|---|---|---|
| `scheduler` | Do the five modes keep every account, limit and schedule, and implement `SellOrder`? | holds, 2 113 states |
| `engine` | Do counters, published inventory and `/stop` work in every interleaving, and is the head reached? | holds, about 14 300 states |
| `jobs` | Does a job end, and does its row say how? | holds, about 170 000 states |
| `job_cancelled` | Can a cancelled job end complete? | violated |
| `stream` | Is the page told the truth, and told in the end? | holds, about 634 000 states |
| `des` | Does a strategy in the event loop keep time, stock and account, and sell all it has? | holds, 3 988 states |
| `des_oversell` | Can a strategy oversell when its orders stay pending? | violated |
| `des_shared` | Can one of two strategies be complete before it has sold its own total? | violated |
| `rl` | Does an RL environment liquidate an order, in every mode and through any requests? | holds, 29 064 states |
| `rl_impact` | Does the impact model count what was sold? | violated |
| `research` | Does the research program read, compare, account, write and tell everything true, and end? | holds, 451 767 states |
| `research_labels` | Does a label of RegimeAC stand beside the cost of its trade? | violated |

Deadlock is checked in `research`, where a program that has ended, or hangs in
`add_trade`, is the only one that may stand still. It is not checked elsewhere:
an order, an engine that ended, a job at rest and a finished simulation all stop,
and liveness is stated where something must go on.

What the properties of `research` are about: `FilesReadTrue`, `SeriesCountTrades`
and `BooksSellFromTheTop` compare the algorithms on files and books with what the data
says, over all the small files of the instance; `CostsConserved` and
`InventoryAgrees` relate accounts, scheduler and history; `FairComparison` relates
two strategies: same sales, same costs; `OutputsComplete` and `LogTellsTheRun` relate
what was written and told to what happened, in programs that end well although some
write may have failed; `ResearchEnds` is termination, with
the hang named as the one exception.

**Bounds.** `scheduler`: seven lots, three steps, reserve 3 of a budget of 14,
blocks from free to unaffordable; enough for a draw on the reserve, both outcomes
of the retry, repeated denials, clamped last chunks and a sweep. `engine`: three
lots, two steps, four blocks, two RPC attempts; enough for a completed order with
blocks to come, a skipped block and a stop in every place. `jobs`: two paths, two
deliveries, two cancel requests; two of each is what the races need (a failing
path and one left behind; a delivery after a terminal row; a cancellation within a
cancellation's handler). `stream`: one cancel request. `des`: one strategy,
seven lots, slices of 2, 3 or 4 to fills of 2, further prices and cancels at a tick, at
an order and between an order and its fill; the last price before a tick is the latest
at which the fill of a slice of two fills still arrives before that tick, by one unit.
So the total is reached, and the bound is sharp: with those prices one unit later
`NeverOversold` is violated, as in `des_oversell`, which has none. `des_shared`: two
strategies with four lots each and slices that fit a fill, the least in which a
strategy is told of a fill that is not its own and stops short for it. `rl`: a day of
six snapshots with 2, 0, 1, 3, 1 and 2 units of depth, orders of 3 or 4, horizons
of 3 or 6 and `--episode-steps` 2, two resets of either outcome and seven steps
after each; enough for a replay that ends inside an episode, a dump with and
without depth, a sliver, steps after done and before any reset, and an episode
after a failed or abandoned one. `research`: five units, slices of three, one unit
of dust, two prices, two volatilities, books of two levels, horizons of up to
three steps, at most two paths, grids of one value, a channel of two events, and some 24 command
lines by hand: enough for a cut last slice, a strategy that completes before the
others, a residual below and above the dust, a book that cannot fill the order, a full channel in
the middle of a step, a path after the debugged one, and every error exit; with
343 tall files of four rows and all sorted days of three trades on, before and
after the snapshots.

**Fairness.** `UngatedCompletes` assumes blocks keep coming. `NewBlockSeen` assumes
that the runtime schedules the engine task and that a node which keeps being
asked reports the head in the end (strong fairness on that answer: a node may lag
for any finite time); a failing RPC, a stop and the end of the process are always
allowed and named in the property. `JobEnds` assumes the queue delivers, event
loops run their tasks, paths end, the abort listener drains its subscription;
no cancellation, timeout or crash is ever assumed. `PageSettles` adds the hook's
interval timer and nothing about the event stream. `ResearchEnds` assumes that the
operating system runs both threads. For the main thread this is written as
`MainRuns`, weak fairness with its enabling condition spelled out (`MainReady`: there is
room in the channel, or the logger has been joined); as deadlock is checked, a
main thread that is ready has a step.

### Disagreements between code and documentation

1. `job_cancelled`: the worker has read the row as running and is about to commit
   `complete` when `cancel_job` commits failed, "Cancelled by user"; the worker's
   commit follows and the row ends complete, with that message in it. A job
   still queued when its abort is broadcast goes the same way: `run_simulation_job`
   writes `running` and `complete` whatever the row says.
2. `des_oversell`: the strategies size the next order from fills alone and ignore
   what is still pending.
3. `des_shared`: `trait_def.rs:25` says that a complete strategy has fully executed
   its inventory, and the test of `twap.rs:134-168` demands it. Every strategy gets
   every fill (`event_loop.rs:66`) and takes it off its own account, so two of them
   are complete when they have sold one total between them.
4. `rl_impact`: `counterfactual_lob.rs` speaks of what was sold (lines 9, 118,
   223), while `execution.rs:329` passes what was asked. On a book shallower than
   that the rest moves the price although it was never sold, and again when it
   is asked for again.
5. `research_labels`: `metrics.rs:72` promises labels aligned with the per-trade costs
   by index and `metrics.rs:426` requires both co-populated. A trade of RegimeAC's
   warm-up has a cost and no label (`multi_runner.rs:496-500`), so `is_by_regime`
   pairs every label with an earlier trade's cost.

Read but not runs of their own, although the models behave like the code in each:
`research_sim.rs:891` says that `summary.json` is written, while lines 938-942 drop every
error of that and the program exits 0 (`Summarise` may write nothing, and `OutputsComplete`
asks no more of a summary than that it be whole if there is one);
`regime_ac.rs:5` promises that a higher lambda front-loads, while lines 182 and 225 trade
`remaining * kappa / sinh(kappa * h)`, at most the linear share and less as lambda grows
(`RegimeTrades`), so that an order falls behind the linear schedule at its first step;
after one path failed, the paths `gather` left running (`parallel_sim.py:517`) publish
`paths_update` and turn the failed snapshot back to running (`StrayDone`), which `GET
/state` reports until the key expires (`PageSettles` holds in spite of it);
`src/engine/README.md` says the engine runs until
ctrl-c, while an RPC call that fails `MAX_RETRIES` times ends it (`engine.rs:119`);
`risk.rs:8` calls the reserve "held back", while it is an allowance above the
shares and the budget is not reduced by it; `src/engine/README.md:80` says denied
chunks are dropped, while the Optimal mode proposes the same chunk again.
`reset.rs:71` says a failed reset force-terminates the episode, while the
environment goes on to sell the new order into the old book when it is stepped;
a historical episode of the legacy protocol runs on past the last snapshot in a
book only its own fills change; `adversarial.rs:79` says `recover_step` is called
once per simulation step, while `execution.rs:159` skips it in steps that sell
nothing.

Of the research program: `experiments.rs:132` tells a path as completed before it
runs; `lob_replay.rs:63` says bad rows are skipped, while one tall
snapshot whose time stamp cannot be read fails the file; what a book could not
fill is booked at the average price of what it filled (`multi_runner.rs:439, 463`);
`vwap` divides by what was executed, forced liquidation included, which is not in
its numerator; the VPIN of a snapshot has seen the trades up to the next one
(`agg_trades.rs:212`); the "~25% of fills" above the P75 threshold of `research_sim.rs`
are none when the readings are equal, the comparison being strict; a day without
volume gives VPIN buckets of size zero, on which `add_trade` (`vpin.rs:88`) never
returns: `ResearchEnds` names that state.

## 4. What is proved

### The scheduler

`SchedulerProofs` proves, for every order size, rate, reserve, horizon, set of
chunks and set of block conditions allowed by `RiskAssumption` and
`SchedulerAssumption`:

| Theorem | Statement |
|---|---|
| `Invariance` | `SchedulerSpec => []IInv` |
| `TypeCorrect` | `[]SchedulerTypeOK` |
| `RiskBounded` | `[]RiskBounds` |
| `FairShareAlwaysGranted` | `[]FairShareGranted` |
| `NothingLost` | `[]InventoryAccounted` |
| `AlwaysOnSchedule` | `[]OnSchedule` |
| `SchedulerImplementsOrder` | `SchedulerSpec => ImplementsOrder` |

The inductive invariant `IInv` is the conjunction of `SchedulerTypeOK`,
`RiskBounds`, `InventoryAccounted`, `OnSchedule` and `ModesApart`. The last says
that the state only one mode uses is untouched in the others: without it,
`OnSchedule` for a RegimeAc order could be broken by an Optimal schedule that no
run ever builds. `InventoryAccounted` is needed for `RiskBounds`: the budget
bound follows from the average rate because no more than the order is ever
executed. The proof has a lemma per ceiling of `AllowedForNext`
(`ThreeCeilings`), per way of booking (`BookRiskKeepsBounds`,
`BookChunkAccounts`, `ExecuteAccounts`) and per mode (`TwapStep` ... `RegimeAcStep`),
combined in `OnBlockPreserves`. `FairShareGranted` follows from the invariant: the
running average's headroom is the sum of all unused shares, so it is never below
the chunk's own. For the refinement, `WithinRate` (used slippage within the rate
on what has been sold) follows from the invariant in every mode, and each handler
is shown to be a step of `SellOrder` or to change nothing it sees. `IInv` was
first checked by TLC on the instance of `MC_Scheduler`.

### The live engine

`LiveEngineProofs` proves, for every order, retry limit and interleaving of the
engine's awaits with blocks, failed calls, `/start`, `/stop` and ctrl-c:

| Theorem | Statement |
|---|---|
| `EngineDrivesScheduler` | `EngineSpec => SchedulerSpec` |
| `EngineImplementsOrder` | `EngineSpec => ImplementsOrder` |
| `EngineInvariance` | `EngineSpec => []EngineInv` |
| `EngineTypeCorrect` | `[]EngineTypeOK` |
| `CountersAlwaysAgree` | `[]CountersAgree` |
| `PublishedLagsAtMostOne` | `[]PublishedLags` |
| `StopAlwaysTakesEffect` | `[]StopTakesEffect` |

The engine moves the scheduler's variables by `OnBlock` only, so every behaviour
of the engine is one of the scheduler and inherits `SchedulerProofs`, `IInv`
included, and with it the refinement of `SellOrder`. `EngineInv` adds what each
await leaves behind: `InFlight` (how far counters and published value lag while a
block is under way), `Halted` (a stopped engine cannot reach a second decision)
and `RetriesLeft`. `DecideSells` is all the engine needs to know of a decision.

### Jobs and progress

`JobLifecycleProofs` and `JobStreamProofs` prove, for every number of paths,
deliveries and cancel requests, and every interleaving of worker, cancel
handler, abort listener, crash, timeout, poll and stream:

| Theorem | Statement |
|---|---|
| `JobInvariance` | `JobSpec => []JobInv` |
| `JobTypeCorrect` | `[]JobTypeOK` |
| `EndAlwaysRecorded` | `[]EndRecorded` |
| `TerminalLeftOnlyByUser` | `JobSpec => TerminalLeft`, an action property |
| `StreamInvariance` | `StreamSpec => []StreamInv` |
| `StreamTypeCorrect` | `[]StreamTypeOK` |
| `PageAlwaysTruthful` | `[]ToldTheTruth` |

`JobInv` says where an attempt stands (`Control`), what the row holds from its last
read on (`RowFollowsAttempt`), that before the first attempt has written its end a
terminal row is the user's cancellation (`FirstAttempt`), how many paths, strays
and aborts there can be, and what stands behind a terminal row or snapshot
(`Evidence`). `TerminalLeft` needs the first three: only a second delivery, or a
cancellation, lets a write find a terminal row. The page's truth rests on
`Evidence` for the row and the snapshot and on `MessagesTrue` for a message that
was sent and not yet read; `ReasonsStay` shows that what it reports is not taken
back. Reconnecting, a lost message or an expired snapshot need no case of their
own: they only make the page know less.

### The discrete event simulator

`DesLoopProofs` proves, for every set of events, number of strategies, pair of
delays, order and fill size allowed by `DesAssumption`:

| Theorem | Statement |
|---|---|
| `DesInvariance` | `DesSpec => []DesInv` |
| `DesTypeCorrect` | `[]DesTypeOK` |
| `TimeAlwaysMonotonic` | `[]TimeMonotonic` |
| `AccountAlwaysAgrees` | `Total > 0` and `Strategies = 1` imply `[]AccountAgrees` |
| `SpacedNeverOversells` | `Total > 0`, `SlicesFitAFill` and `TicksFarApart` imply `[]NeverOversold` |
| `EnoughTicksSellTheTotal` | `Total > 0`, `Strategies = 1`, `EnoughTicks(c)` and `EndsLate` imply `[]SoldAtTheEnd` |
| `SlicingSellsTheTotal` | the same hypotheses imply `[]SoldByTheEnd` |

`DesInv` adds to the types that the queue holds only events still to come, with a
number already given out (`QueueOK`), and finitely many fills. The numbers keep
the fills a step schedules apart from those already in the queue and from each
other; without them the sum over the set of fills would not grow by what was
sold. The argument for `AccountAgrees`: trying the pending orders adds the same
quantity to the fills in flight and to what the owners have sold (`OrdersTried`,
from `TryFillAccount` and `RescheduleFills`), and a fill that arrives takes its
quantity off both (`FillKeeps`). The invariant behind it, `AccountLags`, speaks of any
number of strategies: an account is the total less what *all* of them have sold, up
to the fills in flight. With one strategy that is `AccountAgrees`; with more it is the
reason for `des_shared`, and no more than a lemma. With a total of zero the property is false in
the first state: the account is empty and `completed` still unset.

`NeverOversold` needs two hypotheses. `TicksFarApart` is how the program is set up:
ticks a second apart, an order due after 1e-6 and its fill after 1e-9
(`event_loop.rs:72`, `execution/engine.rs:104`). `SlicesFitAFill` says that no slice exceeds `max_fill_qty`; the
code does not see to it, and `des_oversell` shows a strategy overselling with the
ticks as far apart and slices of three to fills of two. Under both, `SpacedInv` is
inductive beside `DesInv` and `AccountLags`: no order is ever pending between two
events, each strategy has at most one order on its way and that order fits its total,
and every order and fill in the queue is over before any tick in it. So when a tick comes
nothing is in flight (`TickSettled`), a strategy's account is its total less what all
of them have sold, and the slice it cuts from that fits (`TickSpaced`). That
`retain` keeps one submission per strategy is `RetainDistinct`. Prices and cancels
find nothing pending, so they need no hypothesis.

`SoldByTheEnd` is a promise about the end, made by events long before it.
`EnoughTicks(c)` says that no slice is smaller than `c`, a fill covers `c`, and `c`
on every tick makes the total; `EndsLate` that the last tick's order and its fill,
and the fills of the last price, come before the end. Nothing is asked of the
distance between ticks, and slices may be larger than a fill. `FinishInv(c)` is
inductive beside `DesInv` and `AccountLags`: what is sold and the *outlook* cover
the total, where the outlook is the least that the events in the queue will still
bring about: `c` for a tick, and for an order on its way its size, at most `c`. A
tick is replaced by an order worth as much, or by one for all that a strategy
believes to be left, which is never less than what is left (`TickArithmetic`, from
`AccountLags`); an order that is popped sells what it was worth at once, whatever
is pending before it (`QuantityCovers`); and since every open event is due before
the end, nothing is left when the end comes, neither to be sold nor to be reported.
A cancelled order loses no part of the outlook, so the theorem holds whatever is
cancelled, which is more than the property asks.

`Sums` proves what these arguments need of `SumFunctionOnSet`: it is a sum (one
element more, two disjoint sets, termwise, by group, renumbered). It is a fold by
recursion over the subsets of a set, and the library's induction theorems cannot be
cited, so `Sums` first proves induction over numbers and over finite sets in a form
that speaks of a set instead of a predicate (`NumberInduction`, `SubsetInduction`).
It also keeps the lemmas about sequences that say what appending, cutting and gluing do.
For the folds of the community modules (`FoldLeft`, `FoldFunction`) it proves that
their recursion has a solution and that its value is the end of a *trace*, the
sequence of the values after each element (`FoldExists`, `FoldTrace`). A proof about a
fold takes the trace and goes along it by `NumberInduction`.

### The RL environment

`RlEpisodeProofs` proves, for every day, order size, horizon, dust share and
sequence of requests allowed by `RlAssumption`:

| Theorem | Statement |
|---|---|
| `RlInvariance` | `RlSpec => []RlIInv` |
| `RlTypeCorrect` | `[]RlTypeOK` |
| `DoneTellsTheTruth` | `[]DoneIffSold` |
| `DepthNeverSoldTwice` | `[]DepthSoldOnce` |
| `AlwaysOnRealData` | `[]OnRealData` |
| `BaselineAlwaysChargedOnce` | `[]BaselineChargedOnce` |
| `RlImplementsLiquidation` | `RlSpec => ImplementsLiquidation` |

`DepthSoldOnce` and `OnRealData` are not inductive. `RlIInv` adds to the
properties:

* `InStep`: until the day runs out the book is the snapshot at `ofi_start +
  step_idx`, the cursor is one past it, and under `--episode-steps` the horizon
  fits the day. This is what `choose_start` leaves room for.
* `DepthLeft`: what was sold into a snapshot fits beside what its book has left,
  and snapshots from the cursor on are untouched. In counterfactual mode the book
  is a fresh copy after the dump, so this holds only while something remains:
  once the order is sold there is nothing left to sell twice.
* `FixedHorizon`: the horizon of `--episode-steps` is never changed, without
  which a start chosen for it need not leave room for the episode.
* `NoReplay`: without a replay the book is no snapshot, which covers steps
  before the first reset.

`SettleOrder`, `SettleDepth` and `SettleTypes` treat the end of a step, which
both kinds of step share; one lemma per action follows from them. The refinement
needs only `StepSells`: a step moves part of what remains, and `done` after it
means that nothing does.

### The research program

`ResearchProofs` proves, for every command line, file, order size, lineup of
strategies, grid and price path allowed by the assumptions of the modules:

| Theorem | Statement |
|---|---|
| `InventoryInvariance` | `ResearchSpec => []InventoryInv` |
| `InventoryAlwaysAgrees` | `[]InventoryAgrees` |
| `FairInvariance` | `ResearchSpec => []FairInv` |
| `FairComparisonThroughout` | `[]FairComparison`: same sales, same costs |
| `StepInvariance` | `ResearchSpec => []StepInv` |
| `HistoryInStep` | `[]InStep`, the part of `OutputsComplete` about a run that goes on |
| `CsvNeverHasHoles` | a run that closes has a record of every strategy for every price |
| `TypeInvariance` | `ResearchSpec => []TypeInv` |
| `ResearchTypesHold` | `[]ResearchTypeOK` |
| `CostInvariance` | `ResearchSpec => []CostInv` |
| `CostsConservedThroughout` | `[]CostsConserved` |
| `LogInvariance` | `ResearchSpec => []LogInv` |
| `LogAlwaysTellsTheRun` | `[]LogTellsTheRun` |
| `StatisticsInOrder` | of any samples: `min <= cvar_95 <= mean <= max` and `min <= var_95 <= median <= max` |
| `OutputInvariance` | `ResearchSpec => []OutInv` |
| `OutputsAlwaysComplete` | `[]OutputsComplete` |
| `FillSideConserves` | a market sell fills what there is, conserves depth and money, and leaves lower levels alone |
| `SellTakesTheBest` | on a ladder with its best level first it takes the best levels whole: `SellsFromTheTop` |
| `BooksAlwaysSellFromTheTop` | `FilesBestFirst` implies `[]BooksSellFromTheTop` |
| `TradeConserves`, `ForcedLiquidationConserves` | the two ways to book a cost keep components and total equal |
| `FillLevelConserves` | a level of a market sell keeps quantity and money |
| `BucketStaysOpen` | between units of volume the open VPIN bucket has room |

What is assumed of the strategies is `LineupAssumption`: no two have the same mode, as
in `build_strategies` (`research_sim.rs:289-301`), so that an order names its strategy.
What is assumed of the command line is `LinesAssumption`: options that count or
measure parse as numbers or not at all (`parse_*` return `Option<usize>` and
`Option<f64>`), and what a reader returns has the type it returns in Rust. TLC
evaluates it for every line of `MC_Research`. `FilesBestFirst` is a hypothesis of one
theorem and not an assumption of the model: `order_book.rs:45-48` leaves the order of
the levels to whoever builds a book, the tall reader sorts, the wide reader takes
them as they come. All lines of `MC_Research` satisfy it.

`InventoryAgrees` is not inductive: after a failed run it would have to know that
nobody was liquidated. `InventoryInv` adds that forced liquidation is only asked for
by sweeps, that sweeps pass valid parameters and write no history, hence neither
`BlockFails` nor a blocked export can end such a run; and that no strategies exist
before the first run. `AfterBlockAccounted` and `LiquidateAccounted` treat one
strategy, `OnBlockKeeps` and `CloseRunKeeps` the runner's steps, `MainStepQuiet` shows that
the other stages of `main` leave the runner alone, and the logger's steps change
nothing the invariant sees.

`FairComparison` speaks of records, and records do not tell what the next sale will
cost. `FairInv` therefore follows the *standing* of a strategy (inventory, permanent
and transient impact, arrival price, cost so far). `TradeOfStanding` and `BlockStanding`
show that a block changes the standing by a function of the market of the step and
of the quantity alone (`After`), whatever RegimeAC observes and the accounts record
beside it; `AfterSame` that the market does not change between two turns of a step.
Within a step some strategies have had their turn and others have not: `Level` says
that two with as many turns and the same sales stand at the same place, `Ahead` that
one with a turn more stands where the other will if it sells the same. `TurnFair` is
the step of the induction, `BetweenSteps` its end: all have had the step, nobody is
ahead, and the market may change. The proof needs to know how long histories are, not
what prices, books and formulas return.

`StepInv` adds to it that the last record of a strategy is what it holds, hence the
next one is no higher, and that a run with a replay has exactly as many steps as
snapshots (`PathSetup`), hence the replay never runs out within a run and the series
aligned by the replay's position are aligned by the step too.

`TypeInv` has four parts: what was loaded (`LoadInv`), where `main` is and how many
paths are done, in all sweeps together (`SweepInv`: the progress told is
`NumPaths` times the grid values done), the channel, and the run (`RunInv`). That a
calibration yields a coefficient, and a rescaled book or a generated one a book, is
shown for the folds and divisions they are computed with.

`CostsConserved` speaks of sums over sequences the accounts append to. `CostInv`
says of every strategy that its accounts are those of its trades (`Trades`: one
realised cost and VPIN reading per trade, totals equal to the sums over them). Of
the labels it says nothing: which trades have one is what `research_labels` is about.
The split by VPIN and the shares of the regimes are folds whose parts add up
(`SumUnion`, `SumGroups`); the variance is non-negative because a sum of squares times its number of
terms is at least the square of the sum, which is proved along the sequence. To know that
every trade has a reading the estimator itself must stay what it is, through any volume
added to it (`EstimatorKept`).

`BooksSellFromTheTop` is a statement about one function at one moment, but about
every book. `FillSideConserves` follows the fold along the ladder: `Descended` and
`StillUntouched` say what one level does to what is left (`FillLevelDescends`). The
definition of the property sums a prefix of the ladder and compares prices across the last level
reached; that needs the ladder to be descending, which rescaling keeps
(`RescaledDescends`, divisions round the same way for all levels) and the generator
provides (`GeneratedDescends`); `OrderedInv` carries it from the file to the book of the step.

`LogTellsTheRun` is about everything that was ever told, wherever it is: printed, in the
channel or still with the sender, of which sending and printing move a part along
(`ToldStays`). `LogInv` has four parts. `TalkInv` knows who holds a sender: the main
thread until it closes the channel, the runner only during a debugged path; without
that, events would be missing between others. `PlaceInv` knows which paths are told of
where `main` stands. `ToldInv` says that what is told keeps its rules (`WellTold`) and
counts what has happened: brackets twice the paths done and one more while a path runs,
progress the paths of all sweeps begun, which needs `TypeInv` to stay below the total
(`SweepRoom`); it ends with the simulation's end from the closing of the channel on.
`MayFollow` states what may be told next and `WellToldAppended` that the rules survive it;
a lemma per telling step shows that what it tells may follow. `OrdersInv` relates the orders
since the last path began to what the strategies have left: an order counts for the one
strategy of its mode, and a forced liquidation, which is not told, happens in sweeps only
and leaves `remaining` alone.

`OutputsComplete` speaks of the end, so `OutInv` says how far everything is on the way
there. `ExportInv` follows a run: its strategies are those of the setup, its records are
numbers and hence no holes (`RunnerAssumption` keeps `None` apart from them), and a run
that is done has exported a line per price, the last of which is what the strategies
hold; for that `StepInv` gives the lengths, and no run that exports liquidates.
`PathsInv` follows the sums of the comparison, and of a summary only what it holds if there is
one: after `n` paths there are `n` shortfalls,
and the components add up to them, a strategy that never traded included
(`GatherAdds`, from `Books` of `CostInv`: without a trade there is no cost). `SheetsInv`
follows the sweeps: as many rows as grid values done times strategies, each over
`NumPaths` paths, and their statistics in order; a program that failed is exempt from
the counts, since `SheetFails` and `RowsFail` leave a sheet empty or cut short. That order is `StatisticsInOrder`.
`Sorted` is defined by ranks, not by a procedure, so that `Sums` can show that it
ascends and sums to the same (`RankExists`, `RankedOrder`, `RankedSum`); a percentile grows with its
rank although it interpolates and rounds down (`InterpolatedGrows`); and the tail below the
threshold is on average no better than what is above it, hence than the whole
(`SumBounded`, `Quotient`).

Only model-checked: all liveness (outside the prover's reach); of the event
simulator `NeverOversold` for slices larger than a fill, which depends on prices
coming between the ticks and is false without (`des_oversell`); and of the research
program what the readers make of a file (`FilesReadTrue`) and of a day's trades
(`SeriesCountTrades`): they compare sorts and filters of sequences, whose definitions
are recursions with an operator as parameter, with other ways to compute the same.
Arithmetic of `f64` is outside both.

## 5. Not modelled, and the plan

Not modelled: the formulas of the price simulators and of the impact models
beyond their shape (`sinh` schedules, GBM, GARCH, the counterfactual impact),
`volatility.rs`, skewness and kurtosis, the tables the programs print,
`bin/impact_comparison.rs` and `bin/audit.rs` (offline reports), building
calibration trades from candles, uploads, authentication, dashboards, the demo,
rendering, RL training.

Next, in this order:

1. `BatchedEnv`: the batch process with its shared market cache, the pipe
   protocol and `rl/batched_vec_env.py`'s auto-reset; slot independence, seeds
   used once, no slot stepped after a failed reset.
2. The adversary in `RlEpisode`: front-runner and withdrawer, the depth they
   take and give back, what of it survives a reset.
3. `ModelCache`: the locked LRU, two concurrent loads, eviction.
4. Proofs: `NeverOversold` for slices of several fills with enough prices between
   two ticks.
