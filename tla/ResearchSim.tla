---------------------------- MODULE ResearchSim ----------------------------
(***************************************************************************)
(* bin/research_sim.rs and research/experiments.rs: the research program   *)
(* from its command line to its exit.  It loads what the line names, then  *)
(* either compares the strategies path by path and sums them up, or sweeps *)
(* four parameters with a Monte Carlo block per value; a logger thread     *)
(* prints what the main thread tells it.                                   *)
(*                                                                         *)
(* A line is a record with a field for each option that is given; None is  *)
(* the value of an option whose value is missing or does not parse, and of *)
(* a file that cannot be opened.                                           *)
(***************************************************************************)
EXTENDS MultiRunner

CONSTANTS
  Lines,               \* command lines to consider
  Lineup,              \* the strategies without RegimeAC
  SigmaRef,            \* sigma_ref, liquidity and impact as SimParams has them
  BaseChunk,
  ImpactCoefficient,
  DefaultHorizon,
  PlaceholderBucket,   \* the VPIN bucket of a day of which nothing is known
  HorizonGrid, SliceGrid, VolatilityGrid, ImpactGrid,
  ForceComplete        \* SweepConfig: force_complete

ASSUME ResearchAssumption ==
  /\ Lineup \in Seq(STRING)
  /\ SigmaRef \in Nat \ {0}
  /\ {BaseChunk, ImpactCoefficient, DefaultHorizon, PlaceholderBucket} \subseteq Nat \ {0}
  /\ \A grid \in {HorizonGrid, SliceGrid, VolatilityGrid, ImpactGrid} :
       grid \in Seq(Nat \ {0}) /\ grid # <<>>
  /\ ForceComplete \in BOOLEAN

(* No two strategies have the same mode. *)
ASSUME LineupAssumption ==
  /\ \A i, j \in DOMAIN Lineup : Lineup[i] = Lineup[j] => i = j
  /\ \A i \in DOMAIN Lineup : Lineup[i] # "regime_ac"

(* The options that count and those that measure parse as their type or    *)
(* not at all, and the readers return what their types say.                *)
Counts == {"paths", "horizon", "debug_paths"}
Measures == {"sigma", "eta", "lambda", "bucket_size"}
Fits == [price_before : Int \cup {None}, price_after : Int \cup {None}, trade_size : Int \cup {None}]

ASSUME LinesAssumption ==
  \A l \in Lines :
    /\ \A option \in Counts \cap DOMAIN l : l[option] \in Nat \cup {None}
    /\ \A option \in Measures \cap DOMAIN l : l[option] \in Int \cup {None}
    /\ "calibrate" \in DOMAIN l => l.calibrate \in Seq(Fits) \cup {None}
    /\ "lob_data" \in DOMAIN l => LobFromCsv(l.lob_data) \in Seq(Snapshots) \cup {None}
    /\ "agg_trades" \in DOMAIN l => TradesFromCsv(l.agg_trades) \in Days \cup {None}

VARIABLES
  line,                \* the command line
  main,                \* where the main thread stands
  impact_coefficient,
  lob,                 \* the snapshots of --lob-data
  day,                 \* the trades of --agg-trades
  path_id,
  samples,             \* what the paths so far add up to, per strategy
  sweep, value,        \* the sweep, and the position in its grid
  progress_done,
  sheets,              \* the CSV files of the sweeps
  summary              \* summary.json

researchVars == <<line, main, impact_coefficient, lob, day, path_id, samples,
                  sweep, value, progress_done, sheets, summary>>
vars == <<researchVars, runnerVars, channelVars>>

-----------------------------------------------------------------------------
(* The options, one parse_ function each. *)
Given(option) == option \in DOMAIN line
Parsed(option, default) ==
  IF Given(option) /\ line[option] # None THEN line[option] ELSE default

NumPaths == Larger(1, Parsed("paths", 1))
Model == IF Given("model") /\ line.model = "garch" THEN "garch" ELSE "gbm"
DebugPath(path) == ~Given("debug_paths") \/ path < Parsed("debug_paths", 1)
Debug == Given("debug") \/ Given("debug_paths")
Progress == Given("progress")
Experiments == Given("experiments")
BucketSizeArg == Larger(0, Parsed("bucket_size", 0))
Sigma == Parsed("sigma", SigmaRef)
ValidParameters == Parsed("eta", 1) > 0 /\ Parsed("lambda", 1) >= 0 /\ Sigma >= 0
HorizonArg == Parsed("horizon", DefaultHorizon)
ResultsDir ==
  IF Given("results_dir") /\ line.results_dir = None THEN "blocked" ELSE "writable"

NewSamples ==
  [shortfalls |-> <<>>, objectives |-> <<>>, spread |-> 0, temporary |-> 0,
   permanent |-> 0, timing |-> 0, opportunity |-> 0, path_count |-> 0,
   trade_count |-> 0, avg_price |-> 0]

ResearchInit ==
  /\ line \in Lines
  /\ main = "calibrate"
  /\ impact_coefficient = ImpactCoefficient
  /\ lob = None
  /\ day = None
  /\ path_id = 0
  /\ samples = <<>>
  /\ sweep = 0
  /\ value = 0
  /\ progress_done = 0
  /\ sheets = <<>>
  /\ summary = None
  /\ RunnerInit
  /\ ChannelInit(Debug \/ Progress)

(* The main thread goes on when everything it had to tell is sent. *)
At(place) == main = place /\ outbox = <<>>

(* std::process::exit(1) takes the logger with it. *)
ExitOne ==
  /\ main' = "exit1"
  /\ LoggerDies
  /\ UNCHANGED <<outbox, queue, printed, senders>>

-----------------------------------------------------------------------------
(* CalibrationEngine: the mean coefficient over the trades that have one,  *)
(* from rows [price_before, price_after, trade_size].  One row that does   *)
(* not parse fails the file.                                               *)
CalibrationCsv(file) ==
  IF file = None \/ \E k \in DOMAIN file : None \in Range(file[k]) THEN None ELSE file

Calibrated(trades) ==
  LET valid == {k \in DOMAIN trades :
                  trades[k].trade_size > 0 /\ trades[k].price_before > 0 /\ Sigma > 0}
      y(t) == (200 * Distance(t.price_after, t.price_before))
                \div (t.price_before * Sigma * RootOf(t.trade_size)) IN
    IF valid = {} THEN None
    ELSE SumFunction([k \in valid |-> y(trades[k])]) \div Cardinality(valid)

Calibrate ==
  /\ At("calibrate")
  /\ LET trades == CalibrationCsv(line.calibrate) IN
       \/ /\ Given("calibrate") /\ trades = None
          /\ ExitOne
          /\ UNCHANGED impact_coefficient
       \/ /\ Given("calibrate") /\ trades # None
          /\ impact_coefficient' = IF Calibrated(trades) = None THEN impact_coefficient
                                   ELSE Calibrated(trades)
          /\ main' = "load_lob"
          /\ UNCHANGED channelVars
       \/ /\ ~Given("calibrate")
          /\ main' = "load_lob"
          /\ UNCHANGED <<impact_coefficient, channelVars>>
  /\ UNCHANGED <<line, lob, day, path_id, samples, sweep, value, progress_done, sheets, summary>>
  /\ UNCHANGED runnerVars

(* The file must be readable before the first path starts. *)
LoadLobData ==
  /\ At("load_lob")
  /\ IF Given("lob_data") /\ LobFromCsv(line.lob_data) = None
     THEN ExitOne /\ UNCHANGED lob
     ELSE /\ lob' = IF Given("lob_data") THEN LobFromCsv(line.lob_data) ELSE None
          /\ main' = "load_trades"
          /\ UNCHANGED channelVars
  /\ UNCHANGED <<line, impact_coefficient, day, path_id, samples,
                 sweep, value, progress_done, sheets, summary>>
  /\ UNCHANGED runnerVars

LoadAggTrades ==
  /\ At("load_trades")
  /\ IF Given("agg_trades") /\ TradesFromCsv(line.agg_trades) = None
     THEN ExitOne /\ UNCHANGED day
     ELSE /\ day' = IF Given("agg_trades") THEN TradesFromCsv(line.agg_trades) ELSE None
          /\ main' = IF Experiments THEN "next_sweep" ELSE "next_path"
          /\ UNCHANGED channelVars
  /\ UNCHANGED <<line, impact_coefficient, lob, path_id, samples,
                 sweep, value, progress_done, sheets, summary>>
  /\ UNCHANGED runnerVars

-----------------------------------------------------------------------------
(* Bug shape: the 0 of an option that is not given is taken for a size.    *)
EffectiveBucketSizeUnset ==
  IF day # None THEN CalibratedBucketSize(day, TargetBuckets) ELSE BucketSizeArg

(* The bucket of the VPIN: what the trades call for, else what the line    *)
(* says, else the placeholder.                                             *)
EffectiveBucketSize ==
  CASE day # None -> CalibratedBucketSize(day, TargetBuckets)
    [] day = None /\ BucketSizeArg > 0 -> BucketSizeArg
    [] OTHER -> PlaceholderBucket

FillMode ==
  CASE lob # None -> "historical"
    [] lob = None /\ Given("lob") -> "synthetic"
    [] OTHER -> "formula"

(* With a replay the horizon is its length, and TWAP sells one slice per   *)
(* snapshot.                                                               *)
MaxSteps == IF lob = None THEN HorizonArg ELSE Len(lob)
Slice == IF lob = None THEN BaseChunk ELSE Total \div Len(lob)

BuildStrategies == IF Given("include_regime_ac") THEN Append(Lineup, "regime_ac") ELSE Lineup

PathSetup ==
  [lineup |-> BuildStrategies, max_steps |-> MaxSteps, fill_mode |-> FillMode,
   model |-> Model, sigma |-> Sigma, base_chunk |-> Slice, impact |-> impact_coefficient,
   valid |-> ValidParameters, force_complete |-> FALSE, results |-> ResultsDir,
   snapshots |-> IF lob = None THEN <<>> ELSE lob,
   day |-> IF lob = None THEN None ELSE day, bucket |-> EffectiveBucketSize]

(* A path starts with strategies, a simulator and a replay of its own; its *)
(* runner tells of its events when the path is one to debug.               *)
StartPath ==
  /\ At("next_path")
  /\ path_id < NumPaths
  /\ NewRunner(PathSetup)
  /\ Emit("main", <<[kind |-> "PathStart", path |-> path_id]>>)
  /\ senders' = IF Debug /\ DebugPath(path_id) THEN senders \cup {"runner"} ELSE senders
  /\ samples' = IF path_id = 0 THEN [i \in DOMAIN BuildStrategies |-> NewSamples] ELSE samples
  /\ main' = "running"
  /\ UNCHANGED <<line, impact_coefficient, lob, day, path_id,
                 sweep, value, progress_done, sheets, summary, csv>>
  /\ UNCHANGED <<queue, printed, logger>>

(* The file of --lob-data is read again for every path, and may fail where *)
(* it did not before.                                                      *)
Reloading == main = "running" /\ lob # None /\ runner = "stepping" /\ step = 0 /\ turn = 0

(* An error of the reader or the runner ends the program: no summary is    *)
(* written.                                                                *)
RunFails ==
  /\ At("running") \/ At("sweep_running")
  /\ runner = "failed" \/ Reloading
  /\ ExitOne
  /\ UNCHANGED <<line, impact_coefficient, lob, day, path_id, samples,
                 sweep, value, progress_done, sheets, summary>>
  /\ UNCHANGED runnerVars

(* The sums over the paths; a strategy that never traded adds no costs and *)
(* no price, but counts as a path.                                         *)
Gather(a, m) ==
  LET d == IF m.trade_count = 0
           THEN [spread_cost |-> 0, temporary_impact |-> 0, permanent_impact |-> 0,
                 timing_cost |-> 0, opportunity_cost |-> 0]
           ELSE Decompose(m) IN
    [shortfalls  |-> Append(a.shortfalls, Shortfall(m)),
     objectives  |-> Append(a.objectives, AcObjective(m)),
     spread      |-> a.spread + d.spread_cost,
     temporary   |-> a.temporary + d.temporary_impact,
     permanent   |-> a.permanent + d.permanent_impact,
     timing      |-> a.timing + d.timing_cost,
     opportunity |-> a.opportunity + d.opportunity_cost,
     path_count  |-> a.path_count + 1,
     trade_count |-> a.trade_count + m.trade_count,
     avg_price   |-> a.avg_price + (IF Vwap(m) = None THEN 0 ELSE Vwap(m))]

PathEvents ==
  <<[kind |-> "PathEnd", path |-> path_id]>> \o
  (IF Progress THEN <<[kind |-> "Progress", completed |-> path_id + 1, total |-> NumPaths]>>
   ELSE <<>>)

(* The runner and its sender are dropped with the path. *)
EndPath ==
  /\ At("running")
  /\ runner = "done"
  /\ samples' = [i \in DOMAIN samples |-> Gather(samples[i], strategies[i].metrics)]
  /\ Emit("main", PathEvents)
  /\ senders' = senders \ {"runner"}
  /\ path_id' = path_id + 1
  /\ main' = "next_path"
  /\ UNCHANGED <<line, impact_coefficient, lob, day, sweep, value, progress_done, sheets, summary>>
  /\ UNCHANGED runnerVars
  /\ UNCHANGED <<queue, printed, logger>>

SummaryOf(a) ==
  LET sf == DistributionStats(a.shortfalls)
      ac == DistributionStats(a.objectives)
      mean(sum) == sum \div a.path_count IN
    [mean_is |-> sf.mean, is_variance |-> sf.variance, cvar95 |-> sf.cvar_95,
     ac_objective |-> ac.mean, trade_count |-> mean(a.trade_count),
     avg_exec_price |-> mean(a.avg_price),
     cost_decomposition |->
       [spread_cost |-> mean(a.spread), temporary_impact |-> mean(a.temporary),
        permanent_impact |-> mean(a.permanent), timing_cost |-> mean(a.timing),
        opportunity_cost |-> mean(a.opportunity)]]

(* Whether summary.json could be opened and written is not asked: with or  *)
(* without it the program goes on to its end.                              *)
Summarise ==
  /\ At("next_path")
  /\ path_id = NumPaths
  /\ \/ summary' = [i \in DOMAIN samples |-> SummaryOf(samples[i])]
     \/ summary' = None
  /\ main' = "teardown"
  /\ UNCHANGED <<line, impact_coefficient, lob, day, path_id, samples,
                 sweep, value, progress_done, sheets>>
  /\ UNCHANGED runnerVars
  /\ UNCHANGED channelVars

-----------------------------------------------------------------------------
(* run_all_sweeps: the grids in their order. *)
Grids == <<HorizonGrid, SliceGrid, VolatilityGrid, ImpactGrid>>
Grid == Grids[sweep]
TotalPaths == NumPaths * SumOf([k \in DOMAIN Grids |-> Len(Grids[k])])

(* SweepConfig::default with the value of the grid in its place. *)
SweepSetup ==
  LET default ==
        [lineup |-> Lineup, max_steps |-> DefaultHorizon, fill_mode |-> "formula",
         model |-> "gbm", sigma |-> SigmaRef, base_chunk |-> BaseChunk,
         impact |-> ImpactCoefficient, valid |-> TRUE, force_complete |-> ForceComplete,
         results |-> "none", snapshots |-> <<>>, day |-> None, bucket |-> None] IN
    CASE sweep = 1 -> [default EXCEPT !.max_steps = Grid[value]]
      [] sweep = 2 -> [default EXCEPT !.base_chunk = Larger(1, Total \div Grid[value])]
      [] sweep = 3 -> [default EXCEPT !.sigma = Grid[value]]
      [] sweep = 4 -> [default EXCEPT !.impact = Grid[value]]

(* A sweep truncates its file; after the last the program is done. *)
NextSweep ==
  /\ At("next_sweep")
  /\ IF sweep = Len(Grids)
     THEN /\ main' = "teardown"
          /\ UNCHANGED <<sweep, value, sheets, path_id, samples>>
     ELSE /\ sweep' = sweep + 1
          /\ value' = 1
          /\ sheets' = Append(sheets, <<>>)
          /\ path_id' = 0
          /\ samples' = [i \in DOMAIN Lineup |-> NewSamples]
          /\ main' = "next_sweep_path"
  /\ UNCHANGED <<line, impact_coefficient, lob, day, progress_done, summary>>
  /\ UNCHANGED runnerVars
  /\ UNCHANGED channelVars

(* The directory, the file or its header cannot be written. *)
SheetFails ==
  /\ At("next_sweep")
  /\ sweep < Len(Grids)
  /\ sheets' \in {sheets, Append(sheets, <<>>)}
  /\ ExitOne
  /\ UNCHANGED <<line, impact_coefficient, lob, day, path_id, samples,
                 sweep, value, progress_done, summary>>
  /\ UNCHANGED runnerVars

(* A path of a sweep is told as completed when it begins. *)
StartSweepPath ==
  /\ At("next_sweep_path")
  /\ path_id < NumPaths
  /\ NewRunner(SweepSetup)
  /\ Emit("main", <<[kind |-> "Progress", completed |-> progress_done + path_id + 1,
                     total |-> TotalPaths]>>)
  /\ main' = "sweep_running"
  /\ UNCHANGED <<line, impact_coefficient, lob, day, path_id, samples,
                 sweep, value, progress_done, sheets, summary, csv>>
  /\ UNCHANGED <<queue, printed, senders, logger>>

EndSweepPath ==
  /\ At("sweep_running")
  /\ runner = "done"
  /\ samples' = [i \in DOMAIN samples |->
                   [samples[i] EXCEPT !.shortfalls = Append(@, Shortfall(strategies[i].metrics)),
                                      !.objectives = Append(@, AcObjective(strategies[i].metrics))]]
  /\ path_id' = path_id + 1
  /\ main' = "next_sweep_path"
  /\ UNCHANGED <<line, impact_coefficient, lob, day, sweep, value, progress_done, sheets, summary>>
  /\ UNCHANGED runnerVars
  /\ UNCHANGED channelVars

(* write_sweep_rows *)
SweepRow(i) ==
  [parameter_value |-> Grid[value], strategy |-> Lineup[i], num_paths |-> NumPaths,
   shortfall |-> DistributionStats(samples[i].shortfalls),
   ac_objective |-> DistributionStats(samples[i].objectives)]

SweepRows == [i \in DOMAIN Lineup |-> SweepRow(i)]

EndConfig ==
  /\ At("next_sweep_path")
  /\ path_id = NumPaths
  /\ sheets' = [sheets EXCEPT ![sweep] = @ \o SweepRows]
  /\ progress_done' = progress_done + NumPaths
  /\ path_id' = 0
  /\ samples' = [i \in DOMAIN Lineup |-> NewSamples]
  /\ value' = IF value = Len(Grid) THEN value ELSE value + 1
  /\ main' = IF value = Len(Grid) THEN "next_sweep" ELSE "next_sweep_path"
  /\ UNCHANGED <<line, impact_coefficient, lob, day, sweep, summary>>
  /\ UNCHANGED runnerVars
  /\ UNCHANGED channelVars

(* One of the rows cannot be written: those before it are in the file. *)
RowsFail ==
  /\ At("next_sweep_path")
  /\ path_id = NumPaths
  /\ \E n \in 0 .. Len(Lineup) - 1 :
       sheets' = [sheets EXCEPT ![sweep] = @ \o SubSeq(SweepRows, 1, n)]
  /\ progress_done' = progress_done + NumPaths
  /\ ExitOne
  /\ UNCHANGED <<line, impact_coefficient, lob, day, path_id, samples, sweep, value, summary>>
  /\ UNCHANGED runnerVars

-----------------------------------------------------------------------------
(* The teardown: say so, close the channel, wait for the logger. *)
Teardown ==
  /\ At("teardown")
  /\ Emit("main", <<[kind |-> "SimulationEnd"]>>)
  /\ main' = "closing"
  /\ UNCHANGED <<line, impact_coefficient, lob, day, path_id, samples,
                 sweep, value, progress_done, sheets, summary>>
  /\ UNCHANGED runnerVars
  /\ UNCHANGED <<queue, printed, senders, logger>>

CloseChannel ==
  /\ At("closing")
  /\ senders' = senders \ {"main"}
  /\ main' = "joining"
  /\ UNCHANGED <<line, impact_coefficient, lob, day, path_id, samples,
                 sweep, value, progress_done, sheets, summary>>
  /\ UNCHANGED runnerVars
  /\ UNCHANGED <<outbox, queue, printed, logger>>

Join ==
  /\ At("joining")
  /\ logger \in {"none", "ended"}
  /\ main' = "exit0"
  /\ UNCHANGED <<line, impact_coefficient, lob, day, path_id, samples,
                 sweep, value, progress_done, sheets, summary>>
  /\ UNCHANGED runnerVars
  /\ UNCHANGED channelVars

-----------------------------------------------------------------------------
MainStep ==
  \/ Calibrate \/ LoadLobData \/ LoadAggTrades
  \/ StartPath \/ EndPath \/ RunFails \/ Summarise
  \/ NextSweep \/ SheetFails \/ StartSweepPath \/ EndSweepPath \/ EndConfig \/ RowsFail
  \/ Teardown \/ CloseChannel \/ Join

RunStep == RunnerStep /\ UNCHANGED researchVars
SendStep == SendEvent /\ UNCHANGED <<researchVars, runnerVars>>
LogStep == (PrintEvent \/ LoggerEnds) /\ UNCHANGED <<researchVars, runnerVars>>

Ended == main \in {"exit0", "exit1"}
Over == Ended \/ runner = "spinning"

ResearchNext ==
  \/ ~Ended /\ (MainStep \/ RunStep \/ SendStep \/ LogStep)
  \/ Over /\ UNCHANGED vars

(* The main thread waits for room in the channel, and for the logger.      *)
MainReady ==
  /\ ~Over
  /\ outbox # <<>> => Len(queue) < ChannelCapacity
  /\ main = "joining" => logger \in {"none", "ended"}

(* The operating system runs both threads.  For the main thread this is    *)
(* weak fairness of its steps, written out: it has one whenever it is      *)
(* ready, since no state but those of Over is a deadlock.                  *)
MainRuns == []<>~MainReady \/ []<><<TRUE>>_<<researchVars, runnerVars, outbox>>

ResearchSpec ==
  /\ ResearchInit
  /\ [][ResearchNext]_vars
  /\ MainRuns
  /\ WF_vars(~Ended /\ LogStep)

-----------------------------------------------------------------------------
(* The types: a strategy never sells more than it has (Scheduler), the     *)
(* channel never holds more than its bound (logger.rs), a path and a step  *)
(* stay within the loops of main and of run.                               *)
ResearchTypeOK ==
  /\ main \in {"calibrate", "load_lob", "load_trades", "next_path", "running",
               "next_sweep", "next_sweep_path", "sweep_running",
               "teardown", "closing", "joining", "exit0", "exit1"}
  /\ runner \in {"idle", "stepping", "spinning", "closing", "done", "failed"}
  /\ Len(queue) <= ChannelCapacity
  /\ senders \subseteq {"main", "runner"}
  /\ path_id \in 0 .. NumPaths
  /\ sweep \in 0 .. Len(Grids)
  /\ progress_done \in 0 .. TotalPaths
  /\ impact_coefficient \in Nat
  /\ setup # None => step \in 0 .. setup.max_steps
  /\ turn \in 0 .. Len(strategies) + 1
  /\ \A i \in DOMAIN strategies :
       /\ strategies[i].remaining \in 0 .. Total
       /\ strategies[i].completed \in BOOLEAN

(* The snapshots a run replays are those of its file: tall rows are        *)
(* grouped, sorted and differenced without losing depth (lob_replay.rs     *)
(* parse_binance_tall, diff_levels), and the order of the columns of a     *)
(* wide file does not matter (parse_wide).                                 *)
FilesReadTrue ==
  main = "load_trades" /\ lob # None =>
    LET file == line.lob_data
        mirrored == [file EXCEPT !.levels = Reverse(@),
                                 !.rows = [k \in DOMAIN @ |-> [@[k] EXCEPT !.cells = Reverse(@)]]] IN
      IF IsBinanceTall(file) THEN ReadsTheTallFile(file) ELSE ParseWide(mirrored) = lob

(* The series a run aligns with its snapshots count every trade of the day *)
(* once, and agree with each other (agg_trades.rs, three ways to cut the   *)
(* same trades into windows).                                              *)
SeriesCountTrades ==
  main = "next_path" /\ path_id = 0 /\ lob # None /\ day # None =>
    SeriesCountTheTrades(day, SnapshotTimestamps(lob))

(* Whatever a strategy sells into the book of a step, rescaled or          *)
(* generated, it sells from the best level down and neither makes nor      *)
(* loses depth or money (order_book.rs fill_side).                         *)
BooksSellFromTheTop ==
  runner = "stepping" /\ turn = 1 /\ setup.fill_mode # "formula" =>
    \A quantity \in 0 .. Total : SellsFromTheTop(BookFor(seen.price).bids, quantity)

(* The accounts of every strategy are conserved: the cost components add   *)
(* up to the total that decompose asserts (metrics.rs), forced liquidation *)
(* included, and the VPIN readings match the trades (multi_runner.rs       *)
(* 481-495).                                                               *)
CostsConserved ==
  \A i \in DOMAIN strategies :
    Conserved(strategies[i].metrics, setup.fill_mode = "historical" \/ setup.bucket # None)

(* A strategy that labels trades labels each of them, so that the label    *)
(* and the cost at the same place are of the same trade (metrics.rs 71-72, *)
(* is_by_regime).  The code does otherwise: a trade of the warm-up has a   *)
(* cost and no label.                                                      *)
LabelsAligned ==
  \A i \in DOMAIN strategies :
    LET m == strategies[i].metrics IN
      m.regime_at_execution # <<>> => DOMAIN m.regime_at_execution = DOMAIN m.per_trade_cost

(* A strategy was liquidated by force at the end of its run. *)
Forced(s) == runner \in {"done", "failed"} /\ setup.force_complete /\ s.remaining > 0

(* What the scheduler has left and what the accounts have executed add up  *)
(* to the order at every moment, and to the order in full after a forced   *)
(* liquidation; complete means that at most dust is left                   *)
(* (multi_runner.rs 376-539, metrics.rs).                                  *)
InventoryAgrees ==
  \A i \in DOMAIN strategies :
    LET s == strategies[i] IN
      /\ s.remaining \in 0 .. Total
      /\ s.metrics.total_executed = IF Forced(s) THEN Total ELSE Total - s.remaining
      /\ s.completed => s.remaining <= Dust \/ Forced(s)
      /\ Forced(s) => s.completed

(* The comparison is fair: strategies that sold the same quantities in the *)
(* same steps of a path have paid the same, whatever the others did before *)
(* them in the step (multi_runner.rs: one snapshot per step, cloned per    *)
(* strategy; impact per strategy).                                         *)
FairComparison ==
  \A i, j \in DOMAIN history :
    \A k \in (DOMAIN history[i]) \cap (DOMAIN history[j]) :
      (\A n \in 1 .. k : history[i][n].remaining = history[j][n].remaining)
        => history[i][k].cost = history[j][k].cost

(* Records, prices and snapshots are those of the same step. *)
InStep ==
  /\ runner = "stepping" =>
       /\ Len(prices) = step + (IF turn > 0 THEN 1 ELSE 0)
       /\ \A i \in DOMAIN history : Len(history[i]) = step + (IF i < turn THEN 1 ELSE 0)
       /\ setup.fill_mode = "historical" => cursor = Len(prices)
  /\ \A i \in DOMAIN history : \A k \in 2 .. Len(history[i]) :
       history[i][k].remaining <= history[i][k - 1].remaining

StatsOrdered(d) ==
  /\ d.min <= d.cvar_95 /\ d.cvar_95 <= d.mean /\ d.mean <= d.max
  /\ d.min <= d.var_95 /\ d.var_95 <= d.median /\ d.median <= d.max

ComparisonOutputs ==
  /\ summary # None => DOMAIN summary = DOMAIN BuildStrategies
  /\ \A i \in DOMAIN samples :
       LET a == samples[i] IN
         /\ Len(a.shortfalls) = NumPaths /\ a.path_count = NumPaths
         /\ a.spread + a.temporary + a.permanent + a.timing + a.opportunity = SumOf(a.shortfalls)
  /\ Len(csv) = Len(prices)
  /\ \A k \in DOMAIN csv : \A i \in DOMAIN strategies : csv[k].cells[i] # None
  /\ csv # <<>> => \A i \in DOMAIN strategies : Last(csv).cells[i] = Record(strategies[i])

SweepOutputs ==
  /\ progress_done = TotalPaths
  /\ Len(sheets) = Len(Grids)
  /\ \A s \in DOMAIN Grids :
       /\ Len(sheets[s]) = Len(Grids[s]) * Len(Lineup)
       /\ \A r \in DOMAIN sheets[s] :
            /\ sheets[s][r].shortfall.count = NumPaths
            /\ StatsOrdered(sheets[s][r].shortfall)
            /\ StatsOrdered(sheets[s][r].ac_objective)

(* A program that ends well leaves nothing half done, whatever failed to   *)
(* be written: sums over all paths whose components explain the            *)
(* shortfalls, in the summary if there is one, and a comparison.csv        *)
(* without holes although strategies complete at different steps, or four  *)
(* sheets with every row of every value (research_sim.rs 889-942,          *)
(* experiments.rs, export_csv); on the way there history, prices and       *)
(* replay stay in step.                                                    *)
OutputsComplete ==
  /\ InStep
  /\ main = "exit0" => IF Experiments THEN SweepOutputs ELSE ComparisonOutputs

(* The events of some kinds, and which of them an event is. *)
OfKind(kinds) == {k \in DOMAIN Told : Told[k].kind \in kinds}
Place(k, kinds) == Cardinality({j \in OfKind(kinds) : j <= k})

(* What the orders of a strategy add up to since the last path began. *)
Orders(mode) ==
  {k \in OfKind({"SubmitOrder"}) :
     Told[k].strategy = mode /\ \A j \in OfKind({"PathStart"}) : j < k}
Submitted(mode) == SumFunction([k \in Orders(mode) |-> Told[k].qty])

(* What the logger is told is what happens, in the order in which it       *)
(* happens: paths open and close in turn, an order is followed by its own  *)
(* fill, the orders of a debugged path add up to what its strategies sold, *)
(* progress counts one by one and stays at most one path ahead; and all of *)
(* it is printed when the program ends well (logger.rs, event.rs).         *)
LogTellsTheRun ==
  /\ \A k \in OfKind({"PathStart", "PathEnd"}) :
       LET n == Place(k, {"PathStart", "PathEnd"}) IN
         Told[k] = [kind |-> IF n % 2 = 1 THEN "PathStart" ELSE "PathEnd",
                    path |-> (n - 1) \div 2]
  /\ \A k \in OfKind({"OrderFilled"}) :
       /\ k > 1
       /\ Told[k - 1].kind = "SubmitOrder"
       /\ Told[k - 1].id = Told[k].id /\ Told[k - 1].qty = Told[k].qty
  /\ "runner" \in senders =>
       \A i \in DOMAIN strategies :
         Submitted(strategies[i].mode) = Total - strategies[i].remaining
  /\ \A k \in OfKind({"Progress"}) :
       /\ Told[k].completed = Place(k, {"Progress"})
       /\ Told[k].completed <= Told[k].total
  /\ Cardinality(OfKind({"Progress"})) <=
       (IF Experiments THEN progress_done + path_id + 1 ELSE path_id)
  /\ main = "exit0" /\ logger # "none" =>
       /\ queue = <<>> /\ Last(printed).kind = "SimulationEnd"
       /\ Experiments \/ Cardinality(OfKind({"PathEnd"})) = NumPaths

(* The program ends: the bounded channel, the join and the errors never    *)
(* leave both threads waiting.  The one exception is add_trade's loop,     *)
(* which never ends on a bucket calibrated from a day without volume       *)
(* (vpin.rs 88-98, research_sim.rs 667-682).                               *)
ResearchEnds == <>(Ended \/ (runner = "spinning" /\ day # None /\ TotalVolume(day) = 0))
=============================================================================
