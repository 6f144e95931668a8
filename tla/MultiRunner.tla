---------------------------- MODULE MultiRunner ----------------------------
(***************************************************************************)
(* research/multi_runner.rs: several strategies sell the same inventory    *)
(* against one simulated price path, step by step and in turn, each with   *)
(* its own price impact and cost accounts, all of them against the same    *)
(* snapshot of the book.                                                   *)
(*                                                                         *)
(* A price is in ticks, a volatility and a fraction in percent, and        *)
(* inventory is counted in units: Dust is the inventory below which the    *)
(* runner calls a strategy complete although its scheduler is not.  Of the *)
(* strategies only TWAP has its quantity computed; the others sell         *)
(* anything the Scheduler module allows them, 0 .. remaining.              *)
(***************************************************************************)
EXTENDS LobReplay, AggTrades, Metrics, DebugChannel

CONSTANTS
  Prices,          \* what the price simulator may return
  Volatilities,    \* what the GARCH volatility may be
  ArrivalPrice,
  Total,           \* total_notional
  Gamma,           \* permanent impact of selling all of it
  Dust,            \* 1e-6
  MaxAge,          \* steps until an impact has decayed to nothing
  Warmup,          \* warmup_steps of RegimeAC
  TargetBuckets    \* VPIN buckets per day, and the window of the estimate

(* What RegimeAC calls a volatility and a spread. *)
RegimeLabels == {"low", "normal", "high"}

ASSUME RunnerAssumption ==
  /\ Prices \subseteq Nat \ {0}
  /\ Volatilities \subseteq Nat \ {0}
  /\ ArrivalPrice \in Nat \ {0}
  /\ Total \in Nat \ {0}
  /\ Gamma \in Nat
  /\ Dust \in Nat
  /\ MaxAge \in Nat \ {0}
  /\ Warmup \in Nat \ {0}
  /\ TargetBuckets \in Nat \ {0}
  /\ None \notin RegimeLabels \X RegimeLabels
  /\ None \notin [remaining : Int, cost : Int]

VARIABLES
  setup,           \* what the run was built from, see NewRunner
  runner,          \* "idle", "stepping", "spinning", "closing", "done", "failed"
  strategies,      \* the StrategyInstances in order, with their price_adjustment
  history,         \* a sequence of StepRecords per strategy
  prices,
  step,
  turn,            \* whose turn it is within the step, 0 between steps
  seen,            \* what the step has fixed for all strategies
  cursor,          \* snapshots taken from the replay
  vpin,            \* the VpinCalculator, None when there is none
  csv              \* comparison.csv: the last export, None before the first

runnerVars == <<setup, runner, strategies, history, prices, step, turn, seen, cursor, vpin, csv>>

NewStrategy(mode) ==
  [mode |-> mode, remaining |-> Total, completed |-> FALSE,
   metrics |-> NewMetrics(ArrivalPrice, Total),
   transient |-> <<>>, adjustment |-> 0, blocks |-> 0,
   sigma_warmup |-> <<>>, spread_warmup |-> <<>>, spread_ref |-> 0,
   current_regime |-> None]

NothingSeen == [price |-> None, volatility |-> None, vpin |-> 0, snapshot |-> None, half_spread |-> 0]

RunnerInit ==
  /\ setup = None
  /\ runner = "idle"
  /\ strategies = <<>>
  /\ history = <<>>
  /\ prices = <<>>
  /\ step = 0
  /\ turn = 0
  /\ seen = NothingSeen
  /\ cursor = 0
  /\ vpin = None
  /\ csv = None

(* new and the with_ builders, from a setup [lineup, max_steps, fill_mode, *)
(* model, sigma, base_chunk, impact, valid, force_complete, results,       *)
(* snapshots, day, bucket], then the head of run.  results is where the    *)
(* history goes: "none", "writable" or "blocked".                          *)
NewRunner(s) ==
  /\ setup' = s
  /\ runner' = "stepping"
  /\ strategies' = [i \in DOMAIN s.lineup |-> NewStrategy(s.lineup[i])]
  /\ history' = [i \in DOMAIN s.lineup |-> <<>>]
  /\ prices' = <<>>
  /\ step' = 0
  /\ turn' = 0
  /\ seen' = NothingSeen
  /\ cursor' = 0
  /\ vpin' = IF s.bucket = None THEN None ELSE NewCalculator(s.bucket, TargetBuckets)

-----------------------------------------------------------------------------
(* The VPIN of a step: the trades' series, else the series of the depth    *)
(* changes, each at the position of the replay or its last entry.          *)
RealVpinSeries ==
  IF setup.day = None THEN <<>>
  ELSE BuildVpinSeries(setup.day, SnapshotTimestamps(setup.snapshots),
                       CalibratedBucketSize(setup.day, TargetBuckets), TargetBuckets)

HistoricalVpin ==
  LET at(series) == series[Smaller(cursor + 1, Len(series))] IN
    CASE RealVpinSeries # <<>> -> at(RealVpinSeries)
      [] RealVpinSeries = <<>> /\ ComputeVpinSeries(setup.snapshots) # <<>>
           -> at(ComputeVpinSeries(setup.snapshots))
      [] OTHER -> 0

(* Without historical data the estimator is fed an even share of the       *)
(* inventory at each step but the first.                                   *)
Historical == setup.fill_mode = "historical"
VolumeProxy == IF setup.max_steps = 0 THEN 0 ELSE Total \div setup.max_steps
Fed == ~Historical /\ vpin # None /\ prices # <<>>
NextVpin(price) == IF Fed THEN AddTrade(vpin, price, VolumeProxy, Last(prices)) ELSE vpin

VpinOfStep(price) ==
  CASE Historical -> HistoricalVpin
    [] ~Historical /\ vpin # None -> VpinOrZero(NextVpin(price))
    [] OTHER -> 0

(* next_snapshot: one per step for all strategies, None past the end. *)
SnapshotLeft == Historical /\ cursor < Len(setup.snapshots)
NextSnapshot == IF SnapshotLeft THEN setup.snapshots[cursor + 1] ELSE None

SpreadProxy(price, volatility) == (price * volatility) \div 200

StepHalfSpread(price, volatility) ==
  IF NextSnapshot = None THEN SpreadProxy(price, volatility)
  ELSE HalfSpread(Rescale(NextSnapshot, price, MidPrice(NextSnapshot)))

(* The simulators: the volatility of GbmSimulator never changes. *)
Simulated == Prices \X (IF setup.model = "garch" THEN Volatilities ELSE {setup.sigma})

(* The estimator may have buckets of size zero: then it never returns.     *)
Spins == Fed /\ Endless(vpin, VolumeProxy)

BeginStep ==
  /\ runner = "stepping" /\ turn = 0 /\ outbox = <<>>
  /\ step < setup.max_steps
  /\ ~Spins
  /\ \E sample \in Simulated :
       LET price == sample[1]
           volatility == sample[2] IN
         /\ prices' = Append(prices, price)
         /\ vpin' = NextVpin(price)
         /\ seen' = [price |-> price, volatility |-> volatility, vpin |-> VpinOfStep(price),
                     snapshot |-> NextSnapshot,
                     half_spread |-> StepHalfSpread(price, volatility)]
         /\ Emit("runner", <<[kind |-> "PriceUpdate", price |-> price]>>)
  /\ cursor' = IF SnapshotLeft THEN cursor + 1 ELSE cursor
  /\ turn' = 1
  /\ UNCHANGED <<setup, runner, strategies, history, step, csv>>
  /\ UNCHANGED <<queue, printed, senders, logger>>

Spin ==
  /\ runner = "stepping" /\ turn = 0 /\ outbox = <<>>
  /\ step < setup.max_steps
  /\ Spins
  /\ runner' = "spinning"
  /\ UNCHANGED <<setup, strategies, history, prices, step, turn, seen, cursor, vpin, csv>>
  /\ UNCHANGED channelVars

-----------------------------------------------------------------------------
(* RegimeAC: the first spread that is seen, then the means over the        *)
(* warm-up, are what it measures the market against.  (That a reference    *)
(* equal to half the volatility counts as not yet set is left out.)        *)
Mean(values) == SumOf(values) \div Len(values)
WarmedUp(s) == Len(s.sigma_warmup) >= Warmup

Regime(s) ==
  LET against(value, ref, low, high) ==
        CASE 10 * value < low * ref -> "low"
          [] 10 * value > high * ref -> "high"
          [] OTHER -> "normal" IN
    <<against(seen.volatility, Mean(s.sigma_warmup), 6, 14),
      against(seen.half_spread, s.spread_ref, 7, 13)>>

(* set_half_spread and the observing part of on_block: during the warm-up  *)
(* there is no regime.                                                     *)
Observe(s) ==
  LET ref == IF s.spread_ref = 0 THEN seen.half_spread ELSE s.spread_ref
      sigmas == Append(s.sigma_warmup, seen.volatility)
      spreads == IF seen.half_spread > 0 THEN Append(s.spread_warmup, seen.half_spread)
                 ELSE s.spread_warmup
      calibrates == Len(sigmas) >= Warmup /\ spreads # <<>> IN
    IF WarmedUp(s) THEN [s EXCEPT !.spread_ref = ref,
                                  !.current_regime = Regime([s EXCEPT !.spread_ref = ref])]
    ELSE [s EXCEPT !.sigma_warmup = sigmas, !.spread_warmup = spreads,
                   !.spread_ref = IF calibrates THEN Mean(spreads) ELSE ref]

-----------------------------------------------------------------------------
(* SquareRootImpact and TransientImpactTracker: an impact grows with the   *)
(* square root of the trade and halves with every step; what is older than *)
(* MaxAge is forgotten when the next trade is recorded.                    *)
RootOf(n) == Max({k \in 0 .. n : k * k <= n})
BaseImpact(traded) == (setup.impact * seen.volatility * RootOf(traded)) \div 2

CurrentImpact(s) ==
  SumOf([k \in DOMAIN s.transient |->
           s.transient[k].base \div (2 ^ Larger(0, step - s.transient[k].step))])

(* What a trade leaves of the impacts before it, see record_trade. *)
Unforgotten(transient, now) ==
  FoldLeft(LAMBDA kept, e : IF now - e.step < MaxAge THEN Append(kept, e) ELSE kept,
           <<>>, transient)

RecordImpact(s, base) ==
  IF base <= 0 THEN s
  ELSE [s EXCEPT !.transient = Unforgotten(Append(@, [step |-> step, base |-> base]), step)]

(* Bug shape: the strategies share one permanent impact. *)
EffectivePriceShared(s) == (seen.price * (100 - strategies[1].adjustment)) \div 100

(* The price of the path less the permanent impact of the own trades. *)
EffectivePrice(s) == (seen.price * (100 - s.adjustment)) \div 100

(* The book a strategy sells into: a copy of the snapshot at the scale of  *)
(* the simulated price, or a generated one when there is none.             *)
BookFor(mid) ==
  IF seen.snapshot = None THEN GenerateLob(mid, seen.volatility)
  ELSE Rescale(seen.snapshot, mid, MidPrice(seen.snapshot))

(* What the book could not fill is not told apart: the runner books all of *)
(* it at the average price of what was filled.                             *)
BookFill(mid, traded) ==
  LET fill == FillMarketSell(BookFor(mid), traded) IN
    [exec_price  |-> IF fill.filled_qty > 0 THEN fill.avg_fill_price ELSE mid,
     half_spread |-> fill.real_spread_cost \div traded,
     temporary   |-> (100 * Distance(fill.slippage_from_mid, 0)) \div Larger(mid, 1)]

FormulaFill(s) ==
  [exec_price  |-> (seen.price * (100 - s.adjustment - CurrentImpact(s))) \div 100,
   half_spread |-> SpreadProxy(seen.price, seen.volatility),
   temporary   |-> CurrentImpact(s)]

FillOf(s, traded) ==
  IF setup.fill_mode = "formula" THEN FormulaFill(s) ELSE BookFill(EffectivePrice(s), traded)

DeltaPermanent(traded) == (Gamma * traded) \div Total

TradeOf(s, traded) ==
  [quantity |-> traded, market_price |-> EffectivePrice(s),
   slippage_cost |-> FillOf(s, traded).exec_price - EffectivePrice(s),
   temporary |-> FillOf(s, traded).temporary, permanent |-> DeltaPermanent(traded),
   raw_price |-> seen.price, half_spread |-> FillOf(s, traded).half_spread]

(* The accounts after a trade: the trade, the VPIN it was made at, and the *)
(* regime when the strategy knows one.                                     *)
BookTrade(s, traded) ==
  LET m == RecordTrade(s.metrics, TradeOf(s, traded))
      v == IF Historical \/ vpin # None THEN RecordVpin(m, seen.vpin) ELSE m IN
    IF s.current_regime = None THEN v ELSE RecordRegime(v, s.current_regime)

Sold(s, traded) ==
  [RecordImpact(s, BaseImpact(traded)) EXCEPT
     !.metrics = BookTrade(s, traded), !.adjustment = @ + DeltaPermanent(traded)]

(* Bug shape: a strategy that is complete gives up its dust. *)
AfterBlockDropsDust(s, traded) ==
  LET watched == IF s.mode = "regime_ac" THEN Observe(s) ELSE s
      risked == [watched EXCEPT !.metrics = RecordRiskStep(@, s.remaining, seen.volatility),
                                !.blocks = 1]
      sold == IF traded > 0 THEN Sold(risked, traded) ELSE risked
      left == s.remaining - traded IN
    [sold EXCEPT !.remaining = IF left <= Dust THEN 0 ELSE left, !.completed = left <= Dust]

(* One block of a strategy: it watches the market, sells, and is complete  *)
(* when only dust is left.                                                 *)
AfterBlock(s, traded) ==
  LET watched == IF s.mode = "regime_ac" THEN Observe(s) ELSE s
      risked == [watched EXCEPT !.metrics = RecordRiskStep(@, s.remaining, seen.volatility),
                                !.blocks = 1]
      sold == IF traded > 0 THEN Sold(risked, traded) ELSE risked IN
    [sold EXCEPT !.remaining = @ - traded, !.completed = s.remaining - traded <= Dust]

Record(s) == [remaining |-> s.remaining, cost |-> s.metrics.cumulative_cost]

(* Bug shape: the last slice is not cut to what is left. *)
ChunksUncut(s) == IF s.mode = "twap" THEN {setup.base_chunk} ELSE 0 .. s.remaining

Chunks(s) ==
  {traded \in 0 .. s.remaining :
     s.mode = "twap" => traded = Smaller(setup.base_chunk, s.remaining)}

TradeEvents(s, traded) ==
  IF traded = 0 THEN <<>>
  ELSE <<[kind |-> "SubmitOrder", id |-> step, strategy |-> s.mode, qty |-> traded],
         [kind |-> "OrderFilled", id |-> step, qty |-> traded,
          price |-> FillOf(s, traded).exec_price]>>

HasTurn(i) == runner = "stepping" /\ turn = i /\ outbox = <<>>

(* Bug shape: a strategy that is complete is passed over. *)
CarryForwardSkips ==
  \E i \in DOMAIN strategies :
    /\ HasTurn(i)
    /\ strategies[i].completed
    /\ turn' = turn + 1
    /\ UNCHANGED <<setup, runner, strategies, history, prices, step, seen, cursor, vpin, csv>>
    /\ UNCHANGED channelVars

(* A strategy that is complete repeats its last record. *)
CarryForward ==
  \E i \in DOMAIN strategies :
    /\ HasTurn(i)
    /\ strategies[i].completed
    /\ history' = [history EXCEPT ![i] = Append(@, Record(strategies[i]))]
    /\ turn' = turn + 1
    /\ UNCHANGED <<setup, runner, strategies, prices, step, seen, cursor, vpin, csv>>
    /\ UNCHANGED channelVars

(* The optimal schedule refuses invalid parameters at its first block. *)
Refused(s) == s.mode = "optimal" /\ s.blocks = 0 /\ ~setup.valid

OnBlock ==
  \E i \in DOMAIN strategies :
    /\ HasTurn(i)
    /\ ~strategies[i].completed
    /\ ~Refused(strategies[i])
    /\ \E traded \in Chunks(strategies[i]) :
         /\ strategies' = [strategies EXCEPT ![i] = AfterBlock(@, traded)]
         /\ history' = [history EXCEPT ![i] = Append(@, Record(strategies'[i]))]
         /\ Emit("runner", TradeEvents(strategies[i], traded))
    /\ turn' = turn + 1
    /\ UNCHANGED <<setup, runner, prices, step, seen, cursor, vpin, csv>>
    /\ UNCHANGED <<queue, printed, senders, logger>>

(* run returns the error at once: what was sold is not exported. *)
BlockFails ==
  \E i \in DOMAIN strategies :
    /\ HasTurn(i)
    /\ ~strategies[i].completed
    /\ Refused(strategies[i])
    /\ runner' = "failed"
    /\ UNCHANGED <<setup, strategies, history, prices, step, turn, seen, cursor, vpin, csv>>
    /\ UNCHANGED channelVars

(* The loop goes on while a strategy has inventory and the horizon lasts.  *)
EndStep ==
  /\ runner = "stepping" /\ turn = Len(strategies) + 1 /\ outbox = <<>>
  /\ runner' = IF \A i \in DOMAIN strategies : strategies[i].completed THEN "closing"
               ELSE runner
  /\ step' = step + 1
  /\ turn' = 0
  /\ UNCHANGED <<setup, strategies, history, prices, seen, cursor, vpin, csv>>
  /\ UNCHANGED channelVars

(* Option B: what is left is sold at the last price, outside the history.  *)
Liquidate(s) ==
  IF ~setup.force_complete \/ s.remaining = 0 THEN s
  ELSE [s EXCEPT !.completed = TRUE,
                 !.metrics = RecordForcedLiquidation(@, s.remaining,
                                IF prices = <<>> THEN 1 ELSE Last(prices))]

(* export_csv: a line per price with a record of every strategy that has   *)
(* one for it.                                                             *)
CsvRow(k) ==
  [price |-> prices[k],
   cells |-> [i \in DOMAIN history |-> IF k \in DOMAIN history[i] THEN history[i][k] ELSE None]]

CloseRun ==
  /\ outbox = <<>>
  /\ \/ runner = "closing"
     \/ runner = "stepping" /\ turn = 0 /\ step >= setup.max_steps
  /\ runner' = IF setup.results = "blocked" THEN "failed" ELSE "done"
  /\ strategies' = [i \in DOMAIN strategies |-> Liquidate(strategies[i])]
  /\ csv' = IF setup.results = "writable" THEN [k \in DOMAIN prices |-> CsvRow(k)] ELSE csv
  /\ UNCHANGED <<setup, history, prices, step, turn, seen, cursor, vpin>>
  /\ UNCHANGED channelVars

RunnerStep ==
  BeginStep \/ Spin \/ CarryForward \/ OnBlock \/ BlockFails \/ EndStep \/ CloseRun
=============================================================================
