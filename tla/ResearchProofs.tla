-------------------------- MODULE ResearchProofs ---------------------------
(***************************************************************************)
(* Proofs about the research program: the types; the inventory of every   *)
(* strategy agrees with its accounts at every moment of every run; the     *)
(* comparison of the strategies is fair; the accounts are conserved        *)
(* through every trade, label and forced liquidation; whatever is sold     *)
(* into a book is sold from the top; the log tells the run; and a program  *)
(* that ends well has written all it promises.  A fold over a ladder, a    *)
(* trade or a day is followed by the trace of its values (Sums), and what  *)
(* each step keeps is a lemma.                                             *)
(***************************************************************************)
EXTENDS ResearchSim, Sums, TLAPS

(* A cost account whose components explain its total. *)
Explained(m) ==
  m.cumulative_cost = m.spread + m.temporary + m.permanent + m.timing + m.forced_cost

Amounts == {"arrival_price", "total_executed", "cumulative_cost", "forced_cost",
            "spread", "temporary", "permanent", "timing", "risk_penalty"}

IsAccount(m) == Amounts \subseteq DOMAIN m /\ \A x \in Amounts : m[x] \in Int

IsCosted(t) ==
  /\ t.quantity \in Int /\ t.market_price \in Int /\ t.slippage_cost \in Int
  /\ SpreadOf(t) \in Int /\ TemporaryOf(t) \in Int /\ PermanentOf(t) \in Int

(* record_trade keeps the components of the cost equal to the total,       *)
(* whatever the fill cost: timing takes what the others leave unexplained. *)
THEOREM TradeConserves ==
  ASSUME NEW m, NEW t, IsAccount(m), IsCosted(t), Explained(m)
  PROVE  Explained(RecordTrade(m, t))
<1> DEFINE cost == t.quantity * (t.market_price + t.slippage_cost - m.arrival_price)
<1>1. /\ m.arrival_price \in Int /\ m.cumulative_cost \in Int /\ m.forced_cost \in Int
      /\ m.spread \in Int /\ m.temporary \in Int /\ m.permanent \in Int /\ m.timing \in Int
  BY DEF IsAccount, Amounts
<1>2. cost \in Int
  BY <1>1 DEF IsCosted
<1>3. RealizedCost(m, t) = cost
  BY <1>1 DEF RealizedCost, ExecPrice, IsCosted
<1> HIDE DEF cost
<1>4. /\ RecordTrade(m, t).cumulative_cost = m.cumulative_cost + cost
      /\ RecordTrade(m, t).spread = m.spread + SpreadOf(t)
      /\ RecordTrade(m, t).temporary = m.temporary + TemporaryOf(t)
      /\ RecordTrade(m, t).permanent = m.permanent + PermanentOf(t)
      /\ RecordTrade(m, t).timing
           = m.timing + (cost - SpreadOf(t) - TemporaryOf(t) - PermanentOf(t))
      /\ RecordTrade(m, t).forced_cost = m.forced_cost
  BY <1>3 DEF RecordTrade, IsAccount, Amounts
<1> QED
  BY <1>1, <1>2, <1>4 DEF Explained, IsCosted

(* record_forced_liquidation keeps them equal too: the forced cost enters  *)
(* the total and a component of its own.                                   *)
THEOREM ForcedLiquidationConserves ==
  ASSUME NEW m, NEW quantity \in Int, NEW last_price \in Int, IsAccount(m), Explained(m)
  PROVE  Explained(RecordForcedLiquidation(m, quantity, last_price))
<1> DEFINE cost == quantity * (last_price - m.arrival_price)
<1>1. /\ m.arrival_price \in Int /\ m.cumulative_cost \in Int /\ m.forced_cost \in Int
      /\ m.spread \in Int /\ m.temporary \in Int /\ m.permanent \in Int /\ m.timing \in Int
  BY DEF IsAccount, Amounts
<1>2. cost \in Int
  BY <1>1
<1>3. LET r == RecordForcedLiquidation(m, quantity, last_price) IN
        /\ r.cumulative_cost = m.cumulative_cost + cost
        /\ r.forced_cost = m.forced_cost + cost
        /\ r.spread = m.spread /\ r.temporary = m.temporary
        /\ r.permanent = m.permanent /\ r.timing = m.timing
  BY DEF RecordForcedLiquidation, IsAccount, Amounts
<1> HIDE DEF cost
<1> QED
  BY <1>1, <1>2, <1>3 DEF Explained

(* One level of a market sell: what leaves the order arrives in the fill   *)
(* at the price of the level, and never more than the level has.           *)
THEOREM FillLevelConserves ==
  ASSUME NEW walk, NEW level,
         walk.remaining \in Nat, walk.filled \in Nat, walk.notional \in Int,
         level.quantity \in Nat, level.price \in Int
  PROVE  LET w == FillLevel(walk, level) IN
           /\ w.remaining \in Nat /\ w.filled \in Nat
           /\ w.filled + w.remaining = walk.filled + walk.remaining
           /\ w.filled - walk.filled <= level.quantity
           /\ w.notional - walk.notional = (w.filled - walk.filled) * level.price
<1> DEFINE taken == Smaller(level.quantity, walk.remaining)
<1>1. taken \in Nat /\ taken <= level.quantity /\ taken <= walk.remaining
  BY DEF Smaller
<1>2. /\ FillLevel(walk, level).remaining = walk.remaining - taken
      /\ FillLevel(walk, level).filled = walk.filled + taken
      /\ FillLevel(walk, level).notional = walk.notional + taken * level.price
  BY DEF FillLevel
<1> HIDE DEF taken
<1>3. taken * level.price \in Int
  BY <1>1
<1> DEFINE paid == taken * level.price
<1>4. paid \in Int /\ FillLevel(walk, level).notional - walk.notional = paid
  BY <1>2, <1>3
<1>5. FillLevel(walk, level).filled - walk.filled = taken
  BY <1>1, <1>2
<1> QED
  BY <1>1, <1>2, <1>4, <1>5

(* A VPIN bucket is sealed when it is full: after each unit of volume the  *)
(* open one holds less than its size, if that is positive.                 *)
THEOREM BucketStaysOpen ==
  ASSUME NEW calc, {"buy", "sell", "buckets"} \subseteq DOMAIN calc,
         calc.bucket_size \in Nat \ {0}, calc.buy \in Nat, calc.sell \in Nat,
         calc.buy + calc.sell < calc.bucket_size
  PROVE  LET c == FillUnit(calc) IN
           /\ c.buy \in Nat /\ c.sell \in Nat /\ c.bucket_size = calc.bucket_size
           /\ c.buy + c.sell < c.bucket_size
<1> DEFINE fed == IF calc.last_direction = 1 THEN [calc EXCEPT !.buy = @ + 1]
                  ELSE [calc EXCEPT !.sell = @ + 1]
<1>1. /\ fed.buy \in Nat /\ fed.sell \in Nat /\ fed.bucket_size = calc.bucket_size
      /\ fed.buy + fed.sell = calc.buy + calc.sell + 1
      /\ {"buy", "sell", "buckets"} \subseteq DOMAIN fed
  <2>1. CASE calc.last_direction = 1
    BY <2>1
  <2>2. CASE calc.last_direction # 1
    BY <2>2
  <2> QED
    BY <2>1, <2>2
<1>2. FillUnit(calc) = Seal(fed)
  BY DEF FillUnit
<1> HIDE DEF fed
<1>3. CASE fed.buy + fed.sell < fed.bucket_size
  <2>1. Seal(fed) = fed
    BY <1>3 DEF Seal
  <2> QED
    BY <1>1, <1>3, <1>2, <2>1
<1>4. CASE ~(fed.buy + fed.sell < fed.bucket_size)
  <2>1. Seal(fed).buy = 0 /\ Seal(fed).sell = 0 /\ Seal(fed).bucket_size = fed.bucket_size
    BY <1>1, <1>4 DEF Seal
  <2> QED
    BY <1>1, <1>2, <2>1
<1> QED
  BY <1>3, <1>4

-----------------------------------------------------------------------------
(* The inductive invariant behind InventoryAgrees.  A forced liquidation   *)
(* is only asked for by sweeps, whose strategies refuse nothing and whose  *)
(* runs write nothing: no run that fails has been liquidated.              *)
IsStrategy(s) ==
  /\ {"remaining", "completed", "metrics"} \subseteq DOMAIN s
  /\ "total_executed" \in DOMAIN s.metrics

Accounted(s) ==
  /\ s.remaining \in 0 .. Total
  /\ s.metrics.total_executed = Total - s.remaining
  /\ s.completed => s.remaining <= Dust

SetupSound(s) == s.force_complete => s.valid /\ s.results = "none"

InventoryInv ==
  /\ InventoryAgrees
  /\ \A i \in DOMAIN strategies : IsStrategy(strategies[i])
  /\ sweep \in 0 .. 4
  /\ main \in {"next_sweep_path", "sweep_running"} => sweep \in 1 .. 4
  /\ runner \notin {"idle", "done", "failed"} => SetupSound(setup)
  /\ runner = "idle" => strategies = <<>>

USE RunnerAssumption

(* A strategy starts with the order in full. *)
LEMMA NewStrategyAccounted ==
  ASSUME NEW mode
  PROVE  IsStrategy(NewStrategy(mode)) /\ Accounted(NewStrategy(mode))
BY DEF NewStrategy, NewMetrics, IsStrategy, Accounted

(* BookTrade executes what was traded, whatever else it records. *)
LEMMA BookTradeExecutes ==
  ASSUME NEW s, NEW traded, "total_executed" \in DOMAIN s.metrics
  PROVE  /\ "total_executed" \in DOMAIN BookTrade(s, traded)
         /\ BookTrade(s, traded).total_executed = s.metrics.total_executed + traded
<1> DEFINE m == RecordTrade(s.metrics, TradeOf(s, traded))
           v == IF Historical \/ vpin # None THEN RecordVpin(m, seen.vpin) ELSE m
<1>1. TradeOf(s, traded).quantity = traded
  BY DEF TradeOf
<1>2. /\ "total_executed" \in DOMAIN m
      /\ m.total_executed = s.metrics.total_executed + traded
  BY <1>1 DEF RecordTrade
<1> HIDE DEF m
<1>3. "total_executed" \in DOMAIN v /\ v.total_executed = m.total_executed
  BY <1>2 DEF RecordVpin
<1>4. BookTrade(s, traded) = IF s.current_regime = None THEN v
                             ELSE RecordRegime(v, s.current_regime)
  BY DEF BookTrade, m
<1> HIDE DEF v
<1> QED
  BY <1>2, <1>3, <1>4 DEF RecordRegime

(* Watching the market and recording an impact leave inventory and         *)
(* accounts alone.                                                         *)
LEMMA ObserveKeeps ==
  ASSUME NEW s, IsStrategy(s)
  PROVE  /\ IsStrategy(Observe(s))
         /\ Observe(s).remaining = s.remaining
         /\ Observe(s).metrics = s.metrics
BY DEF Observe, IsStrategy

LEMMA RecordImpactKeeps ==
  ASSUME NEW s, NEW base, IsStrategy(s)
  PROVE  /\ IsStrategy(RecordImpact(s, base))
         /\ RecordImpact(s, base).remaining = s.remaining
BY DEF RecordImpact, IsStrategy

LEMMA SoldExecutes ==
  ASSUME NEW s, NEW traded, IsStrategy(s)
  PROVE  /\ IsStrategy(Sold(s, traded))
         /\ Sold(s, traded).remaining = s.remaining
         /\ Sold(s, traded).metrics.total_executed = s.metrics.total_executed + traded
<1> DEFINE r == RecordImpact(s, BaseImpact(traded))
           b == BookTrade(s, traded)
<1>1. IsStrategy(r) /\ r.remaining = s.remaining
  BY RecordImpactKeeps
<1>2. "total_executed" \in DOMAIN b /\ b.total_executed = s.metrics.total_executed + traded
  BY BookTradeExecutes DEF IsStrategy
<1>3. Sold(s, traded) = [r EXCEPT !.metrics = b, !.adjustment = @ + DeltaPermanent(traded)]
  BY DEF Sold
<1> HIDE DEF r, b
<1> QED
  BY <1>1, <1>2, <1>3 DEF IsStrategy

(* A block moves what it trades from the inventory into the accounts. *)
LEMMA AfterBlockAccounted ==
  ASSUME NEW s, IsStrategy(s), Accounted(s), NEW traded \in 0 .. s.remaining
  PROVE  IsStrategy(AfterBlock(s, traded)) /\ Accounted(AfterBlock(s, traded))
<1> DEFINE watched == IF s.mode = "regime_ac" THEN Observe(s) ELSE s
           risked == [watched EXCEPT
                        !.metrics = RecordRiskStep(@, s.remaining, seen.volatility),
                        !.blocks = 1]
           sold == IF traded > 0 THEN Sold(risked, traded) ELSE risked
<1>1. IsStrategy(watched) /\ watched.remaining = s.remaining /\ watched.metrics = s.metrics
  BY ObserveKeeps
<1>2. AfterBlock(s, traded) = [sold EXCEPT !.remaining = @ - traded,
                                           !.completed = s.remaining - traded <= Dust]
  BY DEF AfterBlock
<1> HIDE DEF watched
<1>3. /\ IsStrategy(risked) /\ risked.remaining = s.remaining
      /\ risked.metrics.total_executed = s.metrics.total_executed
  BY <1>1 DEF IsStrategy, RecordRiskStep
<1> HIDE DEF risked
<1>4. s.remaining \in Int /\ s.metrics.total_executed \in Int /\ Total \in Int /\ traded \in Int
  BY DEF Accounted
<1>5. /\ IsStrategy(sold) /\ sold.remaining = s.remaining
      /\ sold.metrics.total_executed = s.metrics.total_executed + traded
  BY <1>3, <1>4, SoldExecutes
<1> HIDE DEF sold
<1>6. /\ IsStrategy(AfterBlock(s, traded))
      /\ AfterBlock(s, traded).remaining = s.remaining - traded
      /\ AfterBlock(s, traded).metrics = sold.metrics
      /\ AfterBlock(s, traded).completed = (s.remaining - traded <= Dust)
  BY <1>2, <1>5 DEF IsStrategy
<1> DEFINE after == AfterBlock(s, traded)
<1>7. after.remaining \in 0 .. Total
  BY <1>4, <1>6 DEF Accounted
<1>8. after.metrics.total_executed = Total - after.remaining
  BY <1>4, <1>5, <1>6 DEF Accounted
<1>9. after.completed => after.remaining <= Dust
  BY <1>6, Zenon
<1> QED
  BY <1>6, <1>7, <1>8, <1>9 DEF Accounted

(* A forced liquidation executes the rest. *)
LEMMA LiquidateAccounted ==
  ASSUME NEW s, IsStrategy(s), Accounted(s)
  PROVE  /\ IsStrategy(Liquidate(s))
         /\ Liquidate(s).remaining = s.remaining
         /\ ~setup.force_complete \/ s.remaining = 0 => Liquidate(s) = s
         /\ setup.force_complete /\ s.remaining # 0 =>
              /\ Liquidate(s).metrics.total_executed = Total
              /\ Liquidate(s).completed
<1>1. s.remaining \in Int /\ s.metrics.total_executed \in Int
  BY DEF Accounted
<1>2. CASE ~setup.force_complete \/ s.remaining = 0
  BY <1>2 DEF Liquidate
<1>3. CASE setup.force_complete /\ s.remaining # 0
  <2> DEFINE price == IF prices = <<>> THEN 1 ELSE Last(prices)
             m == RecordForcedLiquidation(s.metrics, s.remaining, price)
  <2>1. Liquidate(s) = [s EXCEPT !.completed = TRUE, !.metrics = m]
    BY <1>3 DEF Liquidate
  <2>2. /\ "total_executed" \in DOMAIN m
        /\ m.total_executed = s.metrics.total_executed + s.remaining
    BY DEF RecordForcedLiquidation, IsStrategy
  <2> HIDE DEF m
  <2>3. m.total_executed = Total
    BY <1>1, <2>2 DEF Accounted
  <2> QED
    BY <1>3, <2>1, <2>2, <2>3 DEF IsStrategy
<1> QED
  BY <1>2, <1>3

-----------------------------------------------------------------------------
LEMMA InitInventory == ResearchInit => InventoryInv
BY DEF ResearchInit, RunnerInit, InventoryInv, InventoryAgrees

(* A step that leaves the runner alone. *)
LEMMA QuietKeeps ==
  ASSUME InventoryInv, UNCHANGED runnerVars, sweep' \in 0 .. 4,
         main' \in {"next_sweep_path", "sweep_running"} => sweep' \in 1 .. 4
  PROVE  InventoryInv'
<1>1. UNCHANGED <<setup, runner, strategies>>
  BY DEF runnerVars
<1>2. InventoryAgrees'
  BY <1>1 DEF InventoryInv, InventoryAgrees, Forced
<1> QED
  BY <1>1, <1>2 DEF InventoryInv, IsStrategy, SetupSound

LEMMA MainStepQuiet ==
  ASSUME InventoryInv, MainStep, ~StartPath, ~StartSweepPath
  PROVE  InventoryInv'
<1> USE DEF InventoryInv, ExitOne
<1>1. CASE Calibrate
  BY <1>1, QuietKeeps DEF Calibrate
<1>2. CASE LoadLobData
  BY <1>2, QuietKeeps DEF LoadLobData
<1>3. CASE LoadAggTrades
  BY <1>3, QuietKeeps DEF LoadAggTrades
<1>4. CASE EndPath
  BY <1>4, QuietKeeps DEF EndPath
<1>5. CASE RunFails
  BY <1>5, QuietKeeps DEF RunFails
<1>6. CASE Summarise
  BY <1>6, QuietKeeps DEF Summarise
<1>7. CASE NextSweep
  <2>1. UNCHANGED runnerVars
    BY <1>7 DEF NextSweep
  <2>2. CASE sweep = Len(Grids)
    BY <1>7, <2>1, <2>2, QuietKeeps DEF NextSweep
  <2>3. CASE sweep # Len(Grids)
    <3>1. Len(Grids) = 4
      BY DEF Grids
    <3>2. sweep' = sweep + 1 /\ sweep \in 0 .. 3
      BY <1>7, <2>3, <3>1 DEF NextSweep
    <3> QED
      BY <2>1, <3>2, QuietKeeps
  <2> QED
    BY <2>2, <2>3
<1>8. CASE EndSweepPath
  BY <1>8, QuietKeeps DEF EndSweepPath, At
<1>9. CASE EndConfig
  BY <1>9, QuietKeeps DEF EndConfig, At
<1>10. CASE Teardown
  BY <1>10, QuietKeeps DEF Teardown
<1>11. CASE CloseChannel
  BY <1>11, QuietKeeps DEF CloseChannel
<1>12. CASE Join
  BY <1>12, QuietKeeps DEF Join
<1>13. CASE SheetFails \/ RowsFail
  BY <1>13, QuietKeeps DEF SheetFails, RowsFail
<1> QED
  BY <1>1, <1>2, <1>3, <1>4, <1>5, <1>6, <1>7, <1>8, <1>9, <1>10, <1>11, <1>12, <1>13 DEF MainStep

(* Every strategy of a new runner has the order before it. *)
LEMMA NewRunnerAccounted ==
  ASSUME NEW s, NewRunner(s), SetupSound(s)
  PROVE  /\ InventoryAgrees'
         /\ (\A i \in DOMAIN strategies : IsStrategy(strategies[i]))'
         /\ SetupSound(setup)'
         /\ runner' = "stepping"
<1>1. /\ strategies' = [i \in DOMAIN s.lineup |-> NewStrategy(s.lineup[i])]
      /\ runner' = "stepping" /\ setup' = s
  BY DEF NewRunner
<1>2. \A i \in DOMAIN strategies' : IsStrategy(strategies'[i]) /\ Accounted(strategies'[i])
  BY <1>1, NewStrategyAccounted
<1>3. InventoryAgrees'
  BY <1>1, <1>2 DEF InventoryAgrees, Forced, Accounted
<1>4. SetupSound(setup')
  BY <1>1
<1> QED
  BY <1>1, <1>2, <1>3, <1>4 DEF SetupSound, IsStrategy

LEMMA StartPathKeeps ==
  ASSUME InventoryInv, StartPath
  PROVE  InventoryInv'
<1>1. NewRunner(PathSetup) /\ UNCHANGED sweep /\ main' = "running"
  BY DEF StartPath
<1>2. SetupSound(PathSetup)
  BY DEF SetupSound, PathSetup
<1> QED
  BY <1>1, <1>2, NewRunnerAccounted DEF InventoryInv

LEMMA StartSweepPathKeeps ==
  ASSUME InventoryInv, StartSweepPath
  PROVE  InventoryInv'
<1>1. NewRunner(SweepSetup) /\ UNCHANGED sweep /\ main = "next_sweep_path"
  BY DEF StartSweepPath, At
<1>2. sweep \in {1, 2, 3, 4}
  BY <1>1 DEF InventoryInv
<1>3. SetupSound(SweepSetup)
  BY <1>2 DEF SetupSound, SweepSetup
<1> QED
  BY <1>1, <1>2, <1>3, NewRunnerAccounted DEF InventoryInv

-----------------------------------------------------------------------------
(* Before a run ends its strategies hold what they have not executed. *)
LEMMA RunningAccounted ==
  ASSUME InventoryInv, runner \notin {"done", "failed"}, NEW i \in DOMAIN strategies
  PROVE  IsStrategy(strategies[i]) /\ Accounted(strategies[i])
<1>1. ~Forced(strategies[i])
  BY DEF Forced
<1> QED
  BY <1>1 DEF InventoryInv, InventoryAgrees, Accounted

(* A step that leaves the strategies alone, in a run that goes on. *)
LEMMA MarketKeeps ==
  ASSUME InventoryInv, UNCHANGED <<setup, strategies, sweep, main>>,
         runner \notin {"idle", "done", "failed"}, runner' \notin {"idle", "done", "failed"}
  PROVE  InventoryInv'
<1>1. \A i \in DOMAIN strategies : Accounted(strategies[i])
  BY RunningAccounted
<1>2. InventoryAgrees'
  BY <1>1 DEF InventoryAgrees, Forced, Accounted
<1> QED
  BY <1>2 DEF InventoryInv, IsStrategy, SetupSound

LEMMA OnBlockKeeps ==
  ASSUME InventoryInv, OnBlock, UNCHANGED researchVars
  PROVE  InventoryInv'
<1>1. PICK i \in DOMAIN strategies :
        /\ HasTurn(i)
        /\ \E traded \in Chunks(strategies[i]) :
             strategies' = [strategies EXCEPT ![i] = AfterBlock(@, traded)]
  BY DEF OnBlock
<1>2. PICK traded \in Chunks(strategies[i]) :
        strategies' = [strategies EXCEPT ![i] = AfterBlock(@, traded)]
  BY <1>1
<1>3. runner = "stepping" /\ UNCHANGED <<setup, runner, sweep, main>>
  BY <1>1 DEF OnBlock, HasTurn, researchVars
<1>4. \A j \in DOMAIN strategies : IsStrategy(strategies[j]) /\ Accounted(strategies[j])
  BY <1>3, RunningAccounted
<1>5. traded \in 0 .. strategies[i].remaining
  BY DEF Chunks
<1>6. IsStrategy(AfterBlock(strategies[i], traded)) /\ Accounted(AfterBlock(strategies[i], traded))
  BY <1>4, <1>5, AfterBlockAccounted
<1>7. /\ DOMAIN strategies' = DOMAIN strategies
      /\ \A j \in DOMAIN strategies : IsStrategy(strategies'[j]) /\ Accounted(strategies'[j])
  BY <1>2, <1>4, <1>6
<1>8. InventoryAgrees'
  BY <1>3, <1>7 DEF InventoryAgrees, Forced, Accounted
<1> QED
  BY <1>3, <1>7, <1>8 DEF InventoryInv, IsStrategy, SetupSound

LEMMA BlockFailsKeeps ==
  ASSUME InventoryInv, BlockFails, UNCHANGED researchVars
  PROVE  InventoryInv'
<1>1. /\ runner = "stepping" /\ ~setup.valid
      /\ runner' = "failed" /\ UNCHANGED <<setup, strategies, sweep, main>>
  BY DEF BlockFails, HasTurn, Refused, researchVars
<1>2. ~setup.force_complete
  BY <1>1 DEF InventoryInv, SetupSound
<1>3. \A i \in DOMAIN strategies : Accounted(strategies[i])
  BY <1>1, RunningAccounted
<1>4. InventoryAgrees'
  BY <1>1, <1>2, <1>3 DEF InventoryAgrees, Forced, Accounted
<1> QED
  BY <1>1, <1>4 DEF InventoryInv, IsStrategy

LEMMA CloseRunKeeps ==
  ASSUME InventoryInv, CloseRun, UNCHANGED researchVars
  PROVE  InventoryInv'
<1>1. /\ runner \in {"closing", "stepping"}
      /\ runner' \in {"done", "failed"}
      /\ strategies' = [i \in DOMAIN strategies |-> Liquidate(strategies[i])]
      /\ UNCHANGED <<setup, sweep, main>>
  BY DEF CloseRun, researchVars
<1>2. \A i \in DOMAIN strategies : IsStrategy(strategies[i]) /\ Accounted(strategies[i])
  BY <1>1, RunningAccounted
<1>3. \A i \in DOMAIN strategies' : IsStrategy(strategies'[i])
  BY <1>1, <1>2, LiquidateAccounted
<1>4. ASSUME NEW i \in DOMAIN strategies'
      PROVE  LET s == strategies'[i]
                 forced == setup.force_complete /\ s.remaining > 0 IN
               /\ s.remaining \in 0 .. Total
               /\ s.metrics.total_executed = IF forced THEN Total ELSE Total - s.remaining
               /\ s.completed => s.remaining <= Dust \/ forced
               /\ forced => s.completed
  <2> DEFINE s == strategies[i]
  <2>1. strategies'[i] = Liquidate(s) /\ IsStrategy(s) /\ Accounted(s)
    BY <1>1, <1>2
  <2>2. s.remaining \in 0 .. Total /\ Liquidate(s).remaining = s.remaining
    BY <2>1, LiquidateAccounted DEF Accounted
  <2>3. CASE ~setup.force_complete \/ s.remaining = 0
    <3>1. Liquidate(s) = s
      BY <2>1, <2>3, LiquidateAccounted
    <3> QED
      BY <2>1, <2>2, <2>3, <3>1 DEF Accounted
  <2>4. CASE setup.force_complete /\ s.remaining # 0
    <3>1. Liquidate(s).metrics.total_executed = Total /\ Liquidate(s).completed
      BY <2>1, <2>4, LiquidateAccounted
    <3> QED
      BY <2>1, <2>2, <2>4, <3>1
  <2> QED
    BY <2>3, <2>4
<1>5. InventoryAgrees'
  BY <1>1, <1>4 DEF InventoryAgrees, Forced
<1> QED
  BY <1>1, <1>3, <1>5 DEF InventoryInv, IsStrategy

LEMMA RunStepKeeps ==
  ASSUME InventoryInv, RunStep
  PROVE  InventoryInv'
<1>1. UNCHANGED researchVars /\ UNCHANGED <<sweep, main>>
  BY DEF RunStep, researchVars
<1>2. CASE BeginStep
  BY <1>1, <1>2, MarketKeeps DEF BeginStep
<1>3. CASE Spin
  BY <1>1, <1>3, MarketKeeps DEF Spin
<1>4. CASE CarryForward
  BY <1>1, <1>4, MarketKeeps DEF CarryForward, HasTurn
<1>5. CASE OnBlock
  BY <1>1, <1>5, OnBlockKeeps
<1>6. CASE BlockFails
  BY <1>1, <1>6, BlockFailsKeeps
<1>7. CASE EndStep
  BY <1>1, <1>7, MarketKeeps DEF EndStep
<1>8. CASE CloseRun
  BY <1>1, <1>8, CloseRunKeeps
<1> QED
  BY <1>2, <1>3, <1>4, <1>5, <1>6, <1>7, <1>8 DEF RunStep, RunnerStep

LEMMA StepInventory == InventoryInv /\ [ResearchNext]_vars => InventoryInv'
<1> SUFFICES ASSUME InventoryInv, [ResearchNext]_vars PROVE InventoryInv'
  OBVIOUS
<1>1. CASE MainStep
  BY <1>1, MainStepQuiet, StartPathKeeps, StartSweepPathKeeps
<1>2. CASE RunStep
  BY <1>2, RunStepKeeps
<1>3. CASE UNCHANGED <<researchVars, runnerVars>>
  BY <1>3, QuietKeeps DEF researchVars, InventoryInv
<1> QED
  BY <1>1, <1>2, <1>3 DEF ResearchNext, SendStep, LogStep, vars

(* The inductive invariant holds throughout, whatever the command line,    *)
(* the files, the prices and the lineup are.                               *)
THEOREM InventoryInvariance == ResearchSpec => []InventoryInv
<1>1. ResearchInit => InventoryInv
  BY InitInventory
<1>2. InventoryInv /\ [ResearchNext]_vars => InventoryInv'
  BY StepInventory
<1> QED
  BY <1>1, <1>2, PTL DEF ResearchSpec

(* What the schedulers have left and what the accounts have executed add   *)
(* up to the order, in every path and every sweep (multi_runner.rs).       *)
THEOREM InventoryAlwaysAgrees == ResearchSpec => []InventoryAgrees
<1>1. InventoryInv => InventoryAgrees
  BY DEF InventoryInv
<1> QED
  BY <1>1, InventoryInvariance, PTL
-----------------------------------------------------------------------------
(* FairComparison.  What a sale costs depends on the market of the step    *)
(* and on the standing of the strategy: its inventory, its permanent and   *)
(* transient impact, and the price its costs are measured against.         *)
Standing(s) ==
  [remaining |-> s.remaining, adjustment |-> s.adjustment, transient |-> s.transient,
   arrival_price |-> s.metrics.arrival_price, cost |-> s.metrics.cumulative_cost]

(* The standing after a sale. *)
After(p, sold) ==
  IF sold = 0 THEN p
  ELSE [RecordImpact(p, BaseImpact(sold)) EXCEPT
          !.remaining = @ - sold, !.adjustment = @ + DeltaPermanent(sold),
          !.cost = @ + RealizedCost(p, TradeOf(p, sold))]

IsTrader(s) ==
  /\ IsStrategy(s)
  /\ {"remaining", "completed", "metrics", "mode", "adjustment", "transient", "blocks"}
       \subseteq DOMAIN s
  /\ {"arrival_price", "cumulative_cost"} \subseteq DOMAIN s.metrics

(* A step between two strategies of the same step. *)
SameMarket == UNCHANGED <<seen, setup, step>>

(* In the same market the same sale has the same consequences. *)
LEMMA ImpactSame ==
  ASSUME SameMarket, NEW s
  PROVE  CurrentImpact(s)' = CurrentImpact(s)
<1>1. step' = step
  BY DEF SameMarket
<1>2. [k \in DOMAIN s.transient |-> s.transient[k].base \div (2 ^ Larger(0, step' - s.transient[k].step))]
      = [k \in DOMAIN s.transient |-> s.transient[k].base \div (2 ^ Larger(0, step - s.transient[k].step))]
  BY <1>1
<1> QED
  BY <1>2 DEF CurrentImpact

LEMMA FillSame ==
  ASSUME SameMarket
  PROVE  \A s, n : FillOf(s, n)' = FillOf(s, n)
<1>1. \A s : EffectivePrice(s)' = EffectivePrice(s)
  BY DEF EffectivePrice, SameMarket
<1>2. \A mid : BookFor(mid)' = BookFor(mid)
  BY DEF BookFor, SameMarket
<1>3. \A mid, n : BookFill(mid, n)' = BookFill(mid, n)
  BY <1>2 DEF BookFill
<1>4. \A s : FormulaFill(s)' = FormulaFill(s)
  BY ImpactSame DEF FormulaFill, SameMarket
<1> QED
  BY <1>1, <1>3, <1>4 DEF FillOf, SameMarket

LEMMA AfterSame ==
  ASSUME SameMarket
  PROVE  \A p, n : After(p, n)' = After(p, n)
<1>1. \A s, n : TradeOf(s, n)' = TradeOf(s, n)
  <2>1. \A s : EffectivePrice(s)' = EffectivePrice(s)
    BY DEF EffectivePrice, SameMarket
  <2> QED
    BY <2>1, FillSame DEF TradeOf, SameMarket
<1>2. \A n : BaseImpact(n)' = BaseImpact(n)
  BY DEF BaseImpact, SameMarket
<1>3. \A s, b : RecordImpact(s, b)' = RecordImpact(s, b)
  BY DEF RecordImpact, SameMarket
<1> QED
  BY <1>1, <1>2, <1>3 DEF After

(* What AfterBlock makes of a strategy before the sale. *)
Watched(s) ==
  LET watched == IF s.mode = "regime_ac" THEN Observe(s) ELSE s IN
    [watched EXCEPT !.metrics = RecordRiskStep(@, s.remaining, seen.volatility), !.blocks = 1]

(* Watching the market leaves the standing alone, RegimeAC's included. *)
LEMMA WatchedStanding ==
  ASSUME NEW s, IsTrader(s)
  PROVE  IsTrader(Watched(s)) /\ Standing(Watched(s)) = Standing(s)
<1> DEFINE w == IF s.mode = "regime_ac" THEN Observe(s) ELSE s
<1>1. IsTrader(Observe(s)) /\ Standing(Observe(s)) = Standing(s) /\ Observe(s).metrics = s.metrics
  BY DEF Observe, IsTrader, Standing, IsStrategy
<1>2. IsTrader(w) /\ Standing(w) = Standing(s) /\ w.metrics = s.metrics
  BY <1>1
<1>3. Watched(s) = [w EXCEPT !.metrics = RecordRiskStep(@, s.remaining, seen.volatility),
                             !.blocks = 1]
  BY DEF Watched
<1> HIDE DEF w
<1> QED
  BY <1>2, <1>3 DEF IsTrader, Standing, IsStrategy, RecordRiskStep

LEMMA ImpactOfStanding ==
  ASSUME NEW s, NEW p, s.transient = p.transient
  PROVE  CurrentImpact(s) = CurrentImpact(p)
BY Zenon DEF CurrentImpact

(* What a trade is booked at depends on the standing only, whether a       *)
(* formula or a book fills it.                                             *)
LEMMA TradeOfStanding ==
  ASSUME NEW s, NEW n
  PROVE  TradeOf(s, n) = TradeOf(Standing(s), n)
<1> DEFINE p == Standing(s)
<1>1. s.transient = p.transient /\ s.adjustment = p.adjustment
  BY DEF Standing
<1> HIDE DEF p
<1>2. EffectivePrice(s) = EffectivePrice(p)
  BY <1>1 DEF EffectivePrice
<1>3. FormulaFill(s) = FormulaFill(p)
  BY <1>1, ImpactOfStanding DEF FormulaFill
<1>4. FillOf(s, n) = FillOf(p, n)
  BY <1>2, <1>3 DEF FillOf
<1> QED
  BY <1>2, <1>4 DEF TradeOf, p

(* Recording an impact changes the standing as it changes the strategy. *)
LEMMA RecordedStanding ==
  ASSUME NEW s, IsTrader(s), NEW base
  PROVE  LET r == RecordImpact(s, base)
             p == RecordImpact(Standing(s), base) IN
           /\ IsTrader(r) /\ r.metrics = s.metrics /\ r.remaining = s.remaining
           /\ r.adjustment = s.adjustment
           /\ p = [Standing(s) EXCEPT !.transient = r.transient]
<1> DEFINE p == Standing(s)
           kept == Unforgotten(Append(s.transient, [step |-> step, base |-> base]), step)
<1>1. s.transient = p.transient /\ p = [p EXCEPT !.transient = p.transient]
  BY DEF Standing
<1>2. RecordImpact(s, base) = IF base <= 0 THEN s ELSE [s EXCEPT !.transient = kept]
  BY Zenon DEF RecordImpact
<1> HIDE DEF p
<1>3. RecordImpact(p, base) = IF base <= 0 THEN p ELSE [p EXCEPT !.transient = kept]
  BY <1>1, Zenon DEF RecordImpact
<1> HIDE DEF kept
<1>4. RecordImpact(p, base) = [p EXCEPT !.transient = RecordImpact(s, base).transient]
  BY <1>1, <1>2, <1>3 DEF IsTrader
<1> QED
  BY <1>2, <1>4 DEF IsTrader, IsStrategy, p

(* The accounts after a trade: the readings recorded beside it cost nothing. *)
LEMMA BookTradeCosts ==
  ASSUME NEW s, IsTrader(s), NEW n
  PROVE  LET b == BookTrade(s, n) IN
           /\ {"arrival_price", "cumulative_cost", "total_executed"} \subseteq DOMAIN b
           /\ b.arrival_price = s.metrics.arrival_price
           /\ b.cumulative_cost = s.metrics.cumulative_cost + RealizedCost(s.metrics, TradeOf(s, n))
<1> DEFINE m == RecordTrade(s.metrics, TradeOf(s, n))
           v == IF Historical \/ vpin # None THEN RecordVpin(m, seen.vpin) ELSE m
           cost == RealizedCost(s.metrics, TradeOf(s, n))
<1>1. /\ {"arrival_price", "cumulative_cost", "total_executed"} \subseteq DOMAIN m
      /\ m.arrival_price = s.metrics.arrival_price
      /\ m.cumulative_cost = s.metrics.cumulative_cost + cost
  BY DEF RecordTrade, IsTrader, IsStrategy
<1> HIDE DEF m, cost
<1>2. /\ {"arrival_price", "cumulative_cost", "total_executed"} \subseteq DOMAIN v
      /\ v.arrival_price = m.arrival_price
      /\ v.cumulative_cost = m.cumulative_cost
  BY <1>1 DEF RecordVpin
<1>3. BookTrade(s, n) = IF s.current_regime = None THEN v
                        ELSE RecordRegime(v, s.current_regime)
  BY DEF BookTrade, m
<1> HIDE DEF v
<1> QED
  BY <1>1, <1>2, <1>3 DEF RecordRegime, cost

(* A block changes the standing of a strategy as its sale does. *)
LEMMA BlockStanding ==
  ASSUME NEW s, IsTrader(s), NEW n \in 0 .. s.remaining, s.remaining \in Nat
  PROVE  /\ IsTrader(AfterBlock(s, n))
         /\ Standing(AfterBlock(s, n)) = After(Standing(s), n)
         /\ AfterBlock(s, n).remaining = s.remaining - n
<1> DEFINE w == Watched(s)
           sold == IF n > 0 THEN Sold(w, n) ELSE w
<1>1. IsTrader(w) /\ Standing(w) = Standing(s)
  BY WatchedStanding
<1>2. AfterBlock(s, n) = [sold EXCEPT !.remaining = @ - n, !.completed = s.remaining - n <= Dust]
  BY DEF AfterBlock, Watched
<1> HIDE DEF w
<1>3. CASE n = 0
  <2>1. sold = w
    BY <1>3
  <2>2. w.remaining = s.remaining /\ w.remaining - n = w.remaining
    BY <1>1, <1>3 DEF Standing
  <2> QED
    BY <1>1, <1>2, <1>3, <2>1, <2>2 DEF Standing, After, IsTrader, IsStrategy
<1>4. CASE n > 0
  <2> DEFINE r == RecordImpact(w, BaseImpact(n))
             b == BookTrade(w, n)
             p == Standing(s)
             cost == RealizedCost(p, TradeOf(p, n))
  <2>1. sold = [r EXCEPT !.metrics = b, !.adjustment = @ + DeltaPermanent(n)]
    BY <1>4 DEF Sold
  <2>2. /\ IsTrader(r) /\ r.metrics = w.metrics /\ r.remaining = w.remaining
        /\ r.adjustment = w.adjustment
        /\ RecordImpact(p, BaseImpact(n)) = [p EXCEPT !.transient = r.transient]
    BY <1>1, RecordedStanding
  <2>3. RealizedCost(w.metrics, TradeOf(w, n)) = cost
    <3>1. TradeOf(w, n) = TradeOf(p, n)
      BY <1>1, TradeOfStanding
    <3>2. w.metrics.arrival_price = p.arrival_price
      BY <1>1 DEF Standing
    <3> QED
      BY <3>1, <3>2, Zenon DEF RealizedCost
  <2>4. /\ {"arrival_price", "cumulative_cost", "total_executed"} \subseteq DOMAIN b
        /\ b.arrival_price = w.metrics.arrival_price
        /\ b.cumulative_cost = w.metrics.cumulative_cost + cost
    BY <1>1, <2>3, BookTradeCosts
  <2>5. After(p, n) = [[p EXCEPT !.transient = r.transient] EXCEPT
                         !.remaining = @ - n, !.adjustment = @ + DeltaPermanent(n),
                         !.cost = @ + cost]
    BY <1>4, <2>2 DEF After
  <2>6. /\ p.remaining = w.remaining /\ p.adjustment = w.adjustment
        /\ p.cost = w.metrics.cumulative_cost /\ p.arrival_price = w.metrics.arrival_price
        /\ DOMAIN p = {"remaining", "adjustment", "transient", "arrival_price", "cost"}
    BY <1>1 DEF Standing
  <2> HIDE DEF r, b, cost, sold
  <2>7. IsTrader(AfterBlock(s, n))
    BY <1>2, <2>1, <2>2, <2>4 DEF IsTrader, IsStrategy
  <2>8. /\ AfterBlock(s, n).remaining = w.remaining - n
        /\ AfterBlock(s, n).adjustment = w.adjustment + DeltaPermanent(n)
        /\ AfterBlock(s, n).transient = r.transient
        /\ AfterBlock(s, n).metrics = b
    BY <1>2, <2>1, <2>2 DEF IsTrader, IsStrategy
  <2>9. Standing(AfterBlock(s, n)) =
          [remaining |-> w.remaining - n, adjustment |-> w.adjustment + DeltaPermanent(n),
           transient |-> r.transient, arrival_price |-> w.metrics.arrival_price,
           cost |-> w.metrics.cumulative_cost + cost]
    BY <2>4, <2>8 DEF Standing
  <2>10. After(p, n) =
          [remaining |-> w.remaining - n, adjustment |-> w.adjustment + DeltaPermanent(n),
           transient |-> r.transient, arrival_price |-> w.metrics.arrival_price,
           cost |-> w.metrics.cumulative_cost + cost]
    <3> p = [remaining |-> p.remaining, adjustment |-> p.adjustment, transient |-> p.transient,
             arrival_price |-> p.arrival_price, cost |-> p.cost]
      BY DEF Standing
    <3> HIDE DEF p
    <3> QED
      BY <2>5, <2>6
  <2> QED
    BY <1>1, <2>7, <2>8, <2>9, <2>10 DEF Standing
<1> QED
  BY <1>3, <1>4

-----------------------------------------------------------------------------
(* Within a step the strategies before turn have had theirs. *)
Done(i) == i < turn

(* Two strategies sold the same in each of n records. *)
Alike(i, j, n) == \A k \in 1 .. n : history[i][k].remaining = history[j][k].remaining

(* A strategy has one record per step, the last of which it is. *)
Kept(i) ==
  /\ IsTrader(strategies[i])
  /\ IsSeq(history[i])
  /\ Len(history[i]) = step + (IF Done(i) THEN 1 ELSE 0)
  /\ Done(i) => history[i][step + 1] = Record(strategies[i])

(* Two strategies that have had as many turns, and sold the same in each,  *)
(* stand at the same place.                                                *)
Level(i, j) ==
  (Done(i) <=> Done(j)) /\ Alike(i, j, Len(history[i]))
    => Standing(strategies[i]) = Standing(strategies[j])

(* One that has had its turn stands where the other will if it sells the   *)
(* same.  The bound p and n keep the standing of before the sale apart     *)
(* from the market it is made in.                                          *)
Ahead(i, j) ==
  Done(i) /\ ~Done(j) /\ Alike(i, j, step)
    => \A p, n : p = Standing(strategies[j]) /\ n = p.remaining - strategies[i].remaining
                   => Standing(strategies[i]) = After(p, n)

(* The inductive invariant behind FairComparison: records alone do not     *)
(* tell what the next sale will cost, standings do.                        *)
FairRun ==
  /\ step \in Nat /\ turn \in Nat
  /\ Len(strategies) \in Nat /\ DOMAIN strategies = 1 .. Len(strategies)
  /\ DOMAIN history = DOMAIN strategies
  /\ \A i \in DOMAIN strategies : Kept(i)
  /\ \A i, j \in DOMAIN strategies : Level(i, j)
  /\ \A i, j \in DOMAIN strategies : Ahead(i, j)

FairInv == FairComparison /\ (runner = "stepping" => FairRun)

(* The lineup is a sequence. *)
LEMMA LineupIsSeq == IsSeq(Lineup)
<1>1. Lineup \in Seq(STRING)
  BY ResearchAssumption
<1>2. \A k \in 1 .. Len(Lineup) : Lineup[k] \in Range(Lineup)
  BY <1>1 DEF Range
<1> QED
  BY <1>1, <1>2 DEF IsSeq

(* A strategy has its turn: it sells n and leaves a record. *)
LEMMA TurnFair ==
  ASSUME NEW i, NEW s, NEW n,
         InventoryInv, FairComparison, FairRun, SameMarket, runner = "stepping",
         i \in DOMAIN strategies, turn = i, n \in Nat, IsTrader(s),
         s.remaining = strategies[i].remaining - n,
         Standing(s) = After(Standing(strategies[i]), n),
         DOMAIN strategies' = DOMAIN strategies, Len(strategies') = Len(strategies),
         strategies'[i] = s, \A j \in DOMAIN strategies \ {i} : strategies'[j] = strategies[j],
         history' = [history EXCEPT ![i] = Append(@, Record(s))],
         turn' = turn + 1
  PROVE  FairComparison' /\ FairRun'
<1> DEFINE AlikeAfter(a, b, m) ==
             \A k \in 1 .. m : history'[a][k].remaining = history'[b][k].remaining
<1>0. \A a, b, m : Alike(a, b, m)' <=> AlikeAfter(a, b, m)
  BY DEF Alike
<1>1. /\ step \in Nat /\ turn \in Nat /\ step' = step /\ i \in Nat
      /\ Len(strategies) \in Nat /\ DOMAIN strategies = 1 .. Len(strategies)
      /\ DOMAIN history = DOMAIN strategies
  BY DEF FairRun, SameMarket
<1>2. /\ DOMAIN strategies' = DOMAIN strategies /\ DOMAIN history' = DOMAIN strategies
      /\ Len(strategies') = Len(strategies)
      /\ strategies'[i] = s /\ history'[i] = Append(history[i], Record(s))
      /\ \A j \in DOMAIN strategies : j # i => strategies'[j] = strategies[j]
                                               /\ history'[j] = history[j]
  BY <1>1
<1>3. /\ ~Done(i) /\ Done(i)'
      /\ \A j \in DOMAIN strategies : j # i => (Done(j)' <=> Done(j))
  BY <1>1 DEF Done
<1>4. \A j \in DOMAIN strategies :
        /\ strategies[j].remaining \in Int
        /\ Standing(strategies[j]).remaining = strategies[j].remaining
  BY RunningAccounted DEF Accounted, Standing
<1>5. \A j \in DOMAIN strategies :
        /\ Len(history[j]) = step + (IF Done(j) THEN 1 ELSE 0)
        /\ Len(history[j]) \in Nat /\ DOMAIN history[j] = 1 .. Len(history[j])
  BY <1>1, AppendSeq DEF FairRun, Kept
<1>6. /\ IsSeq(history'[i]) /\ Len(history'[i]) = step + 1 /\ DOMAIN history'[i] = 1 .. step + 1
      /\ history'[i][step + 1] = Record(s)
      /\ \A k \in 1 .. step : history'[i][k] = history[i][k]
  <2>1. IsSeq(history[i]) /\ Len(history[i]) = step
    BY <1>1, <1>3 DEF FairRun, Kept
  <2> QED
    BY <1>2, <2>1, AppendSeq
<1>7. \A j \in DOMAIN strategies : Kept(j)'
  <2> SUFFICES ASSUME NEW j \in DOMAIN strategies PROVE Kept(j)'
    OBVIOUS
  <2>1. CASE j = i
    BY <1>1, <1>2, <1>3, <1>6, <2>1 DEF Kept, Record, IsTrader, IsStrategy
  <2>2. CASE j # i
    <3>1. Kept(j)
      BY DEF FairRun
    <3> QED
      BY <1>1, <1>2, <1>3, <2>2, <3>1 DEF Kept, Record, IsTrader, IsStrategy, IsSeq
  <2> QED
    BY <2>1, <2>2
(* What two strategies have recorded before this turn has not changed. *)
<1>8. ASSUME NEW a \in DOMAIN strategies, NEW b \in DOMAIN strategies, NEW m \in Nat,
             AlikeAfter(a, b, m), m <= Len(history[a]), m <= Len(history[b])
      PROVE  Alike(a, b, m)
  <2>1. \A j \in DOMAIN strategies : \A k \in 1 .. Len(history[j]) : history'[j][k] = history[j][k]
    BY <1>1, <1>2, <1>3, <1>5, <1>6
  <2>2. \A k \in 1 .. m : history'[a][k].remaining = history'[b][k].remaining
    BY <1>8
  <2>3. \A k \in 1 .. m : k \in 1 .. Len(history[a]) /\ k \in 1 .. Len(history[b])
    BY <1>5, <1>8
  <2> QED
    BY <2>1, <2>2, <2>3 DEF Alike
(* Another strategy that has sold the same stands where s does. *)
<1>9. ASSUME NEW j \in DOMAIN strategies, j # i, Done(j), AlikeAfter(i, j, step + 1)
      PROVE  Standing(strategies[j]) = Standing(s)
  <2>1. /\ history[j][step + 1] = Record(strategies[j])
    BY <1>9 DEF FairRun, Kept
  <2>2. history'[j] = history[j] /\ step + 1 \in 1 .. step + 1
    BY <1>1, <1>2, <1>9
  <2>3. strategies[j].remaining = s.remaining
    BY <1>6, <1>9, <2>1, <2>2 DEF Record
  <2>4. AlikeAfter(j, i, step)
    <3> SUFFICES ASSUME NEW k \in 1 .. step
                 PROVE  history'[j][k].remaining = history'[i][k].remaining
      OBVIOUS
    <3>1. k \in 1 .. step + 1
      BY <1>1
    <3> QED
      BY <1>9, <3>1
  <2>5. Alike(j, i, step)
    <3>1. step <= Len(history[j]) /\ step <= Len(history[i])
      BY <1>1, <1>3, <1>5, <1>9
    <3> HIDE DEF AlikeAfter
    <3> QED
      BY <1>1, <1>8, <2>4, <3>1
  <2>6. Ahead(j, i)
    BY DEF FairRun
  <2>7. Standing(strategies[i]).remaining - strategies[j].remaining = n
    BY <1>4, <2>3
  <2> QED
    BY <1>3, <1>9, <2>5, <2>6, <2>7 DEF Ahead
<1>10. \A a, b \in DOMAIN strategies : Level(a, b)'
  <2> SUFFICES ASSUME NEW a \in DOMAIN strategies, NEW b \in DOMAIN strategies,
                      Done(a)' <=> Done(b)', AlikeAfter(a, b, Len(history'[a]))
               PROVE  Standing(strategies'[a]) = Standing(strategies'[b])
    BY Zenon DEF Level, Alike, Standing
  <2>1. CASE a = b
    BY <2>1
  <2>2. CASE a # i /\ b # i
    <3>1. Len(history[a]) = Len(history[b]) /\ Len(history'[a]) = Len(history[a])
      BY <1>2, <1>3, <1>5, <2>2
    <3>2. Alike(a, b, Len(history[a]))
      <4>1. AlikeAfter(a, b, Len(history[a]))
        BY <3>1
      <4> HIDE DEF AlikeAfter
      <4>2. Len(history[a]) \in Nat /\ Len(history[a]) <= Len(history[b])
        BY <1>5, <3>1
      <4> QED
        BY <1>8, <4>1, <4>2
    <3>3. Level(a, b)
      BY DEF FairRun
    <3> QED
      BY <1>2, <1>3, <2>2, <3>2, <3>3 DEF Level
  <2>3. CASE a = i /\ b # i
    <3>1. Done(b) /\ AlikeAfter(i, b, step + 1)
      BY <1>1, <1>3, <1>6, <2>3
    <3> QED
      BY <1>2, <1>9, <2>3, <3>1
  <2>4. CASE a # i /\ b = i
    <3>1. Done(a) /\ Len(history'[a]) = step + 1
      BY <1>2, <1>3, <1>5, <2>4
    <3>2. AlikeAfter(i, a, step + 1)
      BY <1>1, <2>4, <3>1
    <3> QED
      BY <1>2, <1>9, <2>4, <3>1, <3>2
  <2> QED
    BY <2>1, <2>2, <2>3, <2>4
<1>11. \A a, b \in DOMAIN strategies : Ahead(a, b)'
  <2> HIDE DEF AlikeAfter
  <2> SUFFICES ASSUME NEW a \in DOMAIN strategies, NEW b \in DOMAIN strategies,
                      Done(a)', ~Done(b)', AlikeAfter(a, b, step), NEW p, NEW sold,
                      p = Standing(strategies'[b]), sold = p.remaining - strategies'[a].remaining
               PROVE  Standing(strategies'[a]) = After(p, sold)
    BY <1>0, <1>1, AfterSame DEF Ahead, Standing
  <2>1. b # i /\ strategies'[b] = strategies[b] /\ ~Done(b)
    BY <1>2, <1>3
  <2>2. Alike(a, b, step)
    <3>1. step <= Len(history[a]) /\ step <= Len(history[b])
      BY <1>1, <1>5
    <3> QED
      BY <1>1, <1>8, <3>1
  <2>3. CASE a = i
    <3>1. Level(i, b) /\ Len(history[i]) = step
      BY <1>1, <1>3, <1>5 DEF FairRun
    <3>2. Standing(strategies[i]) = p
      BY <1>3, <2>1, <2>2, <2>3, <3>1 DEF Level
    <3>3. sold = n
      BY <1>2, <1>4, <2>3, <3>2
    <3> QED
      BY <1>2, <2>3, <3>2, <3>3
  <2>4. CASE a # i
    <3>1. Ahead(a, b) /\ Done(a)
      BY <1>3, <2>4 DEF FairRun
    <3> QED
      BY <1>2, <2>1, <2>2, <2>4, <3>1 DEF Ahead
  <2> QED
    BY <2>3, <2>4
<1>12. FairComparison'
  <2> SUFFICES ASSUME NEW a \in DOMAIN history', NEW b \in DOMAIN history',
                      NEW k \in (DOMAIN history'[a]) \cap (DOMAIN history'[b]),
                      AlikeAfter(a, b, k)
               PROVE  history'[a][k].cost = history'[b][k].cost
    BY Zenon DEF FairComparison
  <2>0. a \in DOMAIN strategies /\ b \in DOMAIN strategies
    BY <1>2
  <2>1. k \in Nat
    BY <1>2, <1>5, <1>6, <2>0
  <2>2. CASE k \in DOMAIN history[a] /\ k \in DOMAIN history[b]
    <3>1. Alike(a, b, k)
      <4>1. k <= Len(history[a]) /\ k <= Len(history[b])
        BY <1>5, <2>0, <2>1, <2>2
      <4> HIDE DEF AlikeAfter
      <4> QED
        BY <1>8, <2>0, <2>1, <4>1
    <3>2. history[a][k].cost = history[b][k].cost
      BY <1>1, <2>0, <2>2, <3>1 DEF FairComparison, Alike
    <3>3. history'[a][k] = history[a][k] /\ history'[b][k] = history[b][k]
      BY <1>2, <1>3, <1>5, <1>6, <2>0, <2>2
    <3> QED
      BY <3>2, <3>3
  <2>3. CASE a = b
    BY <2>3
  <2>4. CASE a = i /\ b # i /\ k \notin DOMAIN history[a]
    <3>1. k = step + 1 /\ Done(b)
      BY <1>1, <1>2, <1>3, <1>5, <1>6, <2>0, <2>1, <2>4
    <3>2. Standing(strategies[b]) = Standing(s)
      BY <1>9, <2>0, <2>4, <3>1
    <3>3. history'[b][k] = Record(strategies[b]) /\ history'[a][k] = Record(s)
      BY <1>2, <1>6, <2>0, <2>4, <3>1 DEF FairRun, Kept
    <3> QED
      BY <3>2, <3>3 DEF Standing, Record
  <2>5. CASE b = i /\ a # i /\ k \notin DOMAIN history[b]
    <3>1. k = step + 1 /\ Done(a)
      BY <1>1, <1>2, <1>3, <1>5, <1>6, <2>0, <2>1, <2>5
    <3>2. AlikeAfter(i, a, step + 1)
      BY <1>1, <2>5, <3>1
    <3>3. Standing(strategies[a]) = Standing(s)
      BY <1>9, <2>0, <2>5, <3>1, <3>2
    <3>4. history'[a][k] = Record(strategies[a]) /\ history'[b][k] = Record(s)
      BY <1>2, <1>6, <2>0, <2>5, <3>1 DEF FairRun, Kept
    <3> QED
      BY <3>3, <3>4 DEF Standing, Record
  <2> QED
    BY <1>2, <2>0, <2>2, <2>3, <2>4, <2>5
<1>13. FairRun'
  BY <1>1, <1>2, <1>7, <1>10, <1>11 DEF FairRun
<1> QED
  BY <1>12, <1>13

(* No record, no change to the comparison. *)
LEMMA HistoryStays ==
  ASSUME FairInv, UNCHANGED history
  PROVE  FairComparison'
BY DEF FairInv, FairComparison

(* A step that changes nothing a run depends on. *)
LEMMA RunStays ==
  ASSUME FairInv, SameMarket, UNCHANGED <<runner, strategies, history, turn>>
  PROVE  FairInv'
<1>1. SUFFICES ASSUME runner = "stepping", FairRun PROVE FairRun'
  BY HistoryStays DEF FairInv
<1>2. \A i : Done(i)' <=> Done(i)
  BY DEF Done
<1>3. \A i, j, n : Alike(i, j, n)' <=> Alike(i, j, n)
  BY DEF Alike
<1>4. step' = step
  BY DEF SameMarket
<1>5. \A i \in DOMAIN strategies : Kept(i)'
  <2> SUFFICES ASSUME NEW i \in DOMAIN strategies PROVE Kept(i)'
    OBVIOUS
  <2>1. Kept(i)
    BY <1>1 DEF FairRun
  <2>2. IsTrader(strategies[i])' /\ IsSeq(history[i])' /\ Len(history[i])' = Len(history[i])
    BY <2>1 DEF Kept, IsSeq, IsTrader, IsStrategy
  <2> QED
    BY <1>2, <1>4, <2>1, <2>2 DEF Kept, Record
<1>6. \A i, j \in DOMAIN strategies : Level(i, j)'
  BY <1>1, <1>2, <1>3 DEF FairRun, Level, Standing
<1>7. \A i, j \in DOMAIN strategies : Ahead(i, j)'
  BY <1>1, <1>2, <1>3, <1>4, AfterSame DEF FairRun, Ahead, Standing
<1> QED
  BY <1>1, <1>4, <1>5, <1>6, <1>7 DEF FairRun

(* Between two steps nobody is ahead. *)
LEMMA BetweenSteps ==
  ASSUME NEW next \in Nat, FairInv, runner = "stepping", step' = next, turn' \in Nat,
         UNCHANGED <<strategies, history>>,
         \A i, j \in DOMAIN strategies : ~Done(i)' /\ (Done(i) <=> Done(j)),
         \A i \in DOMAIN strategies : Len(history[i]) = next
  PROVE  FairInv'
<1>1. FairRun
  BY DEF FairInv
<1>2. \A i, j, n : Alike(i, j, n)' <=> Alike(i, j, n)
  BY DEF Alike
<1>3. \A i \in DOMAIN strategies : Kept(i)'
  <2> SUFFICES ASSUME NEW i \in DOMAIN strategies PROVE Kept(i)'
    OBVIOUS
  <2>1. Kept(i)
    BY <1>1 DEF FairRun
  <2>2. IsTrader(strategies[i])' /\ IsSeq(history[i])' /\ Len(history[i])' = Len(history[i])
    BY <2>1 DEF Kept, IsSeq, IsTrader, IsStrategy
  <2>3. ~Done(i)' /\ Len(history[i])' = step' /\ step' + 0 = step'
    BY <2>2
  <2> QED
    BY <2>2, <2>3, Zenon DEF Kept
<1>4. \A i, j \in DOMAIN strategies : Level(i, j)'
  BY <1>1, <1>2 DEF FairRun, Level, Standing
<1>5. \A i, j \in DOMAIN strategies : Ahead(i, j)'
  BY DEF Ahead
<1>6. FairRun'
  BY <1>1, <1>3, <1>4, <1>5 DEF FairRun
<1> QED
  BY <1>6, HistoryStays DEF FairInv

(* A new runner: nothing is recorded, and all stand at the start. *)
LEMMA NewRunnerFair ==
  ASSUME NEW s, NewRunner(s), IsSeq(s.lineup)
  PROVE  FairInv'
<1>1. /\ strategies' = [i \in DOMAIN s.lineup |-> NewStrategy(s.lineup[i])]
      /\ history' = [i \in DOMAIN s.lineup |-> <<>>]
      /\ step' = 0 /\ turn' = 0
  BY DEF NewRunner
<1>2. DOMAIN s.lineup = 1 .. Len(s.lineup) /\ Len(s.lineup) \in Nat
  BY DEF IsSeq
<1>3. /\ DOMAIN strategies' = 1 .. Len(s.lineup) /\ Len(strategies') = Len(s.lineup)
      /\ DOMAIN history' = 1 .. Len(s.lineup)
  BY <1>1, <1>2
<1>4. \A i \in DOMAIN strategies' : ~Done(i)' /\ history'[i] = <<>>
  BY <1>1, <1>2 DEF Done
<1>5. \A mode : IsTrader(NewStrategy(mode))
  BY DEF IsTrader, IsStrategy, NewStrategy, NewMetrics
<1>6. \A m, n : Standing(NewStrategy(m)) = Standing(NewStrategy(n))
  BY DEF Standing, NewStrategy, NewMetrics
<1>7. \A i \in DOMAIN strategies' : \E m : strategies'[i] = NewStrategy(m)
  BY <1>1
<1>8. FairComparison'
  BY <1>1 DEF FairComparison
<1>9. \A i \in DOMAIN strategies' : Kept(i)'
  <2>1. IsSeq(<<>>)
    BY DEF IsSeq
  <2> SUFFICES ASSUME NEW i \in DOMAIN strategies' PROVE Kept(i)'
    OBVIOUS
  <2>2. IsTrader(strategies'[i])
    BY <1>5, <1>7
  <2>3. IsSeq(history'[i]) /\ Len(history'[i]) = 0
    BY <1>4, <2>1
  <2> QED
    BY <1>1, <1>4, <2>2, <2>3 DEF Kept, IsTrader, IsStrategy, IsSeq
<1>10. \A i, j \in DOMAIN strategies' : Level(i, j)'
  BY <1>6, <1>7 DEF Level, Standing
<1>11. \A i, j \in DOMAIN strategies' : Ahead(i, j)'
  BY <1>4 DEF Ahead
<1>12. FairRun'
  BY <1>1, <1>2, <1>3, <1>9, <1>10, <1>11 DEF FairRun
<1> QED
  BY <1>8, <1>12 DEF FairInv

(* A strategy that sells, and one that repeats its last record. *)
LEMMA OnBlockFair ==
  ASSUME InventoryInv, FairInv, OnBlock
  PROVE  FairInv'
<1>1. PICK i \in DOMAIN strategies :
        /\ HasTurn(i)
        /\ \E traded \in Chunks(strategies[i]) :
             /\ strategies' = [strategies EXCEPT ![i] = AfterBlock(@, traded)]
             /\ history' = [history EXCEPT ![i] = Append(@, Record(strategies'[i]))]
  BY DEF OnBlock
<1>2. PICK traded \in Chunks(strategies[i]) :
             /\ strategies' = [strategies EXCEPT ![i] = AfterBlock(@, traded)]
             /\ history' = [history EXCEPT ![i] = Append(@, Record(strategies'[i]))]
  BY <1>1
<1>3. /\ runner = "stepping" /\ turn = i /\ SameMarket
      /\ turn' = turn + 1 /\ runner' = runner
  BY <1>1 DEF OnBlock, HasTurn, SameMarket
<1>4. FairRun /\ FairComparison /\ IsTrader(strategies[i])
  BY <1>3 DEF FairInv, FairRun, Kept
<1>5. strategies[i].remaining \in Nat /\ traded \in 0 .. strategies[i].remaining
  BY <1>2, <1>3, RunningAccounted DEF Accounted, Chunks
<1> DEFINE s == AfterBlock(strategies[i], traded)
<1>6. /\ IsTrader(s) /\ s.remaining = strategies[i].remaining - traded
      /\ Standing(s) = After(Standing(strategies[i]), traded)
  BY <1>4, <1>5, BlockStanding
<1>7. /\ DOMAIN strategies' = DOMAIN strategies
      /\ strategies'[i] = s
      /\ \A j \in DOMAIN strategies \ {i} : strategies'[j] = strategies[j]
      /\ history' = [history EXCEPT ![i] = Append(@, Record(s))]
  BY <1>2
<1>10. Len(strategies') = Len(strategies)
  BY <1>4, <1>7 DEF FairRun
<1>8. traded \in Nat
  BY <1>5
<1> HIDE DEF s
<1>9. FairComparison' /\ FairRun'
  BY <1>3, <1>4, <1>6, <1>7, <1>8, <1>10, TurnFair
<1> QED
  BY <1>9 DEF FairInv

LEMMA CarryForwardFair ==
  ASSUME InventoryInv, FairInv, CarryForward
  PROVE  FairInv'
<1>1. PICK i \in DOMAIN strategies :
        /\ HasTurn(i)
        /\ history' = [history EXCEPT ![i] = Append(@, Record(strategies[i]))]
  BY DEF CarryForward
<1>2. /\ runner = "stepping" /\ turn = i /\ SameMarket
      /\ turn' = turn + 1 /\ runner' = runner /\ strategies' = strategies
  BY <1>1 DEF CarryForward, HasTurn, SameMarket
<1>3. FairRun /\ FairComparison /\ IsTrader(strategies[i])
  BY <1>2 DEF FairInv, FairRun, Kept
<1>4. strategies[i].remaining = strategies[i].remaining - 0
  BY <1>2, RunningAccounted DEF Accounted
<1>5. Standing(strategies[i]) = After(Standing(strategies[i]), 0)
  BY DEF After
<1>6. /\ DOMAIN strategies' = DOMAIN strategies /\ Len(strategies') = Len(strategies)
      /\ strategies'[i] = strategies[i]
      /\ \A j \in DOMAIN strategies \ {i} : strategies'[j] = strategies[j]
  BY <1>2
<1>7. FairComparison' /\ FairRun'
  BY <1>1, <1>2, <1>3, <1>4, <1>5, <1>6, TurnFair
<1> QED
  BY <1>7 DEF FairInv

(* Every action of the runner, then of the main thread. *)
LEMMA RunnerStepFair ==
  ASSUME InventoryInv, FairInv, RunnerStep
  PROVE  FairInv'
<1>1. CASE BeginStep
  <2>1. /\ runner = "stepping" /\ turn = 0 /\ turn' = 1 /\ step' = step
        /\ UNCHANGED <<strategies, history>>
    BY <1>1 DEF BeginStep
  <2>2. step \in Nat /\ \A i \in DOMAIN strategies : ~Done(i) /\ ~Done(i)'
    BY <2>1 DEF FairInv, FairRun, Done
  <2>3. \A i \in DOMAIN strategies : Len(history[i]) = step'
    BY <2>1, <2>2 DEF FairInv, FairRun, Kept
  <2> QED
    BY <2>1, <2>2, <2>3, BetweenSteps
<1>2. CASE Spin
  BY <1>2, HistoryStays DEF Spin, FairInv
<1>3. CASE CarryForward
  BY <1>3, CarryForwardFair
<1>4. CASE OnBlock
  BY <1>4, OnBlockFair
<1>5. CASE BlockFails
  BY <1>5, HistoryStays DEF BlockFails, FairInv
<1>6. CASE EndStep
  <2>1. /\ runner = "stepping" /\ turn = Len(strategies) + 1 /\ turn' = 0
        /\ step' = step + 1 /\ UNCHANGED <<strategies, history>>
    BY <1>6 DEF EndStep
  <2>2. step \in Nat /\ \A i \in DOMAIN strategies : Done(i) /\ ~Done(i)'
    BY <2>1 DEF FairInv, FairRun, Done
  <2>3. \A i \in DOMAIN strategies : Len(history[i]) = step'
    BY <2>1, <2>2 DEF FairInv, FairRun, Kept
  <2> QED
    BY <2>1, <2>2, <2>3, BetweenSteps
<1>7. CASE CloseRun
  BY <1>7, HistoryStays DEF CloseRun, FairInv
<1> QED
  BY <1>1, <1>2, <1>3, <1>4, <1>5, <1>6, <1>7 DEF RunnerStep

LEMMA QuietFair ==
  ASSUME FairInv, UNCHANGED runnerVars
  PROVE  FairInv'
BY RunStays DEF runnerVars, SameMarket

LEMMA PathLineup == IsSeq(PathSetup.lineup)
<1>1. PathSetup.lineup = BuildStrategies
  BY DEF PathSetup
<1>2. IsSeq(Append(Lineup, "regime_ac"))
  BY LineupIsSeq, AppendSeq
<1> QED
  BY <1>1, <1>2, LineupIsSeq DEF BuildStrategies

LEMMA SweepLineup == sweep \in {1, 2, 3, 4} => IsSeq(SweepSetup.lineup)
<1>1. sweep \in {1, 2, 3, 4} => SweepSetup.lineup = Lineup
  BY DEF SweepSetup
<1> QED
  BY <1>1, LineupIsSeq

LEMMA MainStepFair ==
  ASSUME InventoryInv, FairInv, MainStep
  PROVE  FairInv'
<1>1. CASE StartPath
  BY <1>1, PathLineup, NewRunnerFair DEF StartPath
<1>2. CASE StartSweepPath
  <2>1. sweep \in {1, 2, 3, 4}
    BY <1>2 DEF StartSweepPath, At, InventoryInv
  <2> QED
    BY <1>2, <2>1, SweepLineup, NewRunnerFair DEF StartSweepPath
<1>3. CASE ~StartPath /\ ~StartSweepPath
  <2>1. UNCHANGED runnerVars
    BY <1>3 DEF MainStep, Calibrate, LoadLobData, LoadAggTrades, EndPath, RunFails, Summarise,
                NextSweep, SheetFails, EndSweepPath, EndConfig, RowsFail, Teardown,
                CloseChannel, Join
  <2> QED
    BY <2>1, QuietFair
<1> QED
  BY <1>1, <1>2, <1>3

(* The comparison is as fair as the standings are level. *)
THEOREM FairInvariance == ResearchSpec => []FairInv
<1>1. ResearchInit => FairInv
BY DEF ResearchInit, RunnerInit, FairInv, FairComparison
<1>2. InventoryInv /\ FairInv /\ [ResearchNext]_vars => FairInv'
  <2> SUFFICES ASSUME InventoryInv, FairInv, [ResearchNext]_vars PROVE FairInv'
    OBVIOUS
  <2>1. CASE MainStep
    BY <2>1, MainStepFair
  <2>2. CASE RunStep
    BY <2>2, RunnerStepFair DEF RunStep
  <2>3. CASE UNCHANGED runnerVars
    BY <2>3, QuietFair
  <2> QED
    BY <2>1, <2>2, <2>3 DEF ResearchNext, SendStep, LogStep, vars
<1> QED
  BY <1>1, <1>2, InventoryInvariance, PTL DEF ResearchSpec

(* Strategies that sold the same quantities in the same steps of a path    *)
(* have paid the same, in whatever order the runner serves them: one       *)
(* snapshot per step, an impact per strategy (multi_runner.rs 376-539).    *)
THEOREM FairComparisonThroughout == ResearchSpec => []FairComparison
<1>1. FairInv => FairComparison
  BY DEF FairInv
<1> QED
  BY <1>1, FairInvariance, PTL

-----------------------------------------------------------------------------
(* InStep.  The last record of a strategy is what it is: its next one can  *)
(* only be lower.                                                          *)
Falling(i) ==
  \A k \in 2 .. Len(history[i]) : history[i][k].remaining <= history[i][k - 1].remaining

UpToDate(i) ==
  /\ IsSeq(history[i])
  /\ Len(history[i]) > 0 => history[i][Len(history[i])] = Record(strategies[i])

(* A replay lasts as long as the run: the horizon is its length. *)
ReplayLasts ==
  Historical => cursor = Len(prices) /\ setup.max_steps = Len(setup.snapshots)

StepInv ==
  /\ \A i \in DOMAIN history : Falling(i)
  /\ runner = "stepping" =>
       /\ IsSeq(prices)
       /\ Len(prices) = step + (IF turn > 0 THEN 1 ELSE 0)
       /\ ReplayLasts
       /\ \A i \in DOMAIN history : UpToDate(i)
  /\ runner \in {"closing", "done"} =>
       \A i \in DOMAIN history : Len(history[i]) = Len(prices)

(* A step that leaves history, prices and replay alone, in a run that goes *)
(* on or is over.                                                          *)
LEMMA StepsStay ==
  ASSUME StepInv, UNCHANGED <<strategies, history, prices, setup, cursor, turn, step>>,
         runner' \in {runner, "spinning", "failed"}
  PROVE  StepInv'
<1>1. \A i \in DOMAIN history : Falling(i)'
  BY DEF StepInv, Falling
<1>2. CASE runner' = runner
  <2>1. runner = "stepping" => \A i \in DOMAIN history : UpToDate(i)'
    BY DEF StepInv, UpToDate, IsSeq, Record
  <2>2. runner = "stepping" => ReplayLasts'
    BY DEF StepInv, ReplayLasts, Historical
  <2> QED
    BY <1>1, <1>2, <2>1, <2>2 DEF StepInv, IsSeq
<1>3. CASE runner' \in {"spinning", "failed"}
  BY <1>1, <1>3 DEF StepInv
<1> QED
  BY <1>2, <1>3

LEMMA NewRunnerInStep ==
  ASSUME NEW s, NewRunner(s), IsSeq(s.lineup),
         s.fill_mode = "historical" => s.max_steps = Len(s.snapshots)
  PROVE  StepInv'
<1>1. /\ history' = [i \in DOMAIN s.lineup |-> <<>>]
      /\ step' = 0 /\ turn' = 0 /\ prices' = <<>> /\ cursor' = 0 /\ setup' = s
      /\ runner' = "stepping"
  BY DEF NewRunner
<1>2. IsSeq(<<>>) /\ Len(<<>>) = 0
  BY DEF IsSeq
<1>3. \A i \in DOMAIN history' : history'[i] = <<>>
  BY <1>1
<1>4. \A i \in DOMAIN history' : Falling(i)'
  BY <1>2, <1>3 DEF Falling
<1>5. \A i \in DOMAIN history' : UpToDate(i)'
  <2> SUFFICES ASSUME NEW i \in DOMAIN history' PROVE UpToDate(i)'
    OBVIOUS
  <2>1. history'[i] = <<>> /\ ~(Len(history'[i]) > 0)
    BY <1>2, <1>3
  <2>2. IsSeq(history'[i])
    BY <1>2, <2>1, Zenon
  <2> QED
    BY <2>1, <2>2 DEF UpToDate, IsSeq
<1>6. ReplayLasts'
  BY <1>1, <1>2 DEF ReplayLasts, Historical
<1>7. IsSeq(prices)' /\ Len(prices') = step' + (IF turn' > 0 THEN 1 ELSE 0)
  BY <1>1, <1>2 DEF IsSeq
<1> QED
  BY <1>1, <1>4, <1>5, <1>6, <1>7 DEF StepInv

(* The market moves on by one price, and the replay by one snapshot. *)
LEMMA BeginStepInStep ==
  ASSUME FairInv, StepInv, BeginStep
  PROVE  StepInv'
<1>1. /\ runner = "stepping" /\ turn = 0 /\ turn' = 1 /\ step < setup.max_steps
      /\ cursor' = IF SnapshotLeft THEN cursor + 1 ELSE cursor
      /\ UNCHANGED <<setup, runner, strategies, history, step>>
  BY DEF BeginStep
<1>2. PICK price : prices' = Append(prices, price)
  BY DEF BeginStep
<1>3. IsSeq(prices) /\ step \in Nat /\ Len(prices) = step
  BY <1>1 DEF StepInv, FairInv, FairRun
<1>4. IsSeq(prices') /\ Len(prices') = step + 1
  BY <1>2, <1>3, AppendSeq
<1>5. ReplayLasts'
  <2>1. CASE Historical
    <3>1. cursor = step /\ setup.max_steps = Len(setup.snapshots)
      BY <1>1, <1>3, <2>1 DEF StepInv, ReplayLasts
    <3>2. SnapshotLeft
      BY <1>1, <2>1, <3>1 DEF SnapshotLeft
    <3> QED
      BY <1>1, <1>4, <3>1, <3>2 DEF ReplayLasts, Historical
  <2>2. CASE ~Historical
    BY <1>1, <2>2 DEF ReplayLasts, Historical
  <2> QED
    BY <2>1, <2>2
<1>6. \A i \in DOMAIN history : Falling(i)' /\ UpToDate(i)'
  BY <1>1 DEF StepInv, Falling, UpToDate, IsSeq, Record
<1>7. Len(prices') = step' + (IF turn' > 0 THEN 1 ELSE 0)
  BY <1>1, <1>4
<1> QED
  BY <1>1, <1>4, <1>5, <1>6, <1>7 DEF StepInv, IsSeq

(* A strategy has its turn: its record is no higher than its last one. *)
LEMMA TurnInStep ==
  ASSUME NEW i, NEW s, InventoryInv, FairInv, StepInv, runner = "stepping",
         i \in DOMAIN strategies, turn = i,
         s.remaining \in Nat, s.remaining <= strategies[i].remaining,
         DOMAIN strategies' = DOMAIN strategies,
         strategies'[i] = s, \A j \in DOMAIN strategies \ {i} : strategies'[j] = strategies[j],
         history' = [history EXCEPT ![i] = Append(@, Record(s))],
         turn' = turn + 1, UNCHANGED <<setup, runner, step, prices, cursor>>
  PROVE  StepInv'
<1>1. FairRun /\ DOMAIN history = DOMAIN strategies /\ turn \in Nat /\ turn > 0
  BY DEF FairInv, FairRun
<1>2. IsSeq(history[i]) /\ UpToDate(i) /\ Falling(i)
  BY <1>1 DEF StepInv, UpToDate
<1> DEFINE h == history[i]
           a == Append(h, Record(s))
<1>3. /\ IsSeq(a) /\ Len(h) \in Nat /\ Len(a) = Len(h) + 1 /\ a[Len(h) + 1] = Record(s)
      /\ \A k \in 1 .. Len(h) : a[k] = h[k]
  BY <1>2, AppendSeq
<1>4. /\ DOMAIN history' = DOMAIN history /\ history'[i] = a
      /\ \A j \in DOMAIN history \ {i} : history'[j] = history[j]
  BY <1>1
<1>5. Len(h) > 0 => Record(s).remaining <= h[Len(h)].remaining
  <2>1. Len(h) > 0 => h[Len(h)] = Record(strategies[i])
    BY <1>2 DEF UpToDate
  <2> QED
    BY <2>1 DEF Record
<1>6. \A k \in 2 .. Len(h) : h[k].remaining <= h[k - 1].remaining
  BY <1>2 DEF Falling
<1> HIDE DEF h, a
<1>7. \A k \in 2 .. Len(a) : a[k].remaining <= a[k - 1].remaining
  <2> SUFFICES ASSUME NEW k \in 2 .. Len(a) PROVE a[k].remaining <= a[k - 1].remaining
    OBVIOUS
  <2>1. CASE k = Len(h) + 1
    BY <1>3, <1>5, <2>1
  <2>2. CASE k # Len(h) + 1
    <3>1. k \in 2 .. Len(h) /\ a[k] = h[k] /\ a[k - 1] = h[k - 1]
      BY <1>3, <2>2
    <3> QED
      BY <1>6, <3>1
  <2> QED
    BY <2>1, <2>2
<1>8. \A j \in DOMAIN history : Falling(j)'
  BY <1>4, <1>7 DEF StepInv, Falling
<1>9. \A j \in DOMAIN history : UpToDate(j)'
  <2> SUFFICES ASSUME NEW j \in DOMAIN history PROVE UpToDate(j)'
    OBVIOUS
  <2>1. CASE j = i
    BY <1>3, <1>4, <2>1 DEF UpToDate, IsSeq, Record
  <2>2. CASE j # i
    BY <1>1, <1>4, <2>2 DEF StepInv, UpToDate, IsSeq, Record
  <2> QED
    BY <2>1, <2>2
<1>10. ReplayLasts' /\ IsSeq(prices)'
  BY DEF StepInv, ReplayLasts, Historical, IsSeq
<1>11. Len(prices') = step' + (IF turn' > 0 THEN 1 ELSE 0)
  BY <1>1 DEF StepInv
<1> QED
  BY <1>4, <1>8, <1>9, <1>10, <1>11 DEF StepInv

LEMMA OnBlockInStep ==
  ASSUME InventoryInv, FairInv, StepInv, OnBlock
  PROVE  StepInv'
<1>1. PICK i \in DOMAIN strategies :
        /\ HasTurn(i)
        /\ \E traded \in Chunks(strategies[i]) :
             /\ strategies' = [strategies EXCEPT ![i] = AfterBlock(@, traded)]
             /\ history' = [history EXCEPT ![i] = Append(@, Record(strategies'[i]))]
  BY DEF OnBlock
<1>2. PICK traded \in Chunks(strategies[i]) :
             /\ strategies' = [strategies EXCEPT ![i] = AfterBlock(@, traded)]
             /\ history' = [history EXCEPT ![i] = Append(@, Record(strategies'[i]))]
  BY <1>1
<1>3. /\ runner = "stepping" /\ turn = i /\ turn' = turn + 1
      /\ UNCHANGED <<setup, runner, step, prices, cursor>>
  BY <1>1 DEF OnBlock, HasTurn
<1>4. IsTrader(strategies[i])
  BY <1>3 DEF FairInv, FairRun, Kept
<1>5. strategies[i].remaining \in Nat /\ traded \in 0 .. strategies[i].remaining
  BY <1>2, <1>3, RunningAccounted DEF Accounted, Chunks
<1> DEFINE s == AfterBlock(strategies[i], traded)
<1>6. s.remaining = strategies[i].remaining - traded
  BY <1>4, <1>5, BlockStanding
<1>7. /\ DOMAIN strategies' = DOMAIN strategies
      /\ strategies'[i] = s
      /\ \A j \in DOMAIN strategies \ {i} : strategies'[j] = strategies[j]
      /\ history' = [history EXCEPT ![i] = Append(@, Record(s))]
  BY <1>2
<1> HIDE DEF s
<1>8. s.remaining \in Nat /\ s.remaining <= strategies[i].remaining
  BY <1>5, <1>6
<1> QED
  BY <1>3, <1>7, <1>8, TurnInStep

LEMMA CarryForwardInStep ==
  ASSUME InventoryInv, FairInv, StepInv, CarryForward
  PROVE  StepInv'
<1>1. PICK i \in DOMAIN strategies :
        /\ HasTurn(i)
        /\ history' = [history EXCEPT ![i] = Append(@, Record(strategies[i]))]
  BY DEF CarryForward
<1>2. /\ runner = "stepping" /\ turn = i /\ turn' = turn + 1
      /\ UNCHANGED <<setup, runner, step, prices, cursor, strategies>>
  BY <1>1 DEF CarryForward, HasTurn
<1>3. strategies[i].remaining \in Nat /\ strategies[i].remaining <= strategies[i].remaining
  BY <1>2, RunningAccounted DEF Accounted
<1> QED
  BY <1>1, <1>2, <1>3, TurnInStep

(* The end of a step, and of the run: every strategy has had its turn. *)
LEMMA EndStepInStep ==
  ASSUME FairInv, StepInv, EndStep
  PROVE  StepInv'
<1>1. /\ runner = "stepping" /\ turn = Len(strategies) + 1 /\ turn' = 0 /\ step' = step + 1
      /\ runner' \in {"stepping", "closing"}
      /\ UNCHANGED <<setup, strategies, history, prices, cursor>>
  BY DEF EndStep
<1>2. /\ FairRun /\ step \in Nat /\ Len(strategies) \in Nat /\ DOMAIN history = DOMAIN strategies
      /\ \A i \in DOMAIN strategies : Done(i)
  BY <1>1 DEF FairInv, FairRun, Done
<1>3. Len(prices) = step + 1
  BY <1>1, <1>2 DEF StepInv
<1>4. \A i \in DOMAIN history : Len(history[i]) = Len(prices)
  BY <1>2, <1>3 DEF FairRun, Kept
<1>5. \A i \in DOMAIN history : Falling(i)' /\ UpToDate(i)'
  BY <1>1 DEF StepInv, Falling, UpToDate, IsSeq, Record
<1>6. ReplayLasts' /\ IsSeq(prices)'
  BY <1>1 DEF StepInv, ReplayLasts, Historical, IsSeq
<1>7. Len(prices') = step' + (IF turn' > 0 THEN 1 ELSE 0)
  BY <1>1, <1>2, <1>3
<1> QED
  BY <1>1, <1>4, <1>5, <1>6, <1>7 DEF StepInv

LEMMA CloseRunInStep ==
  ASSUME FairInv, StepInv, CloseRun
  PROVE  StepInv'
<1>1. /\ runner \in {"closing", "stepping"}
      /\ runner = "stepping" => turn = 0
      /\ runner' \in {"failed", "done"} /\ UNCHANGED <<history, prices>>
  BY DEF CloseRun
<1>2. \A i \in DOMAIN history : Len(history[i]) = Len(prices)
  <2>1. CASE runner = "closing"
    BY <2>1 DEF StepInv
  <2>2. CASE runner = "stepping"
    <3>1. FairRun /\ step \in Nat /\ turn = 0 /\ Len(prices) = step
      BY <1>1, <2>2 DEF FairInv, FairRun, StepInv
    <3> QED
      BY <3>1 DEF FairRun, Kept, Done
  <2> QED
    BY <1>1, <2>1, <2>2
<1>3. \A i \in DOMAIN history : Falling(i)'
  BY <1>1 DEF StepInv, Falling
<1> QED
  BY <1>1, <1>2, <1>3 DEF StepInv

LEMMA RunnerStepInStep ==
  ASSUME InventoryInv, FairInv, StepInv, RunnerStep
  PROVE  StepInv'
<1>1. CASE Spin \/ BlockFails
  <2>1. UNCHANGED <<strategies, history, prices, setup, cursor, turn, step>>
    BY <1>1 DEF Spin, BlockFails
  <2>2. runner' \in {runner, "spinning", "failed"}
    BY <1>1 DEF Spin, BlockFails
  <2> QED
    BY <2>1, <2>2, StepsStay
<1> QED
  BY <1>1, BeginStepInStep, CarryForwardInStep, OnBlockInStep, EndStepInStep, CloseRunInStep
  DEF RunnerStep

LEMMA MainStepInStep ==
  ASSUME InventoryInv, StepInv, MainStep
  PROVE  StepInv'
<1>1. CASE StartPath
  <2>1. NewRunner(PathSetup)
    BY <1>1 DEF StartPath
  <2>2. PathSetup.fill_mode = "historical" => PathSetup.max_steps = Len(PathSetup.snapshots)
    BY DEF PathSetup, FillMode, MaxSteps
  <2> QED
    BY <2>1, <2>2, PathLineup, NewRunnerInStep
<1>2. CASE StartSweepPath
  <2>1. NewRunner(SweepSetup) /\ sweep \in {1, 2, 3, 4}
    BY <1>2 DEF StartSweepPath, At, InventoryInv
  <2>2. SweepSetup.fill_mode = "formula"
    BY <2>1 DEF SweepSetup
  <2> QED
    BY <2>1, <2>2, SweepLineup, NewRunnerInStep
<1>3. CASE ~StartPath /\ ~StartSweepPath
  <2>1. UNCHANGED runnerVars
    BY <1>3 DEF MainStep, Calibrate, LoadLobData, LoadAggTrades, EndPath, RunFails, Summarise,
                NextSweep, SheetFails, EndSweepPath, EndConfig, RowsFail, Teardown,
                CloseChannel, Join
  <2> QED
    BY <2>1, StepsStay DEF runnerVars
<1> QED
  BY <1>1, <1>2, <1>3

(* The three invariants together are inductive. *)
THEOREM StepInvariance == ResearchSpec => []StepInv
<1>1. ResearchInit => StepInv
  BY DEF ResearchInit, RunnerInit, StepInv
<1>2. InventoryInv /\ FairInv /\ StepInv /\ [ResearchNext]_vars => StepInv'
  <2> SUFFICES ASSUME InventoryInv, FairInv, StepInv, [ResearchNext]_vars PROVE StepInv'
    OBVIOUS
  <2>1. CASE MainStep
    BY <2>1, MainStepInStep
  <2>2. CASE RunStep
    BY <2>2, RunnerStepInStep DEF RunStep
  <2>3. CASE UNCHANGED runnerVars
    BY <2>3, StepsStay DEF runnerVars
  <2> QED
    BY <2>1, <2>2, <2>3 DEF ResearchNext, SendStep, LogStep, vars
<1> QED
  BY <1>1, <1>2, InventoryInvariance, FairInvariance, PTL DEF ResearchSpec

(* Records, prices and snapshots are those of the same step, in every run: *)
(* the replay never ends before the horizon, no strategy misses a step,    *)
(* and none of them buys back (multi_runner.rs 268-352, next_snapshot).    *)
THEOREM HistoryInStep == ResearchSpec => []InStep
<1>1. FairInv /\ StepInv => InStep
  <2> SUFFICES ASSUME FairInv, StepInv PROVE InStep
    OBVIOUS
  <2>1. runner = "stepping" =>
          \A i \in DOMAIN history : Len(history[i]) = step + (IF i < turn THEN 1 ELSE 0)
    BY DEF FairInv, FairRun, Kept, Done
  <2> QED
    BY <2>1 DEF InStep, StepInv, Falling, ReplayLasts, Historical
<1> QED
  BY <1>1, FairInvariance, StepInvariance, PTL

(* When a run closes, every strategy has a record for every price, however *)
(* early it was complete: export_csv has no line with a hole.              *)
CsvWithoutHoles ==
  runner \in {"closing", "done"} => \A i \in DOMAIN history : Len(history[i]) = Len(prices)

THEOREM CsvNeverHasHoles == ResearchSpec => []CsvWithoutHoles
<1>1. StepInv => CsvWithoutHoles
  BY DEF StepInv, CsvWithoutHoles
<1> QED
  BY <1>1, StepInvariance, PTL

-----------------------------------------------------------------------------
(* From here on the assumptions are cited where they are used.             *)
HIDE RunnerAssumption

(* The sum of a sequence, as a fold and as a sum over its places. *)
SumIter(g, s) ==
  g = [t \in SUBSET DOMAIN s |-> IF t = {} THEN 0 ELSE g[t \ {Top(t)}] + s[Top(t)]]

LEMMA SumOfIsSum ==
  ASSUME NEW s \in Seq(Int)
  PROVE  SumOf(s) = SumFunctionOnSet(s, DOMAIN s)
<1> DEFINE n == Len(s)
           op == [p \in Int \X (1 .. n) |-> p[1] + s[p[2]]]
           g == CHOOSE g : SumIter(g, s)
<1>1. SumOf(s) = g[DOMAIN s]
  BY Zenon DEF SumOf, FoldLeft, MapThenFoldSet, SumIter, Top
<1>2. n \in Nat /\ DOMAIN s = 1 .. n /\ \A k \in 1 .. n : s[k] \in Int
  OBVIOUS
<1> HIDE DEF n
<1>3. op \in [Int \X (1 .. n) -> Int]
  BY <1>2
<1>4. \A x \in Int : \A k \in 1 .. n : op[<<x, k>>] = x + s[k]
  BY <1>2
<1> HIDE DEF op, g
<1>5. ASSUME NEW h, NEW t \in SUBSET (1 .. n), t # {}, h[t \ {Top(t)}] \in Int
      PROVE  op[<<h[t \ {Top(t)}], Top(t)>>] = h[t \ {Top(t)}] + s[Top(t)]
  <2>1. Top(t) \in 1 .. n
    BY <1>2, <1>5, TopOfSome
  <2> QED
    BY <1>4, <1>5, <2>1
<1>6. \E h : SumIter(h, s)
  <2>0. 0 \in Int
    OBVIOUS
  <2>1. PICK h \in [SUBSET (1 .. n) -> Int] : Folded(h, op, 0, SUBSET (1 .. n))
    BY <1>2, <1>3, <2>0, FoldExists
  <2>2. \A t \in SUBSET (1 .. n) : h[t \ {Top(t)}] \in Int
    BY <2>1
  <2>3. \A t \in SUBSET (1 .. n) : h[t] = IF t = {} THEN 0 ELSE h[t \ {Top(t)}] + s[Top(t)]
    <3>1. \A t \in SUBSET (1 .. n) : h[t] = IF t = {} THEN 0 ELSE op[<<h[t \ {Top(t)}], Top(t)>>]
      BY <2>1 DEF Folded
    <3> QED
      BY <1>5, <2>2, <3>1
  <2>4. h = [t \in SUBSET (1 .. n) |-> h[t]]
    BY <2>1
  <2> QED
    BY <1>2, <2>3, <2>4 DEF SumIter
<1>7. SumIter(g, s)
  BY <1>6 DEF g
<1>8. Follows(g, op, 0, Int, n)
  <2>1. \A t \in SUBSET (1 .. n) : g[t] = IF t = {} THEN 0 ELSE g[t \ {Top(t)}] + s[Top(t)]
    BY <1>2, <1>7 DEF SumIter
  <2> QED
    BY <1>5, <2>1 DEF Follows
<1>9. PICK w : Trace(w, op, 0, Int, n) /\ w[n] = g[1 .. n]
  <2>0. 0 \in Int
    OBVIOUS
  <2>1. n \in Nat
    BY <1>2
  <2>2. TracedTo(g[1 .. n], op, 0, Int, n)
    BY <1>3, <1>8, <2>0, <2>1, FoldTrace
  <2> QED
    BY <2>2 DEF TracedTo
<1> DEFINE Q == {k \in Nat : k <= n => w[k] = SumFunctionOnSet(s, 1 .. k)}
<1>10. 0 \in Q
  <2>1. 1 .. 0 = {}
    OBVIOUS
  <2> QED
    BY <1>9, <2>1, SumEmpty DEF Trace
<1>11. ASSUME NEW k \in Nat, k \in Q PROVE k + 1 \in Q
  <2> SUFFICES ASSUME k + 1 <= n PROVE w[k + 1] = SumFunctionOnSet(s, 1 .. k + 1)
    OBVIOUS
  <2>1. k \in 0 .. n - 1 /\ w[k] = SumFunctionOnSet(s, 1 .. k) /\ w[k] \in Int /\ k + 1 \in 1 .. n
    BY <1>2, <1>9, <1>11 DEF Trace
  <2>2. w[k + 1] = w[k] + s[k + 1]
    BY <1>4, <1>9, <2>1 DEF Trace
  <2>3. /\ k + 1 \notin 1 .. k /\ (1 .. k) \cup {k + 1} = 1 .. k + 1
        /\ \A x \in (1 .. k) \cup {k + 1} : s[x] \in Int
    BY <1>2
  <2>5. IsFiniteSet(1 .. k)
    BY FS_Interval
  <2>4. SumFunctionOnSet(s, (1 .. k) \cup {k + 1}) = s[k + 1] + SumFunctionOnSet(s, 1 .. k)
    BY <2>3, <2>5, SumAdd
  <2>6. s[k + 1] \in Int
    BY <1>2, <2>1
  <2>7. SumFunctionOnSet(s, 1 .. k + 1) = s[k + 1] + SumFunctionOnSet(s, 1 .. k)
    BY <2>3, <2>4, Zenon
  <2> QED
    BY <2>1, <2>2, <2>6, <2>7
<1>12. Nat \subseteq Q
  <2> HIDE DEF Q
  <2> QED
    BY <1>10, <1>11, NumberInduction
<1> QED
  BY <1>1, <1>2, <1>9, <1>12

(* What is loaded from the command line. *)
LoadInv ==
  /\ line \in Lines
  /\ impact_coefficient \in Nat
  /\ lob # None => lob \in Seq(Snapshots)
  /\ day # None => day \in Days

LEMMA ParsedCount ==
  ASSUME line \in Lines, NEW option \in Counts, NEW default \in Nat
  PROVE  Parsed(option, default) \in Nat
<1>1. Given(option) => line[option] \in Nat \cup {None}
  BY LinesAssumption DEF Given
<1> QED
  BY <1>1 DEF Parsed

LEMMA ParsedMeasure ==
  ASSUME line \in Lines, NEW option \in Measures, NEW default \in Int
  PROVE  Parsed(option, default) \in Int
<1>1. Given(option) => line[option] \in Int \cup {None}
  BY LinesAssumption DEF Given
<1> QED
  BY <1>1 DEF Parsed

LEMMA NumPathsCount == line \in Lines => NumPaths \in Nat \ {0}
<1> SUFFICES ASSUME line \in Lines PROVE NumPaths \in Nat \ {0}
  OBVIOUS
<1>1. Parsed("paths", 1) \in Nat
  BY ParsedCount DEF Counts
<1> QED
  BY <1>1 DEF NumPaths, Larger

LEMMA SigmaMeasure == line \in Lines => Sigma \in Int
<1> SUFFICES ASSUME line \in Lines PROVE Sigma \in Int
  OBVIOUS
<1>1. SigmaRef \in Int
  BY ResearchAssumption
<1> QED
  BY <1>1, ParsedMeasure DEF Sigma, Measures

(* The whole root of a number, which is at least one for a positive one. *)
LEMMA RootNat ==
  ASSUME NEW n \in Nat
  PROVE  RootOf(n) \in Nat /\ (n > 0 => RootOf(n) > 0)
<1> DEFINE S == {k \in 0 .. n : k * k <= n}
           T == {k + 1 : k \in S}
<1>1. 0 \in S /\ (n > 0 => 1 \in S) /\ S \subseteq Nat
  OBVIOUS
<1>2. T \in SUBSET (1 .. n + 1) /\ T # {} /\ n + 1 \in Nat
  <2>1. \A k \in S : k + 1 \in 1 .. n + 1
    OBVIOUS
  <2> QED
    BY <1>1, <2>1
<1> HIDE DEF T
<1>3. Top(T) \in T /\ \A y \in T : Top(T) >= y
  BY <1>2, TopOfSome
<1>4. PICK k \in S : Top(T) = k + 1
  BY <1>3 DEF T
<1>5. \A y \in S : k >= y
  <2>1. \A y \in S : y + 1 \in T
    BY DEF T
  <2> HIDE DEF S
  <2>2. \A y \in S : k + 1 >= y + 1
    BY <1>3, <1>4, <2>1
  <2> QED
    BY <1>1, <2>2
<1>6. RootOf(n) \in S /\ \A y \in S : RootOf(n) >= y
  <2>1. RootOf(n) = CHOOSE x \in S : \A y \in S : x >= y
    BY DEF RootOf, Max
  <2> HIDE DEF S
  <2> QED
    BY <1>4, <1>5, <2>1
<1> HIDE DEF S
<1>7. RootOf(n) \in Nat
  BY <1>1, <1>6
<1>8. ASSUME n > 0 PROVE RootOf(n) >= 1
  BY <1>1, <1>6, <1>8
<1> QED
  BY <1>7, <1>8

(* Nat \ {0} is closed under multiplication. *)
LEMMA ProductPositive ==
  ASSUME NEW a \in Nat \ {0}, NEW b \in Nat \ {0}
  PROVE  a * b \in Nat \ {0}
OBVIOUS

LEMMA CalibratedNat ==
  ASSUME line \in Lines, NEW trades \in Seq(Fits),
         \A k \in DOMAIN trades : None \notin Range(trades[k])
  PROVE  Calibrated(trades) = None \/ Calibrated(trades) \in Nat
<1> DEFINE valid == {k \in DOMAIN trades :
                       trades[k].trade_size > 0 /\ trades[k].price_before > 0 /\ Sigma > 0}
           y(t) == (200 * Distance(t.price_after, t.price_before))
                     \div (t.price_before * Sigma * RootOf(t.trade_size))
           f == [k \in valid |-> y(trades[k])]
<1>1. ASSUME NEW k \in DOMAIN trades
      PROVE  /\ trades[k].price_before \in Int /\ trades[k].price_after \in Int
             /\ trades[k].trade_size \in Int
  <2>1. trades[k] \in Fits
    OBVIOUS
  <2>2. /\ trades[k].price_before \in Range(trades[k])
        /\ trades[k].price_after \in Range(trades[k])
        /\ trades[k].trade_size \in Range(trades[k])
    BY <2>1 DEF Fits, Range
  <2>3. None \notin Range(trades[k])
    OBVIOUS
  <2> QED
    BY <2>1, <2>2, <2>3 DEF Fits
<1>2. ASSUME NEW k \in valid PROVE f[k] \in Nat
  <2> DEFINE t == trades[k]
             a == 200 * Distance(t.price_after, t.price_before)
             r == RootOf(t.trade_size)
  <2>1. t.price_before \in Nat \ {0} /\ t.price_after \in Int /\ t.trade_size \in Nat \ {0}
    BY <1>1
  <2>2. Sigma \in Nat \ {0}
    BY SigmaMeasure
  <2>3. r \in Nat \ {0}
    <3> DEFINE z == t.trade_size
    <3>1. z \in Nat /\ z > 0
      BY <2>1
    <3> HIDE DEF z
    <3>2. RootOf(z) \in Nat \ {0}
      BY <3>1, RootNat
    <3> QED
      BY <3>2 DEF z
  <2>4. a \in Nat
    BY <2>1 DEF Distance, Larger, Smaller
  <2> DEFINE p == t.price_before
             q == p * Sigma
  <2>5. q \in Nat \ {0}
    BY <2>1, <2>2, ProductPositive
  <2>6. q * r \in Nat \ {0}
    <3> HIDE DEF q, r
    <3> QED
      BY <2>3, <2>5, ProductPositive
  <2>7. f[k] = a \div (q * r)
    OBVIOUS
  <2> DEFINE d == q * r
  <2> HIDE DEF a, d, f
  <2> QED
    BY <2>4, <2>6, <2>7 DEF d
<1>3. DOMAIN trades = 1 .. Len(trades) /\ Len(trades) \in Nat
  OBVIOUS
<1>4. IsFiniteSet(valid)
  <2>1. IsFiniteSet(1 .. Len(trades))
    BY <1>3, FS_Interval
  <2> QED
    BY <1>3, <2>1, FS_Subset
<1>5. DOMAIN f = valid /\ SumFunction(f) = SumFunctionOnSet(f, valid)
  BY Zenon DEF SumFunction, SumFunctionOnSet, FoldFunction, FoldFunctionOnSet
<1>6. SumFunctionOnSet(f, valid) \in Nat
  <2> HIDE DEF f, valid
  <2> QED
    BY <1>2, <1>4, SumNat
<1>7. valid # {} => Cardinality(valid) \in Nat \ {0}
  <2> HIDE DEF valid
  <2> QED
    BY <1>4, FS_CardinalityType, FS_EmptySet
<1>8. Calibrated(trades) = IF valid = {} THEN None ELSE SumFunction(f) \div Cardinality(valid)
  BY Zenon DEF Calibrated
<1> HIDE DEF f, valid
<1>9. valid # {} => SumFunctionOnSet(f, valid) \div Cardinality(valid) \in Nat
  BY <1>6, <1>7
<1> QED
  BY <1>5, <1>8, <1>9

LEMMA LoadKept ==
  ASSUME LoadInv, [ResearchNext]_vars
  PROVE  LoadInv'
<1>1. CASE Calibrate
  <2>1. UNCHANGED <<line, lob, day>>
    BY <1>1 DEF Calibrate
  <2>2. CASE UNCHANGED impact_coefficient
    BY <2>1, <2>2 DEF LoadInv
  <2>3. CASE /\ Given("calibrate") /\ CalibrationCsv(line.calibrate) # None
             /\ impact_coefficient' = IF Calibrated(CalibrationCsv(line.calibrate)) = None
                                      THEN impact_coefficient
                                      ELSE Calibrated(CalibrationCsv(line.calibrate))
    <3> DEFINE file == line.calibrate
    <3>1. /\ file \in Seq(Fits) \cup {None}
      BY <2>3, LinesAssumption DEF LoadInv, Given
    <3>2. /\ CalibrationCsv(file) = file /\ file # None
          /\ \A k \in DOMAIN file : None \notin Range(file[k])
      BY <2>3 DEF CalibrationCsv
    <3> HIDE DEF file
    <3>3. Calibrated(file) = None \/ Calibrated(file) \in Nat
      BY <3>1, <3>2, CalibratedNat DEF LoadInv
    <3>4. impact_coefficient' \in Nat
      BY <2>3, <3>2, <3>3 DEF LoadInv, file
    <3> QED
      BY <2>1, <3>4 DEF LoadInv
  <2> QED
    BY <1>1, <2>2, <2>3 DEF Calibrate
<1>2. CASE LoadLobData
  <2>1. UNCHANGED <<line, impact_coefficient, day>>
    BY <1>2 DEF LoadLobData
  <2>2. lob' = lob \/ lob' = None \/ (Given("lob_data") /\ lob' = LobFromCsv(line.lob_data))
    <3>1. lob' = lob \/ lob' = IF Given("lob_data") THEN LobFromCsv(line.lob_data) ELSE None
      BY <1>2, Zenon DEF LoadLobData
    <3> QED
      BY <3>1
  <2>3. Given("lob_data") => LobFromCsv(line.lob_data) \in Seq(Snapshots) \cup {None}
    BY LinesAssumption DEF LoadInv, Given
  <2> QED
    BY <2>1, <2>2, <2>3 DEF LoadInv
<1>3. CASE LoadAggTrades
  <2>1. UNCHANGED <<line, impact_coefficient, lob>>
    BY <1>3 DEF LoadAggTrades
  <2>2. day' = day \/ day' = None \/ (Given("agg_trades") /\ day' = TradesFromCsv(line.agg_trades))
    <3>1. day' = day \/ day' = IF Given("agg_trades") THEN TradesFromCsv(line.agg_trades) ELSE None
      BY <1>3, Zenon DEF LoadAggTrades
    <3> QED
      BY <3>1
  <2>3. Given("agg_trades") => TradesFromCsv(line.agg_trades) \in Days \cup {None}
    BY LinesAssumption DEF LoadInv, Given
  <2> QED
    BY <2>1, <2>2, <2>3 DEF LoadInv
<1>4. CASE UNCHANGED <<line, impact_coefficient, lob, day>>
  BY <1>4 DEF LoadInv
<1>5. MainStep => \/ Calibrate \/ LoadLobData \/ LoadAggTrades
                  \/ UNCHANGED <<line, impact_coefficient, lob, day>>
  BY DEF MainStep, StartPath, EndPath, RunFails, Summarise, NextSweep, SheetFails, RowsFail,
         StartSweepPath, EndSweepPath, EndConfig, Teardown, CloseChannel, Join
<1>6. RunStep \/ SendStep \/ LogStep \/ UNCHANGED vars
        => UNCHANGED <<line, impact_coefficient, lob, day>>
  BY DEF RunStep, SendStep, LogStep, vars, researchVars
<1> QED
  BY <1>1, <1>2, <1>3, <1>4, <1>5, <1>6 DEF ResearchNext

-----------------------------------------------------------------------------
(* The values in the first k grids. *)
ValuesIn(k) ==
  (IF k >= 1 THEN Len(HorizonGrid) ELSE 0) + (IF k >= 2 THEN Len(SliceGrid) ELSE 0)
    + (IF k >= 3 THEN Len(VolatilityGrid) ELSE 0) + (IF k >= 4 THEN Len(ImpactGrid) ELSE 0)

LEMMA GridsTyped ==
  /\ Len(Grids) = 4 /\ DOMAIN Grids = 1 .. 4
  /\ \A k \in 1 .. 4 : /\ Grids[k] \in Seq(Nat \ {0}) /\ Len(Grids[k]) \in Nat \ {0}
  /\ \A j \in 0 .. 3, k \in 1 .. 4 :
       j + 1 = k => ValuesIn(k) = ValuesIn(j) + Len(Grids[k])
  /\ \A k \in 0 .. 4 : ValuesIn(k) \in Nat /\ ValuesIn(k) <= ValuesIn(4)
  /\ ValuesIn(0) = 0
<1>1. \A grid \in {HorizonGrid, SliceGrid, VolatilityGrid, ImpactGrid} :
        grid \in Seq(Nat \ {0}) /\ Len(grid) \in Nat \ {0}
  <2>1. ASSUME NEW grid \in {HorizonGrid, SliceGrid, VolatilityGrid, ImpactGrid}
        PROVE  grid \in Seq(Nat \ {0}) /\ grid # <<>>
    BY ResearchAssumption
  <2>2. ASSUME NEW s \in Seq(Nat \ {0}), s # <<>> PROVE Len(s) \in Nat \ {0}
    BY <2>2
  <2> QED
    BY <2>1, <2>2
<1>2. Len(Grids) = 4 /\ DOMAIN Grids = 1 .. 4
  BY DEF Grids
<1>3. /\ Grids[1] = HorizonGrid /\ Grids[2] = SliceGrid
      /\ Grids[3] = VolatilityGrid /\ Grids[4] = ImpactGrid
  BY DEF Grids
<1> DEFINE a == Len(HorizonGrid)
           b == Len(SliceGrid)
           c == Len(VolatilityGrid)
           d == Len(ImpactGrid)
<1>4. a \in Nat \ {0} /\ b \in Nat \ {0} /\ c \in Nat \ {0} /\ d \in Nat \ {0}
  BY <1>1
<1>5. /\ ValuesIn(0) = 0 /\ ValuesIn(1) = a /\ ValuesIn(2) = a + b
      /\ ValuesIn(3) = a + b + c /\ ValuesIn(4) = a + b + c + d
  BY <1>4 DEF ValuesIn
<1> HIDE DEF a, b, c, d
<1>6. \A k \in 0 .. 4 : ValuesIn(k) \in Nat /\ ValuesIn(k) <= ValuesIn(4)
  <2>1. \A k \in 0 .. 4 : k \in {0, 1, 2, 3, 4}
    OBVIOUS
  <2> QED
    BY <1>4, <1>5, <2>1
<1>7. ASSUME NEW k \in 1 .. 4
      PROVE  Grids[k] \in Seq(Nat \ {0}) /\ Len(Grids[k]) \in Nat \ {0}
  <2>1. k \in {1, 2, 3, 4}
    OBVIOUS
  <2>2. Grids[k] \in {HorizonGrid, SliceGrid, VolatilityGrid, ImpactGrid}
    BY <1>3, <2>1
  <2> QED
    BY <1>1, <2>2
<1>8. /\ Len(Grids[1]) = a /\ Len(Grids[2]) = b /\ Len(Grids[3]) = c /\ Len(Grids[4]) = d
  BY <1>3 DEF a, b, c, d
<1>9. ASSUME NEW j \in 0 .. 3, NEW k \in 1 .. 4, j + 1 = k
      PROVE  ValuesIn(k) = ValuesIn(j) + Len(Grids[k])
  <2>1. (j = 0 /\ k = 1) \/ (j = 1 /\ k = 2) \/ (j = 2 /\ k = 3) \/ (j = 3 /\ k = 4)
    BY <1>9
  <2> QED
    BY <1>4, <1>5, <1>8, <2>1
<1> QED
  BY <1>2, <1>5, <1>6, <1>7, <1>9

LEMMA TotalIsAll == line \in Lines => TotalPaths = NumPaths * ValuesIn(4) /\ TotalPaths \in Nat
<1> SUFFICES ASSUME line \in Lines PROVE TotalPaths = NumPaths * ValuesIn(4) /\ TotalPaths \in Nat
  OBVIOUS
<1> DEFINE f == [k \in DOMAIN Grids |-> Len(Grids[k])]
<1>1. f \in Seq(Int) /\ DOMAIN f = 1 .. 4 /\ \A k \in 1 .. 4 : f[k] = Len(Grids[k]) /\ f[k] \in Int
  BY GridsTyped
<1> HIDE DEF f
<1>2. SumOf(f) = SumFunctionOnSet(f, 1 .. 4)
  BY <1>1, SumOfIsSum
<1>3. ASSUME NEW j \in 0 .. 3, NEW k \in 1 .. 4, j + 1 = k
      PROVE  SumFunctionOnSet(f, 1 .. k) = f[k] + SumFunctionOnSet(f, 1 .. j)
  <2>1. IsFiniteSet(1 .. j)
    BY FS_Interval
  <2>2. k \notin 1 .. j /\ (1 .. j) \cup {k} = 1 .. k /\ \A x \in (1 .. j) \cup {k} : f[x] \in Int
    BY <1>1, <1>3
  <2>3. SumFunctionOnSet(f, (1 .. j) \cup {k}) = f[k] + SumFunctionOnSet(f, 1 .. j)
    BY <2>1, <2>2, SumAdd
  <2> QED
    BY <2>2, <2>3, Zenon
<1>4. SumFunctionOnSet(f, 1 .. 0) = 0
  <2>1. 1 .. 0 = {}
    OBVIOUS
  <2> QED
    BY <2>1, SumEmpty
<1>5. SumFunctionOnSet(f, 1 .. 4) = ValuesIn(4)
  <2> DEFINE S(k) == SumFunctionOnSet(f, 1 .. k)
  <2>1. S(0) = 0
    BY <1>4
  <2>2. ASSUME NEW j \in 0 .. 3, NEW k \in 1 .. 4, j + 1 = k PROVE S(k) = f[k] + S(j)
    BY <1>3, <2>2
  <2>3. \A j \in 0 .. 3, k \in 1 .. 4 :
          j + 1 = k => f[k] \in Int /\ ValuesIn(k) = ValuesIn(j) + f[k]
    BY <1>1, GridsTyped
  <2> HIDE DEF S
  <2>8. ASSUME NEW j \in 0 .. 3, NEW k \in 1 .. 4, j + 1 = k, S(j) = ValuesIn(j)
        PROVE  S(k) = ValuesIn(k)
    <3>1. ValuesIn(j) \in Nat
      <4>1. j \in 0 .. 4
        OBVIOUS
      <4> QED
        BY <4>1, GridsTyped
    <3> QED
      BY <2>2, <2>3, <2>8, <3>1
  <2>4. S(1) = ValuesIn(1)
    BY <2>1, <2>8, GridsTyped
  <2>5. S(2) = ValuesIn(2)
    BY <2>8, <2>4
  <2>6. S(3) = ValuesIn(3)
    BY <2>8, <2>5
  <2>7. S(4) = ValuesIn(4)
    BY <2>8, <2>6
  <2> QED
    BY <2>7 DEF S
<1>6. TotalPaths = NumPaths * SumOf(f)
  BY Zenon DEF TotalPaths, f
<1>7. NumPaths \in Nat /\ ValuesIn(4) \in Nat
  BY NumPathsCount, GridsTyped
<1>8. TotalPaths = NumPaths * ValuesIn(4)
  BY <1>2, <1>5, <1>6
<1> QED
  BY <1>7, <1>8

(* Where the main thread is in its paths and its sweeps, and how many      *)
(* paths of the sweeps are done.                                           *)
SweepInv ==
  /\ main \in {"calibrate", "load_lob", "load_trades", "next_path", "running",
               "next_sweep", "next_sweep_path", "sweep_running",
               "teardown", "closing", "joining", "exit0", "exit1"}
  /\ path_id \in 0 .. NumPaths
  /\ main \in {"running", "sweep_running"} => path_id < NumPaths
  /\ sweep \in 0 .. 4
  /\ progress_done \in 0 .. TotalPaths
  /\ main \in {"calibrate", "load_lob", "load_trades", "next_path", "running"}
       => sweep = 0 /\ progress_done = 0
  /\ main = "next_sweep" => progress_done = NumPaths * ValuesIn(sweep)
  /\ main \in {"next_sweep_path", "sweep_running"} =>
       /\ sweep \in 1 .. 4
       /\ value \in 1 .. Len(Grid)
       /\ progress_done = NumPaths * (ValuesIn(sweep - 1) + value - 1)

LEMMA SweepLeft ==
  ASSUME SweepInv, UNCHANGED <<line, main, path_id, sweep, value, progress_done>>
  PROVE  SweepInv'
<1>1. NumPaths' = NumPaths /\ TotalPaths' = TotalPaths /\ Grid' = Grid
  BY DEF NumPaths, TotalPaths, Parsed, Given, Grid
<1> QED
  BY <1>1 DEF SweepInv

(* The main thread goes on, and leaves its sweeps as they are. *)
LEMMA SweepGoesOn ==
  ASSUME LoadInv, SweepInv, UNCHANGED <<line, path_id, sweep, value, progress_done>>,
         main' \in {"load_lob", "load_trades", "next_path", "next_sweep",
                    "teardown", "closing", "joining", "exit0", "exit1"},
         main' \in {"load_lob", "load_trades", "next_path"}
           => main \in {"calibrate", "load_lob", "load_trades"},
         main' = "next_sweep" => main = "load_trades"
  PROVE  SweepInv'
<1>1. NumPaths' = NumPaths /\ TotalPaths' = TotalPaths /\ Grid' = Grid
  BY DEF NumPaths, TotalPaths, Parsed, Given, Grid
<1>2. main' = "next_sweep" => progress_done' = NumPaths' * ValuesIn(sweep')
  <2> SUFFICES ASSUME main' = "next_sweep" PROVE progress_done' = NumPaths' * ValuesIn(sweep')
    OBVIOUS
  <2>1. sweep = 0 /\ progress_done = 0 /\ NumPaths * 0 = 0
    BY NumPathsCount DEF SweepInv, LoadInv
  <2> QED
    BY <1>1, <2>1, GridsTyped
<1> QED
  BY <1>1, <1>2 DEF SweepInv

(* A path of a block begins or ends. *)
LEMMA SweepPath ==
  ASSUME SweepInv, UNCHANGED <<line, sweep, value, progress_done>>,
         \/ main = "next_path" /\ main' = "running"
         \/ main = "running" /\ main' = "next_path"
         \/ main = "next_sweep_path" /\ main' = "sweep_running"
         \/ main = "sweep_running" /\ main' = "next_sweep_path",
         path_id' \in 0 .. NumPaths,
         main' \in {"running", "sweep_running"} => path_id' < NumPaths
  PROVE  SweepInv'
<1>1. NumPaths' = NumPaths /\ TotalPaths' = TotalPaths /\ Grid' = Grid
  BY DEF NumPaths, TotalPaths, Parsed, Given, Grid
<1> QED
  BY <1>1 DEF SweepInv

LEMMA SweepBegins ==
  ASSUME LoadInv, SweepInv, main = "next_sweep", sweep # 4, UNCHANGED <<line, progress_done>>,
         sweep' = sweep + 1, value' = 1, path_id' = 0, main' = "next_sweep_path"
  PROVE  SweepInv'
<1> DEFINE k == sweep + 1
<1>1. NumPaths' = NumPaths /\ TotalPaths' = TotalPaths
  BY DEF NumPaths, TotalPaths, Parsed, Given
<1>2. k \in 1 .. 4 /\ k - 1 = sweep
  BY DEF SweepInv
<1>3. Len(Grids[k]) \in Nat \ {0}
  BY <1>2, GridsTyped
<1>4. Grid' = Grids[k]
  BY DEF Grid
<1>5. ValuesIn(sweep) + 1 - 1 = ValuesIn(sweep)
  <2>1. ValuesIn(sweep) \in Nat
    BY GridsTyped DEF SweepInv
  <2> QED
    BY <2>1
<1>6. NumPaths \in Nat
  BY NumPathsCount DEF LoadInv
<1>7. progress_done = NumPaths * (ValuesIn(k - 1) + 1 - 1)
  BY <1>2, <1>5 DEF SweepInv
<1> HIDE DEF k
<1>8. sweep' = k
  BY DEF k
<1> QED
  BY <1>1, <1>2, <1>3, <1>4, <1>6, <1>7, <1>8 DEF SweepInv

(* A value of the grid is done: as many paths more. *)
LEMMA ConfigAdds ==
  ASSUME LoadInv, SweepInv, main = "next_sweep_path"
  PROVE  /\ sweep \in 1 .. 4 /\ value \in 1 .. Len(Grid) /\ Len(Grid) \in Nat
         /\ ValuesIn(sweep - 1) \in Nat /\ NumPaths \in Nat
         /\ ValuesIn(sweep) = ValuesIn(sweep - 1) + Len(Grid)
         /\ progress_done + NumPaths = NumPaths * (ValuesIn(sweep - 1) + value)
         /\ progress_done + NumPaths \in 0 .. TotalPaths
<1> DEFINE p == NumPaths
           v == ValuesIn(sweep - 1)
           l == Len(Grid)
<1>2. sweep \in 1 .. 4 /\ value \in 1 .. l /\ progress_done = p * (v + value - 1)
  BY DEF SweepInv
<1>3. p \in Nat \ {0} /\ v \in Nat /\ l \in Nat
  <2>1. sweep - 1 \in 0 .. 4
    BY <1>2
  <2> QED
    BY <1>2, <2>1, GridsTyped, NumPathsCount DEF Grid, LoadInv
<1>4. ValuesIn(sweep) = v + l /\ v + l <= ValuesIn(4) /\ ValuesIn(4) \in Nat
  <2>1. sweep - 1 \in 0 .. 3 /\ (sweep - 1) + 1 = sweep /\ sweep \in 0 .. 4
    BY <1>2
  <2> DEFINE j == sweep - 1
  <2> HIDE DEF j
  <2>2. ASSUME j \in 0 .. 3, sweep \in 1 .. 4, j + 1 = sweep
        PROVE  ValuesIn(sweep) = ValuesIn(j) + Len(Grids[sweep])
    BY <2>2, GridsTyped
  <2>3. ValuesIn(sweep) = v + l
    BY <1>2, <2>1, <2>2 DEF Grid, j
  <2>4. ValuesIn(sweep) <= ValuesIn(4) /\ ValuesIn(4) \in Nat
    <3>1. 4 \in 0 .. 4
      OBVIOUS
    <3> QED
      BY <2>1, <3>1, GridsTyped
  <2> QED
    BY <2>3, <2>4
<1>5. TotalPaths = p * ValuesIn(4)
  BY TotalIsAll DEF LoadInv
<1> HIDE DEF p, v, l
<1>6. progress_done + p = p * (v + value)
  BY <1>2, <1>3
<1>7. progress_done + p \in 0 .. TotalPaths
  <2> DEFINE a == v + value
             b == ValuesIn(4)
  <2>1. a \in Nat /\ b \in Nat /\ a <= b
    BY <1>2, <1>3, <1>4
  <2> HIDE DEF a, b
  <2>2. p * a \in Nat /\ p * b \in Nat /\ p * a <= p * b
    BY <1>3, <2>1
  <2> QED
    BY <1>5, <1>6, <2>2 DEF a, b
<1> QED
  BY <1>2, <1>3, <1>4, <1>6, <1>7 DEF p, v, l

LEMMA ConfigEnds ==
  ASSUME LoadInv, SweepInv, EndConfig
  PROVE  SweepInv'
<1> DEFINE p == NumPaths
           v == ValuesIn(sweep - 1)
           l == Len(Grid)
<1>1. NumPaths' = p /\ TotalPaths' = TotalPaths /\ Grid' = Grid /\ sweep' = sweep
  BY DEF EndConfig, NumPaths, TotalPaths, Parsed, Given, Grid
<1>2. /\ main = "next_sweep_path" /\ progress_done' = progress_done + p /\ path_id' = 0
      /\ value' = IF value = l THEN value ELSE value + 1
      /\ main' = IF value = l THEN "next_sweep" ELSE "next_sweep_path"
  BY DEF EndConfig, At
<1>3. /\ sweep \in 1 .. 4 /\ value \in 1 .. l /\ l \in Nat /\ v \in Nat /\ p \in Nat
      /\ ValuesIn(sweep) = v + l
      /\ progress_done' = p * (v + value) /\ progress_done' \in 0 .. TotalPaths
  BY <1>2, ConfigAdds
<1> HIDE DEF p, v, l
<1>8. CASE value = l
  BY <1>1, <1>2, <1>3, <1>8 DEF SweepInv
<1>9. CASE value # l
  <2>1. value' \in 1 .. l /\ value' = value + 1 /\ v + value' - 1 = v + value
    BY <1>2, <1>3, <1>9
  <2>2. progress_done' = p * (v + value' - 1)
    BY <1>3, <2>1
  <2>3. main' = "next_sweep_path"
    BY <1>2, <1>9
  <2> QED
    BY <1>1, <1>2, <1>3, <2>1, <2>2, <2>3 DEF SweepInv, v, l
<1> QED
  BY <1>8, <1>9

(* A row is not written: the paths are counted, and the program exits. *)
LEMMA RowsFailCounted ==
  ASSUME LoadInv, SweepInv, RowsFail
  PROVE  SweepInv'
<1>1. /\ NumPaths' = NumPaths /\ TotalPaths' = TotalPaths
      /\ UNCHANGED <<path_id, sweep, value>>
  BY DEF RowsFail, NumPaths, TotalPaths, Parsed, Given
<1>2. main = "next_sweep_path" /\ main' = "exit1" /\ progress_done' = progress_done + NumPaths
  BY DEF RowsFail, At, ExitOne
<1>3. progress_done' \in 0 .. TotalPaths
  BY <1>2, ConfigAdds
<1> QED
  BY <1>1, <1>2, <1>3 DEF SweepInv

LEMMA SweepKept ==
  ASSUME LoadInv, SweepInv, [ResearchNext]_vars
  PROVE  SweepInv'
<1> USE DEF At
<1>1. CASE Calibrate \/ LoadLobData \/ LoadAggTrades
  <2>1. UNCHANGED <<line, path_id, sweep, value, progress_done>>
    BY <1>1 DEF Calibrate, LoadLobData, LoadAggTrades
  <2>2. /\ main \in {"calibrate", "load_lob", "load_trades"}
        /\ main' \in {"load_lob", "load_trades", "next_path", "next_sweep", "exit1"}
        /\ main' = "next_sweep" => main = "load_trades"
    BY <1>1 DEF Calibrate, LoadLobData, LoadAggTrades, ExitOne
  <2> QED
    BY <2>1, <2>2, SweepGoesOn
<1>2. CASE RunFails \/ SheetFails \/ Summarise \/ Teardown \/ CloseChannel \/ Join
  <2>1. UNCHANGED <<line, path_id, sweep, value, progress_done>>
    BY <1>2 DEF RunFails, SheetFails, Summarise, Teardown, CloseChannel, Join
  <2>2. main' \in {"teardown", "closing", "joining", "exit0", "exit1"}
    BY <1>2 DEF RunFails, SheetFails, Summarise, Teardown, CloseChannel, Join, ExitOne
  <2> QED
    BY <2>1, <2>2, SweepGoesOn
<1>3. CASE StartPath \/ StartSweepPath
  <2>1. /\ UNCHANGED <<line, path_id, sweep, value, progress_done>> /\ path_id < NumPaths
        /\ \/ main = "next_path" /\ main' = "running"
           \/ main = "next_sweep_path" /\ main' = "sweep_running"
    BY <1>3 DEF StartPath, StartSweepPath
  <2> QED
    BY <2>1, SweepPath DEF SweepInv
<1>4. CASE EndPath \/ EndSweepPath
  <2>1. /\ UNCHANGED <<line, sweep, value, progress_done>> /\ path_id' = path_id + 1
        /\ \/ main = "running" /\ main' = "next_path"
           \/ main = "sweep_running" /\ main' = "next_sweep_path"
    BY <1>4 DEF EndPath, EndSweepPath
  <2>2. path_id' \in 0 .. NumPaths
    BY <2>1, NumPathsCount DEF SweepInv, LoadInv
  <2>3. main' \notin {"running", "sweep_running"}
    BY <2>1
  <2> QED
    BY <2>1, <2>2, <2>3, SweepPath
<1>5. CASE NextSweep
  <2>1. CASE sweep = Len(Grids)
    <3>1. UNCHANGED <<line, path_id, sweep, value, progress_done>> /\ main' = "teardown"
      BY <1>5, <2>1 DEF NextSweep
    <3> QED
      BY <3>1, SweepGoesOn
  <2>2. CASE sweep # Len(Grids)
    <3>1. /\ main = "next_sweep" /\ sweep # 4 /\ UNCHANGED <<line, progress_done>>
          /\ sweep' = sweep + 1 /\ value' = 1 /\ path_id' = 0 /\ main' = "next_sweep_path"
      BY <1>5, <2>2, GridsTyped DEF NextSweep
    <3> QED
      BY <3>1, SweepBegins
  <2> QED
    BY <2>1, <2>2
<1>6. CASE EndConfig
  BY <1>6, ConfigEnds
<1>8. CASE RowsFail
  BY <1>8, RowsFailCounted
<1>7. CASE RunStep \/ SendStep \/ LogStep \/ UNCHANGED vars
  <2>1. UNCHANGED <<line, main, path_id, sweep, value, progress_done>>
    BY <1>7 DEF RunStep, SendStep, LogStep, vars, researchVars
  <2> QED
    BY <2>1, SweepLeft
<1> QED
  BY <1>1, <1>2, <1>3, <1>4, <1>5, <1>6, <1>7, <1>8 DEF ResearchNext, MainStep

-----------------------------------------------------------------------------
(* The channel holds no more than its bound. *)
ChannelInv ==
  /\ IsSeq(queue)
  /\ Len(queue) <= ChannelCapacity
  /\ senders \subseteq {"main", "runner"}

LEMMA ChannelKept ==
  ASSUME ChannelInv, [ResearchNext]_vars
  PROVE  ChannelInv'
<1>1. CASE SendEvent
  <2>1. /\ queue' = Append(queue, Head(outbox)) /\ Len(queue) < ChannelCapacity
        /\ senders' = senders
    BY <1>1 DEF SendEvent
  <2>2. IsSeq(queue)' /\ Len(queue') = Len(queue) + 1 /\ Len(queue) \in Nat
    <3>1. IsSeq(Append(queue, Head(outbox)))
      BY AppendSeq DEF ChannelInv
    <3> QED
      BY <2>1, <3>1, AppendSeq DEF ChannelInv, IsSeq
  <2> QED
    BY <2>1, <2>2, ChannelAssumption DEF ChannelInv
<1>2. CASE PrintEvent
  <2>1. queue' = Tail(queue) /\ queue # <<>> /\ senders' = senders
    BY <1>2 DEF PrintEvent
  <2>2. IsSeq(Tail(queue)) /\ Len(Tail(queue)) = Len(queue) - 1 /\ Len(queue) \in Nat
    BY <2>1, TailSeq DEF ChannelInv
  <2>3. IsSeq(queue)'
    BY <2>1, <2>2 DEF IsSeq
  <2> QED
    BY <2>1, <2>2, <2>3, ChannelAssumption DEF ChannelInv
<1>3. CASE queue' = queue /\ senders' \subseteq senders \cup {"runner"}
  BY <1>3 DEF ChannelInv, IsSeq
<1>4. MainStep => queue' = queue /\ senders' \subseteq senders \cup {"runner"}
  BY DEF MainStep, Calibrate, LoadLobData, LoadAggTrades, StartPath, EndPath, RunFails,
         Summarise, NextSweep, SheetFails, RowsFail, StartSweepPath, EndSweepPath, EndConfig, Teardown,
         CloseChannel, Join, ExitOne, channelVars
<1>5. RunnerStep => queue' = queue /\ senders' = senders
  BY DEF RunnerStep, BeginStep, Spin, CarryForward, OnBlock, BlockFails, EndStep, CloseRun,
         channelVars
<1>6. LoggerEnds \/ UNCHANGED vars => queue' = queue /\ senders' = senders
  BY DEF LoggerEnds, vars, channelVars
<1> QED
  BY <1>1, <1>2, <1>3, <1>4, <1>5, <1>6 DEF ResearchNext, RunStep, SendStep, LogStep

(* What a run is built from, and its progress within its bounds. *)
SetupTyped(s) ==
  /\ s.max_steps \in Nat /\ s.sigma \in Int /\ s.impact \in Int
  /\ s.snapshots \in Seq(Snapshots)
  /\ s.bucket \in Nat \cup {None}

RunInv ==
  /\ runner \in {"idle", "stepping", "spinning", "closing", "done", "failed"}
  /\ runner = "idle" => setup = None
  /\ runner # "idle" => SetupTyped(setup) /\ step \in 0 .. setup.max_steps
  /\ runner = "stepping" /\ turn > 0 => step < setup.max_steps
  /\ Len(strategies) \in Nat /\ DOMAIN strategies = 1 .. Len(strategies)
  /\ turn \in 0 .. Len(strategies) + 1
  /\ \A i \in DOMAIN strategies : strategies[i].completed \in BOOLEAN

LEMMA SumOfNat ==
  ASSUME NEW s \in Seq(Nat)
  PROVE  SumOf(s) \in Nat
<1>1. s \in Seq(Int)
  OBVIOUS
<1>2. DOMAIN s = 1 .. Len(s) /\ Len(s) \in Nat /\ \A k \in 1 .. Len(s) : s[k] \in Nat
  OBVIOUS
<1>3. IsFiniteSet(1 .. Len(s))
  BY <1>2, FS_Interval
<1>4. SumFunctionOnSet(s, 1 .. Len(s)) \in Nat
  BY <1>2, <1>3, SumNat
<1> QED
  BY <1>1, <1>2, <1>4, SumOfIsSum

LEMMA BucketNat == LoadInv => EffectiveBucketSize \in Nat
<1> SUFFICES ASSUME LoadInv PROVE EffectiveBucketSize \in Nat
  OBVIOUS
<1>1. CASE day # None
  <2>1. day.trades \in Seq([ts : Int, price : Nat \ {0}, quantity : Nat \ {0}, sell : BOOLEAN])
    BY <1>1 DEF LoadInv, Days
  <2>2. Volumes(day.trades) \in Seq(Nat)
    <3> DEFINE t == day.trades
               n == Len(t)
               v == Volumes(t)
               r == [ts : Int, price : Nat \ {0}, quantity : Nat \ {0}, sell : BOOLEAN]
    <3>5. t \in Seq(r)
      BY <2>1
    <3>6. \A e \in r : e.quantity \in Nat
      OBVIOUS
    <3> HIDE DEF t, r
    <3>1. n \in Nat /\ DOMAIN t = 1 .. n /\ \A k \in 1 .. n : t[k].quantity \in Nat
      BY <3>5, <3>6
    <3> HIDE DEF n
    <3>2. v = [k \in 1 .. n |-> t[k].quantity]
      BY <3>1 DEF Volumes
    <3>3. v \in [1 .. n -> Nat]
      BY <3>1, <3>2
    <3>4. v \in Seq(Nat)
      BY <3>1, <3>3
    <3> QED
      BY <3>4 DEF t
  <2>3. TotalVolume(day) \in Nat
    BY <2>2, SumOfNat DEF TotalVolume
  <2>4. EffectiveBucketSize = TotalVolume(day) \div TargetBuckets
    BY <1>1 DEF EffectiveBucketSize, CalibratedBucketSize, CalibrateBucketSize
  <2> DEFINE total == TotalVolume(day)
  <2> HIDE DEF total
  <2>5. total \in Nat /\ TargetBuckets \in Nat \ {0}
    BY <2>3, RunnerAssumption DEF total
  <2>6. total \div TargetBuckets \in Nat
    BY <2>5
  <2> QED
    BY <2>4, <2>6 DEF total
<1>2. CASE day = None
  <2>1. Parsed("bucket_size", 0) \in Int
    BY ParsedMeasure DEF LoadInv, Measures
  <2>2. BucketSizeArg \in Nat
    BY <2>1 DEF BucketSizeArg, Larger
  <2>3. PlaceholderBucket \in Nat
    BY ResearchAssumption
  <2> QED
    BY <1>2, <2>2, <2>3 DEF EffectiveBucketSize
<1> QED
  BY <1>1, <1>2

LEMMA PathSetupTyped == LoadInv => SetupTyped(PathSetup)
<1> SUFFICES ASSUME LoadInv PROVE SetupTyped(PathSetup)
  OBVIOUS
<1>1. MaxSteps \in Nat
  <2>1. DefaultHorizon \in Nat
    BY ResearchAssumption
  <2>2. HorizonArg \in Nat
    BY <2>1, ParsedCount DEF HorizonArg, LoadInv, Counts
  <2>3. lob # None => Len(lob) \in Nat
    BY DEF LoadInv
  <2> QED
    BY <2>2, <2>3 DEF MaxSteps
<1>2. Sigma \in Int /\ impact_coefficient \in Int
  BY SigmaMeasure DEF LoadInv
<1>3. (IF lob = None THEN <<>> ELSE lob) \in Seq(Snapshots)
  BY DEF LoadInv
<1>4. EffectiveBucketSize \in Nat
  BY BucketNat
<1>5. /\ PathSetup.max_steps = MaxSteps /\ PathSetup.sigma = Sigma
      /\ PathSetup.impact = impact_coefficient
      /\ PathSetup.snapshots = (IF lob = None THEN <<>> ELSE lob)
      /\ PathSetup.bucket = EffectiveBucketSize
  BY DEF PathSetup
<1> QED
  BY <1>1, <1>2, <1>3, <1>4, <1>5 DEF SetupTyped

LEMMA SweepSetupTyped == SweepInv /\ main = "next_sweep_path" => SetupTyped(SweepSetup)
<1> SUFFICES ASSUME SweepInv, main = "next_sweep_path" PROVE SetupTyped(SweepSetup)
  OBVIOUS
<1>1. sweep \in {1, 2, 3, 4} /\ Grid[value] \in Nat \ {0}
  <2>1. sweep \in 1 .. 4 /\ value \in 1 .. Len(Grid)
    BY DEF SweepInv
  <2>2. Grids[sweep] \in Seq(Nat \ {0})
    BY <2>1, GridsTyped
  <2> QED
    BY <2>1, <2>2 DEF Grid
<1>2. DefaultHorizon \in Nat /\ SigmaRef \in Int /\ ImpactCoefficient \in Int
  BY ResearchAssumption
<1>3. <<>> \in Seq(Snapshots)
  OBVIOUS
<1> DEFINE g == Grid[value]
<1> HIDE DEF g
<1>4. /\ SweepSetup.max_steps \in {DefaultHorizon, g} /\ SweepSetup.sigma \in {SigmaRef, g}
      /\ SweepSetup.impact \in {ImpactCoefficient, g} /\ SweepSetup.snapshots = <<>>
      /\ SweepSetup.bucket = None
  BY <1>1 DEF SweepSetup, g
<1> QED
  BY <1>1, <1>2, <1>3, <1>4 DEF SetupTyped, g

LEMMA NewRunnerTyped ==
  ASSUME NEW s, NewRunner(s), IsSeq(s.lineup), SetupTyped(s)
  PROVE  RunInv'
<1>1. /\ strategies' = [i \in DOMAIN s.lineup |-> NewStrategy(s.lineup[i])]
      /\ step' = 0 /\ turn' = 0 /\ setup' = s /\ runner' = "stepping"
  BY DEF NewRunner
<1> DEFINE n == Len(s.lineup)
<1>2. n \in Nat /\ DOMAIN s.lineup = 1 .. n
  BY DEF IsSeq
<1> HIDE DEF n
<1>3. DOMAIN strategies' = 1 .. n /\ Len(strategies') = n
  BY <1>1, <1>2
<1>4. \A i \in 1 .. n : strategies'[i].completed = FALSE
  BY <1>1, <1>2 DEF NewStrategy
<1>5. 0 \in 0 .. s.max_steps /\ 0 \in 0 .. n + 1
  BY <1>2 DEF SetupTyped
<1>6. runner' = "stepping" /\ SetupTyped(setup)' /\ step' \in 0 .. setup'.max_steps /\ ~(turn' > 0)
  BY <1>1, <1>5 DEF SetupTyped
<1>7. /\ Len(strategies') \in Nat /\ DOMAIN strategies' = 1 .. Len(strategies')
      /\ turn' \in 0 .. Len(strategies') + 1
  BY <1>1, <1>2, <1>3, <1>5
<1>8. \A i \in DOMAIN strategies' : strategies'[i].completed \in BOOLEAN
  BY <1>3, <1>4, Zenon
<1> QED
  BY <1>6, <1>7, <1>8, Zenon DEF RunInv

LEMMA OnBlockTyped ==
  ASSUME InventoryInv, RunInv, OnBlock
  PROVE  RunInv'
<1>1. PICK i \in DOMAIN strategies :
        /\ HasTurn(i)
        /\ \E traded \in Chunks(strategies[i]) :
             strategies' = [strategies EXCEPT ![i] = AfterBlock(@, traded)]
        /\ turn' = turn + 1 /\ UNCHANGED <<setup, runner, step>>
  BY DEF OnBlock
<1>2. PICK traded \in Chunks(strategies[i]) :
        strategies' = [strategies EXCEPT ![i] = AfterBlock(@, traded)]
  BY <1>1
<1> DEFINE s == strategies[i]
           after == AfterBlock(s, traded)
<1>3. runner = "stepping" /\ turn = i
  BY <1>1 DEF HasTurn
<1>4. IsStrategy(s) /\ Accounted(s)
  BY <1>3, RunningAccounted
<1>5. traded \in 0 .. s.remaining
  BY DEF Chunks
<1>6. IsStrategy(after)
  BY <1>4, <1>5, AfterBlockAccounted
<1>7. after.completed \in BOOLEAN
  <2> DEFINE watched == IF s.mode = "regime_ac" THEN Observe(s) ELSE s
             risked == [watched EXCEPT !.metrics = RecordRiskStep(@, s.remaining, seen.volatility),
                                       !.blocks = 1]
             sold == IF traded > 0 THEN Sold(risked, traded) ELSE risked
             b == (s.remaining - traded <= Dust)
  <2>1. after = [sold EXCEPT !.remaining = @ - traded, !.completed = b]
    BY DEF AfterBlock
  <2>2. b \in BOOLEAN
    OBVIOUS
  <2> HIDE DEF sold, b, after
  <2>3. "completed" \in DOMAIN after
    BY <1>6 DEF IsStrategy
  <2>4. "completed" \in DOMAIN sold
    BY <2>1, <2>3
  <2>5. after.completed = b
    BY <2>1, <2>4
  <2> QED
    BY <2>2, <2>5, Zenon
<1> HIDE DEF after
<1>8. /\ DOMAIN strategies' = DOMAIN strategies /\ strategies'[i] = after
      /\ \A j \in DOMAIN strategies \ {i} : strategies'[j] = strategies[j]
  BY <1>2 DEF after
<1>9. Len(strategies') = Len(strategies)
  BY <1>2 DEF RunInv
<1>10. \A j \in DOMAIN strategies' : strategies'[j].completed \in BOOLEAN
  BY <1>7, <1>8, Zenon DEF RunInv
<1> QED
  BY <1>1, <1>3, <1>8, <1>9, <1>10 DEF RunInv, SetupTyped

LEMMA RunLeft ==
  ASSUME RunInv, UNCHANGED <<setup, strategies, step, turn>>,
         runner' = runner \/ (runner # "idle" /\ runner' \in {"spinning", "closing", "done", "failed"})
  PROVE  RunInv'
BY DEF RunInv, SetupTyped

LEMMA LiquidateCompletes ==
  ASSUME NEW s, IsStrategy(s), s.completed \in BOOLEAN
  PROVE  Liquidate(s).completed \in BOOLEAN
<1>1. CASE ~setup.force_complete \/ s.remaining = 0
  <2>1. Liquidate(s) = s
    BY <1>1, Zenon DEF Liquidate
  <2> QED
    BY <2>1, Zenon
<1>2. CASE ~(~setup.force_complete \/ s.remaining = 0)
  <2> DEFINE m == RecordForcedLiquidation(s.metrics, s.remaining,
                    IF prices = <<>> THEN 1 ELSE Last(prices))
  <2>1. Liquidate(s) = [s EXCEPT !.completed = TRUE, !.metrics = m]
    BY <1>2, Zenon DEF Liquidate
  <2> HIDE DEF m
  <2>2. Liquidate(s).completed = TRUE
    BY <2>1 DEF IsStrategy
  <2> QED
    BY <2>2, Zenon
<1> QED
  BY <1>1, <1>2, Zenon

LEMMA CloseRunTyped ==
  ASSUME InventoryInv, RunInv, CloseRun
  PROVE  RunInv'
<1>1. /\ runner \in {"stepping", "closing"} /\ runner' \in {"done", "failed"}
      /\ strategies' = [i \in DOMAIN strategies |-> Liquidate(strategies[i])]
      /\ UNCHANGED <<setup, step, turn>>
  BY DEF CloseRun
<1> DEFINE n == Len(strategies)
<1>2. n \in Nat /\ DOMAIN strategies = 1 .. n
  BY DEF RunInv
<1> HIDE DEF n
<1>3. DOMAIN strategies' = 1 .. n /\ Len(strategies') = n
  BY <1>1, <1>2
<1>4. \A i \in 1 .. n : Liquidate(strategies[i]).completed \in BOOLEAN
  BY <1>2, LiquidateCompletes DEF RunInv, InventoryInv
<1>5. \A i \in DOMAIN strategies' : strategies'[i] = Liquidate(strategies[i])
  BY <1>1
<1>6. \A i \in DOMAIN strategies' : strategies'[i].completed \in BOOLEAN
  BY <1>3, <1>4, <1>5, Zenon
<1>7. /\ runner' \in {"done", "failed"} /\ SetupTyped(setup)' /\ step' \in 0 .. setup'.max_steps
      /\ turn' \in 0 .. Len(strategies') + 1
  BY <1>1, <1>3 DEF RunInv, SetupTyped, n
<1>8. Len(strategies') \in Nat /\ DOMAIN strategies' = 1 .. Len(strategies')
  BY <1>2, <1>3
<1>9. runner' # "idle" /\ runner' # "stepping"
      /\ runner' \in {"idle", "stepping", "spinning", "closing", "done", "failed"}
  BY <1>7
<1> QED
  BY <1>6, <1>7, <1>8, <1>9, Zenon DEF RunInv

LEMMA StepTurnTyped ==
  ASSUME RunInv, UNCHANGED <<setup, strategies>>, runner = "stepping",
         runner' \in {"stepping", "closing"},
         \/ step' = step /\ turn' \in 0 .. Len(strategies) + 1 /\ step < setup.max_steps
         \/ step' = step + 1 /\ turn' = 0 /\ turn > 0
  PROVE  RunInv'
<1>1. SetupTyped(setup) /\ step \in 0 .. setup.max_steps /\ Len(strategies) \in Nat
  BY DEF RunInv
<1>2. step' \in 0 .. setup.max_steps
  BY <1>1 DEF RunInv, SetupTyped
<1> QED
  BY <1>1, <1>2 DEF RunInv, SetupTyped

LEMMA RunnerStepTyped ==
  ASSUME InventoryInv, RunInv, RunnerStep
  PROVE  RunInv'
<1>0. /\ Len(strategies) \in Nat /\ DOMAIN strategies = 1 .. Len(strategies)
      /\ turn \in Int
  BY DEF RunInv
<1>1. CASE BeginStep
  BY <1>0, <1>1, StepTurnTyped DEF BeginStep
<1>2. CASE Spin
  BY <1>2, RunLeft DEF Spin
<1>3. CASE CarryForward
  <2>1. PICK i \in DOMAIN strategies : runner = "stepping" /\ turn = i
    BY <1>3 DEF CarryForward, HasTurn
  <2>2. turn' = turn + 1 /\ UNCHANGED <<setup, runner, strategies, step>>
    BY <1>3 DEF CarryForward
  <2>3. step < setup.max_steps
    BY <1>0, <2>1 DEF RunInv
  <2> QED
    BY <1>0, <2>1, <2>2, <2>3, StepTurnTyped
<1>4. CASE OnBlock
  BY <1>4, OnBlockTyped
<1>5. CASE BlockFails
  BY <1>5, RunLeft DEF BlockFails, HasTurn
<1>6. CASE EndStep
  BY <1>0, <1>6, StepTurnTyped DEF EndStep
<1>7. CASE CloseRun
  BY <1>7, CloseRunTyped
<1> QED
  BY <1>1, <1>2, <1>3, <1>4, <1>5, <1>6, <1>7 DEF RunnerStep

LEMMA RunKept ==
  ASSUME LoadInv, SweepInv, InventoryInv, RunInv, [ResearchNext]_vars
  PROVE  RunInv'
<1>1. CASE StartPath
  <2>1. NewRunner(PathSetup)
    BY <1>1 DEF StartPath
  <2> QED
    BY <2>1, PathLineup, PathSetupTyped, NewRunnerTyped
<1>2. CASE StartSweepPath
  <2>1. NewRunner(SweepSetup) /\ main = "next_sweep_path" /\ sweep \in {1, 2, 3, 4}
    BY <1>2 DEF StartSweepPath, At, SweepInv
  <2> QED
    BY <2>1, SweepLineup, SweepSetupTyped, NewRunnerTyped
<1>3. CASE RunStep
  BY <1>3, RunnerStepTyped DEF RunStep
<1>4. CASE UNCHANGED runnerVars
  BY <1>4, RunLeft DEF runnerVars
<1>5. MainStep => StartPath \/ StartSweepPath \/ UNCHANGED runnerVars
  BY DEF MainStep, Calibrate, LoadLobData, LoadAggTrades, EndPath, RunFails,
         Summarise, NextSweep, SheetFails, EndSweepPath, EndConfig, RowsFail, Teardown,
         CloseChannel, Join
<1>6. SendStep \/ LogStep \/ UNCHANGED vars => UNCHANGED runnerVars
  BY DEF SendStep, LogStep, vars
<1> QED
  BY <1>1, <1>2, <1>3, <1>4, <1>5, <1>6 DEF ResearchNext

LEMMA TypedAtFirst ==
  ResearchInit => LoadInv /\ SweepInv /\ ChannelInv /\ RunInv
<1> SUFFICES ASSUME ResearchInit PROVE LoadInv /\ SweepInv /\ ChannelInv /\ RunInv
  OBVIOUS
<1>1. LoadInv
  BY ResearchAssumption DEF ResearchInit, LoadInv
<1>2. NumPaths \in Nat \ {0} /\ TotalPaths \in Nat
  <2>1. ValuesIn(4) \in Nat
    <3>1. 4 \in 0 .. 4
      OBVIOUS
    <3> QED
      BY <3>1, GridsTyped
  <2> QED
    BY <1>1, <2>1, NumPathsCount, TotalIsAll DEF LoadInv
<1>3. SweepInv
  BY <1>2 DEF ResearchInit, SweepInv
<1>4. ChannelInv
  <2>1. queue = <<>> /\ senders \subseteq {"main", "runner"}
    BY DEF ResearchInit, ChannelInit
  <2>2. IsSeq(<<>>) /\ Len(<<>>) = 0
    BY DEF IsSeq
  <2> QED
    BY <2>1, <2>2, ChannelAssumption DEF ChannelInv
<1>5. RunInv
  BY DEF ResearchInit, RunnerInit, RunInv
<1> QED
  BY <1>1, <1>3, <1>4, <1>5

TypeInv == LoadInv /\ SweepInv /\ ChannelInv /\ RunInv

(* What is loaded, where main and the runner stand and what the channel    *)
(* holds stay what they may be, in every step of main, of the runner and   *)
(* of the logger.                                                          *)
THEOREM TypeInvariance == ResearchSpec => []TypeInv
<1>1. ResearchInit => TypeInv
  BY TypedAtFirst DEF TypeInv
<1>2. InventoryInv /\ TypeInv /\ [ResearchNext]_vars => TypeInv'
  <2> SUFFICES ASSUME InventoryInv, TypeInv, [ResearchNext]_vars PROVE TypeInv'
    OBVIOUS
  <2>1. LoadInv' /\ SweepInv' /\ ChannelInv'
    BY LoadKept, SweepKept, ChannelKept DEF TypeInv
  <2>2. RunInv'
    BY RunKept DEF TypeInv
  <2> QED
    BY <2>1, <2>2 DEF TypeInv
<1> QED
  BY <1>1, <1>2, InventoryInvariance, PTL DEF ResearchSpec

(* The types hold, whatever the command line and its files are: no loop of *)
(* main or of run passes its end, no channel its bound, and the impact     *)
(* coefficient of a calibration is one (research_sim.rs, multi_runner.rs). *)
THEOREM ResearchTypesHold == ResearchSpec => []ResearchTypeOK
<1>1. TypeInv /\ InventoryInv => ResearchTypeOK
  <2> SUFFICES ASSUME TypeInv, InventoryInv PROVE ResearchTypeOK
    OBVIOUS
  <2>1. /\ path_id \in 0 .. NumPaths /\ sweep \in 0 .. Len(Grids)
        /\ progress_done \in 0 .. TotalPaths /\ impact_coefficient \in Nat
    BY GridsTyped DEF TypeInv, SweepInv, LoadInv
  <2>2. Len(queue) <= ChannelCapacity /\ senders \subseteq {"main", "runner"}
    BY DEF TypeInv, ChannelInv
  <2>3. /\ setup # None => step \in 0 .. setup.max_steps
        /\ turn \in 0 .. Len(strategies) + 1
        /\ runner \in {"idle", "stepping", "spinning", "closing", "done", "failed"}
    BY DEF TypeInv, RunInv
  <2>4. main \in {"calibrate", "load_lob", "load_trades", "next_path", "running",
               "next_sweep", "next_sweep_path", "sweep_running",
               "teardown", "closing", "joining", "exit0", "exit1"}
    BY DEF TypeInv, SweepInv
  <2>5. \A i \in DOMAIN strategies :
          strategies[i].remaining \in 0 .. Total /\ strategies[i].completed \in BOOLEAN
    BY DEF TypeInv, RunInv, InventoryInv, InventoryAgrees
  <2> QED
    BY <2>1, <2>2, <2>3, <2>4, <2>5 DEF ResearchTypeOK
<1> QED
  BY <1>1, TypeInvariance, InventoryInvariance, PTL

(* The levels of a book that is rescaled or generated, and a walk of a      *)
(* market order down its side.                                             *)
Quotes == [price : Int, quantity : Nat]
Walks == [ladder : Seq(Quotes), remaining : Nat, filled : Nat, notional : Int, consumed : Nat]

LEMMA FillLevelTyped ==
  ASSUME NEW walk \in Walks, NEW level \in Quotes
  PROVE  FillLevel(walk, level) \in Walks
<1> DEFINE taken == Smaller(level.quantity, walk.remaining)
           left == [level EXCEPT !.quantity = @ - taken]
           rest == IF walk.remaining > 0 /\ taken = level.quantity THEN walk.ladder
                   ELSE Append(walk.ladder, left)
<1>1. /\ walk.ladder \in Seq(Quotes) /\ walk.remaining \in Nat /\ walk.filled \in Nat
      /\ walk.notional \in Int /\ walk.consumed \in Nat
  BY DEF Walks
<1>2. level.quantity \in Nat /\ level.price \in Int
  BY DEF Quotes
<1>3. taken \in Nat /\ taken <= level.quantity /\ taken <= walk.remaining
  BY <1>1, <1>2 DEF Smaller
<1>4. left \in Quotes
  <2>1. level.quantity - taken \in Nat
    BY <1>2, <1>3
  <2> HIDE DEF taken
  <2> QED
    BY <1>2, <2>1 DEF Quotes
<1> HIDE DEF left
<1>5. rest \in Seq(Quotes)
  <2>1. Append(walk.ladder, left) \in Seq(Quotes)
    BY <1>1, <1>4
  <2> QED
    BY <1>1, <2>1
<1> DEFINE more == IF walk.remaining > 0 THEN 1 ELSE 0
<1>6. /\ walk.remaining - taken \in Nat /\ walk.filled + taken \in Nat
      /\ walk.notional + taken * level.price \in Int
      /\ walk.consumed + more \in Nat
  <2>1. taken * level.price \in Int
    BY <1>2, <1>3
  <2> HIDE DEF taken
  <2> QED
    BY <1>1, <1>3, <2>1
<1>7. FillLevel(walk, level) =
        [ladder |-> rest, remaining |-> walk.remaining - taken, filled |-> walk.filled + taken,
         notional |-> walk.notional + taken * level.price, consumed |-> walk.consumed + more]
  BY Zenon DEF FillLevel, left
<1> HIDE DEF taken, rest, more
<1> QED
  BY <1>5, <1>6, <1>7 DEF Walks

FillIter(g, ladder, quantity) ==
  g = [t \in SUBSET DOMAIN ladder |->
         IF t = {} THEN [ladder |-> <<>>, remaining |-> quantity, filled |-> 0,
                         notional |-> 0, consumed |-> 0]
         ELSE FillLevel(g[t \ {Top(t)}], ladder[Top(t)])]

(* The walk after each level. *)
Walked(w, ladder, quantity) ==
  /\ w \in [0 .. Len(ladder) -> Walks]
  /\ w[0] = [ladder |-> <<>>, remaining |-> quantity, filled |-> 0, notional |-> 0, consumed |-> 0]
  /\ \A k \in 0 .. Len(ladder) - 1 : w[k + 1] = FillLevel(w[k], ladder[k + 1])
  /\ w[Len(ladder)] = FillSide(ladder, quantity)

LEMMA FillSideWalks ==
  ASSUME NEW ladder \in Seq(Quotes), NEW quantity \in Nat
  PROVE  \E w : Walked(w, ladder, quantity)
<1> DEFINE n == Len(ladder)
           base == [ladder |-> <<>>, remaining |-> quantity, filled |-> 0,
                    notional |-> 0, consumed |-> 0]
           op == [p \in Walks \X (1 .. n) |-> FillLevel(p[1], ladder[p[2]])]
           g == CHOOSE g : FillIter(g, ladder, quantity)
<1>1. FillSide(ladder, quantity) = g[DOMAIN ladder]
  BY Zenon DEF FillSide, FoldLeft, MapThenFoldSet, FillIter, Top
<1>2. n \in Nat /\ DOMAIN ladder = 1 .. n /\ \A k \in 1 .. n : ladder[k] \in Quotes
  OBVIOUS
<1>0. base \in Walks
  <2>1. <<>> \in Seq(Quotes)
    OBVIOUS
  <2> QED
    BY <2>1 DEF Walks
<1> HIDE DEF n
<1>3. op \in [Walks \X (1 .. n) -> Walks]
  BY <1>2, FillLevelTyped
<1>4. \A x \in Walks : \A k \in 1 .. n : op[<<x, k>>] = FillLevel(x, ladder[k])
  BY <1>2
<1>10. ASSUME NEW h
       PROVE  FillIter(h, ladder, quantity) <=>
                h = [t \in SUBSET (1 .. n) |->
                       IF t = {} THEN base ELSE FillLevel(h[t \ {Top(t)}], ladder[Top(t)])]
  BY <1>2, Zenon DEF FillIter
<1>11. g = CHOOSE h : FillIter(h, ladder, quantity)
  OBVIOUS
<1> HIDE DEF op, g, base
<1>5. ASSUME NEW h, NEW t \in SUBSET (1 .. n), t # {}, h[t \ {Top(t)}] \in Walks
      PROVE  op[<<h[t \ {Top(t)}], Top(t)>>] = FillLevel(h[t \ {Top(t)}], ladder[Top(t)])
  <2>1. Top(t) \in 1 .. n
    BY <1>2, <1>5, TopOfSome
  <2> QED
    BY <1>4, <1>5, <2>1
<1>6. \E h : FillIter(h, ladder, quantity)
  <2>1. PICK h \in [SUBSET (1 .. n) -> Walks] : Folded(h, op, base, SUBSET (1 .. n))
    BY <1>0, <1>2, <1>3, FoldExists
  <2>2. \A t \in SUBSET (1 .. n) : h[t \ {Top(t)}] \in Walks
    BY <2>1
  <2>3. \A t \in SUBSET (1 .. n) :
          h[t] = IF t = {} THEN base ELSE FillLevel(h[t \ {Top(t)}], ladder[Top(t)])
    <3>1. \A t \in SUBSET (1 .. n) : h[t] = IF t = {} THEN base ELSE op[<<h[t \ {Top(t)}], Top(t)>>]
      BY <2>1 DEF Folded
    <3> QED
      BY <1>5, <2>2, <3>1
  <2>4. h = [t \in SUBSET (1 .. n) |-> h[t]]
    BY <2>1
  <2>5. h = [t \in SUBSET (1 .. n) |->
               IF t = {} THEN base ELSE FillLevel(h[t \ {Top(t)}], ladder[Top(t)])]
    BY <2>3, <2>4
  <2> QED
    BY <1>10, <2>5
<1>7. FillIter(g, ladder, quantity)
  BY <1>6, <1>11
<1>8. Follows(g, op, base, Walks, n)
  <2>1. \A t \in SUBSET (1 .. n) :
          g[t] = IF t = {} THEN base ELSE FillLevel(g[t \ {Top(t)}], ladder[Top(t)])
    BY <1>7, <1>10
  <2> QED
    BY <1>5, <2>1 DEF Follows
<1>12. PICK w : Trace(w, op, base, Walks, n) /\ w[n] = g[1 .. n]
  <2>1. TracedTo(g[1 .. n], op, base, Walks, n)
    BY <1>0, <1>2, <1>3, <1>8, FoldTrace
  <2> QED
    BY <2>1 DEF TracedTo
<1>13. \A k \in 0 .. n - 1 : w[k + 1] = FillLevel(w[k], ladder[k + 1])
  <2> SUFFICES ASSUME NEW k \in 0 .. n - 1 PROVE w[k + 1] = FillLevel(w[k], ladder[k + 1])
    OBVIOUS
  <2>1. w[k] \in Walks /\ k + 1 \in 1 .. n /\ w[k + 1] = op[<<w[k], k + 1>>]
    BY <1>2, <1>12 DEF Trace
  <2> QED
    BY <1>4, <2>1
<1>14. w \in [0 .. n -> Walks] /\ w[0] = base /\ w[n] = FillSide(ladder, quantity)
  BY <1>1, <1>2, <1>12 DEF Trace
<1>15. Walked(w, ladder, quantity)
  BY <1>13, <1>14 DEF Walked, base, n
<1> QED
  BY <1>15

LEMMA PowerPositive ==
  ASSUME NEW n \in Nat
  PROVE  2 ^ n \in Nat \ {0}
<1> DEFINE S == 1 .. n
           P == SUBSET S
<1>1. IsFiniteSet(S) /\ Cardinality(S) = n
  BY FS_Interval
<1> HIDE DEF S
<1>2. IsFiniteSet(P) /\ Cardinality(P) = 2 ^ n
  BY <1>1, FS_SUBSET
<1>3. P # {}
  OBVIOUS
<1> HIDE DEF P
<1>4. Cardinality(P) \in Nat /\ Cardinality(P) # 0
  BY <1>2, <1>3, FS_CardinalityType, FS_EmptySet
<1> QED
  BY <1>2, <1>4

(* A book with two sides. *)
IsBook(b) ==
  /\ b.bids \in Seq(Quotes) /\ b.bids # <<>>
  /\ b.asks \in Seq(Quotes) /\ b.asks # <<>>

LEMMA BookPrices ==
  ASSUME NEW b, IsBook(b)
  PROVE  MidPrice(b) \in Int /\ HalfSpread(b) \in Int /\ MidPrice(b) # None
<1> DEFINE a == b.asks[1]
           d == b.bids[1]
<1>1. a \in Quotes /\ d \in Quotes
  BY DEF IsBook
<1>2. a.price \in Int /\ d.price \in Int
  BY <1>1 DEF Quotes
<1>3. MidPrice(b) = (a.price + d.price) \div 2 /\ HalfSpread(b) = (a.price - d.price) \div 2
  BY DEF IsBook, TwoSided, MidPrice, HalfSpread
<1> HIDE DEF a, d
<1> QED
  BY <1>2, <1>3, VpinAssumption

LEMMA SnapshotIsBook ==
  ASSUME NEW b \in Snapshots
  PROVE  IsBook(b) /\ MidPrice(b) \in Nat \ {0}
<1>1. b.bids \in Ladders /\ b.asks \in Ladders
  BY DEF Snapshots
<1>2. Levels \subseteq Quotes
  BY DEF Levels, Quotes
<1>3. b.bids \in Seq(Levels) /\ b.asks \in Seq(Levels) /\ b.bids # <<>> /\ b.asks # <<>>
  BY <1>1 DEF Ladders
<1>4. IsBook(b)
  BY <1>2, <1>3 DEF IsBook
<1> DEFINE a == b.asks[1]
           d == b.bids[1]
<1>5. a \in Levels /\ d \in Levels
  BY <1>3
<1>6. a.price \in Nat \ {0} /\ d.price \in Nat \ {0}
  BY <1>5 DEF Levels
<1>7. MidPrice(b) = (a.price + d.price) \div 2
  BY <1>3 DEF TwoSided, MidPrice
<1> HIDE DEF a, d
<1> QED
  BY <1>4, <1>6, <1>7

LEMMA ScaledLevels ==
  ASSUME NEW ladder \in Seq(Quotes), ladder # <<>>, NEW to \in Int, NEW from \in Nat \ {0}
  PROVE  /\ ScaleLevels(ladder, to, from) \in Seq(Quotes)
         /\ Len(ScaleLevels(ladder, to, from)) = Len(ladder)
         /\ ScaleLevels(ladder, to, from) # <<>>
         /\ \A i \in 1 .. Len(ladder) :
              /\ ScaleLevels(ladder, to, from)[i].price = (ladder[i].price * to) \div from
              /\ ScaleLevels(ladder, to, from)[i].quantity = ladder[i].quantity
<1> DEFINE n == Len(ladder)
           at(i) == [ladder[i] EXCEPT !.price = (@ * to) \div from]
           f == [i \in 1 .. n |-> at(i)]
<1>1. n \in Nat \ {0} /\ DOMAIN ladder = 1 .. n /\ \A i \in 1 .. n : ladder[i] \in Quotes
  OBVIOUS
<1>2. ScaleLevels(ladder, to, from) = f
  BY <1>1 DEF ScaleLevels
<1>3. ASSUME NEW i \in 1 .. n
      PROVE  /\ at(i) \in Quotes
             /\ at(i).price = (ladder[i].price * to) \div from
             /\ at(i).quantity = ladder[i].quantity
  <2> DEFINE l == ladder[i]
             p == (l.price * to) \div from
  <2>1. l \in Quotes
    BY <1>1
  <2>2. l.price \in Int
    BY <2>1 DEF Quotes
  <2>3. p \in Int
    <3> DEFINE m == l.price * to
    <3>1. m \in Int
      BY <2>2
    <3> HIDE DEF m
    <3> QED
      BY <3>1 DEF m
  <2> HIDE DEF l, p
  <2>4. [l EXCEPT !.price = p] \in Quotes
    BY <2>1, <2>3 DEF Quotes
  <2>5. [l EXCEPT !.price = p].price = p /\ [l EXCEPT !.price = p].quantity = l.quantity
    BY <2>1 DEF Quotes
  <2>6. at(i) = [l EXCEPT !.price = p]
    BY DEF l, p
  <2> HIDE DEF at
  <2> QED
    BY <2>4, <2>5, <2>6 DEF l, p
<1> HIDE DEF n
<1>4. f \in [1 .. n -> Quotes]
  BY <1>3
<1>5. \A i \in 1 .. n : f[i] = at(i)
  OBVIOUS
<1> HIDE DEF f, at
<1>6. f \in Seq(Quotes) /\ Len(f) = n
  BY <1>1, <1>4
<1>7. f # <<>>
  BY <1>1, <1>6
<1> QED
  BY <1>2, <1>3, <1>5, <1>6, <1>7 DEF n, at

LEMMA RescaledIsBook ==
  ASSUME NEW b \in Snapshots, NEW to \in Int
  PROVE  LET r == Rescale(b, to, MidPrice(b)) IN
           /\ IsBook(r)
           /\ r.bids = ScaleLevels(b.bids, to, MidPrice(b))
<1> DEFINE from == MidPrice(b)
<1>1. IsBook(b) /\ from \in Nat \ {0}
  BY SnapshotIsBook
<1> HIDE DEF from
<1>2. /\ ScaleLevels(b.bids, to, from) \in Seq(Quotes) /\ ScaleLevels(b.bids, to, from) # <<>>
      /\ ScaleLevels(b.asks, to, from) \in Seq(Quotes) /\ ScaleLevels(b.asks, to, from) # <<>>
  BY <1>1, ScaledLevels DEF IsBook
<1>3. {"asks", "bids"} \subseteq DOMAIN b
  BY DEF Snapshots
<1> DEFINE r == Rescale(b, to, from)
<1>4. r.bids = ScaleLevels(b.bids, to, from) /\ r.asks = ScaleLevels(b.asks, to, from)
  BY <1>3 DEF Rescale
<1> QED
  BY <1>2, <1>4 DEF IsBook, from

LEMMA GeneratedIsBook ==
  ASSUME NEW mid \in Int, NEW volatility \in Int
  PROVE  LET b == GenerateLob(mid, volatility) IN
           /\ IsBook(b)
           /\ b.bids \in Seq([price : Int, quantity : Nat \ {0}])
<1> DEFINE half == (mid * (2 + volatility)) \div 200
           quantity(k) == Larger(1, BaseQuantity \div (2 ^ (k - 1)))
           offset(k) == half + ((k - 1) * mid) \div 100
           Offers == [price : Int, quantity : Nat \ {0}]
           bids == [k \in 1 .. NumLevels |-> [price |-> mid - offset(k), quantity |-> quantity(k)]]
           asks == [k \in 1 .. NumLevels |-> [price |-> mid + offset(k), quantity |-> quantity(k)]]
<1>1. GenerateLob(mid, volatility) = NewBook(asks, bids, 0)
  BY Zenon DEF GenerateLob
<1>2. half \in Int
  <2> DEFINE m == mid * (2 + volatility)
  <2>1. m \in Int
    OBVIOUS
  <2> HIDE DEF m
  <2> QED
    BY <2>1 DEF m
<1>3. ASSUME NEW k \in 1 .. NumLevels PROVE quantity(k) \in Nat \ {0} /\ offset(k) \in Int
  <2> DEFINE j == k - 1
             d == 2 ^ j
             m == j * mid
  <2>1. j \in Nat /\ BaseQuantity \in Nat
    BY OrderBookAssumption
  <2> HIDE DEF j
  <2>2. d \in Nat \ {0} /\ m \in Int
    BY <2>1, PowerPositive
  <2> HIDE DEF d, m, half
  <2>3. BaseQuantity \div d \in Nat
    BY <2>1, <2>2
  <2>4. Larger(1, BaseQuantity \div d) \in Nat \ {0}
    BY <2>3 DEF Larger
  <2>5. half + m \div 100 \in Int
    BY <1>2, <2>2
  <2> QED
    BY <2>4, <2>5 DEF m, d, j
<1> HIDE DEF half, quantity, offset
<1>4. \A k \in 1 .. NumLevels : mid + offset(k) \in Int /\ mid - offset(k) \in Int
  BY <1>3
<1>5. bids \in [1 .. NumLevels -> Offers] /\ asks \in [1 .. NumLevels -> Offers]
  BY <1>3, <1>4
<1> HIDE DEF bids, asks
<1>6. NumLevels \in Nat \ {0} /\ Offers \subseteq Quotes
  BY OrderBookAssumption DEF Quotes
<1> HIDE DEF Offers
<1>7. bids \in Seq(Offers) /\ asks \in Seq(Offers) /\ Len(bids) = NumLevels /\ Len(asks) = NumLevels
  BY <1>5, <1>6
<1>8. bids \in Seq(Quotes) /\ asks \in Seq(Quotes) /\ bids # <<>> /\ asks # <<>>
  BY <1>6, <1>7
<1> QED
  BY <1>1, <1>7, <1>8 DEF IsBook, NewBook, Offers

SeenTyped ==
  /\ seen.price \in Nat \ {0} /\ seen.volatility \in Int
  /\ seen.snapshot # None => seen.snapshot \in Snapshots

LEMMA BookForIsBook ==
  ASSUME SeenTyped, NEW mid \in Int
  PROVE  IsBook(BookFor(mid))
<1>1. CASE seen.snapshot = None
  BY <1>1, GeneratedIsBook DEF BookFor, SeenTyped
<1>2. CASE seen.snapshot # None
  <2> DEFINE b == seen.snapshot
  <2>1. b \in Snapshots
    BY <1>2 DEF SeenTyped
  <2>2. BookFor(mid) = Rescale(b, mid, MidPrice(b))
    BY <1>2 DEF BookFor
  <2> HIDE DEF b
  <2> QED
    BY <2>1, <2>2, RescaledIsBook
<1> QED
  BY <1>1, <1>2

LEMMA FilledTyped ==
  ASSUME NEW ladder \in Seq(Quotes), NEW quantity \in Nat
  PROVE  FillSide(ladder, quantity) \in Walks
<1>1. PICK w : Walked(w, ladder, quantity)
  BY FillSideWalks
<1>2. Len(ladder) \in 0 .. Len(ladder)
  <2>1. Len(ladder) \in Nat
    OBVIOUS
  <2> QED
    BY <2>1
<1> QED
  BY <1>1, <1>2 DEF Walked

LEMMA BookFillTyped ==
  ASSUME SeenTyped, NEW mid \in Int, NEW traded \in Nat \ {0}
  PROVE  LET f == BookFill(mid, traded) IN
           f.exec_price \in Int /\ f.half_spread \in Int /\ f.temporary \in Int
<1> DEFINE b == BookFor(mid)
           walk == FillSide(b.bids, traded)
           average == IF walk.filled > 0 THEN walk.notional \div walk.filled ELSE 0
           fill == FillMarketSell(b, traded)
<1>1. IsBook(b)
  BY BookForIsBook
<1> HIDE DEF b
<1>2. MidPrice(b) \in Int /\ HalfSpread(b) \in Int /\ MidPrice(b) # None
  BY <1>1, BookPrices
<1>3. walk \in Walks
  BY <1>1, FilledTyped DEF IsBook
<1>4. walk.filled \in Nat /\ walk.notional \in Int
  BY <1>3 DEF Walks
<1>5. /\ fill.filled_qty = walk.filled /\ fill.avg_fill_price = average
      /\ fill.real_spread_cost = HalfSpread(b) * walk.filled
      /\ fill.slippage_from_mid = MidPrice(b) - average
  BY <1>2 DEF FillMarketSell
<1> HIDE DEF walk
<1>6. average \in Int
  <2>1. walk.filled > 0 => walk.notional \div walk.filled \in Int
    BY <1>4
  <2> QED
    BY <2>1
<1> HIDE DEF average, fill
<1>7. /\ fill.filled_qty \in Nat /\ fill.avg_fill_price \in Int /\ fill.real_spread_cost \in Int
      /\ fill.slippage_from_mid \in Int
  BY <1>2, <1>4, <1>5, <1>6
<1> DEFINE r == fill.real_spread_cost
           d == 100 * Distance(fill.slippage_from_mid, 0)
           l == Larger(mid, 1)
           e == IF fill.filled_qty > 0 THEN fill.avg_fill_price ELSE mid
<1>8. BookFill(mid, traded) =
        [exec_price |-> e, half_spread |-> r \div traded, temporary |-> d \div l]
  BY Zenon DEF BookFill, fill, b
<1>9. e \in Int /\ r \in Int /\ d \in Int /\ l \in Nat \ {0}
  BY <1>7 DEF Distance, Larger, Smaller
<1> HIDE DEF e, r, d, l
<1>10. r \div traded \in Int /\ d \div l \in Int
  BY <1>9
<1> QED
  BY <1>8, <1>9, <1>10

(* A calculator with buckets of one size, which are larger than zero when  *)
(* there is anything to fill.                                              *)
Sized(size) == {c \in Calculators : c.bucket_size = size}

LEMMA FillUnitSized ==
  ASSUME NEW size \in Nat \ {0}, NEW c \in Sized(size)
  PROVE  FillUnit(c) \in Sized(size)
<1> DEFINE d == IF c.last_direction = 1 THEN [c EXCEPT !.buy = @ + 1]
                ELSE [c EXCEPT !.sell = @ + 1]
<1>0. /\ c \in Calculators /\ c.bucket_size = size /\ c.buy + 1 \in Nat /\ c.sell + 1 \in Nat
  BY DEF Sized, Calculators
<1>1. d \in Calculators /\ d.bucket_size = size
  <2>1. /\ [c EXCEPT !.buy = @ + 1] \in Calculators
        /\ [c EXCEPT !.buy = @ + 1].bucket_size = size
    BY <1>0 DEF Calculators
  <2>2. /\ [c EXCEPT !.sell = @ + 1] \in Calculators
        /\ [c EXCEPT !.sell = @ + 1].bucket_size = size
    BY <1>0 DEF Calculators
  <2> QED
    BY <2>1, <2>2
<1>2. FillUnit(c) = Seal(d)
  BY DEF FillUnit
<1> HIDE DEF d
<1>3. d.buckets \in Seq(Int) /\ d.buy \in Nat /\ d.sell \in Nat /\ d.window_buckets \in Nat
  BY <1>1 DEF Calculators
<1> DEFINE i == Imbalance(d)
           sealed == Append(d.buckets, i)
           kept == IF Len(sealed) > d.window_buckets THEN Tail(sealed) ELSE sealed
<1>4. i \in Int
  <2> DEFINE a == 100 * Distance(d.buy, d.sell)
  <2>1. a \in Int
    BY <1>3 DEF Distance, Larger, Smaller
  <2>2. i = a \div size
    BY <1>1 DEF Imbalance
  <2> HIDE DEF a, i
  <2> QED
    BY <2>1, <2>2
<1> HIDE DEF i
<1>5. sealed \in Seq(Int) /\ sealed # <<>>
  <2> DEFINE old == d.buckets
  <2>1. old \in Seq(Int)
    BY <1>3
  <2> HIDE DEF old
  <2>2. Append(old, i) \in Seq(Int)
    BY <1>4, <2>1
  <2>3. Append(old, i) # <<>>
    BY <1>4, <2>1
  <2> QED
    BY <2>2, <2>3 DEF old
<1>6. Tail(sealed) \in Seq(Int)
  <2> HIDE DEF sealed
  <2> QED
    BY <1>5
<1>7. kept \in Seq(Int)
  <2> HIDE DEF sealed
  <2> QED
    BY <1>5, <1>6
<1>8. Seal(d) = IF d.buy + d.sell < d.bucket_size THEN d
                ELSE [d EXCEPT !.buckets = kept, !.buy = 0, !.sell = 0]
  BY Zenon DEF Seal, i
<1> HIDE DEF kept
<1>9. /\ [d EXCEPT !.buckets = kept, !.buy = 0, !.sell = 0] \in Calculators
      /\ [d EXCEPT !.buckets = kept, !.buy = 0, !.sell = 0].bucket_size = size
  BY <1>1, <1>7 DEF Calculators
<1> QED
  BY <1>1, <1>2, <1>8, <1>9 DEF Sized

AddIter(g, base, n) ==
  g = [t \in SUBSET (1 .. n) |-> IF t = {} THEN base ELSE FillUnit(g[t \ {Top(t)}])]

LEMMA AddTradeSized ==
  ASSUME NEW calc \in Calculators, NEW price, NEW volume \in Nat, NEW prev,
         calc.bucket_size > 0 \/ volume = 0
  PROVE  AddTrade(calc, price, volume, prev) \in Calculators
<1> DEFINE base == [calc EXCEPT !.last_direction = Direction(calc, price, prev)]
           units == [unit \in 1 .. volume |-> unit]
           X == Sized(calc.bucket_size)
           op == [p \in X \X (1 .. volume) |-> FillUnit(p[1])]
           g == CHOOSE g : AddIter(g, base, volume)
<1>1. AddTrade(calc, price, volume, prev) = g[1 .. volume]
  <2>1. \A t \in SUBSET (1 .. volume) : t # {} => Top(t) \in 1 .. volume
    BY TopOfSome
  <2>2. DOMAIN units = 1 .. volume
    OBVIOUS
  <2>3. AddTrade(calc, price, volume, prev) = g[DOMAIN units]
    <3>1. DOMAIN units = 1 .. volume
      OBVIOUS
    <3> QED
      BY <3>1, Zenon DEF AddTrade, FoldLeft, MapThenFoldSet, AddIter, Top
  <2> QED
    BY <2>2, <2>3, Zenon
<1>2. base \in X
  <2>1. Direction(calc, price, prev) \in Int
    <3>1. calc.last_direction \in Int
      BY DEF Calculators
    <3> QED
      BY <3>1 DEF Direction
  <2> DEFINE r == Direction(calc, price, prev)
  <2> HIDE DEF r
  <2>2. r \in Int
    BY <2>1 DEF r
  <2>3. base = [calc EXCEPT !.last_direction = r]
    BY DEF r
  <2> HIDE DEF base
  <2> QED
    BY <2>2, <2>3 DEF Sized, Calculators
<1>3. \A x \in X : volume # 0 => FillUnit(x) \in X
  <2>1. volume # 0 => calc.bucket_size \in Nat \ {0}
    BY DEF Calculators
  <2> QED
    BY <2>1, FillUnitSized
<1>4. \A k \in 1 .. volume : volume # 0
  OBVIOUS
<1>11. g = CHOOSE h : AddIter(h, base, volume)
  OBVIOUS
<1> HIDE DEF X, base, g
<1>5. op \in [X \X (1 .. volume) -> X]
  BY <1>3, <1>4
<1>6. \A x \in X : \A k \in 1 .. volume : op[<<x, k>>] = FillUnit(x)
  OBVIOUS
<1> HIDE DEF op
<1>7. ASSUME NEW h, NEW t \in SUBSET (1 .. volume), t # {}, h[t \ {Top(t)}] \in X
      PROVE  op[<<h[t \ {Top(t)}], Top(t)>>] = FillUnit(h[t \ {Top(t)}])
  <2>1. Top(t) \in 1 .. volume
    BY <1>7, TopOfSome
  <2> QED
    BY <1>6, <1>7, <2>1
<1>8. \E h : AddIter(h, base, volume)
  <2>1. PICK h \in [SUBSET (1 .. volume) -> X] : Folded(h, op, base, SUBSET (1 .. volume))
    BY <1>2, <1>5, FoldExists
  <2>2. \A t \in SUBSET (1 .. volume) : h[t \ {Top(t)}] \in X
    BY <2>1
  <2>3. \A t \in SUBSET (1 .. volume) :
          h[t] = IF t = {} THEN base ELSE FillUnit(h[t \ {Top(t)}])
    <3>1. \A t \in SUBSET (1 .. volume) :
            h[t] = IF t = {} THEN base ELSE op[<<h[t \ {Top(t)}], Top(t)>>]
      BY <2>1 DEF Folded
    <3> QED
      BY <1>7, <2>2, <3>1
  <2>4. h = [t \in SUBSET (1 .. volume) |-> h[t]]
    BY <2>1
  <2> QED
    BY <2>3, <2>4 DEF AddIter
<1>9. AddIter(g, base, volume)
  BY <1>8, <1>11
<1>10. Follows(g, op, base, X, volume)
  <2>1. \A t \in SUBSET (1 .. volume) : g[t] = IF t = {} THEN base ELSE FillUnit(g[t \ {Top(t)}])
    BY <1>9 DEF AddIter
  <2> QED
    BY <1>7, <2>1 DEF Follows
<1>12. PICK w : Trace(w, op, base, X, volume) /\ w[volume] = g[1 .. volume]
  <2>1. TracedTo(g[1 .. volume], op, base, X, volume)
    BY <1>2, <1>5, <1>10, FoldTrace
  <2> QED
    BY <2>1 DEF TracedTo
<1>13. w[volume] \in X
  BY <1>12 DEF Trace
<1> QED
  BY <1>1, <1>12, <1>13 DEF X, Sized

(* The impacts of a strategy, and those a trade leaves of them.            *)
Impacts == [step : Nat, base : Int]

Kept1(kept, e, now) == IF now - e.step < MaxAge THEN Append(kept, e) ELSE kept

LeftIter(g, transient, now) ==
  g = [t \in SUBSET DOMAIN transient |->
         IF t = {} THEN <<>> ELSE Kept1(g[t \ {Top(t)}], transient[Top(t)], now)]

LEMMA UnforgottenImpacts ==
  ASSUME NEW s \in Seq(Impacts), NEW now
  PROVE  Unforgotten(s, now) \in Seq(Impacts)
<1> DEFINE n == Len(s)
           X == Seq(Impacts)
           op == [p \in X \X (1 .. n) |-> Kept1(p[1], s[p[2]], now)]
           g == CHOOSE g : LeftIter(g, s, now)
<1>1. Unforgotten(s, now) = g[DOMAIN s]
  BY Zenon DEF Unforgotten, FoldLeft, MapThenFoldSet, LeftIter, Top, Kept1
<1>2. n \in Nat /\ DOMAIN s = 1 .. n /\ (\A k \in 1 .. n : s[k] \in Impacts) /\ <<>> \in X
  OBVIOUS
<1>3. ASSUME NEW x \in X, NEW k \in 1 .. n PROVE Kept1(x, s[k], now) \in X
  <2>1. s[k] \in Impacts
    BY <1>2
  <2> DEFINE e == s[k]
  <2> HIDE DEF e
  <2>2. Append(x, e) \in Seq(Impacts)
    BY <2>1 DEF e
  <2> QED
    BY <2>2, Zenon DEF Kept1, e
<1>11. g = CHOOSE h : LeftIter(h, s, now)
  OBVIOUS
<1> HIDE DEF n, X, g
<1>5. op \in [X \X (1 .. n) -> X]
  BY <1>3
<1>6. \A x \in X : \A k \in 1 .. n : op[<<x, k>>] = Kept1(x, s[k], now)
  OBVIOUS
<1> HIDE DEF op
<1>7. ASSUME NEW h, NEW t \in SUBSET (1 .. n), t # {}, h[t \ {Top(t)}] \in X
      PROVE  op[<<h[t \ {Top(t)}], Top(t)>>] = Kept1(h[t \ {Top(t)}], s[Top(t)], now)
  <2>1. Top(t) \in 1 .. n
    BY <1>2, <1>7, TopOfSome
  <2> QED
    BY <1>6, <1>7, <2>1
<1>8. \E h : LeftIter(h, s, now)
  <2>1. PICK h \in [SUBSET (1 .. n) -> X] : Folded(h, op, <<>>, SUBSET (1 .. n))
    BY <1>2, <1>5, FoldExists
  <2>2. \A t \in SUBSET (1 .. n) : h[t \ {Top(t)}] \in X
    BY <2>1
  <2>3. \A t \in SUBSET (1 .. n) :
          h[t] = IF t = {} THEN <<>> ELSE Kept1(h[t \ {Top(t)}], s[Top(t)], now)
    <3>1. \A t \in SUBSET (1 .. n) :
            h[t] = IF t = {} THEN <<>> ELSE op[<<h[t \ {Top(t)}], Top(t)>>]
      BY <2>1 DEF Folded
    <3> QED
      BY <1>7, <2>2, <3>1
  <2>4. h = [t \in SUBSET (1 .. n) |-> h[t]]
    BY <2>1
  <2> QED
    BY <1>2, <2>3, <2>4 DEF LeftIter
<1>9. LeftIter(g, s, now)
  BY <1>8, <1>11
<1>10. Follows(g, op, <<>>, X, n)
  <2>1. \A t \in SUBSET (1 .. n) :
          g[t] = IF t = {} THEN <<>> ELSE Kept1(g[t \ {Top(t)}], s[Top(t)], now)
    BY <1>2, <1>9 DEF LeftIter
  <2> QED
    BY <1>7, <2>1 DEF Follows
<1>12. PICK w : Trace(w, op, <<>>, X, n) /\ w[n] = g[1 .. n]
  <2>1. TracedTo(g[1 .. n], op, <<>>, X, n)
    BY <1>2, <1>5, <1>10, FoldTrace
  <2> QED
    BY <2>1 DEF TracedTo
<1>13. w[n] \in X
  BY <1>2, <1>12 DEF Trace
<1> QED
  BY <1>1, <1>2, <1>12, <1>13 DEF X

LEMMA SumOfAppend ==
  ASSUME NEW s \in Seq(Int), NEW x \in Int
  PROVE  /\ Append(s, x) \in Seq(Int) /\ Len(Append(s, x)) = Len(s) + 1
         /\ SumOf(s) \in Int /\ SumOf(Append(s, x)) = SumOf(s) + x
<1> DEFINE n == Len(s)
           t == Append(s, x)
<1>1. /\ n \in Nat /\ DOMAIN s = 1 .. n /\ \A k \in 1 .. n : s[k] \in Int
      /\ t \in Seq(Int) /\ Len(t) = n + 1 /\ DOMAIN t = 1 .. n + 1
      /\ t[n + 1] = x /\ \A k \in 1 .. n : t[k] = s[k]
  OBVIOUS
<1> HIDE DEF n, t
<1>2. SumOf(s) = SumFunctionOnSet(s, 1 .. n) /\ SumOf(t) = SumFunctionOnSet(t, 1 .. n + 1)
  BY <1>1, SumOfIsSum
<1>3. IsFiniteSet(1 .. n) /\ n + 1 \notin 1 .. n /\ \A k \in 1 .. n : t[k] \in Int
  BY <1>1, FS_Interval
<1>4. SumFunctionOnSet(t, 1 .. n) = SumFunctionOnSet(s, 1 .. n)
  BY <1>1, SumCongruence
<1>5. SumFunctionOnSet(s, 1 .. n) \in Int
  BY <1>1, <1>3, SumInt
<1>6. SumFunctionOnSet(t, (1 .. n) \cup {n + 1}) = t[n + 1] + SumFunctionOnSet(t, 1 .. n)
  BY <1>1, <1>3, SumAdd
<1>7. (1 .. n) \cup {n + 1} = 1 .. n + 1
  BY <1>1
<1>8. SumFunctionOnSet(t, 1 .. n + 1) = x + SumFunctionOnSet(s, 1 .. n)
  BY <1>1, <1>4, <1>6, <1>7, Zenon
<1> QED
  BY <1>1, <1>2, <1>5, <1>8 DEF n, t

(* A set has as many members as ones add up to over it. *)
LEMMA SumOfOnes ==
  ASSUME NEW I, IsFiniteSet(I), NEW f, \A x \in I : f[x] = 1
  PROVE  SumFunctionOnSet(f, I) = Cardinality(I)
<1> DEFINE P == {T \in SUBSET I : SumFunctionOnSet(f, T) = Cardinality(T)}
<1>1. {} \in P
  BY SumEmpty, FS_EmptySet
<1>2. ASSUME NEW T \in SUBSET I, NEW x \in I \ T, T \in P
      PROVE  T \cup {x} \in P
  <2>1. IsFiniteSet(T) /\ x \notin T /\ f[x] = 1 /\ \A y \in T : f[y] \in Int
    BY FS_Subset
  <2>2. SumFunctionOnSet(f, T \cup {x}) = f[x] + SumFunctionOnSet(f, T)
    <3>1. f[x] \in Int
      BY <2>1
    <3> HIDE DEF P
    <3> QED
      BY <2>1, <3>1, SumAdd
  <2>3. Cardinality(T \cup {x}) = Cardinality(T) + 1 /\ Cardinality(T) \in Nat
    BY <2>1, FS_AddElement, FS_CardinalityType
  <2>4. SumFunctionOnSet(f, T) = Cardinality(T)
    BY <1>2
  <2> QED
    BY <2>1, <2>2, <2>3, <2>4
<1> QED
  <2> HIDE DEF P
  <2>1. I \in P
    BY <1>1, <1>2, SubsetInduction
  <2> QED
    BY <2>1 DEF P

LEMMA ImageFinite ==
  ASSUME NEW I, IsFiniteSet(I), NEW f
  PROVE  IsFiniteSet({f[i] : i \in I})
<1> DEFINE L(T) == {f[i] : i \in T}
           P == {T \in SUBSET I : IsFiniteSet(L(T))}
<1>1. {} \in P
  <2>1. L({}) = {}
    OBVIOUS
  <2> QED
    BY <2>1, FS_EmptySet
<1>2. ASSUME NEW T \in SUBSET I, NEW x \in I \ T, T \in P
      PROVE  T \cup {x} \in P
  <2>1. L(T \cup {x}) = L(T) \cup {f[x]}
    OBVIOUS
  <2>2. IsFiniteSet(L(T))
    BY <1>2
  <2>3. IsFiniteSet(L(T) \cup {f[x]})
    BY <2>2, FS_AddElement
  <2> QED
    BY <2>1, <2>3
<1> QED
  <2> HIDE DEF P
  <2>1. I \in P
    BY <1>1, <1>2, SubsetInduction
  <2> QED
    BY <2>1 DEF P

(* The labels of the trades, counted label by label. *)
LEMMA DistributionCountsAll ==
  ASSUME NEW m, IsSeq(m.regime_at_execution)
  PROVE  FoldFunction(+, 0, RegimeDistribution(m)) = Len(m.regime_at_execution)
<1> DEFINE r == m.regime_at_execution
           n == Len(r)
           I == 1 .. n
           B == Range(r)
           ones == [i \in I |-> 1]
           g == RegimeDistribution(m)
<1>1. n \in Nat /\ DOMAIN r = I
  BY DEF IsSeq
<1>2. IsFiniteSet(I) /\ Cardinality(I) = n
  BY <1>1, FS_Interval
<1>3. FoldFunction(+, 0, g) = SumFunctionOnSet(g, B)
  <2>1. DOMAIN g = B
    BY DEF RegimeDistribution
  <2> HIDE DEF g, B
  <2>2. FoldFunction(+, 0, g) = SumFunctionOnSet(g, DOMAIN g)
    BY Zenon DEF FoldFunction, SumFunctionOnSet
  <2> QED
    BY <2>1, <2>2
<1>4. B = {r[i] : i \in I}
  BY <1>1 DEF Range
<1>5. IsFiniteSet(B)
  <2> HIDE DEF I, r, B
  <2> QED
    BY <1>2, <1>4, ImageFinite
<1>6. \A b \in B : g[b] = Cardinality(Owned(I, r, b))
  BY <1>1 DEF RegimeDistribution, Owned
<1>7. \A x \in I : ones[x] = 1 /\ r[x] \in B
  BY <1>4
<1> HIDE DEF r, n, I, B, ones, g
<1>8. \A b \in B : g[b] = SumFunctionOnSet(ones, Owned(I, r, b))
  <2> SUFFICES ASSUME NEW b \in B PROVE g[b] = SumFunctionOnSet(ones, Owned(I, r, b))
    OBVIOUS
  <2>1. IsFiniteSet(Owned(I, r, b)) /\ \A x \in Owned(I, r, b) : ones[x] = 1
    BY <1>2, <1>7, FS_Subset DEF Owned
  <2> QED
    BY <1>6, <2>1, SumOfOnes
<1>9. Groups(g, ones, I, B, r)
  BY <1>8 DEF Groups
<1>10. \A x \in I : ones[x] \in Int /\ r[x] \in B
  BY <1>7
<1>11. SumFunctionOnSet(g, B) = SumFunctionOnSet(ones, I)
  BY <1>2, <1>5, <1>9, <1>10, SumGroups
<1>12. SumFunctionOnSet(ones, I) = n
  BY <1>2, <1>7, SumOfOnes
<1> QED
  BY <1>3, <1>11, <1>12 DEF g, n, r

(* The cost of the trades at a low and at a high VPIN is that of all. *)
LEMMA SplitLosesNothing ==
  ASSUME NEW m, m.per_trade_cost \in Seq(Int), m.initial_notional # 0,
         Len(m.vpin_at_execution) = Len(m.per_trade_cost)
  PROVE  LET split == ConditionalShortfall(m, 50)
             part(x) == IF x = None THEN 0 ELSE x IN
           part(split[1]) + part(split[2]) = SumOf(m.per_trade_cost)
<1> DEFINE c == m.per_trade_cost
           n == Len(c)
           I == 1 .. n
           high == {i \in I : m.vpin_at_execution[i] > 50}
           low == I \ high
           cost(S) == IF S = {} THEN None ELSE FoldFunctionOnSet(+, 0, c, S)
           part(x) == IF x = None THEN 0 ELSE x
<1>1. n \in Nat /\ DOMAIN c = I /\ \A k \in I : c[k] \in Int
  OBVIOUS
<1>2. ConditionalShortfall(m, 50) = <<cost(low), cost(high)>>
  <2>1. Smaller(Len(m.vpin_at_execution), n) = n
    BY <1>1 DEF Smaller
  <2> HIDE DEF c
  <2> QED
    BY <2>1, Zenon DEF ConditionalShortfall, c
<1>3. IsFiniteSet(I) /\ high \subseteq I
  BY <1>1, FS_Interval
<1> HIDE DEF c, high
<1>4. ASSUME NEW S \in SUBSET I
      PROVE  SumFunctionOnSet(c, S) \in Int /\ part(cost(S)) = SumFunctionOnSet(c, S)
  <2>1. IsFiniteSet(S)
    BY <1>3, FS_Subset
  <2>2. SumFunctionOnSet(c, S) \in Int
    BY <1>1, <2>1, SumInt
  <2>3. SumFunctionOnSet(c, S) = FoldFunctionOnSet(+, 0, c, S)
    BY Zenon DEF SumFunctionOnSet
  <2>4. S = {} => SumFunctionOnSet(c, S) = 0
    BY SumEmpty
  <2>5. cost(S) = IF S = {} THEN None ELSE SumFunctionOnSet(c, S)
    BY <2>3, Zenon
  <2> HIDE DEF cost
  <2>6. SumFunctionOnSet(c, S) # None
    BY <2>2, VpinAssumption
  <2> QED
    BY <2>2, <2>4, <2>5, <2>6
<1> DEFINE sl == SumFunctionOnSet(c, low)
           sh == SumFunctionOnSet(c, high)
<1>5. /\ part(cost(low)) = sl /\ part(cost(high)) = sh /\ sl \in Int /\ sh \in Int
  BY <1>3, <1>4
<1>6. SumFunctionOnSet(c, low \cup high) = sl + sh
  <2>1. IsFiniteSet(low) /\ IsFiniteSet(high) /\ low \cap high = {}
    BY <1>3, FS_Subset
  <2>2. \A k \in low \cup high : c[k] \in Int
    BY <1>1, <1>3
  <2> HIDE DEF low
  <2> QED
    BY <2>1, <2>2, SumUnion
<1>7. low \cup high = I
  BY <1>3
<1>8. SumOf(c) = SumFunctionOnSet(c, I)
  BY <1>1, SumOfIsSum DEF c
<1>9. part(cost(low)) + part(cost(high)) = SumOf(c)
  BY <1>5, <1>6, <1>7, <1>8, Zenon
<1> HIDE DEF cost, part, low
<1> QED
  BY <1>2, <1>9 DEF part, c

LEMMA SquareNat ==
  ASSUME NEW x \in Int
  PROVE  x * x \in Nat
OBVIOUS

(* The square of a sum of n terms is at most n times the sum of squares. *)
LEMMA SquareOfSum ==
  ASSUME NEW n \in Nat, NEW sq \in Nat, NEW sum \in Int, NEW x \in Int, sum * sum <= n * sq
  PROVE  (sum + x) * (sum + x) <= (n + 1) * (sq + x * x)
<1> DEFINE a == x * x
           b == sum * x
           c == sum * sum
           p == n * sq
           q == n * a
           d == n * x
<1>1. a \in Nat /\ b \in Int /\ c \in Nat /\ p \in Nat /\ q \in Nat /\ d \in Int
  BY SquareNat
<1>2. (sum + x) * (sum + x) = c + 2 * b + a
  OBVIOUS
<1>3. (n + 1) * (sq + a) = p + q + sq + a
  <2>1. a \in Int
    BY <1>1
  <2> HIDE DEF a
  <2> QED
    BY <2>1
<1>4. 2 * b <= q + sq
  <2>1. CASE n = 0
    <3>1. c <= 0
      BY <2>1
    <3>2. sum = 0
      BY <3>1, Z3
    <3>3. b = 0 /\ q = 0
      BY <2>1, <3>2
    <3> QED
      BY <3>3
  <2>2. CASE n # 0
    <3> DEFINE e == q + sq - 2 * b
    <3>1. (d - sum) * (d - sum) \in Nat
      <4> DEFINE f == d - sum
      <4>1. f \in Int
        BY <1>1
      <4> HIDE DEF f
      <4>2. f * f \in Nat
        BY <4>1, SquareNat
      <4> QED
        BY <4>2 DEF f
    <3>2. (d - sum) * (d - sum) = d * d - 2 * (n * b) + c
      <4>1. (d - sum) * (d - sum) = d * d - 2 * (d * sum) + c
        BY <1>1
      <4>2. d * sum = n * b
        OBVIOUS
      <4> QED
        BY <4>1, <4>2
    <3>3. d * d = n * q
      OBVIOUS
    <3>4. n * e = n * q + p - 2 * (n * b)
      <4> HIDE DEF q, b, c, d, a
      <4> QED
        BY <1>1
    <3>5. n * q \in Int /\ n * b \in Int /\ c <= p
      <4>1. c <= p
        OBVIOUS
      <4> HIDE DEF q, b, c, d, a, p
      <4> QED
        BY <1>1, <4>1
    <3>6. n * e >= 0
      <4> HIDE DEF q, b, c, d, a, p, e
      <4> DEFINE nq == n * q
                 nb == n * b
                 ne == n * e
                 dd == (d - sum) * (d - sum)
                 ds == d * d
      <4>1. dd = ds - 2 * nb + c /\ ds = nq /\ ne = nq + p - 2 * nb
        BY <3>2, <3>3, <3>4
      <4>2. dd \in Nat /\ nq \in Int /\ nb \in Int /\ c <= p /\ c \in Int /\ p \in Int
        BY <1>1, <3>1, <3>5
      <4> HIDE DEF nq, nb, ne, dd, ds
      <4>3. ne >= 0
        BY <4>1, <4>2
      <4> QED
        BY <4>3 DEF ne
    <3>7. e \in Int
      <4> HIDE DEF q, b, c, d, a, p
      <4> QED
        BY <1>1
    <3>8. e >= 0
      <4> HIDE DEF e
      <4> QED
        BY <2>2, <3>6, <3>7, Z3
    <3> HIDE DEF q, b
    <3> QED
      BY <1>1, <3>8
  <2> QED
    BY <2>1, <2>2
<1>5. c <= p
  OBVIOUS
<1> HIDE DEF b, c, p, q, d
<1>6. c + 2 * b + a <= p + q + sq + a
  <2> HIDE DEF a
  <2> QED
    BY <1>1, <1>4, <1>5
<1> QED
  BY <1>2, <1>3, <1>6

(* What CostsConserved rests on: the total is what the trades and the      *)
(* forced part add up to, and the squares are at least what a mean leaves. *)
Books(m) ==
  /\ {"initial_notional", "cost_sq", "trade_count", "per_trade_cost",
      "vpin_at_execution", "regime_at_execution"} \subseteq DOMAIN m
  /\ IsAccount(m) /\ Explained(m)
  /\ m.initial_notional \in Nat \ {0}
  /\ m.per_trade_cost \in Seq(Int)
  /\ m.cumulative_cost = SumOf(m.per_trade_cost) + m.forced_cost
  /\ m.trade_count \in Nat /\ Len(m.per_trade_cost) <= m.trade_count
  /\ m.trade_count = 0 => m.forced_cost = 0
  /\ m.cost_sq \in Nat
  /\ SumOf(m.per_trade_cost) * SumOf(m.per_trade_cost) <= Len(m.per_trade_cost) * m.cost_sq
  /\ IsSeq(m.vpin_at_execution) /\ IsSeq(m.regime_at_execution)

LEMMA EmptySum == SumOf(<<>>) = 0
<1>1. <<>> \in Seq(Int) /\ DOMAIN <<>> = {}
  OBVIOUS
<1> QED
  BY <1>1, SumOfIsSum, SumEmpty

LEMMA NewBooks == Books(NewMetrics(ArrivalPrice, Total))
<1> DEFINE m == NewMetrics(ArrivalPrice, Total)
<1>1. ArrivalPrice * Total \in Nat \ {0} /\ ArrivalPrice \in Int
  BY RunnerAssumption, ProductPositive
<1> DEFINE v == ArrivalPrice * Total
<1>2. v \in Nat \ {0}
  BY <1>1
<1> HIDE DEF v
<1>3. m = [arrival_price |-> ArrivalPrice, initial_notional |-> v,
           total_executed |-> 0, vwap_numerator |-> 0, cumulative_cost |-> 0,
           cost_sq |-> 0, risk_penalty |-> 0, trade_count |-> 0, forced_cost |-> 0,
           spread |-> 0, temporary |-> 0, permanent |-> 0, timing |-> 0,
           vpin_at_execution |-> <<>>, per_trade_cost |-> <<>>, regime_at_execution |-> <<>>]
  BY DEF NewMetrics, v
<1> HIDE DEF m
<1>4. IsAccount(m) /\ Explained(m)
  BY <1>1, <1>3 DEF IsAccount, Amounts, Explained
<1>5. <<>> \in Seq(Int) /\ Len(<<>>) = 0 /\ IsSeq(<<>>)
  BY DEF IsSeq
<1> QED
  BY <1>2, <1>3, <1>4, <1>5, EmptySum DEF Books, m

LEMMA BooksConserve ==
  ASSUME NEW m, Books(m), NEW observes_vpin,
         observes_vpin => Len(m.vpin_at_execution) = Len(m.per_trade_cost)
  PROVE  Conserved(m, observes_vpin)
<1> DEFINE d == Decompose(m)
           split == ConditionalShortfall(m, 50)
           part(x) == IF x = None THEN 0 ELSE x
<1>1. d # None =>
        d.spread_cost + d.temporary_impact + d.permanent_impact + d.timing_cost
          + d.opportunity_cost = d.total
  BY DEF Decompose, Books, Explained
<1>2. m.cumulative_cost = SumOf(m.per_trade_cost) + m.forced_cost
  BY DEF Books
<1>3. observes_vpin =>
        part(split[1]) + part(split[2]) = SumOf(m.per_trade_cost)
  BY SplitLosesNothing DEF Books
<1>4. FoldFunction(+, 0, RegimeDistribution(m)) = Len(m.regime_at_execution)
  BY DistributionCountsAll DEF Books
<1>5. CostVariance(m) # None /\ m.forced_cost = 0 => CostVariance(m) >= 0
  <2> SUFFICES ASSUME CostVariance(m) # None, m.forced_cost = 0 PROVE CostVariance(m) >= 0
    OBVIOUS
  <2> DEFINE n == Len(m.per_trade_cost)
             k == m.trade_count
             q == m.cost_sq
             c == SumOf(m.per_trade_cost)
             cc == c * c
             nq == n * q
             kq == k * q
  <2>1. n \in Nat /\ k \in Nat /\ q \in Nat /\ n <= k /\ c \in Int /\ cc <= nq
    <3>1. m.per_trade_cost \in Seq(Int)
      BY DEF Books
    <3>2. c \in Int /\ n \in Nat
      <4> DEFINE p == m.per_trade_cost
      <4>1. 0 \in Int /\ p \in Seq(Int)
        BY <3>1
      <4> HIDE DEF p
      <4>2. SumOf(p) \in Int /\ Len(p) \in Nat
        BY <4>1, SumOfAppend
      <4> QED
        BY <4>2 DEF p
    <3> QED
      BY <3>2 DEF Books
  <2>2. m.cumulative_cost = c
    <3> HIDE DEF c
    <3> QED
      BY <1>2, <2>1 DEF c
  <2>3. CostVariance(m) = kq - cc
    <3>1. CostVariance(m) = k * q - m.cumulative_cost * m.cumulative_cost
      BY DEF CostVariance
    <3> QED
      BY <2>2, <3>1
  <2> HIDE DEF n, k, q, c
  <2>4. nq <= kq /\ nq \in Int /\ kq \in Int /\ cc \in Int
    <3>1. n * q <= k * q
      BY <2>1
    <3> QED
      BY <2>1, <3>1
  <2> HIDE DEF cc, nq, kq
  <2> QED
    BY <2>1, <2>3, <2>4
<1> HIDE DEF d, split, part
<1> QED
  BY <1>1, <1>2, <1>3, <1>4, <1>5 DEF Conserved, d, split, part

LEMMA TradeKeepsBooks ==
  ASSUME NEW m, NEW t, Books(m), IsCosted(t)
  PROVE  LET r == RecordTrade(m, t) IN
           /\ Books(r)
           /\ Len(r.per_trade_cost) = Len(m.per_trade_cost) + 1
           /\ r.vpin_at_execution = m.vpin_at_execution
           /\ r.regime_at_execution = m.regime_at_execution
<1> DEFINE r == RecordTrade(m, t)
           x == RealizedCost(m, t)
           p == m.per_trade_cost
<1>0. IsAccount(m) /\ Explained(m)
  BY DEF Books
<1>1. Explained(r)
  BY <1>0, TradeConserves
<1>2. /\ m.arrival_price \in Int /\ m.cumulative_cost \in Int /\ m.forced_cost \in Int
      /\ m.spread \in Int /\ m.temporary \in Int /\ m.permanent \in Int /\ m.timing \in Int
      /\ m.total_executed \in Int
  BY <1>0 DEF IsAccount, Amounts
<1>3. x \in Int
  <2> DEFINE y == t.market_price + t.slippage_cost - m.arrival_price
  <2>1. y \in Int /\ x = t.quantity * y
    BY <1>2 DEF IsCosted, RealizedCost, ExecPrice
  <2> HIDE DEF y
  <2> QED
    BY <2>1 DEF IsCosted
<1> HIDE DEF x
<1>4. /\ r.arrival_price = m.arrival_price
      /\ r.total_executed = m.total_executed + t.quantity
      /\ r.cumulative_cost = m.cumulative_cost + x
      /\ r.forced_cost = m.forced_cost
      /\ r.spread = m.spread + SpreadOf(t)
      /\ r.temporary = m.temporary + TemporaryOf(t)
      /\ r.permanent = m.permanent + PermanentOf(t)
      /\ r.timing = m.timing + (x - SpreadOf(t) - TemporaryOf(t) - PermanentOf(t))
      /\ r.initial_notional = m.initial_notional
      /\ r.cost_sq = m.cost_sq + x * x
      /\ r.per_trade_cost = Append(p, x)
      /\ r.trade_count = m.trade_count + 1
      /\ r.vpin_at_execution = m.vpin_at_execution
      /\ r.regime_at_execution = m.regime_at_execution
      /\ r.risk_penalty = m.risk_penalty
      /\ DOMAIN r = DOMAIN m
  <2>1. {"initial_notional", "cost_sq", "trade_count", "per_trade_cost",
         "vpin_at_execution", "regime_at_execution"} \subseteq DOMAIN m
        /\ Amounts \subseteq DOMAIN m
    BY DEF Books, IsAccount
  <2> QED
    BY <2>1 DEF RecordTrade, Amounts, x
<1> HIDE DEF r
<1>5. IsAccount(r)
  <2>1. /\ r.arrival_price \in Int /\ r.total_executed \in Int /\ r.cumulative_cost \in Int
        /\ r.forced_cost \in Int /\ r.spread \in Int /\ r.temporary \in Int
        /\ r.permanent \in Int /\ r.timing \in Int
    <3> DEFINE a == SpreadOf(t)
               b == TemporaryOf(t)
               c == PermanentOf(t)
    <3>1. a \in Int /\ b \in Int /\ c \in Int /\ t.quantity \in Int
      BY DEF IsCosted
    <3> HIDE DEF a, b, c
    <3>2. r.spread = m.spread + a /\ r.temporary = m.temporary + b
          /\ r.permanent = m.permanent + c /\ r.timing = m.timing + (x - a - b - c)
      BY <1>4 DEF a, b, c
    <3>3. /\ r.spread \in Int /\ r.temporary \in Int /\ r.permanent \in Int
          /\ r.timing \in Int
      BY <1>2, <1>3, <3>1, <3>2
    <3>4. /\ r.arrival_price \in Int /\ r.total_executed \in Int /\ r.cumulative_cost \in Int
          /\ r.forced_cost \in Int
      <4>1. /\ r.arrival_price = m.arrival_price /\ r.total_executed = m.total_executed + t.quantity
            /\ r.cumulative_cost = m.cumulative_cost + x /\ r.forced_cost = m.forced_cost
        BY <1>4
      <4> QED
        BY <1>2, <1>3, <3>1, <4>1
    <3> QED
      BY <3>3, <3>4
  <2>2. r.risk_penalty \in Int
    BY <1>0, <1>4 DEF IsAccount, Amounts
  <2> QED
    BY <1>0, <1>4, <2>1, <2>2 DEF IsAccount, Amounts
<1>6. p \in Seq(Int)
  BY DEF Books
<1> HIDE DEF p
<1>7. /\ Append(p, x) \in Seq(Int) /\ Len(Append(p, x)) = Len(p) + 1 /\ Len(p) \in Nat
      /\ SumOf(p) \in Int /\ SumOf(Append(p, x)) = SumOf(p) + x
  BY <1>3, <1>6, SumOfAppend
<1>8. /\ SumOf(r.per_trade_cost) = SumOf(p) + x /\ Len(r.per_trade_cost) = Len(p) + 1
      /\ r.per_trade_cost \in Seq(Int)
  BY <1>4, <1>7
<1>9. r.cumulative_cost = SumOf(r.per_trade_cost) + r.forced_cost
  <2>1. m.cumulative_cost = SumOf(p) + m.forced_cost
    BY DEF Books, p
  <2> QED
    BY <1>2, <1>3, <1>4, <1>7, <1>8, <2>1
<1>10. r.trade_count \in Nat /\ Len(r.per_trade_cost) <= r.trade_count
  <2>1. m.trade_count \in Nat /\ Len(p) <= m.trade_count
    BY DEF Books, p
  <2> QED
    BY <1>4, <1>7, <1>8, <2>1
<1>11. /\ r.cost_sq \in Nat
       /\ SumOf(r.per_trade_cost) * SumOf(r.per_trade_cost) <= Len(r.per_trade_cost) * r.cost_sq
  <2>1. m.cost_sq \in Nat /\ SumOf(p) * SumOf(p) <= Len(p) * m.cost_sq
    BY DEF Books, p
  <2> DEFINE c == SumOf(p)
             n == Len(p)
             q == m.cost_sq
  <2>2. c \in Int /\ n \in Nat /\ q \in Nat /\ c * c <= n * q
    BY <1>7, <2>1
  <2> HIDE DEF c, n, q
  <2>3. (c + x) * (c + x) <= (n + 1) * (q + x * x)
    BY <1>3, <2>2, SquareOfSum
  <2>4. q + x * x \in Nat
    <3>1. x * x \in Nat
      BY <1>3, SquareNat
    <3> QED
      BY <2>2, <3>1
  <2>5. /\ SumOf(r.per_trade_cost) = c + x /\ Len(r.per_trade_cost) = n + 1
        /\ r.cost_sq = q + x * x
    BY <1>4, <1>8 DEF c, n, q
  <2> QED
    BY <2>3, <2>4, <2>5
<1>12. /\ IsSeq(r.vpin_at_execution) /\ IsSeq(r.regime_at_execution) /\ r.initial_notional \in Nat \ {0}
       /\ {"initial_notional", "cost_sq", "trade_count", "per_trade_cost",
           "vpin_at_execution", "regime_at_execution"} \subseteq DOMAIN r
  BY <1>4 DEF Books
<1>13. Books(r)
  BY <1>1, <1>5, <1>8, <1>9, <1>10, <1>11, <1>12 DEF Books
<1> QED
  BY <1>4, <1>8, <1>13 DEF r, p

(* The readings beside a trade leave the books alone. *)
LEMMA ReadingsKeepBooks ==
  ASSUME NEW m, NEW x, NEW inventory, NEW sigma, Books(m)
  PROVE  /\ Books(RecordVpin(m, x))
         /\ RecordVpin(m, x).per_trade_cost = m.per_trade_cost
         /\ Len(RecordVpin(m, x).vpin_at_execution) = Len(m.vpin_at_execution) + 1
         /\ RecordVpin(m, x).regime_at_execution = m.regime_at_execution
         /\ Books(RecordRegime(m, x))
         /\ RecordRegime(m, x).per_trade_cost = m.per_trade_cost
         /\ RecordRegime(m, x).vpin_at_execution = m.vpin_at_execution
         /\ Len(RecordRegime(m, x).regime_at_execution) = Len(m.regime_at_execution) + 1
         /\ inventory \in Int /\ sigma \in Int => Books(RecordRiskStep(m, inventory, sigma))
         /\ RecordRiskStep(m, inventory, sigma).per_trade_cost = m.per_trade_cost
         /\ RecordRiskStep(m, inventory, sigma).vpin_at_execution = m.vpin_at_execution
         /\ RecordRiskStep(m, inventory, sigma).regime_at_execution = m.regime_at_execution
<1> DEFINE Fields == {"initial_notional", "cost_sq", "trade_count", "per_trade_cost",
                      "vpin_at_execution", "regime_at_execution"} \cup Amounts
           v == Append(m.vpin_at_execution, x)
           g == Append(m.regime_at_execution, x)
           e == inventory * m.arrival_price * sigma
           k == m.risk_penalty + e * e
<1>1. Fields \subseteq DOMAIN m
  BY DEF Books, IsAccount
<1>2. /\ IsSeq(v) /\ Len(v) = Len(m.vpin_at_execution) + 1
      /\ IsSeq(g) /\ Len(g) = Len(m.regime_at_execution) + 1
  BY AppendSeq DEF Books
<1>3. /\ RecordVpin(m, x) = [m EXCEPT !.vpin_at_execution = v]
      /\ RecordRegime(m, x) = [m EXCEPT !.regime_at_execution = g]
      /\ RecordRiskStep(m, inventory, sigma) = [m EXCEPT !.risk_penalty = k]
  BY Zenon DEF RecordVpin, RecordRegime, RecordRiskStep
<1>9. m.risk_penalty \in Int /\ m.arrival_price \in Int
  BY DEF Books, IsAccount, Amounts
<1>8. inventory \in Int /\ sigma \in Int => k \in Int
  <2> SUFFICES ASSUME inventory \in Int, sigma \in Int PROVE k \in Int
    OBVIOUS
  <2>1. e \in Int
    BY <1>9
  <2> HIDE DEF e
  <2> QED
    BY <1>9, <2>1
<1> HIDE DEF v, g, k
<1>4. ASSUME NEW r, DOMAIN r = DOMAIN m,
             \A f \in Fields \ {"vpin_at_execution", "regime_at_execution", "risk_penalty"} :
               r[f] = m[f],
             r.risk_penalty \in Int, IsSeq(r.vpin_at_execution), IsSeq(r.regime_at_execution)
      PROVE  Books(r)
  <2>1. IsAccount(r) /\ Explained(r)
    BY <1>4 DEF Books, IsAccount, Explained, Amounts
  <2> QED
    BY <1>1, <1>4, <2>1 DEF Books, Amounts
<1>5. Books(RecordVpin(m, x))
  <2> DEFINE r == RecordVpin(m, x)
  <2>1. /\ DOMAIN r = DOMAIN m /\ r.vpin_at_execution = v
        /\ r.regime_at_execution = m.regime_at_execution
        /\ \A f \in Fields \ {"vpin_at_execution", "regime_at_execution", "risk_penalty"} :
             r[f] = m[f]
        /\ r.risk_penalty = m.risk_penalty
    BY <1>1, <1>3 DEF Amounts
  <2> HIDE DEF r, Fields
  <2>2. IsSeq(r.vpin_at_execution) /\ IsSeq(r.regime_at_execution)
    BY <1>2, <2>1 DEF Books
  <2> QED
    BY <1>4, <1>9, <2>1, <2>2 DEF r
<1>6. Books(RecordRegime(m, x))
  <2> DEFINE r == RecordRegime(m, x)
  <2>1. /\ DOMAIN r = DOMAIN m /\ r.vpin_at_execution = m.vpin_at_execution
        /\ r.regime_at_execution = g
        /\ \A f \in Fields \ {"vpin_at_execution", "regime_at_execution", "risk_penalty"} :
             r[f] = m[f]
        /\ r.risk_penalty = m.risk_penalty
    BY <1>1, <1>3 DEF Amounts
  <2> HIDE DEF r, Fields
  <2>2. IsSeq(r.vpin_at_execution) /\ IsSeq(r.regime_at_execution)
    BY <1>2, <2>1 DEF Books
  <2> QED
    BY <1>4, <1>9, <2>1, <2>2 DEF r
<1>7. ASSUME inventory \in Int, sigma \in Int PROVE Books(RecordRiskStep(m, inventory, sigma))
  <2> DEFINE r == RecordRiskStep(m, inventory, sigma)
  <2>1. /\ DOMAIN r = DOMAIN m /\ r.vpin_at_execution = m.vpin_at_execution
        /\ r.regime_at_execution = m.regime_at_execution
        /\ \A f \in Fields \ {"vpin_at_execution", "regime_at_execution", "risk_penalty"} :
             r[f] = m[f]
        /\ r.risk_penalty = k
    BY <1>1, <1>3 DEF Amounts
  <2> HIDE DEF r, Fields
  <2>2. IsSeq(r.vpin_at_execution) /\ IsSeq(r.regime_at_execution)
    BY <1>2, <2>1 DEF Books
  <2> QED
    BY <1>4, <1>7, <1>8, <2>1, <2>2 DEF r
<1> QED
  BY <1>1, <1>2, <1>3, <1>5, <1>6, <1>7

LEMMA ForcedKeepsBooks ==
  ASSUME NEW m, NEW quantity \in Int, NEW last_price \in Int, Books(m)
  PROVE  LET r == RecordForcedLiquidation(m, quantity, last_price) IN
           /\ Books(r)
           /\ r.per_trade_cost = m.per_trade_cost
           /\ r.vpin_at_execution = m.vpin_at_execution
           /\ r.regime_at_execution = m.regime_at_execution
<1> DEFINE r == RecordForcedLiquidation(m, quantity, last_price)
           y == last_price - m.arrival_price
           x == quantity * y
<1>1. IsAccount(m) /\ Explained(m)
  BY DEF Books
<1>2. Explained(r)
  BY <1>1, ForcedLiquidationConserves
<1>3. /\ m.arrival_price \in Int /\ m.cumulative_cost \in Int /\ m.forced_cost \in Int
      /\ m.total_executed \in Int /\ m.spread \in Int /\ m.temporary \in Int
      /\ m.permanent \in Int /\ m.timing \in Int
  BY <1>1 DEF IsAccount, Amounts
<1>4. x \in Int
  <2>1. y \in Int
    BY <1>3
  <2> HIDE DEF y
  <2> QED
    BY <2>1
<1>5. {"initial_notional", "cost_sq", "trade_count", "per_trade_cost",
       "vpin_at_execution", "regime_at_execution"} \subseteq DOMAIN m
      /\ Amounts \subseteq DOMAIN m
  BY DEF Books, IsAccount
<1>6. r = [m EXCEPT !.cumulative_cost = @ + x, !.forced_cost = @ + x,
                    !.total_executed = @ + quantity, !.trade_count = @ + 1]
  BY DEF RecordForcedLiquidation
<1> HIDE DEF r, x
<1>7. /\ DOMAIN r = DOMAIN m
      /\ r.cumulative_cost = m.cumulative_cost + x /\ r.forced_cost = m.forced_cost + x
      /\ r.total_executed = m.total_executed + quantity /\ r.trade_count = m.trade_count + 1
      /\ r.arrival_price = m.arrival_price /\ r.spread = m.spread
      /\ r.temporary = m.temporary /\ r.permanent = m.permanent /\ r.timing = m.timing
      /\ r.initial_notional = m.initial_notional /\ r.cost_sq = m.cost_sq
      /\ r.per_trade_cost = m.per_trade_cost /\ r.risk_penalty = m.risk_penalty
      /\ r.vpin_at_execution = m.vpin_at_execution
      /\ r.regime_at_execution = m.regime_at_execution
  BY <1>5, <1>6 DEF Amounts
<1>8. IsAccount(r)
  <2>1. /\ r.arrival_price \in Int /\ r.total_executed \in Int /\ r.cumulative_cost \in Int
        /\ r.forced_cost \in Int /\ r.spread \in Int /\ r.temporary \in Int
        /\ r.permanent \in Int /\ r.timing \in Int
    BY <1>3, <1>4, <1>7
  <2>2. r.risk_penalty \in Int
    BY <1>1, <1>7 DEF IsAccount, Amounts
  <2> QED
    BY <1>5, <1>7, <2>1, <2>2 DEF IsAccount, Amounts
<1>9. SumOf(m.per_trade_cost) \in Int
  <2> DEFINE p == m.per_trade_cost
  <2>1. p \in Seq(Int) /\ 0 \in Int
    BY DEF Books
  <2> HIDE DEF p
  <2>2. SumOf(p) \in Int
    BY <2>1, SumOfAppend
  <2> QED
    BY <2>2 DEF p
<1>10. r.cumulative_cost = SumOf(r.per_trade_cost) + r.forced_cost
  <2> DEFINE c == SumOf(m.per_trade_cost)
  <2>1. m.cumulative_cost = c + m.forced_cost /\ c \in Int /\ c = SumOf(r.per_trade_cost)
    BY <1>7, <1>9 DEF Books
  <2> HIDE DEF c
  <2>2. r.cumulative_cost = c + r.forced_cost
    BY <1>3, <1>4, <1>7, <2>1
  <2> QED
    BY <2>1, <2>2
<1>11. r.trade_count \in Nat /\ r.trade_count # 0 /\ Len(r.per_trade_cost) <= r.trade_count
  <2>1. Len(m.per_trade_cost) \in Nat /\ m.trade_count \in Nat
        /\ Len(m.per_trade_cost) <= m.trade_count
    BY DEF Books
  <2> QED
    BY <1>7, <2>1
<1>12. /\ {"initial_notional", "cost_sq", "trade_count", "per_trade_cost",
           "vpin_at_execution", "regime_at_execution"} \subseteq DOMAIN r
       /\ r.initial_notional \in Nat \ {0} /\ r.per_trade_cost \in Seq(Int) /\ r.cost_sq \in Nat
       /\ IsSeq(r.vpin_at_execution) /\ IsSeq(r.regime_at_execution)
  BY <1>5, <1>7 DEF Books
<1>13. SumOf(r.per_trade_cost) * SumOf(r.per_trade_cost) <= Len(r.per_trade_cost) * r.cost_sq
  BY <1>7, Zenon DEF Books
<1>14. Books(r)
  BY <1>2, <1>8, <1>10, <1>11, <1>12, <1>13 DEF Books
<1> QED
  BY <1>7, <1>14 DEF r

-----------------------------------------------------------------------------
(* The impacts of a strategy add up to a whole percentage. *)
LEMMA CurrentImpactInt ==
  ASSUME NEW s, s.transient \in Seq(Impacts), step \in Nat
  PROVE  CurrentImpact(s) \in Int
<1> DEFINE t == s.transient
           n == Len(t)
           Rest(k) == t[k].base \div (2 ^ Larger(0, step - t[k].step))
           f == [k \in DOMAIN t |-> Rest(k)]
<1>1. n \in Nat /\ DOMAIN t = 1 .. n /\ \A k \in 1 .. n : t[k] \in Impacts
  OBVIOUS
<1>2. CurrentImpact(s) = SumOf(f)
  BY DEF CurrentImpact
<1> HIDE DEF t, n
<1>3. ASSUME NEW k \in 1 .. n PROVE Rest(k) \in Int
  <2> DEFINE e == t[k]
             a == Larger(0, step - e.step)
             d == 2 ^ a
  <2>1. e.base \in Int /\ e.step \in Nat
    BY <1>1 DEF Impacts
  <2> HIDE DEF e
  <2>2. a \in Nat
    BY <2>1 DEF Larger
  <2> HIDE DEF a
  <2>3. d \in Nat \ {0}
    BY <2>2, PowerPositive
  <2>4. Rest(k) = e.base \div d
    BY DEF e, a, d
  <2> HIDE DEF d, Rest
  <2> QED
    BY <2>1, <2>3, <2>4
<1> HIDE DEF Rest
<1>4. f \in [1 .. n -> Int]
  BY <1>1, <1>3
<1> HIDE DEF f
<1>5. f \in Seq(Int) /\ 0 \in Int
  BY <1>1, <1>4
<1> QED
  BY <1>2, <1>5, SumOfAppend

LEMMA EffectivePriceInt ==
  ASSUME NEW s, SeenTyped, s.adjustment \in Int
  PROVE  EffectivePrice(s) \in Int
<1> DEFINE a == 100 - s.adjustment
           p == seen.price
           m == p * a
<1>1. a \in Int /\ p \in Int
  BY DEF SeenTyped
<1>2. EffectivePrice(s) = m \div 100
  BY DEF EffectivePrice
<1> HIDE DEF a, p
<1>3. m \in Int
  BY <1>1
<1> HIDE DEF m
<1> QED
  BY <1>2, <1>3

LEMMA FormulaFillTyped ==
  ASSUME NEW s, SeenTyped, s.adjustment \in Int, CurrentImpact(s) \in Int
  PROVE  LET f == FormulaFill(s) IN
           f.exec_price \in Int /\ f.half_spread \in Int /\ f.temporary \in Int
<1> DEFINE c == CurrentImpact(s)
           a == 100 - s.adjustment - c
           p == seen.price
           v == seen.volatility
           m == p * a
           n == p * v
<1>1. p \in Int /\ v \in Int /\ c \in Int /\ a \in Int
  BY DEF SeenTyped
<1>2. FormulaFill(s) = [exec_price |-> m \div 100, half_spread |-> n \div 200, temporary |-> c]
  BY DEF FormulaFill, SpreadProxy
<1> HIDE DEF c, a, p, v
<1>3. m \in Int /\ n \in Int
  BY <1>1
<1> HIDE DEF m, n
<1>4. m \div 100 \in Int /\ n \div 200 \in Int
  BY <1>3
<1> QED
  BY <1>1, <1>2, <1>4 DEF c

LEMMA FillOfTyped ==
  ASSUME NEW s, NEW traded \in Nat \ {0}, SeenTyped, s.adjustment \in Int,
         CurrentImpact(s) \in Int
  PROVE  /\ FillOf(s, traded).exec_price \in Int
         /\ FillOf(s, traded).half_spread \in Int
         /\ FillOf(s, traded).temporary \in Int
<1>1. CASE setup.fill_mode = "formula"
  BY <1>1, FormulaFillTyped DEF FillOf
<1>2. CASE setup.fill_mode # "formula"
  <2> DEFINE mid == EffectivePrice(s)
  <2>1. mid \in Int /\ FillOf(s, traded) = BookFill(mid, traded)
    BY <1>2, EffectivePriceInt DEF FillOf
  <2> HIDE DEF mid
  <2> QED
    BY <2>1, BookFillTyped
<1> QED
  BY <1>1, <1>2

LEMMA DeltaNat ==
  ASSUME NEW traded \in Nat
  PROVE  DeltaPermanent(traded) \in Nat
<1> DEFINE m == Gamma * traded
<1>1. m \in Nat /\ Total \in Nat \ {0}
  BY RunnerAssumption
<1> HIDE DEF m
<1>2. m \div Total \in Nat
  BY <1>1
<1> QED
  BY <1>2 DEF DeltaPermanent, m

LEMMA BaseImpactInt ==
  ASSUME NEW traded \in Nat, SeenTyped, setup.impact \in Int
  PROVE  BaseImpact(traded) \in Int
<1> DEFINE r == RootOf(traded)
           a == setup.impact
           v == seen.volatility
           m == (a * v) * r
<1>1. r \in Nat /\ a \in Int /\ v \in Int
  BY RootNat DEF SeenTyped
<1>2. BaseImpact(traded) = m \div 2
  BY DEF BaseImpact
<1> HIDE DEF r, a, v
<1>3. m \in Int
  <2>1. a * v \in Int
    BY <1>1
  <2> QED
    BY <1>1, <2>1
<1> HIDE DEF m
<1> QED
  BY <1>2, <1>3

(* What a strategy sells is booked at amounts that are whole numbers. *)
LEMMA TradeOfCosted ==
  ASSUME NEW s, NEW traded \in Nat \ {0}, SeenTyped, step \in Nat, s.adjustment \in Int,
         s.transient \in Seq(Impacts)
  PROVE  IsCosted(TradeOf(s, traded))
<1> DEFINE t == TradeOf(s, traded)
           f == FillOf(s, traded)
           p == EffectivePrice(s)
           d == DeltaPermanent(traded)
<1>1. p \in Int
  BY EffectivePriceInt
<1>2. f.exec_price \in Int /\ f.half_spread \in Int /\ f.temporary \in Int
  BY CurrentImpactInt, FillOfTyped
<1>3. d \in Int
  BY DeltaNat
<1>4. t = [quantity |-> traded, market_price |-> p, slippage_cost |-> f.exec_price - p,
           temporary |-> f.temporary, permanent |-> d,
           raw_price |-> seen.price, half_spread |-> f.half_spread]
  BY DEF TradeOf
<1> HIDE DEF t, f, p, d
<1>5. /\ t.quantity \in Int /\ t.market_price \in Int /\ t.slippage_cost \in Int
      /\ t.temporary \in Int /\ t.permanent \in Int /\ t.raw_price \in Int
      /\ t.half_spread \in Int
  BY <1>1, <1>2, <1>3, <1>4 DEF SeenTyped
<1>6. SpreadOf(t) \in Int
  BY <1>5 DEF SpreadOf
<1>7. ASSUME NEW a \in Int, NEW b \in Int, NEW c \in Int PROVE (a * b * c) \div 100 \in Int
  <2> DEFINE m == a * b
             n == m * c
  <2>1. m \in Int
    OBVIOUS
  <2> HIDE DEF m
  <2>2. n \in Int
    BY <2>1
  <2> HIDE DEF n
  <2>3. n \div 100 \in Int
    BY <2>2
  <2> QED
    BY <2>3 DEF m, n
<1>8. TemporaryOf(t) \in Int
  BY <1>5, <1>7 DEF TemporaryOf
<1>9. PermanentOf(t) \in Int
  BY <1>5, <1>7 DEF PermanentOf
<1> QED
  BY <1>5, <1>6, <1>8, <1>9 DEF IsCosted, t

(* What a strategy brings to its turn: books that are kept, and numbers to *)
(* sell at.                                                                *)
TakesVpin == setup.fill_mode = "historical" \/ setup.bucket # None

Trades(s) ==
  /\ IsTrader(s)
  /\ {"sigma_warmup", "spread_warmup", "spread_ref", "current_regime"} \subseteq DOMAIN s
  /\ s.adjustment \in Int /\ s.transient \in Seq(Impacts) /\ IsSeq(s.sigma_warmup)
  /\ s.mode # "regime_ac" => s.current_regime = None
  /\ Books(s.metrics)
  /\ TakesVpin => Len(s.metrics.vpin_at_execution) = Len(s.metrics.per_trade_cost)

LEMMA NewStrategyTrades ==
  ASSUME NEW mode
  PROVE  Trades(NewStrategy(mode))
<1> DEFINE m == NewMetrics(ArrivalPrice, Total)
           s == NewStrategy(mode)
<1>1. Books(m) /\ m.vpin_at_execution = <<>> /\ m.per_trade_cost = <<>>
  BY NewBooks DEF NewMetrics
<1>2. {"total_executed", "arrival_price", "cumulative_cost"} \subseteq DOMAIN m
  BY DEF NewMetrics
<1>3. s = [mode |-> mode, remaining |-> Total, completed |-> FALSE,
           metrics |-> m, transient |-> <<>>, adjustment |-> 0, blocks |-> 0,
           sigma_warmup |-> <<>>, spread_warmup |-> <<>>, spread_ref |-> 0,
           current_regime |-> None]
  BY DEF NewStrategy
<1> HIDE DEF m, s
<1>4. IsTrader(s)
  BY <1>2, <1>3 DEF IsTrader, IsStrategy
<1>5. <<>> \in Seq(Impacts) /\ IsSeq(<<>>)
  BY DEF IsSeq
<1>6. s.metrics = m /\ s.transient = <<>> /\ s.adjustment = 0 /\ s.sigma_warmup = <<>>
      /\ s.current_regime = None
      /\ {"sigma_warmup", "spread_warmup", "spread_ref", "current_regime"} \subseteq DOMAIN s
  BY <1>3
<1> QED
  BY <1>1, <1>4, <1>5, <1>6 DEF Trades, s

(* RegimeAC knows a regime exactly when it has warmed up. *)
LEMMA RegimeKnown ==
  ASSUME NEW s
  PROVE  Regime(s) # None
<1>1. Regime(s) \in RegimeLabels \X RegimeLabels
  BY DEF Regime, RegimeLabels
<1> QED
  BY <1>1, RunnerAssumption

LEMMA ObserveTells ==
  ASSUME NEW s, Trades(s), s.mode = "regime_ac"
  PROVE  /\ Trades(Observe(s)) /\ Observe(s).metrics = s.metrics
         /\ Observe(s).mode = s.mode /\ Observe(s).remaining = s.remaining
         /\ WarmedUp(s) => /\ Observe(s).sigma_warmup = s.sigma_warmup
                           /\ Observe(s).current_regime # None
         /\ ~WarmedUp(s) => /\ Len(Observe(s).sigma_warmup) = Len(s.sigma_warmup) + 1
                            /\ Observe(s).current_regime = s.current_regime
<1> DEFINE ref == IF s.spread_ref = 0 THEN seen.half_spread ELSE s.spread_ref
           sigmas == Append(s.sigma_warmup, seen.volatility)
           spreads == IF seen.half_spread > 0 THEN Append(s.spread_warmup, seen.half_spread)
                      ELSE s.spread_warmup
           r == IF Len(sigmas) >= Warmup /\ spreads # <<>> THEN Mean(spreads) ELSE ref
           g == Regime([s EXCEPT !.spread_ref = ref])
           o == Observe(s)
<1>1. o = IF WarmedUp(s) THEN [s EXCEPT !.spread_ref = ref, !.current_regime = g]
          ELSE [s EXCEPT !.sigma_warmup = sigmas, !.spread_warmup = spreads, !.spread_ref = r]
  BY Zenon DEF Observe
<1>2. IsSeq(sigmas) /\ Len(sigmas) = Len(s.sigma_warmup) + 1
  BY AppendSeq DEF Trades
<1>3. g # None
  BY RegimeKnown
<1> HIDE DEF ref, sigmas, spreads, r, g, o
<1>4. {"remaining", "completed", "metrics", "mode", "adjustment", "transient", "blocks",
       "sigma_warmup", "spread_warmup", "spread_ref", "current_regime"} \subseteq DOMAIN s
  BY DEF Trades, IsTrader
<1>5. /\ DOMAIN o = DOMAIN s /\ o.metrics = s.metrics /\ o.mode = s.mode
      /\ o.remaining = s.remaining /\ o.adjustment = s.adjustment /\ o.transient = s.transient
  <2>1. CASE WarmedUp(s)
    BY <1>1, <1>4, <2>1
  <2>2. CASE ~WarmedUp(s)
    BY <1>1, <1>4, <2>2
  <2> QED
    BY <2>1, <2>2
<1>6. WarmedUp(s) => o.sigma_warmup = s.sigma_warmup /\ o.current_regime = g
  BY <1>1, <1>4
<1>7. ~WarmedUp(s) => o.sigma_warmup = sigmas /\ o.current_regime = s.current_regime
  BY <1>1, <1>4
<1>8. Trades(o)
  <2>1. IsSeq(o.sigma_warmup)
    BY <1>2, <1>6, <1>7 DEF Trades
  <2>2. IsTrader(o)
    BY <1>5 DEF IsTrader, IsStrategy, Trades
  <2> QED
    BY <1>4, <1>5, <2>1, <2>2 DEF Trades
<1> QED
  BY <1>2, <1>3, <1>5, <1>6, <1>7, <1>8 DEF o

(* What of a strategy tells its labels. *)
LEMMA WatchedTrades ==
  ASSUME NEW s, Trades(s), s.remaining \in Int, seen.volatility \in Int
  PROVE  LET w == Watched(s) IN
           /\ Trades(w) /\ w.mode = s.mode /\ w.remaining = s.remaining
           /\ w.metrics.regime_at_execution = s.metrics.regime_at_execution
           /\ s.mode # "regime_ac" => w.current_regime = None
           /\ s.mode = "regime_ac" =>
                /\ WarmedUp(s) => /\ w.sigma_warmup = s.sigma_warmup
                                  /\ w.current_regime # None
                /\ ~WarmedUp(s) => /\ Len(w.sigma_warmup) = Len(s.sigma_warmup) + 1
                                   /\ w.current_regime = s.current_regime
<1> DEFINE o == IF s.mode = "regime_ac" THEN Observe(s) ELSE s
           k == RecordRiskStep(s.metrics, s.remaining, seen.volatility)
           w == Watched(s)
<1>1. /\ Trades(o) /\ o.metrics = s.metrics /\ o.mode = s.mode /\ o.remaining = s.remaining
      /\ s.mode # "regime_ac" => o.current_regime = None
      /\ s.mode = "regime_ac" =>
           /\ WarmedUp(s) => /\ o.sigma_warmup = s.sigma_warmup
                             /\ o.current_regime # None
           /\ ~WarmedUp(s) => /\ Len(o.sigma_warmup) = Len(s.sigma_warmup) + 1
                              /\ o.current_regime = s.current_regime
  BY ObserveTells DEF Trades
<1>2. w = [o EXCEPT !.metrics = RecordRiskStep(@, s.remaining, seen.volatility), !.blocks = 1]
  BY DEF Watched
<1> HIDE DEF o, w
<1>3. {"remaining", "completed", "metrics", "mode", "adjustment", "transient", "blocks",
       "sigma_warmup", "spread_warmup", "spread_ref", "current_regime"} \subseteq DOMAIN o
  BY <1>1 DEF Trades, IsTrader
<1>4. w = [o EXCEPT !.metrics = k, !.blocks = 1]
  BY <1>1, <1>2
<1>5. /\ Books(k) /\ k.per_trade_cost = s.metrics.per_trade_cost
      /\ k.vpin_at_execution = s.metrics.vpin_at_execution
      /\ k.regime_at_execution = s.metrics.regime_at_execution
  BY ReadingsKeepBooks DEF Trades
<1>6. {"arrival_price", "cumulative_cost", "total_executed"} \subseteq DOMAIN k
  BY <1>5 DEF Books, IsAccount, Amounts
<1> HIDE DEF k
<1>7. /\ DOMAIN w = DOMAIN o /\ w.metrics = k /\ w.mode = o.mode /\ w.remaining = o.remaining
      /\ w.adjustment = o.adjustment /\ w.transient = o.transient
      /\ w.sigma_warmup = o.sigma_warmup /\ w.current_regime = o.current_regime
  BY <1>3, <1>4
<1>8. IsTrader(w)
  BY <1>3, <1>6, <1>7 DEF IsTrader, IsStrategy
<1>9. Trades(w)
  BY <1>1, <1>3, <1>5, <1>7, <1>8 DEF Trades
<1> QED
  BY <1>1, <1>5, <1>7, <1>9 DEF w

LEMMA BookTradeKeepsBooks ==
  ASSUME NEW s, Trades(s), NEW traded \in Nat \ {0}, SeenTyped, step \in Nat,
         vpin = None <=> setup.bucket = None
  PROVE  LET b == BookTrade(s, traded) IN
           /\ Books(b)
           /\ TakesVpin => Len(b.vpin_at_execution) = Len(b.per_trade_cost)
           /\ Len(b.regime_at_execution) = Len(s.metrics.regime_at_execution)
                + (IF s.current_regime = None THEN 0 ELSE 1)
<1> DEFINE m == RecordTrade(s.metrics, TradeOf(s, traded))
           v == IF Historical \/ vpin # None THEN RecordVpin(m, seen.vpin) ELSE m
           b == BookTrade(s, traded)
<1>1. /\ Books(m) /\ Len(m.per_trade_cost) = Len(s.metrics.per_trade_cost) + 1
      /\ m.vpin_at_execution = s.metrics.vpin_at_execution
      /\ m.regime_at_execution = s.metrics.regime_at_execution
  BY TradeOfCosted, TradeKeepsBooks DEF Trades
<1>2. b = IF s.current_regime = None THEN v ELSE RecordRegime(v, s.current_regime)
  BY Zenon DEF BookTrade
<1> HIDE DEF m, b
<1>3. TakesVpin <=> Historical \/ vpin # None
  BY DEF TakesVpin, Historical
<1>4. /\ Books(v) /\ v.per_trade_cost = m.per_trade_cost
      /\ v.regime_at_execution = m.regime_at_execution
      /\ TakesVpin => Len(v.vpin_at_execution) = Len(m.vpin_at_execution) + 1
  BY <1>1, <1>3, ReadingsKeepBooks
<1> HIDE DEF v
<1>5. /\ Books(b) /\ b.per_trade_cost = v.per_trade_cost
      /\ b.vpin_at_execution = v.vpin_at_execution
      /\ Len(b.regime_at_execution) = Len(v.regime_at_execution)
           + (IF s.current_regime = None THEN 0 ELSE 1)
  <2>1. CASE s.current_regime = None
    <3>1. b = v
      BY <1>2, <2>1
    <3>2. Len(v.regime_at_execution) \in Nat
      BY <1>4, AppendSeq DEF Books
    <3> QED
      BY <1>4, <2>1, <3>1, <3>2
  <2>2. CASE s.current_regime # None
    BY <1>2, <1>4, <2>2, ReadingsKeepBooks
  <2> QED
    BY <2>1, <2>2
<1>6. TakesVpin => Len(b.vpin_at_execution) = Len(b.per_trade_cost)
  BY <1>1, <1>4, <1>5 DEF Trades
<1> QED
  BY <1>1, <1>4, <1>5, <1>6 DEF b

LEMMA RecordImpactTrades ==
  ASSUME NEW s, Trades(s), NEW base \in Int, step \in Nat
  PROVE  LET r == RecordImpact(s, base) IN
           /\ Trades(r) /\ r.mode = s.mode /\ r.sigma_warmup = s.sigma_warmup
           /\ r.current_regime = s.current_regime /\ r.remaining = s.remaining
           /\ r.metrics = s.metrics
<1> DEFINE e == [step |-> step, base |-> base]
           t == Append(s.transient, e)
           u == Unforgotten(t, step)
           r == RecordImpact(s, base)
<1>1. e \in Impacts /\ s.transient \in Seq(Impacts)
  BY DEF Impacts, Trades
<1>2. r = IF base <= 0 THEN s ELSE [s EXCEPT !.transient = u]
  BY Zenon DEF RecordImpact
<1> HIDE DEF e, r
<1>3. t \in Seq(Impacts)
  BY <1>1
<1> HIDE DEF t
<1>4. u \in Seq(Impacts)
  BY <1>3, UnforgottenImpacts
<1> HIDE DEF u
<1>5. {"remaining", "completed", "metrics", "mode", "adjustment", "transient", "blocks",
       "sigma_warmup", "spread_warmup", "spread_ref", "current_regime"} \subseteq DOMAIN s
  BY DEF Trades, IsTrader
<1>6. CASE base <= 0
  BY <1>2, <1>6 DEF r
<1>7. CASE ~(base <= 0)
  <2>1. /\ DOMAIN r = DOMAIN s /\ r.metrics = s.metrics /\ r.mode = s.mode
        /\ r.remaining = s.remaining /\ r.adjustment = s.adjustment /\ r.transient = u
        /\ r.sigma_warmup = s.sigma_warmup /\ r.current_regime = s.current_regime
    BY <1>2, <1>5, <1>7
  <2>2. IsTrader(r)
    BY <2>1 DEF Trades, IsTrader, IsStrategy
  <2>3. Trades(r)
    BY <1>4, <2>1, <2>2 DEF Trades
  <2> QED
    BY <2>1, <2>3 DEF r
<1> QED
  BY <1>6, <1>7

(* A block keeps the books, and labels its trade when a regime is known. *)
LEMMA BlockTrades ==
  ASSUME NEW s, Trades(s), s.remaining \in Nat, NEW n \in 0 .. s.remaining, SeenTyped,
         step \in Nat, setup.impact \in Int, vpin = None <=> setup.bucket = None
  PROVE  LET w == Watched(s)
             t == AfterBlock(s, n) IN
           /\ Trades(t) /\ t.mode = s.mode
           /\ t.sigma_warmup = w.sigma_warmup /\ t.current_regime = w.current_regime
           /\ Len(t.metrics.regime_at_execution) = Len(s.metrics.regime_at_execution)
                + (IF n > 0 /\ w.current_regime # None THEN 1 ELSE 0)
           /\ t.remaining = s.remaining - n
<1> DEFINE w == Watched(s)
           t == AfterBlock(s, n)
           r == RecordImpact(w, BaseImpact(n))
           b == BookTrade(w, n)
           d == DeltaPermanent(n)
           sold == IF n > 0 THEN Sold(w, n) ELSE w
           left == sold.remaining - n
           c == (s.remaining - n <= Dust)
<1>1. /\ Trades(w) /\ w.mode = s.mode /\ w.remaining = s.remaining
      /\ w.metrics.regime_at_execution = s.metrics.regime_at_execution
  BY WatchedTrades DEF SeenTyped
<1>2. t = [sold EXCEPT !.remaining = left, !.completed = c]
  <2>1. t = [sold EXCEPT !.remaining = @ - n, !.completed = c]
    BY DEF AfterBlock, Watched
  <2> HIDE DEF sold, t, c
  <2> QED
    BY <2>1
<1>3. /\ Trades(sold) /\ sold.mode = w.mode /\ sold.remaining = w.remaining
      /\ sold.sigma_warmup = w.sigma_warmup /\ sold.current_regime = w.current_regime
      /\ Len(sold.metrics.regime_at_execution) = Len(w.metrics.regime_at_execution)
           + (IF n > 0 /\ w.current_regime # None THEN 1 ELSE 0)
  <2> HIDE DEF w
  <2>1. CASE n = 0
    <3>1. sold = w
      BY <2>1
    <3>2. Len(w.metrics.regime_at_execution) \in Nat
      BY <1>1, AppendSeq DEF Trades, Books
    <3> HIDE DEF sold
    <3> QED
      BY <1>1, <2>1, <3>1, <3>2
  <2>2. CASE n # 0
    <3>1. n \in Nat \ {0}
      BY <2>2
    <3>2. BaseImpact(n) \in Int /\ d \in Int
      BY <3>1, BaseImpactInt, DeltaNat
    <3>3. /\ Trades(r) /\ r.mode = w.mode /\ r.sigma_warmup = w.sigma_warmup
          /\ r.current_regime = w.current_regime /\ r.remaining = w.remaining
          /\ r.metrics = w.metrics
      BY <1>1, <3>2, RecordImpactTrades
    <3>4. /\ Books(b)
          /\ TakesVpin => Len(b.vpin_at_execution) = Len(b.per_trade_cost)
          /\ Len(b.regime_at_execution) = Len(w.metrics.regime_at_execution)
               + (IF w.current_regime = None THEN 0 ELSE 1)
      BY <1>1, <3>1, BookTradeKeepsBooks
    <3> DEFINE a == r.adjustment + d
    <3>5. sold = [r EXCEPT !.metrics = b, !.adjustment = a]
      <4>1. sold = [r EXCEPT !.metrics = b, !.adjustment = @ + d]
        BY <3>1 DEF Sold
      <4> HIDE DEF r, b, d, sold
      <4> QED
        BY <4>1
    <3>6. a \in Int
      <4> HIDE DEF d, r
      <4> QED
        BY <3>2, <3>3 DEF Trades
    <3> HIDE DEF r, b, a, sold, d
    <3>7. {"remaining", "completed", "metrics", "mode", "adjustment", "transient", "blocks",
           "sigma_warmup", "spread_warmup", "spread_ref", "current_regime"} \subseteq DOMAIN r
      BY <3>3 DEF Trades, IsTrader
    <3>8. /\ DOMAIN sold = DOMAIN r /\ sold.metrics = b /\ sold.mode = r.mode
          /\ sold.remaining = r.remaining /\ sold.adjustment = a
          /\ sold.transient = r.transient /\ sold.sigma_warmup = r.sigma_warmup
          /\ sold.current_regime = r.current_regime
      BY <3>5, <3>7
    <3>9. {"arrival_price", "cumulative_cost", "total_executed"} \subseteq DOMAIN b
      BY <3>4 DEF Books, IsAccount, Amounts
    <3>10. IsTrader(sold)
      BY <3>7, <3>8, <3>9 DEF IsTrader, IsStrategy
    <3>11. Trades(sold)
      BY <3>3, <3>4, <3>6, <3>7, <3>8, <3>10 DEF Trades
    <3>12. (IF w.current_regime = None THEN 0 ELSE 1)
             = (IF n > 0 /\ w.current_regime # None THEN 1 ELSE 0)
      BY <3>1
    <3>13. Len(sold.metrics.regime_at_execution) = Len(w.metrics.regime_at_execution)
             + (IF n > 0 /\ w.current_regime # None THEN 1 ELSE 0)
      BY <3>4, <3>8, <3>12, Zenon
    <3> QED
      BY <3>3, <3>8, <3>11, <3>13
  <2> QED
    BY <2>1, <2>2
<1> HIDE DEF w, t, sold, left, c
<1>4. {"remaining", "completed", "metrics", "mode", "adjustment", "transient", "blocks",
       "sigma_warmup", "spread_warmup", "spread_ref", "current_regime"} \subseteq DOMAIN sold
  BY <1>3 DEF Trades, IsTrader
<1>5. /\ DOMAIN t = DOMAIN sold /\ t.metrics = sold.metrics /\ t.mode = sold.mode
      /\ t.adjustment = sold.adjustment /\ t.remaining = left
      /\ t.transient = sold.transient /\ t.sigma_warmup = sold.sigma_warmup
      /\ t.current_regime = sold.current_regime
  BY <1>2, <1>4
<1>6. IsTrader(t)
  BY <1>3, <1>5 DEF Trades, IsTrader, IsStrategy
<1>7. Trades(t)
  BY <1>3, <1>5, <1>6 DEF Trades
<1> QED
  BY <1>1, <1>3, <1>5, <1>7 DEF t, w, left

LEMMA LiquidateTrades ==
  ASSUME NEW s, Trades(s), s.remaining \in Nat,
         IsSeq(prices), \A k \in DOMAIN prices : prices[k] \in Int
  PROVE  LET t == Liquidate(s) IN
           /\ Trades(t) /\ t.mode = s.mode
           /\ t.metrics.regime_at_execution = s.metrics.regime_at_execution
           /\ t.sigma_warmup = s.sigma_warmup /\ t.current_regime = s.current_regime
           /\ t.completed = s.completed \/ t.completed = TRUE
<1> DEFINE t == Liquidate(s)
           p == IF prices = <<>> THEN 1 ELSE Last(prices)
           m == RecordForcedLiquidation(s.metrics, s.remaining, p)
<1>1. CASE ~setup.force_complete \/ s.remaining = 0
  <2>1. Liquidate(s) = s
    BY <1>1, Zenon DEF Liquidate
  <2> QED
    BY <2>1
<1>2. CASE ~(~setup.force_complete \/ s.remaining = 0)
  <2>1. p \in Int
    <3>1. prices # <<>> => Len(prices) \in DOMAIN prices
      <4>1. DOMAIN prices = 1 .. Len(prices) /\ Len(prices) \in Nat
        BY DEF IsSeq
      <4>2. Len(prices) = 0 => prices = <<>>
        BY DEF IsSeq
      <4> QED
        BY <4>1, <4>2
    <3> QED
      BY <3>1 DEF Last
  <2>2. t = [s EXCEPT !.completed = TRUE, !.metrics = m]
    BY <1>2, Zenon DEF Liquidate
  <2> HIDE DEF p
  <2>3. /\ Books(m) /\ m.per_trade_cost = s.metrics.per_trade_cost
        /\ m.vpin_at_execution = s.metrics.vpin_at_execution
        /\ m.regime_at_execution = s.metrics.regime_at_execution
    BY <2>1, ForcedKeepsBooks DEF Trades
  <2>4. {"arrival_price", "cumulative_cost", "total_executed"} \subseteq DOMAIN m
    BY <2>3 DEF Books, IsAccount, Amounts
  <2> HIDE DEF m, t
  <2>5. {"remaining", "completed", "metrics", "mode", "adjustment", "transient", "blocks",
         "sigma_warmup", "spread_warmup", "spread_ref", "current_regime"} \subseteq DOMAIN s
    BY DEF Trades, IsTrader
  <2>6. /\ DOMAIN t = DOMAIN s /\ t.metrics = m /\ t.mode = s.mode
        /\ t.adjustment = s.adjustment /\ t.remaining = s.remaining
        /\ t.transient = s.transient /\ t.sigma_warmup = s.sigma_warmup
        /\ t.current_regime = s.current_regime /\ t.completed = TRUE
    BY <2>2, <2>5
  <2>7. IsTrader(t)
    BY <2>4, <2>5, <2>6 DEF IsTrader, IsStrategy
  <2>8. Trades(t)
    BY <2>3, <2>5, <2>6, <2>7 DEF Trades
  <2> QED
    BY <2>3, <2>6, <2>8 DEF t
<1> QED
  BY <1>1, <1>2

(* The inductive invariant behind CostsConserved: what a run looks at is   *)
(* whole numbers, the estimator is there when the setup has one, and every *)
(* strategy keeps its books.                                               *)
EstimatorKept ==
  /\ vpin = None <=> setup.bucket = None
  /\ vpin # None => vpin \in Calculators

EveryoneKeeps ==
  \A i \in DOMAIN strategies : \A s : s = strategies[i] => Trades(s)

CostInv ==
  /\ DOMAIN history = DOMAIN strategies
  /\ runner # "idle" => EstimatorKept
  /\ prices \in Seq(Int) /\ cursor \in Nat
  /\ runner = "stepping" /\ turn > 0 => SeenTyped
  /\ EveryoneKeeps

LEMMA TradesSame ==
  ASSUME UNCHANGED setup
  PROVE  \A s : Trades(s)' <=> Trades(s)
<1>1. TakesVpin' = TakesVpin
  BY DEF TakesVpin
<1>2. \A m : Books(m)' <=> Books(m)
  BY DEF Books, IsAccount, Explained, IsSeq
<1>3. \A s : IsTrader(s)' <=> IsTrader(s)
  BY DEF IsTrader, IsStrategy
<1>4. \A h : IsSeq(h)' <=> IsSeq(h)
  BY DEF IsSeq
<1> QED
  BY <1>1, <1>2, <1>3, <1>4 DEF Trades, Impacts

(* A step that leaves the strategies alone. *)
LEMMA StrategiesLeft ==
  ASSUME CostInv, UNCHANGED <<setup, strategies, history>>
  PROVE  DOMAIN history' = DOMAIN strategies' /\ EveryoneKeeps'
BY TradesSame DEF CostInv, EveryoneKeeps

LEMMA CostLeft ==
  ASSUME CostInv, UNCHANGED <<setup, strategies, history, prices, cursor, vpin, seen>>,
         runner' = "idle" => runner = "idle", runner # "idle" \/ runner' = "idle",
         runner' = "stepping" /\ turn' > 0 => runner = "stepping" /\ turn > 0
  PROVE  CostInv'
<1>1. DOMAIN history' = DOMAIN strategies' /\ EveryoneKeeps'
  BY StrategiesLeft
<1>2. /\ prices' \in Seq(Int) /\ cursor' \in Nat
      /\ runner' = "stepping" /\ turn' > 0 => SeenTyped'
      /\ runner' # "idle" => EstimatorKept'
  BY DEF CostInv, SeenTyped, EstimatorKept
<1> QED
  BY <1>1, <1>2 DEF CostInv

LEMMA NewRunnerCosts ==
  ASSUME NEW s, NewRunner(s), IsSeq(s.lineup), SetupTyped(s)
  PROVE  CostInv'
<1>1. /\ strategies' = [i \in DOMAIN s.lineup |-> NewStrategy(s.lineup[i])]
      /\ history' = [i \in DOMAIN s.lineup |-> <<>>]
      /\ turn' = 0 /\ prices' = <<>> /\ cursor' = 0 /\ setup' = s
      /\ vpin' = IF s.bucket = None THEN None ELSE NewCalculator(s.bucket, TargetBuckets)
  BY DEF NewRunner
<1>2. EstimatorKept'
  <2>1. s.bucket # None => NewCalculator(s.bucket, TargetBuckets) \in Calculators
    <3>1. <<>> \in Seq(Int) /\ TargetBuckets \in Nat
      BY RunnerAssumption
    <3>2. s.bucket # None => s.bucket \in Nat
      BY DEF SetupTyped
    <3> QED
      BY <3>1, <3>2 DEF NewCalculator, Calculators
  <2>2. None \notin Calculators
    BY VpinAssumption
  <2> QED
    BY <1>1, <2>1, <2>2 DEF EstimatorKept
<1>6. EveryoneKeeps'
  <2> SUFFICES ASSUME NEW i \in DOMAIN strategies', NEW t, t = strategies'[i]
               PROVE  Trades(t)'
    BY DEF EveryoneKeeps
  <2>1. t = NewStrategy(s.lineup[i])
    BY <1>1
  <2> DEFINE mode == s.lineup[i]
             new == NewStrategy(mode)
  <2>2. new.metrics.vpin_at_execution = <<>> /\ new.metrics.per_trade_cost = <<>>
    BY DEF NewStrategy, NewMetrics
  <2>3. Trades(new)
    BY NewStrategyTrades
  <2>4. t = new
    BY <2>1
  <2> HIDE DEF new
  <2>5. Trades(t)'
    <3>1. \A m : Books(m)' <=> Books(m)
      BY DEF Books, IsAccount, Explained, IsSeq
    <3>2. \A x : IsTrader(x)' <=> IsTrader(x)
      BY DEF IsTrader, IsStrategy
    <3>3. \A x : IsSeq(x)' <=> IsSeq(x)
      BY DEF IsSeq
    <3>4. Trades(t) /\ Len(t.metrics.vpin_at_execution) = Len(t.metrics.per_trade_cost)
      BY <2>2, <2>3, <2>4
    <3> QED
      BY <3>1, <3>2, <3>3, <3>4 DEF Trades, Impacts
  <2> QED
    BY <2>5
<1>4. DOMAIN history' = DOMAIN strategies' /\ <<>> \in Seq(Int) /\ 0 \in Nat
  BY <1>1
<1>5. prices' \in Seq(Int) /\ cursor' \in Nat /\ ~(turn' > 0)
  BY <1>1, <1>4
<1> QED
  BY <1>2, <1>4, <1>5, <1>6, VpinAssumption DEF CostInv

(* The market of a step. *)
LEMMA BeginStepCosts ==
  ASSUME CostInv, RunInv, BeginStep
  PROVE  CostInv'
<1>1. /\ runner = "stepping" /\ runner' = "stepping" /\ ~Spins
      /\ cursor' = IF SnapshotLeft THEN cursor + 1 ELSE cursor
      /\ UNCHANGED <<setup, strategies, history>>
  BY DEF BeginStep
<1>2. PICK sample \in Simulated :
        /\ prices' = Append(prices, sample[1])
        /\ vpin' = NextVpin(sample[1])
        /\ seen' = [price |-> sample[1], volatility |-> sample[2], vpin |-> VpinOfStep(sample[1]),
                    snapshot |-> NextSnapshot,
                    half_spread |-> StepHalfSpread(sample[1], sample[2])]
  BY DEF BeginStep
<1> DEFINE price == sample[1]
           volatility == sample[2]
<1>3. SetupTyped(setup) /\ setup.max_steps \in Nat /\ setup.sigma \in Int
      /\ setup.snapshots \in Seq(Snapshots)
  BY <1>1 DEF RunInv, SetupTyped
<1>4. price \in Nat \ {0} /\ volatility \in Int
  <2>1. sample \in Prices \X (IF setup.model = "garch" THEN Volatilities ELSE {setup.sigma})
    BY DEF Simulated
  <2> DEFINE V == IF setup.model = "garch" THEN Volatilities ELSE {setup.sigma}
  <2>2. \A v \in V : v \in Int
    BY <1>3, RunnerAssumption
  <2>3. \A p \in Prices : p \in Nat \ {0}
    BY RunnerAssumption
  <2> HIDE DEF V
  <2>4. sample \in Prices \X V
    BY <2>1 DEF V
  <2> QED
    BY <2>2, <2>3, <2>4
<1> HIDE DEF price, volatility
<1>5. cursor \in Nat /\ prices \in Seq(Int)
  BY DEF CostInv
<1>6. NextSnapshot # None => NextSnapshot \in Snapshots
  <2>1. SnapshotLeft => cursor + 1 \in 1 .. Len(setup.snapshots)
    <3>1. Len(setup.snapshots) \in Nat
      BY <1>3
    <3> QED
      BY <1>5, <3>1 DEF SnapshotLeft
  <2>2. \A k \in 1 .. Len(setup.snapshots) : setup.snapshots[k] \in Snapshots
    BY <1>3
  <2> QED
    BY <2>1, <2>2 DEF NextSnapshot
<1>7. SeenTyped'
  BY <1>2, <1>4, <1>6 DEF SeenTyped, price, volatility
<1>8. prices' \in Seq(Int) /\ cursor' \in Nat
  BY <1>1, <1>2, <1>4, <1>5 DEF price
<1>9. EstimatorKept'
  <2>1. EstimatorKept
    BY <1>1 DEF CostInv
  <2>2. CASE ~Fed
    <3>1. vpin' = vpin
      BY <1>2, <2>2 DEF NextVpin
    <3> QED
      BY <1>1, <2>1, <3>1 DEF EstimatorKept
  <2>3. CASE Fed
    <3>1. vpin \in Calculators /\ vpin # None
      BY <2>1, <2>3 DEF Fed, EstimatorKept
    <3>2. VolumeProxy \in Nat
      <4>1. setup.max_steps # 0 => Total \div setup.max_steps \in Nat
        BY <1>3, RunnerAssumption
      <4> QED
        BY <4>1 DEF VolumeProxy
    <3>3. vpin.bucket_size > 0 \/ VolumeProxy = 0
      BY <1>1, <2>3, <3>1, <3>2 DEF Spins, Endless, Calculators
    <3>4. AddTrade(vpin, price, VolumeProxy, Last(prices)) \in Calculators
      BY <3>1, <3>2, <3>3, AddTradeSized
    <3>5. vpin' = AddTrade(vpin, price, VolumeProxy, Last(prices))
      BY <1>2, <2>3 DEF NextVpin, price
    <3>6. vpin' \in Calculators /\ vpin' # None
      BY <3>4, <3>5, VpinAssumption
    <3> QED
      BY <1>1, <2>1, <3>1, <3>6 DEF EstimatorKept
  <2> QED
    BY <2>2, <2>3
<1>10. DOMAIN history' = DOMAIN strategies' /\ EveryoneKeeps'
  BY <1>1, StrategiesLeft
<1> QED
  BY <1>7, <1>8, <1>9, <1>10 DEF CostInv

(* A strategy has its turn. *)
LEMMA TurnCosts ==
  ASSUME CostInv, runner = "stepping", UNCHANGED <<setup, runner, prices, cursor, vpin, seen>>,
         turn > 0, NEW i \in DOMAIN strategies, NEW s, NEW e,
         Trades(s),
         DOMAIN strategies' = DOMAIN strategies,
         strategies'[i] = s, \A j \in DOMAIN strategies \ {i} : strategies'[j] = strategies[j],
         history' = [history EXCEPT ![i] = Append(@, e)]
  PROVE  CostInv'
<1>1. DOMAIN history' = DOMAIN strategies
  BY DEF CostInv
<1>2. EveryoneKeeps'
  <2> SUFFICES ASSUME NEW j \in DOMAIN strategies', NEW t, t = strategies'[j]
               PROVE  Trades(t)'
    BY DEF EveryoneKeeps
  <2>1. Trades(t)
    BY DEF CostInv, EveryoneKeeps
  <2> QED
    BY <2>1, TradesSame
<1>3. /\ prices' \in Seq(Int) /\ cursor' \in Nat /\ SeenTyped' /\ EstimatorKept'
  BY DEF CostInv, SeenTyped, EstimatorKept
<1> QED
  BY <1>1, <1>2, <1>3 DEF CostInv

(* What a strategy whose turn it is may rely on. *)
LEMMA HasItsTurn ==
  ASSUME InventoryInv, FairInv, StepInv, RunInv, CostInv, NEW i \in DOMAIN strategies, HasTurn(i)
  PROVE  /\ runner = "stepping" /\ turn > 0 /\ SeenTyped /\ step \in Nat
         /\ setup.impact \in Int /\ (vpin = None <=> setup.bucket = None)
         /\ strategies[i].remaining \in Nat
         /\ Trades(strategies[i])
<1>1. runner = "stepping" /\ turn = i
  BY DEF HasTurn
<1>2. turn > 0 /\ step \in Nat
  BY <1>1 DEF FairInv, FairRun
<1>3. setup.impact \in Int /\ EstimatorKept /\ SeenTyped
  BY <1>1, <1>2 DEF RunInv, SetupTyped, CostInv
<1>4. strategies[i].remaining \in Nat
  BY <1>1, RunningAccounted DEF Accounted
<1>5. Trades(strategies[i])
  BY DEF CostInv, EveryoneKeeps
<1> QED
  BY <1>1, <1>2, <1>3, <1>4, <1>5 DEF EstimatorKept

LEMMA OnBlockCosts ==
  ASSUME InventoryInv, FairInv, StepInv, RunInv, CostInv, OnBlock
  PROVE  CostInv'
<1>1. PICK i \in DOMAIN strategies :
        /\ HasTurn(i) /\ ~strategies[i].completed
        /\ \E traded \in Chunks(strategies[i]) :
             /\ strategies' = [strategies EXCEPT ![i] = AfterBlock(@, traded)]
             /\ history' = [history EXCEPT ![i] = Append(@, Record(strategies'[i]))]
  BY DEF OnBlock
<1>2. PICK n \in Chunks(strategies[i]) :
        /\ strategies' = [strategies EXCEPT ![i] = AfterBlock(@, n)]
        /\ history' = [history EXCEPT ![i] = Append(@, Record(strategies'[i]))]
  BY <1>1
<1> DEFINE s == strategies[i]
           t == AfterBlock(s, n)
<1>3. /\ runner = "stepping" /\ turn > 0 /\ SeenTyped /\ step \in Nat
      /\ setup.impact \in Int /\ (vpin = None <=> setup.bucket = None)
      /\ s.remaining \in Nat /\ Trades(s)
  BY <1>1, HasItsTurn
<1>4. n \in 0 .. s.remaining
  BY DEF Chunks
<1>5. Trades(t)
  <2> HIDE DEF s
  <2> QED
    BY <1>3, <1>4, BlockTrades
<1>6. /\ DOMAIN strategies' = DOMAIN strategies /\ strategies'[i] = t
      /\ \A j \in DOMAIN strategies \ {i} : strategies'[j] = strategies[j]
  BY <1>2
<1> HIDE DEF s, t
<1>7. history' = [history EXCEPT ![i] = Append(@, Record(t))]
  BY <1>2, <1>6
<1>8. UNCHANGED <<setup, runner, prices, cursor, vpin, seen>>
  BY DEF OnBlock
<1> QED
  BY <1>3, <1>5, <1>6, <1>7, <1>8, TurnCosts

LEMMA CarryForwardCosts ==
  ASSUME InventoryInv, FairInv, StepInv, RunInv, CostInv, CarryForward
  PROVE  CostInv'
<1>1. PICK i \in DOMAIN strategies :
        /\ HasTurn(i) /\ strategies[i].completed
        /\ history' = [history EXCEPT ![i] = Append(@, Record(strategies[i]))]
  BY DEF CarryForward
<1> DEFINE s == strategies[i]
<1>2. runner = "stepping" /\ turn > 0 /\ Trades(s)
  BY <1>1, HasItsTurn
<1>4. UNCHANGED <<setup, runner, prices, cursor, vpin, seen, strategies>>
  BY DEF CarryForward
<1>5. /\ DOMAIN strategies' = DOMAIN strategies /\ strategies'[i] = s
      /\ \A j \in DOMAIN strategies \ {i} : strategies'[j] = strategies[j]
      /\ history' = [history EXCEPT ![i] = Append(@, Record(s))]
  BY <1>1, <1>4
<1> HIDE DEF s
<1> QED
  BY <1>2, <1>4, <1>5, TurnCosts

LEMMA CloseRunCosts ==
  ASSUME InventoryInv, CostInv, CloseRun
  PROVE  CostInv'
<1>1. /\ runner \in {"stepping", "closing"} /\ runner' \in {"done", "failed"}
      /\ strategies' = [i \in DOMAIN strategies |-> Liquidate(strategies[i])]
      /\ UNCHANGED <<setup, history, prices, cursor, vpin>>
  BY DEF CloseRun
<1>2. IsSeq(prices) /\ \A k \in DOMAIN prices : prices[k] \in Int
  <2>1. prices \in Seq(Int)
    BY DEF CostInv
  <2>2. \A k \in 1 .. Len(prices) : prices[k] \in Range(prices)
    BY <2>1 DEF Range
  <2> QED
    BY <2>1, <2>2 DEF IsSeq
<1>3. EveryoneKeeps'
  <2> SUFFICES ASSUME NEW i \in DOMAIN strategies', NEW t, t = strategies'[i]
               PROVE  Trades(t)'
    BY DEF EveryoneKeeps
  <2> DEFINE s == strategies[i]
  <2>1. i \in DOMAIN strategies /\ t = Liquidate(s)
    BY <1>1
  <2>2. Trades(s)
    BY <2>1 DEF CostInv, EveryoneKeeps
  <2>3. s.remaining \in Nat
    BY <1>1, <2>1, RunningAccounted DEF Accounted
  <2> HIDE DEF s
  <2>4. Trades(t)
    BY <1>2, <2>1, <2>2, <2>3, LiquidateTrades
  <2> QED
    BY <1>1, <2>4, TradesSame
<1>4. DOMAIN history' = DOMAIN strategies'
  BY <1>1 DEF CostInv
<1>5. prices' \in Seq(Int) /\ cursor' \in Nat /\ EstimatorKept'
  BY <1>1 DEF CostInv, EstimatorKept
<1>6. runner' # "stepping"
  BY <1>1
<1> QED
  BY <1>3, <1>4, <1>5, <1>6 DEF CostInv

LEMMA RunnerStepCosts ==
  ASSUME InventoryInv, FairInv, StepInv, RunInv, CostInv, RunnerStep
  PROVE  CostInv'
<1>1. CASE BeginStep
  BY <1>1, BeginStepCosts
<1>2. CASE Spin
  <2>1. runner = "stepping" /\ runner' = "spinning"
        /\ UNCHANGED <<setup, strategies, history, prices, cursor, vpin, seen>>
    BY <1>2 DEF Spin
  <2> QED
    BY <2>1, CostLeft
<1>3. CASE CarryForward
  BY <1>3, CarryForwardCosts
<1>4. CASE OnBlock
  BY <1>4, OnBlockCosts
<1>5. CASE BlockFails
  <2>1. runner = "stepping" /\ runner' = "failed"
        /\ UNCHANGED <<setup, strategies, history, prices, cursor, vpin, seen>>
    BY <1>5 DEF BlockFails, HasTurn
  <2> QED
    BY <2>1, CostLeft
<1>6. CASE EndStep
  <2>1. runner = "stepping" /\ runner' \in {"stepping", "closing"} /\ ~(turn' > 0)
        /\ UNCHANGED <<setup, strategies, history, prices, cursor, vpin, seen>>
    BY <1>6 DEF EndStep
  <2> QED
    BY <2>1, CostLeft
<1>7. CASE CloseRun
  BY <1>7, CloseRunCosts
<1> QED
  BY <1>1, <1>2, <1>3, <1>4, <1>5, <1>6, <1>7 DEF RunnerStep

LEMMA CostsKept ==
  ASSUME InventoryInv, FairInv, StepInv, TypeInv, CostInv, [ResearchNext]_vars
  PROVE  CostInv'
<1>0. LoadInv /\ SweepInv /\ RunInv
  BY DEF TypeInv
<1>1. CASE StartPath
  <2>1. NewRunner(PathSetup)
    BY <1>1 DEF StartPath
  <2> QED
    BY <1>0, <2>1, PathLineup, PathSetupTyped, NewRunnerCosts
<1>2. CASE StartSweepPath
  <2>1. NewRunner(SweepSetup) /\ main = "next_sweep_path" /\ sweep \in {1, 2, 3, 4}
    BY <1>0, <1>2 DEF StartSweepPath, At, SweepInv
  <2> QED
    BY <1>0, <2>1, SweepLineup, SweepSetupTyped, NewRunnerCosts
<1>3. CASE RunStep
  BY <1>0, <1>3, RunnerStepCosts DEF RunStep
<1>4. CASE UNCHANGED runnerVars
  BY <1>4, CostLeft DEF runnerVars
<1>5. MainStep => StartPath \/ StartSweepPath \/ UNCHANGED runnerVars
  BY DEF MainStep, Calibrate, LoadLobData, LoadAggTrades, EndPath, RunFails,
         Summarise, NextSweep, SheetFails, EndSweepPath, EndConfig, RowsFail, Teardown,
         CloseChannel, Join
<1>6. SendStep \/ LogStep \/ UNCHANGED vars => UNCHANGED runnerVars
  BY DEF SendStep, LogStep, vars
<1> QED
  BY <1>1, <1>2, <1>3, <1>4, <1>5, <1>6 DEF ResearchNext

(* Every account, with its VPIN readings, is that of the trades            *)
(* its strategy made, in every state.                                      *)
THEOREM CostInvariance == ResearchSpec => []CostInv
<1>1. ResearchInit => CostInv
  <2> SUFFICES ASSUME ResearchInit PROVE CostInv
    OBVIOUS
  <2>1. strategies = <<>> /\ history = <<>> /\ prices = <<>> /\ cursor = 0 /\ runner = "idle"
    BY DEF ResearchInit, RunnerInit
  <2>2. EveryoneKeeps
    BY <2>1 DEF EveryoneKeeps
  <2> QED
    BY <2>1, <2>2 DEF CostInv
<1>2. InventoryInv /\ FairInv /\ StepInv /\ TypeInv /\ CostInv /\ [ResearchNext]_vars => CostInv'
  BY CostsKept
<1> QED
  BY <1>1, <1>2, InventoryInvariance, FairInvariance, StepInvariance, TypeInvariance, PTL
  DEF ResearchSpec

(* The cost of a strategy is that of its trades and of its forced          *)
(* liquidation, the components explain all of it, the split by VPIN loses  *)
(* no trade, and the regimes' shares add up to the labels (metrics.rs,     *)
(* multi_runner.rs 481-495).                                               *)
THEOREM CostsConservedThroughout == ResearchSpec => []CostsConserved
<1>1. CostInv => CostsConserved
  <2> SUFFICES ASSUME CostInv, NEW i \in DOMAIN strategies
               PROVE  Conserved(strategies[i].metrics,
                                setup.fill_mode = "historical" \/ setup.bucket # None)
    BY DEF CostsConserved
  <2>1. Trades(strategies[i])
    BY DEF CostInv, EveryoneKeeps
  <2>2. Conserved(strategies[i].metrics, TakesVpin)
    BY <2>1, BooksConserve DEF Trades
  <2> QED
    BY <2>2 DEF TakesVpin
<1> QED
  BY <1>1, CostInvariance, PTL

(* What the levels of a side hold, and what one more level adds.            *)
LEMMA Amounted ==
  ASSUME NEW ladder \in Seq(Quotes)
  PROVE  /\ Quantities(ladder) \in Seq(Nat) /\ Quantities(ladder) \in Seq(Int)
         /\ Notionals(ladder) \in Seq(Int)
         /\ Len(Quantities(ladder)) = Len(ladder) /\ Len(Notionals(ladder)) = Len(ladder)
         /\ \A k \in 1 .. Len(ladder) :
              /\ Quantities(ladder)[k] = ladder[k].quantity
              /\ Notionals(ladder)[k] = ladder[k].price * ladder[k].quantity
<1> DEFINE n == Len(ladder)
           q == [i \in 1 .. n |-> ladder[i].quantity]
           m == [i \in 1 .. n |-> ladder[i].price * ladder[i].quantity]
<1>1. n \in Nat /\ DOMAIN ladder = 1 .. n /\ \A k \in 1 .. n : ladder[k] \in Quotes
  OBVIOUS
<1> HIDE DEF n
<1>2. Quantities(ladder) = q /\ Notionals(ladder) = m
  BY <1>1 DEF Quantities, Notionals
<1>3. \A k \in 1 .. n : ladder[k].quantity \in Nat /\ ladder[k].price \in Int
  BY <1>1 DEF Quotes
<1>4. \A k \in 1 .. n : ladder[k].price * ladder[k].quantity \in Int
  BY <1>3
<1>5. q \in [1 .. n -> Nat] /\ q \in [1 .. n -> Int] /\ m \in [1 .. n -> Int]
  BY <1>3, <1>4
<1>6. \A k \in 1 .. n :
        q[k] = ladder[k].quantity /\ m[k] = ladder[k].price * ladder[k].quantity
  OBVIOUS
<1> HIDE DEF q, m
<1>7. /\ q \in Seq(Nat) /\ q \in Seq(Int) /\ m \in Seq(Int)
      /\ Len(q) = n /\ Len(m) = n
  BY <1>1, <1>5
<1> QED
  BY <1>2, <1>6, <1>7 DEF n

LEMMA AmountsAppend ==
  ASSUME NEW ladder \in Seq(Quotes), NEW e \in Quotes
  PROVE  /\ Append(ladder, e) \in Seq(Quotes)
         /\ SumOf(Quantities(ladder)) \in Int /\ SumOf(Notionals(ladder)) \in Int
         /\ SumOf(Quantities(Append(ladder, e))) = SumOf(Quantities(ladder)) + e.quantity
         /\ SumOf(Notionals(Append(ladder, e)))
              = SumOf(Notionals(ladder)) + e.price * e.quantity
<1> DEFINE n == Len(ladder)
           l == Append(ladder, e)
           amount == e.price * e.quantity
           q == Quantities(ladder)
           m == Notionals(ladder)
           q2 == Quantities(l)
           m2 == Notionals(l)
<1>1. /\ n \in Nat /\ l \in Seq(Quotes) /\ Len(l) = n + 1
      /\ l[n + 1] = e /\ \A k \in 1 .. n : l[k] = ladder[k]
  OBVIOUS
<1>2. e.quantity \in Int /\ e.price \in Int
  BY DEF Quotes
<1>3. amount \in Int
  BY <1>2
<1> HIDE DEF l
<1>4. /\ q \in Seq(Int) /\ m \in Seq(Int) /\ Len(q) = n /\ Len(m) = n
      /\ \A k \in 1 .. n : q[k] = ladder[k].quantity /\ m[k] = ladder[k].price * ladder[k].quantity
  BY Amounted
<1>5. /\ q2 \in Seq(Int) /\ m2 \in Seq(Int) /\ Len(q2) = n + 1 /\ Len(m2) = n + 1
      /\ \A k \in 1 .. n + 1 : q2[k] = l[k].quantity /\ m2[k] = l[k].price * l[k].quantity
  BY <1>1, Amounted
<1>6. /\ \A k \in 1 .. n : q2[k] = q[k] /\ m2[k] = m[k]
      /\ q2[n + 1] = e.quantity /\ m2[n + 1] = amount
  <2> HIDE DEF q, m, q2, m2, n
  <2>1. n + 1 \in 1 .. n + 1 /\ \A k \in 1 .. n : k \in 1 .. n + 1
    BY <1>1
  <2>2. \A k \in 1 .. n : q2[k] = ladder[k].quantity /\ m2[k] = ladder[k].price * ladder[k].quantity
    BY <1>1, <1>5, <2>1, Zenon
  <2>3. q2[n + 1] = e.quantity /\ m2[n + 1] = amount
    BY <1>1, <1>5, <2>1, Zenon
  <2> QED
    BY <1>4, <2>2, <2>3, Zenon
<1> HIDE DEF q, m, q2, m2, amount, n
<1>7. q2 = Append(q, e.quantity) /\ m2 = Append(m, amount)
  BY <1>1, <1>2, <1>3, <1>4, <1>5, <1>6
<1>8. /\ SumOf(q) \in Int /\ SumOf(m) \in Int
      /\ SumOf(Append(q, e.quantity)) = SumOf(q) + e.quantity
      /\ SumOf(Append(m, amount)) = SumOf(m) + amount
  BY <1>2, <1>3, <1>4, SumOfAppend
<1> QED
  BY <1>1, <1>7, <1>8 DEF q, m, q2, m2, l, amount

(* What holds of a walk after k levels: nothing is lost, and what is left   *)
(* of the side is its end.                                                  *)
Descended(walk, ladder, quantity, k) ==
  /\ walk.filled + walk.remaining = quantity
  /\ SumOf(Quantities(walk.ladder)) + walk.filled
       = SumFunctionOnSet(Quantities(ladder), 1 .. k)
  /\ SumOf(Notionals(walk.ladder)) + walk.notional
       = SumFunctionOnSet(Notionals(ladder), 1 .. k)
  /\ walk.remaining > 0 => walk.ladder = <<>>
  /\ Len(walk.ladder) <= k
  /\ \A j \in 2 .. Len(walk.ladder) : walk.ladder[j] = ladder[(k - Len(walk.ladder)) + j]

LEMMA StillUntouched ==
  ASSUME NEW left \in Seq(Quotes), NEW ladder \in Seq(Quotes), NEW k \in Nat,
         Len(left) <= k, k < Len(ladder),
         \A j \in 2 .. Len(left) : left[j] = ladder[(k - Len(left)) + j]
  PROVE  LET l == Append(left, ladder[k + 1]) IN
           /\ Len(l) <= k + 1
           /\ \A j \in 2 .. Len(l) : l[j] = ladder[((k + 1) - Len(l)) + j]
<1> DEFINE n == Len(left)
           e == ladder[k + 1]
           l == Append(left, e)
<1>1. n \in Nat /\ e \in Quotes
  OBVIOUS
<1> HIDE DEF e
<1>2. Len(l) = n + 1 /\ l[n + 1] = e /\ \A j \in 1 .. n : l[j] = left[j]
  BY <1>1
<1> HIDE DEF l
<1>3. ASSUME NEW j \in 2 .. n + 1 PROVE l[j] = ladder[((k + 1) - (n + 1)) + j]
  <2>1. ((k + 1) - (n + 1)) + j = (k - n) + j
    BY <1>1
  <2>2. CASE j \in 2 .. n
    <3>1. j \in 1 .. n
      BY <1>1, <2>2
    <3> QED
      BY <1>2, <2>1, <2>2, <3>1
  <2>3. CASE j = n + 1
    <3>1. (k - n) + j = k + 1
      BY <1>1, <2>3
    <3> QED
      BY <1>2, <2>1, <2>3, <3>1 DEF e
  <2> QED
    BY <1>1, <2>2, <2>3
<1> QED
  BY <1>1, <1>2, <1>3 DEF l, e, n

(* What is left of a level that the walk does not use up.                   *)
LEMMA LevelLeft ==
  ASSUME NEW level \in Quotes, NEW taken \in Nat, taken <= level.quantity
  PROVE  LET e == [level EXCEPT !.quantity = @ - taken] IN
           /\ e \in Quotes /\ e.price = level.price
           /\ e.quantity = level.quantity - taken
           /\ taken = 0 => e = level
<1> DEFINE q == level.quantity - taken
           e == [level EXCEPT !.quantity = q]
<1>1. level.quantity \in Nat /\ level.price \in Int
  BY DEF Quotes
<1>2. q \in Nat /\ (taken = 0 => q = level.quantity)
  BY <1>1
<1>3. e = [level EXCEPT !.quantity = @ - taken]
  OBVIOUS
<1>6. q = level.quantity - taken
  OBVIOUS
<1> HIDE DEF q
<1>4. e \in Quotes /\ e.price = level.price /\ e.quantity = q
  BY <1>2 DEF Quotes
<1>5. q = level.quantity => e = level
  BY DEF Quotes
<1> HIDE DEF e
<1> QED
  BY <1>2, <1>3, <1>4, <1>5, <1>6

LEMMA PrefixStep ==
  ASSUME NEW s \in Seq(Int), NEW k \in Nat, k < Len(s)
  PROVE  /\ SumFunctionOnSet(s, 1 .. k) \in Int
         /\ SumFunctionOnSet(s, 1 .. k + 1) = SumFunctionOnSet(s, 1 .. k) + s[k + 1]
<1>1. s[k + 1] \in Int /\ \A j \in 1 .. k : s[j] \in Int
  OBVIOUS
<1>2. IsFiniteSet(1 .. k) /\ k + 1 \notin 1 .. k
  BY FS_Interval
<1>3. SumFunctionOnSet(s, 1 .. k) \in Int
  BY <1>1, <1>2, SumInt
<1>4. SumFunctionOnSet(s, (1 .. k) \cup {k + 1}) = s[k + 1] + SumFunctionOnSet(s, 1 .. k)
  BY <1>1, <1>2, SumAdd
<1>5. (1 .. k) \cup {k + 1} = 1 .. k + 1
  OBVIOUS
<1>6. SumFunctionOnSet(s, 1 .. k + 1) = s[k + 1] + SumFunctionOnSet(s, 1 .. k)
  BY <1>4, <1>5, Zenon
<1> QED
  BY <1>1, <1>3, <1>6

LEMMA FillLevelDescends ==
  ASSUME NEW walk \in Walks, NEW ladder \in Seq(Quotes), NEW quantity \in Nat,
         NEW k \in Nat, k < Len(ladder), Descended(walk, ladder, quantity, k)
  PROVE  Descended(FillLevel(walk, ladder[k + 1]), ladder, quantity, k + 1)
<1> DEFINE level == ladder[k + 1]
           taken == Smaller(level.quantity, walk.remaining)
           left == [level EXCEPT !.quantity = @ - taken]
           full == walk.remaining > 0 /\ taken = level.quantity
           rest == IF full THEN walk.ladder ELSE Append(walk.ladder, left)
           after == FillLevel(walk, level)
           Q(l) == SumOf(Quantities(l))
           M(l) == SumOf(Notionals(l))
           q == Quantities(ladder)
           m == Notionals(ladder)
<1>1. level \in Quotes
  OBVIOUS
<1>2. level.quantity \in Nat /\ level.price \in Int
  BY <1>1 DEF Quotes
<1>3. /\ walk.ladder \in Seq(Quotes) /\ walk.remaining \in Nat /\ walk.filled \in Nat
      /\ walk.notional \in Int
  BY DEF Walks
<1>4. /\ after.ladder = rest /\ after.remaining = walk.remaining - taken
      /\ after.filled = walk.filled + taken
      /\ after.notional = walk.notional + taken * level.price
  BY DEF FillLevel
<1>5. /\ taken \in Nat /\ taken <= level.quantity /\ taken <= walk.remaining
      /\ taken = level.quantity \/ taken = walk.remaining
  BY <1>2, <1>3 DEF Smaller
<1>6. /\ SumFunctionOnSet(q, 1 .. k) \in Int
      /\ SumFunctionOnSet(q, 1 .. k + 1) = SumFunctionOnSet(q, 1 .. k) + level.quantity
      /\ SumFunctionOnSet(m, 1 .. k) \in Int
      /\ SumFunctionOnSet(m, 1 .. k + 1) = SumFunctionOnSet(m, 1 .. k) + level.price * level.quantity
  <2>1. /\ q \in Seq(Int) /\ m \in Seq(Int) /\ Len(q) = Len(ladder) /\ Len(m) = Len(ladder)
        /\ q[k + 1] = level.quantity /\ m[k + 1] = level.price * level.quantity
    BY Amounted
  <2> HIDE DEF q, m, level
  <2> QED
    BY <2>1, PrefixStep
<1>7. /\ left \in Quotes /\ left.price = level.price
      /\ left.quantity = level.quantity - taken
      /\ taken = 0 => left = level
  <2> HIDE DEF taken, level
  <2> QED
    BY <1>1, <1>5, LevelLeft
<1>8. /\ walk.filled + walk.remaining = quantity
      /\ Q(walk.ladder) + walk.filled = SumFunctionOnSet(q, 1 .. k)
      /\ M(walk.ladder) + walk.notional = SumFunctionOnSet(m, 1 .. k)
      /\ walk.remaining > 0 => walk.ladder = <<>>
      /\ Len(walk.ladder) <= k
      /\ \A j \in 2 .. Len(walk.ladder) : walk.ladder[j] = ladder[(k - Len(walk.ladder)) + j]
  BY DEF Descended
<1> HIDE DEF left
<1>9. /\ Q(walk.ladder) \in Int /\ M(walk.ladder) \in Int
      /\ Q(Append(walk.ladder, left)) = Q(walk.ladder) + (level.quantity - taken)
      /\ M(Append(walk.ladder, left))
           = M(walk.ladder) + level.price * (level.quantity - taken)
  <2>1. level.price * (level.quantity - taken) = left.price * left.quantity
    BY <1>7
  <2> HIDE DEF taken, level
  <2> QED
    BY <1>3, <1>7, <2>1, AmountsAppend
<1> DEFINE p == taken * level.price
           r == level.price * (level.quantity - taken)
           t == level.price * level.quantity
<1>10. p \in Int /\ r \in Int /\ t \in Int /\ r + p = t /\ (taken = level.quantity => p = t)
  <2> HIDE DEF taken, level
  <2> QED
    BY <1>2, <1>5
<1>11. Q(rest) + after.filled = SumFunctionOnSet(q, 1 .. k + 1)
  <2>1. /\ walk.filled \in Int /\ taken \in Int /\ level.quantity \in Int
        /\ after.filled = walk.filled + taken
    BY <1>2, <1>3, <1>4, <1>5
  <2>2. /\ SumFunctionOnSet(q, 1 .. k + 1) = SumFunctionOnSet(q, 1 .. k) + level.quantity
        /\ Q(walk.ladder) + walk.filled = SumFunctionOnSet(q, 1 .. k)
    BY <1>6, <1>8
  <2>3. /\ Q(walk.ladder) \in Int
        /\ Q(Append(walk.ladder, left)) = Q(walk.ladder) + (level.quantity - taken)
    BY <1>9
  <2> HIDE DEF taken, level, q, Q, after, M, m
  <2>4. CASE full
    <3>1. rest = walk.ladder /\ taken = level.quantity
      BY <2>4
    <3> HIDE DEF rest
    <3> QED
      BY <2>1, <2>2, <2>3, <3>1
  <2>5. CASE ~full
    <3>1. rest = Append(walk.ladder, left)
      BY <2>5
    <3> HIDE DEF rest
    <3> QED
      BY <2>1, <2>2, <2>3, <3>1
  <2> QED
    BY <2>4, <2>5
<1>12. M(rest) + after.notional = SumFunctionOnSet(m, 1 .. k + 1)
  <2>1. after.notional = walk.notional + p /\ walk.notional \in Int
    BY <1>3, <1>4
  <2>2. SumFunctionOnSet(m, 1 .. k + 1) = SumFunctionOnSet(m, 1 .. k) + t
    BY <1>6
  <2>3. M(Append(walk.ladder, left)) = M(walk.ladder) + r /\ M(walk.ladder) \in Int
    BY <1>9
  <2>6. M(walk.ladder) + walk.notional = SumFunctionOnSet(m, 1 .. k)
    BY <1>8
  <2> HIDE DEF taken, level, q, Q, after, M, m, p, r, t
  <2>4. CASE full
    <3>1. rest = walk.ladder /\ taken = level.quantity
      BY <2>4
    <3> HIDE DEF rest
    <3> QED
      BY <1>10, <2>1, <2>2, <2>3, <2>6, <3>1
  <2>5. CASE ~full
    <3>1. rest = Append(walk.ladder, left)
      BY <2>5
    <3> HIDE DEF rest
    <3>2. M(rest) = M(walk.ladder) + r
      BY <2>3, <3>1, Zenon
    <3>3. p \in Int /\ r \in Int /\ t = r + p
      BY <1>10
    <3> QED
      BY <2>1, <2>2, <2>3, <2>6, <3>2, <3>3
  <2> QED
    BY <2>4, <2>5
<1>13. after.filled + after.remaining = quantity
  <2> HIDE DEF taken, level, after
  <2> QED
    BY <1>3, <1>4, <1>5, <1>8
<1>14. after.remaining > 0 => rest = <<>>
  <2> SUFFICES ASSUME after.remaining > 0 PROVE rest = <<>>
    OBVIOUS
  <2>1. walk.remaining > 0 /\ taken = level.quantity
    <3> HIDE DEF taken, level, after, rest
    <3> QED
      BY <1>2, <1>3, <1>4, <1>5
  <2>2. full /\ walk.ladder = <<>>
    BY <1>8, <2>1
  <2> HIDE DEF full
  <2> QED
    BY <2>2
<1>15. /\ Len(rest) <= k + 1
       /\ \A j \in 2 .. Len(rest) : rest[j] = ladder[((k + 1) - Len(rest)) + j]
  <2>1. CASE walk.remaining = 0
    <3>1. taken = 0 /\ ~full
      BY <1>3, <1>5, <2>1
    <3>2. rest = Append(walk.ladder, level)
      <4> HIDE DEF taken, full, level
      <4> QED
        BY <1>7, <3>1
    <3> HIDE DEF rest
    <3> QED
      BY <1>3, <1>8, <3>2, StillUntouched
  <2>2. CASE walk.remaining > 0
    <3>1. walk.ladder = <<>>
      BY <1>8, <2>2
    <3>2. rest = <<>> \/ rest = <<left>>
      <4> HIDE DEF full
      <4> QED
        BY <3>1
    <3> HIDE DEF rest
    <3>3. Len(rest) \in {0, 1}
      BY <3>2
    <3>4. Len(rest) <= k + 1 /\ \A j \in 2 .. Len(rest) : FALSE
      <4> DEFINE z == Len(rest)
      <4> HIDE DEF z
      <4>1. z \in {0, 1}
        BY <3>3 DEF z
      <4>2. z <= k + 1 /\ \A j \in 2 .. z : FALSE
        BY <4>1
      <4> QED
        BY <4>2 DEF z
    <3> QED
      BY <3>4, Zenon
  <2>3. walk.remaining = 0 \/ walk.remaining > 0
    BY <1>3
  <2> HIDE DEF rest
  <2> QED
    BY <2>1, <2>2, <2>3
<1> HIDE DEF rest
<1>16. after.ladder = rest
  BY <1>4
<1> HIDE DEF after
<1>17. Descended(after, ladder, quantity, k + 1)
  BY <1>11, <1>12, <1>13, <1>14, <1>15, <1>16, Zenon DEF Descended, Q, M, q, m
<1> QED
  BY <1>17 DEF after

LEMMA FillSideDescends ==
  ASSUME NEW ladder \in Seq(Quotes), NEW quantity \in Nat
  PROVE  Descended(FillSide(ladder, quantity), ladder, quantity, Len(ladder))
<1> DEFINE n == Len(ladder)
           base == [ladder |-> <<>>, remaining |-> quantity, filled |-> 0,
                    notional |-> 0, consumed |-> 0]
<1>1. n \in Nat
  OBVIOUS
<1>2. PICK w : Walked(w, ladder, quantity)
  BY FillSideWalks
<1>3. /\ w \in [0 .. n -> Walks] /\ w[0] = base /\ w[n] = FillSide(ladder, quantity)
      /\ \A k \in 0 .. n - 1 : w[k + 1] = FillLevel(w[k], ladder[k + 1])
  BY <1>2 DEF Walked
<1>4. Descended(base, ladder, quantity, 0)
  <2>1. SumOf(Quantities(<<>>)) = 0 /\ SumOf(Notionals(<<>>)) = 0
    <3>1. Quantities(<<>>) = <<>> /\ Notionals(<<>>) = <<>>
      BY DEF Quantities, Notionals
    <3> QED
      BY <3>1, EmptySum
  <2>2. SumFunctionOnSet(Quantities(ladder), 1 .. 0) = 0 /\ SumFunctionOnSet(Notionals(ladder), 1 .. 0) = 0
    <3>1. 1 .. 0 = {}
      OBVIOUS
    <3> QED
      BY <3>1, SumEmpty
  <2>3. Len(<<>>) = 0 /\ \A j \in 2 .. 0 : FALSE
    OBVIOUS
  <2>4. /\ base.filled = 0 /\ base.remaining = quantity /\ base.notional = 0 /\ base.ladder = <<>>
    OBVIOUS
  <2> HIDE DEF base
  <2> QED
    BY <2>1, <2>2, <2>3, <2>4 DEF Descended
<1> HIDE DEF base
<1> DEFINE P == {k \in Nat : k <= n => Descended(w[k], ladder, quantity, k)}
<1>5. 0 \in P
  BY <1>3, <1>4
<1>6. ASSUME NEW k \in Nat, k \in P PROVE k + 1 \in P
  <2> SUFFICES ASSUME k + 1 <= n PROVE Descended(w[k + 1], ladder, quantity, k + 1)
    OBVIOUS
  <2>1. k \in 0 .. n - 1 /\ k \in 0 .. n /\ k < n /\ Descended(w[k], ladder, quantity, k)
    BY <1>1, <1>6
  <2>2. w[k] \in Walks /\ w[k + 1] = FillLevel(w[k], ladder[k + 1])
    BY <1>3, <2>1
  <2> QED
    BY <2>1, <2>2, FillLevelDescends
<1>7. Nat \subseteq P
  <2> HIDE DEF P
  <2> QED
    BY <1>5, <1>6, NumberInduction
<1>8. Descended(w[n], ladder, quantity, n)
  BY <1>1, <1>7
<1> QED
  BY <1>3, <1>8

(* A market sell takes what it asks for or all there is, neither makes nor  *)
(* loses depth or money, and leaves the levels below the last it reaches as *)
(* they were (order_book.rs fill_side).                                     *)
THEOREM FillSideConserves ==
  ASSUME NEW ladder \in Seq(Quotes), NEW quantity \in Nat
  PROVE  LET walk == FillSide(ladder, quantity)
             gone == Len(ladder) - Len(walk.ladder) IN
           /\ walk.filled = Smaller(quantity, SumOf(Quantities(ladder)))
           /\ walk.filled + walk.remaining = quantity
           /\ SumOf(Quantities(walk.ladder)) + walk.filled = SumOf(Quantities(ladder))
           /\ SumOf(Notionals(walk.ladder)) + walk.notional = SumOf(Notionals(ladder))
           /\ gone \in 0 .. Len(ladder)
           /\ \A i \in 2 .. Len(walk.ladder) : walk.ladder[i] = ladder[gone + i]
<1> DEFINE n == Len(ladder)
           walk == FillSide(ladder, quantity)
           l == walk.ladder
<1>1. Descended(walk, ladder, quantity, n)
  BY FillSideDescends
<1>2. walk \in Walks
  BY FilledTyped
<1>3. l \in Seq(Quotes) /\ walk.remaining \in Nat /\ walk.filled \in Nat
  BY <1>2 DEF Walks
<1>4. /\ SumFunctionOnSet(Quantities(ladder), 1 .. n) = SumOf(Quantities(ladder))
      /\ SumFunctionOnSet(Notionals(ladder), 1 .. n) = SumOf(Notionals(ladder))
  <2> DEFINE q == Quantities(ladder)
             m == Notionals(ladder)
  <2>1. q \in Seq(Int) /\ m \in Seq(Int) /\ Len(q) = n /\ Len(m) = n
    BY Amounted
  <2> HIDE DEF q, m, n
  <2>2. DOMAIN q = 1 .. n /\ DOMAIN m = 1 .. n
    BY <2>1
  <2>3. SumOf(q) = SumFunctionOnSet(q, 1 .. n) /\ SumOf(m) = SumFunctionOnSet(m, 1 .. n)
    BY <2>1, <2>2, SumOfIsSum
  <2> QED
    BY <2>3 DEF q, m
<1>5. /\ walk.filled + walk.remaining = quantity
      /\ SumOf(Quantities(l)) + walk.filled = SumOf(Quantities(ladder))
      /\ SumOf(Notionals(l)) + walk.notional = SumOf(Notionals(ladder))
      /\ walk.remaining > 0 => l = <<>>
      /\ Len(l) <= n
      /\ \A i \in 2 .. Len(l) : l[i] = ladder[(n - Len(l)) + i]
  BY <1>1, <1>4 DEF Descended
<1>6. SumOf(Quantities(l)) \in Nat /\ (l = <<>> => SumOf(Quantities(l)) = 0)
  <2>1. Quantities(l) \in Seq(Nat)
    BY <1>3, Amounted
  <2>2. l = <<>> => Quantities(l) = <<>>
    BY DEF Quantities
  <2> QED
    BY <2>1, <2>2, SumOfNat, EmptySum
<1>7. walk.filled = Smaller(quantity, SumOf(Quantities(ladder)))
  <2> DEFINE total == SumOf(Quantities(ladder))
             left == SumOf(Quantities(l))
  <2>1. left + walk.filled = total /\ left \in Nat /\ (walk.remaining > 0 => left = 0)
    BY <1>5, <1>6
  <2>2. walk.filled + walk.remaining = quantity
    BY <1>5
  <2> HIDE DEF total, left, walk
  <2>3. walk.filled = Smaller(quantity, total)
    BY <1>3, <2>1, <2>2 DEF Smaller
  <2> QED
    BY <2>3 DEF total
<1>8. n - Len(l) \in 0 .. n
  <2>1. n \in Nat /\ Len(l) \in Nat
    BY <1>3
  <2> HIDE DEF n, l
  <2> QED
    BY <1>5, <2>1
<1> HIDE DEF walk
<1> QED
  BY <1>5, <1>7, <1>8, Zenon DEF walk

(* The depth of a side as a walk that ends at the first level below the     *)
(* price.                                                                   *)
Soundings == [open : BOOLEAN, depth : Nat]

Sound(acc, l, price) ==
  IF acc.open /\ l.price >= price
  THEN [acc EXCEPT !.depth = @ + l.quantity]
  ELSE [acc EXCEPT !.open = FALSE]

SoundIter(g, ladder, price) ==
  g = [t \in SUBSET DOMAIN ladder |->
         IF t = {} THEN [open |-> TRUE, depth |-> 0]
         ELSE Sound(g[t \ {Top(t)}], ladder[Top(t)], price)]

Sounded(w, ladder, price) ==
  /\ w \in [0 .. Len(ladder) -> Soundings]
  /\ w[0] = [open |-> TRUE, depth |-> 0]
  /\ \A k \in 0 .. Len(ladder) - 1 : w[k + 1] = Sound(w[k], ladder[k + 1], price)
  /\ w[Len(ladder)].depth = DepthUpTo(ladder, price)

LEMMA SoundTyped ==
  ASSUME NEW acc \in Soundings, NEW l \in Quotes, NEW price
  PROVE  Sound(acc, l, price) \in Soundings
<1>1. acc.depth + l.quantity \in Nat
  BY DEF Soundings, Quotes
<1>2. [acc EXCEPT !.depth = @ + l.quantity] \in Soundings
  <2> DEFINE d == acc.depth + l.quantity
  <2>1. [acc EXCEPT !.depth = @ + l.quantity] = [acc EXCEPT !.depth = d]
    OBVIOUS
  <2>2. d \in Nat
    BY <1>1
  <2> HIDE DEF d
  <2>3. [acc EXCEPT !.depth = d] \in Soundings
    BY <2>2 DEF Soundings
  <2> QED
    BY <2>1, <2>3
<1>3. [acc EXCEPT !.open = FALSE] \in Soundings
  BY DEF Soundings
<1> QED
  BY <1>2, <1>3, Zenon DEF Sound

LEMMA SideSounded ==
  ASSUME NEW ladder \in Seq(Quotes), NEW price
  PROVE  \E w : Sounded(w, ladder, price)
<1> DEFINE n == Len(ladder)
           base == [open |-> TRUE, depth |-> 0]
           op == [p \in Soundings \X (1 .. n) |-> Sound(p[1], ladder[p[2]], price)]
           g == CHOOSE g : SoundIter(g, ladder, price)
<1>1. DepthUpTo(ladder, price) = g[DOMAIN ladder].depth
  BY Zenon DEF DepthUpTo, FoldLeft, MapThenFoldSet, SoundIter, Top, Sound
<1>2. n \in Nat /\ DOMAIN ladder = 1 .. n /\ \A k \in 1 .. n : ladder[k] \in Quotes
  OBVIOUS
<1>0. base \in Soundings
  BY DEF Soundings
<1> HIDE DEF n
<1>3. op \in [Soundings \X (1 .. n) -> Soundings]
  BY <1>2, SoundTyped
<1>4. \A x \in Soundings : \A k \in 1 .. n : op[<<x, k>>] = Sound(x, ladder[k], price)
  BY <1>2
<1>10. ASSUME NEW h
       PROVE  SoundIter(h, ladder, price) <=>
                h = [t \in SUBSET (1 .. n) |->
                       IF t = {} THEN base ELSE Sound(h[t \ {Top(t)}], ladder[Top(t)], price)]
  BY <1>2, Zenon DEF SoundIter
<1>11. g = CHOOSE h : SoundIter(h, ladder, price)
  OBVIOUS
<1> HIDE DEF op, g, base
<1>5. ASSUME NEW h, NEW t \in SUBSET (1 .. n), t # {}, h[t \ {Top(t)}] \in Soundings
      PROVE  op[<<h[t \ {Top(t)}], Top(t)>>] = Sound(h[t \ {Top(t)}], ladder[Top(t)], price)
  <2>1. Top(t) \in 1 .. n
    BY <1>2, <1>5, TopOfSome
  <2> QED
    BY <1>4, <1>5, <2>1
<1>6. \E h : SoundIter(h, ladder, price)
  <2>1. PICK h \in [SUBSET (1 .. n) -> Soundings] : Folded(h, op, base, SUBSET (1 .. n))
    BY <1>0, <1>2, <1>3, FoldExists
  <2>2. \A t \in SUBSET (1 .. n) : h[t \ {Top(t)}] \in Soundings
    BY <2>1
  <2>3. \A t \in SUBSET (1 .. n) :
          h[t] = IF t = {} THEN base ELSE Sound(h[t \ {Top(t)}], ladder[Top(t)], price)
    <3>1. \A t \in SUBSET (1 .. n) : h[t] = IF t = {} THEN base ELSE op[<<h[t \ {Top(t)}], Top(t)>>]
      BY <2>1 DEF Folded
    <3> QED
      BY <1>5, <2>2, <3>1
  <2>4. h = [t \in SUBSET (1 .. n) |-> h[t]]
    BY <2>1
  <2>5. h = [t \in SUBSET (1 .. n) |->
               IF t = {} THEN base ELSE Sound(h[t \ {Top(t)}], ladder[Top(t)], price)]
    BY <2>3, <2>4
  <2> QED
    BY <1>10, <2>5
<1>7. SoundIter(g, ladder, price)
  BY <1>6, <1>11
<1>8. Follows(g, op, base, Soundings, n)
  <2>1. \A t \in SUBSET (1 .. n) :
          g[t] = IF t = {} THEN base ELSE Sound(g[t \ {Top(t)}], ladder[Top(t)], price)
    BY <1>7, <1>10
  <2> QED
    BY <1>5, <2>1 DEF Follows
<1>12. PICK w : Trace(w, op, base, Soundings, n) /\ w[n] = g[1 .. n]
  <2>1. TracedTo(g[1 .. n], op, base, Soundings, n)
    BY <1>0, <1>2, <1>3, <1>8, FoldTrace
  <2> QED
    BY <2>1 DEF TracedTo
<1>13. \A k \in 0 .. n - 1 : w[k + 1] = Sound(w[k], ladder[k + 1], price)
  <2> SUFFICES ASSUME NEW k \in 0 .. n - 1
               PROVE  w[k + 1] = Sound(w[k], ladder[k + 1], price)
    OBVIOUS
  <2>1. w[k] \in Soundings /\ k + 1 \in 1 .. n /\ w[k + 1] = op[<<w[k], k + 1>>]
    BY <1>2, <1>12 DEF Trace
  <2> QED
    BY <1>4, <2>1
<1>14. w \in [0 .. n -> Soundings] /\ w[0] = base /\ w[n].depth = DepthUpTo(ladder, price)
  BY <1>1, <1>2, <1>12 DEF Trace
<1>15. Sounded(w, ladder, price)
  BY <1>13, <1>14 DEF Sounded, base, n
<1> QED
  BY <1>15

(* At a lower price there is at least as much.                              *)
LEMMA DepthGrows ==
  ASSUME NEW ladder \in Seq(Quotes), NEW low \in Int, NEW high \in Int, low <= high
  PROVE  DepthUpTo(ladder, high) <= DepthUpTo(ladder, low)
<1> DEFINE n == Len(ladder)
<1>1. n \in Nat /\ \A k \in 1 .. n : ladder[k] \in Quotes
  OBVIOUS
<1>2. PICK a : Sounded(a, ladder, high)
  BY SideSounded
<1>3. PICK b : Sounded(b, ladder, low)
  BY SideSounded
<1>4. /\ a \in [0 .. n -> Soundings] /\ b \in [0 .. n -> Soundings]
      /\ a[0] = [open |-> TRUE, depth |-> 0] /\ b[0] = [open |-> TRUE, depth |-> 0]
      /\ a[n].depth = DepthUpTo(ladder, high) /\ b[n].depth = DepthUpTo(ladder, low)
      /\ \A k \in 0 .. n - 1 : /\ a[k + 1] = Sound(a[k], ladder[k + 1], high)
                               /\ b[k + 1] = Sound(b[k], ladder[k + 1], low)
  BY <1>2, <1>3 DEF Sounded
<1> HIDE DEF n
<1> DEFINE P == {k \in Nat : k <= n => (a[k].open => b[k].open) /\ a[k].depth <= b[k].depth}
<1>5. 0 \in P
  BY <1>4
<1>6. ASSUME NEW k \in Nat, k \in P PROVE k + 1 \in P
  <2> SUFFICES ASSUME k + 1 <= n
               PROVE  (a[k + 1].open => b[k + 1].open) /\ a[k + 1].depth <= b[k + 1].depth
    OBVIOUS
  <2>1. k \in 0 .. n - 1 /\ k \in 0 .. n /\ k + 1 \in 1 .. n
    BY <1>1
  <2> DEFINE x == a[k]
             y == b[k]
             l == ladder[k + 1]
  <2>2. /\ x \in Soundings /\ y \in Soundings /\ l \in Quotes
        /\ (x.open => y.open) /\ x.depth <= y.depth
        /\ a[k + 1] = Sound(x, l, high) /\ b[k + 1] = Sound(y, l, low)
    BY <1>1, <1>4, <1>6, <2>1
  <2> HIDE DEF x, y, l
  <2>3. /\ x.depth \in Nat /\ y.depth \in Nat /\ l.quantity \in Nat /\ l.price \in Int
        /\ {"open", "depth"} \subseteq DOMAIN x /\ {"open", "depth"} \subseteq DOMAIN y
    BY <2>2 DEF Soundings, Quotes
  <2>4. CASE x.open /\ l.price >= high
    <3>1. y.open /\ l.price >= low
      BY <2>2, <2>3, <2>4
    <3>2. /\ Sound(x, l, high) = [x EXCEPT !.depth = @ + l.quantity]
          /\ Sound(y, l, low) = [y EXCEPT !.depth = @ + l.quantity]
      BY <2>4, <3>1 DEF Sound
    <3>3. /\ Sound(x, l, high).depth = x.depth + l.quantity
          /\ Sound(y, l, low).depth = y.depth + l.quantity
      BY <2>3, <3>2
    <3>4. Sound(y, l, low).open = y.open
      BY <2>3, <3>2
    <3> QED
      BY <2>2, <2>3, <3>1, <3>3, <3>4
  <2>5. CASE ~(x.open /\ l.price >= high)
    <3>1. Sound(x, l, high) = [x EXCEPT !.open = FALSE]
      BY <2>5 DEF Sound
    <3>2. Sound(x, l, high).open = FALSE /\ Sound(x, l, high).depth = x.depth
      BY <2>3, <3>1
    <3>3. /\ [y EXCEPT !.depth = @ + l.quantity].depth = y.depth + l.quantity
          /\ [y EXCEPT !.open = FALSE].depth = y.depth
      BY <2>3
    <3>4. Sound(y, l, low).depth \in {y.depth, y.depth + l.quantity}
      BY <3>3 DEF Sound
    <3> QED
      BY <2>2, <2>3, <3>2, <3>4
  <2> QED
    BY <2>4, <2>5
<1>7. Nat \subseteq P
  <2> HIDE DEF P
  <2> QED
    BY <1>5, <1>6, NumberInduction
<1> QED
  BY <1>1, <1>4, <1>7

(* The best level first: what order_book.rs asks of who builds a book of    *)
(* bids.                                                                    *)
Descending(ladder) ==
  \A i, j \in 1 .. Len(ladder) : i <= j => ladder[i].price >= ladder[j].price

(* A market sell takes the best levels, down to the last it reaches, whole  *)
(* and leaves the rest alone (order_book.rs fill_side), on every side whose *)
(* best level comes first.                                                  *)
THEOREM SellTakesTheBest ==
  ASSUME NEW ladder \in Seq(Quotes), NEW quantity \in Nat, Descending(ladder)
  PROVE  SellsFromTheTop(ladder, quantity)
<1> DEFINE walk == FillSide(ladder, quantity)
           gone == Len(ladder) - Len(walk.ladder)
<1>1. /\ walk.filled = Smaller(quantity, SumOf(Quantities(ladder)))
      /\ walk.filled + walk.remaining = quantity
      /\ SumOf(Quantities(walk.ladder)) + walk.filled = SumOf(Quantities(ladder))
      /\ SumOf(Notionals(walk.ladder)) + walk.notional = SumOf(Notionals(ladder))
      /\ gone \in 0 .. Len(ladder)
      /\ \A i \in 2 .. Len(walk.ladder) : walk.ladder[i] = ladder[gone + i]
  BY FillSideConserves
<1> HIDE DEF gone
<1>2. ASSUME NEW i \in 1 .. gone
      PROVE  DepthUpTo(ladder, ladder[i].price) <= DepthUpTo(ladder, ladder[gone].price)
  <2> DEFINE high == ladder[i].price
             low == ladder[gone].price
  <2>1. i \in 1 .. Len(ladder) /\ gone \in 1 .. Len(ladder) /\ i <= gone
    BY <1>1
  <2>2. ladder[i] \in Quotes /\ ladder[gone] \in Quotes
    BY <2>1
  <2>3. high \in Int /\ low \in Int
    BY <2>2 DEF Quotes
  <2>4. high >= low
    BY <2>1 DEF Descending
  <2> HIDE DEF high, low
  <2>5. low <= high
    BY <2>3, <2>4
  <2>6. DepthUpTo(ladder, high) <= DepthUpTo(ladder, low)
    BY <2>3, <2>5, DepthGrows
  <2> QED
    BY <2>6 DEF high, low
<1> QED
  BY <1>1, <1>2, Zenon DEF SellsFromTheTop, gone

LEMMA DivisionGrows ==
  ASSUME NEW a \in Int, NEW b \in Int, NEW d \in Nat \ {0}, a >= b
  PROVE  a \div d >= b \div d
<1> DEFINE x == a \div d
           y == b \div d
<1>1. x \in Int /\ y \in Int
  OBVIOUS
<1>2. a < (x + 1) * d
  OBVIOUS
<1>3. y * d <= b
  OBVIOUS
<1> HIDE DEF x, y
<1>4. (x + 1) * d <= y * d \/ x + 1 > y
  <2> SUFFICES ASSUME x + 1 <= y PROVE (x + 1) * d <= y * d
    BY <1>1
  <2> QED
    BY <1>1
<1>5. x + 1 > y
  <2> DEFINE p == (x + 1) * d
             q == y * d
  <2>1. p \in Int /\ q \in Int /\ a < p /\ q <= b /\ (p <= q \/ x + 1 > y)
    BY <1>1, <1>2, <1>3, <1>4
  <2> HIDE DEF p, q
  <2> QED
    BY <2>1
<1>6. x >= y
  BY <1>1, <1>5
<1> QED
  BY <1>6 DEF x, y

(* Rescaling keeps the order. *)
LEMMA RescaledDescends ==
  ASSUME NEW b \in Snapshots, Descending(b.bids), NEW to \in Nat
  PROVE  Descending(Rescale(b, to, MidPrice(b)).bids)
<1> DEFINE from == MidPrice(b)
           ladder == b.bids
           scaled == ScaleLevels(ladder, to, from)
<1>1. Rescale(b, to, from).bids = scaled
  BY RescaledIsBook
<1>2. from \in Nat \ {0} /\ ladder \in Seq(Quotes) /\ ladder # <<>>
  BY SnapshotIsBook DEF IsBook
<1> HIDE DEF from, ladder
<1>3. /\ Len(scaled) = Len(ladder)
      /\ \A i \in 1 .. Len(ladder) : scaled[i].price = (ladder[i].price * to) \div from
  BY <1>2, ScaledLevels
<1> HIDE DEF scaled
<1>4. ASSUME NEW i \in 1 .. Len(scaled), NEW j \in 1 .. Len(scaled), i <= j
      PROVE  scaled[i].price >= scaled[j].price
  <2> DEFINE high == ladder[i].price
             low == ladder[j].price
             a == high * to
             c == low * to
  <2>1. ladder[i] \in Quotes /\ ladder[j] \in Quotes
    BY <1>2, <1>3
  <2>2. high \in Int /\ low \in Int
    BY <2>1 DEF Quotes
  <2>3. high >= low
    BY <1>3, <1>4 DEF Descending, ladder
  <2> HIDE DEF high, low
  <2>4. a \in Int /\ c \in Int
    BY <2>2
  <2>7. a >= c
    BY <2>2, <2>3
  <2>5. scaled[i].price = a \div from /\ scaled[j].price = c \div from
    BY <1>3 DEF high, low
  <2> HIDE DEF a, c
  <2>6. a \div from >= c \div from
    BY <1>2, <2>4, <2>7, DivisionGrows
  <2> QED
    BY <2>5, <2>6
<1>5. Descending(scaled)
  BY <1>4 DEF Descending
<1> QED
  BY <1>1, <1>5 DEF from

(* The generator puts each level further from the mid than the last. *)
LEMMA GeneratedDescends ==
  ASSUME NEW mid \in Nat, NEW volatility \in Int
  PROVE  Descending(GenerateLob(mid, volatility).bids)
<1> DEFINE half == (mid * (2 + volatility)) \div 200
           quantity(k) == Larger(1, BaseQuantity \div (2 ^ (k - 1)))
           away(k) == ((k - 1) * mid) \div 100
           offset(k) == half + away(k)
           bids == [k \in 1 .. NumLevels |-> [price |-> mid - offset(k), quantity |-> quantity(k)]]
           asks == [k \in 1 .. NumLevels |-> [price |-> mid + offset(k), quantity |-> quantity(k)]]
<1>1. GenerateLob(mid, volatility) = NewBook(asks, bids, 0)
  BY Zenon DEF GenerateLob
<1>2. half \in Int
  <2> DEFINE m == mid * (2 + volatility)
  <2>1. m \in Int
    OBVIOUS
  <2> HIDE DEF m
  <2> QED
    BY <2>1 DEF m
<1>3. \A i, j \in 1 .. NumLevels : i <= j =>
        away(i) \in Int /\ away(j) \in Int /\ away(j) >= away(i)
  <2> SUFFICES ASSUME NEW i \in 1 .. NumLevels, NEW j \in 1 .. NumLevels, i <= j
               PROVE  away(i) \in Int /\ away(j) \in Int /\ away(j) >= away(i)
    OBVIOUS
  <2> DEFINE a == (i - 1) * mid
             b == (j - 1) * mid
  <2>1. a \in Int /\ b \in Int /\ b >= a
    BY OrderBookAssumption
  <2>2. 100 \in Nat \ {0}
    OBVIOUS
  <2>3. away(i) = a \div 100 /\ away(j) = b \div 100
    OBVIOUS
  <2> HIDE DEF a, b, away
  <2> QED
    BY <2>1, <2>2, <2>3, DivisionGrows
<1>4. \A k \in 1 .. NumLevels : bids[k].price = mid - offset(k)
  OBVIOUS
<1>5. Len(bids) = NumLevels
  BY OrderBookAssumption
<1>6. GenerateLob(mid, volatility).bids = bids
  BY <1>1 DEF NewBook
<1> HIDE DEF bids, asks, quantity, away, half
<1>7. \A i, j \in 1 .. NumLevels : i <= j => mid - offset(i) >= mid - offset(j)
  BY <1>2, <1>3
<1> HIDE DEF offset
<1>8. Descending(bids)
  BY <1>4, <1>5, <1>7 DEF Descending
<1> QED
  BY <1>6, <1>8

-----------------------------------------------------------------------------
(* Snapshots a book may be built from, and what reads them.                 *)
BestFirst(snapshots) == \A k \in DOMAIN snapshots : Descending(snapshots[k].bids)

OrderedInv ==
  /\ \A s : s = lob /\ s # None => BestFirst(s)
  /\ runner # "idle" => \A s : s = setup.snapshots => BestFirst(s)
  /\ runner = "stepping" /\ turn > 0 =>
       \A b : b = seen.snapshot /\ b # None => Descending(b.bids)

(* The order books on the command line list the best bid first, as          *)
(* order_book.rs asks of its callers.                                       *)
FilesBestFirst ==
  \A l \in Lines : "lob_data" \in DOMAIN l =>
    LobFromCsv(l.lob_data) = None \/ BestFirst(LobFromCsv(l.lob_data))

LEMMA DescendingSame == \A l : Descending(l)' <=> Descending(l)
  BY DEF Descending

LEMMA OrderedSame == \A s : BestFirst(s)' <=> BestFirst(s)
  BY DescendingSame DEF BestFirst

LEMMA OrderedLeft ==
  ASSUME OrderedInv, UNCHANGED <<lob, setup, seen>>,
         runner' # "idle" => runner # "idle",
         runner' = "stepping" /\ turn' > 0 => runner = "stepping" /\ turn > 0
  PROVE  OrderedInv'
<1>1. \A s : s = lob' /\ s # None => BestFirst(s)'
  BY OrderedSame DEF OrderedInv
<1>2. runner' # "idle" => \A s : s = setup'.snapshots => BestFirst(s)'
  BY OrderedSame DEF OrderedInv
<1>3. runner' = "stepping" /\ turn' > 0 =>
        \A b : b = seen'.snapshot /\ b # None => Descending(b.bids)'
  BY DescendingSame DEF OrderedInv
<1> QED
  BY <1>1, <1>2, <1>3, DescendingSame DEF OrderedInv

LEMMA NewRunnerOrdered ==
  ASSUME OrderedInv, NEW s, NewRunner(s), BestFirst(s.snapshots), lob' = lob
  PROVE  OrderedInv'
<1>1. setup' = s /\ turn' = 0 /\ runner' = "stepping"
  BY DEF NewRunner
<1>2. \A x : x = lob' /\ x # None => BestFirst(x)'
  BY OrderedSame DEF OrderedInv
<1>3. \A x : x = setup'.snapshots => BestFirst(x)'
  BY <1>1, OrderedSame
<1>4. ~(turn' > 0)
  BY <1>1
<1> QED
  BY <1>2, <1>3, <1>4 DEF OrderedInv

LEMMA LoadOrdered ==
  ASSUME FilesBestFirst, LoadInv, OrderedInv, LoadLobData
  PROVE  OrderedInv'
<1>1. UNCHANGED <<setup, runner, turn, seen>>
  BY DEF LoadLobData, runnerVars
<1>2. lob' = lob \/ lob' = None \/ (Given("lob_data") /\ lob' = LobFromCsv(line.lob_data))
  <2>1. lob' = lob \/ lob' = IF Given("lob_data") THEN LobFromCsv(line.lob_data) ELSE None
    BY Zenon DEF LoadLobData
  <2> QED
    BY <2>1
<1>3. Given("lob_data") => LobFromCsv(line.lob_data) = None \/ BestFirst(LobFromCsv(line.lob_data))
  BY Zenon DEF FilesBestFirst, LoadInv, Given
<1>4. \A s : s = lob' /\ s # None => BestFirst(s)
  BY <1>2, <1>3 DEF OrderedInv
<1>5. runner' # "idle" => \A s : s = setup'.snapshots => BestFirst(s)'
  BY <1>1, OrderedSame DEF OrderedInv
<1>6. runner' = "stepping" /\ turn' > 0 =>
        \A b : b = seen'.snapshot /\ b # None => Descending(b.bids)'
  BY <1>1, DescendingSame DEF OrderedInv
<1> QED
  BY <1>4, <1>5, <1>6, OrderedSame, DescendingSame DEF OrderedInv

LEMMA BeginStepOrdered ==
  ASSUME OrderedInv, CostInv, RunInv, BeginStep, lob' = lob
  PROVE  OrderedInv'
<1>1. runner = "stepping" /\ UNCHANGED <<setup, runner>>
  BY DEF BeginStep
<1>2. seen'.snapshot = NextSnapshot
  BY DEF BeginStep
<1>3. setup.snapshots \in Seq(Snapshots) /\ cursor \in Nat
  BY <1>1 DEF RunInv, SetupTyped, CostInv
<1>4. \A s : s = setup.snapshots => BestFirst(s)
  BY <1>1 DEF OrderedInv
<1>5. NextSnapshot # None =>
        \E k \in DOMAIN setup.snapshots : NextSnapshot = setup.snapshots[k]
  BY <1>3 DEF NextSnapshot, SnapshotLeft
<1>6. ASSUME NEW b, b = NextSnapshot, b # None PROVE Descending(b.bids)
  BY <1>4, <1>5, <1>6, Zenon DEF BestFirst
<1>7. \A s : s = lob' /\ s # None => BestFirst(s)'
  BY OrderedSame DEF OrderedInv
<1>8. \A s : s = setup'.snapshots => BestFirst(s)'
  BY <1>1, <1>4, OrderedSame
<1>9. \A b : b = seen'.snapshot /\ b # None => Descending(b.bids)'
  BY <1>2, <1>6, DescendingSame
<1> QED
  BY <1>7, <1>8, <1>9, DescendingSame DEF OrderedInv

LEMMA OrderedKept ==
  ASSUME FilesBestFirst, InventoryInv, TypeInv, CostInv, OrderedInv, [ResearchNext]_vars
  PROVE  OrderedInv'
<1>0. LoadInv /\ SweepInv /\ RunInv
  BY DEF TypeInv
<1>1. CASE StartPath
  <2>1. NewRunner(PathSetup) /\ lob' = lob
    BY <1>1 DEF StartPath
  <2>2. BestFirst(PathSetup.snapshots)
    <3>1. PathSetup.snapshots = (IF lob = None THEN <<>> ELSE lob)
      BY DEF PathSetup
    <3>2. BestFirst(<<>>)
      BY DEF BestFirst
    <3>3. lob # None => BestFirst(lob)
      BY DEF OrderedInv
    <3> QED
      BY <3>1, <3>2, <3>3, Zenon
  <2> QED
    BY <2>1, <2>2, NewRunnerOrdered
<1>2. CASE StartSweepPath
  <2>1. NewRunner(SweepSetup) /\ lob' = lob
    BY <1>2 DEF StartSweepPath
  <2>2. BestFirst(SweepSetup.snapshots)
    <3>1. SweepSetup.snapshots = <<>>
      <4>1. sweep \in {1, 2, 3, 4}
        BY <1>0, <1>2 DEF StartSweepPath, At, SweepInv
      <4> QED
        BY <4>1 DEF SweepSetup
    <3>2. BestFirst(<<>>)
      BY DEF BestFirst
    <3> QED
      BY <3>1, <3>2, Zenon
  <2> QED
    BY <2>1, <2>2, NewRunnerOrdered
<1>3. CASE RunStep
  <2>1. lob' = lob /\ RunnerStep
    BY <1>3 DEF RunStep, researchVars
  <2>2. CASE BeginStep
    BY <1>0, <2>1, <2>2, BeginStepOrdered
  <2>3. CASE Spin \/ BlockFails \/ EndStep \/ CloseRun \/ CarryForward \/ OnBlock
    <3>1. /\ UNCHANGED <<setup, seen>> \/ (runner' # "stepping" /\ UNCHANGED setup)
          /\ runner # "idle"
          /\ runner' = "stepping" /\ turn' > 0 => runner = "stepping" /\ turn > 0
      <4>1. CASE Spin \/ BlockFails \/ CloseRun
        BY <4>1 DEF Spin, BlockFails, HasTurn, CloseRun
      <4>2. CASE EndStep
        BY <4>2 DEF EndStep
      <4>3. CASE CarryForward \/ OnBlock
        <5>1. PICK i \in DOMAIN strategies : HasTurn(i)
          BY <4>3 DEF CarryForward, OnBlock
        <5>2. turn > 0 /\ runner = "stepping"
          BY <1>0, <5>1 DEF RunInv, HasTurn
        <5>3. UNCHANGED <<setup, seen>>
          BY <4>3 DEF CarryForward, OnBlock
        <5> QED
          BY <5>2, <5>3
      <4> QED
        BY <2>3, <4>1, <4>2, <4>3
    <3>2. \A s : s = lob' /\ s # None => BestFirst(s)'
      BY <2>1, OrderedSame DEF OrderedInv
    <3>3. \A s : s = setup'.snapshots => BestFirst(s)'
      BY <3>1, OrderedSame DEF OrderedInv
    <3>4. runner' = "stepping" /\ turn' > 0 =>
            \A b : b = seen'.snapshot /\ b # None => Descending(b.bids)'
      BY <3>1, DescendingSame DEF OrderedInv
    <3> QED
      BY <3>2, <3>3, <3>4, DescendingSame DEF OrderedInv
  <2> QED
    BY <2>1, <2>2, <2>3 DEF RunnerStep
<1>4. CASE LoadLobData
  BY <1>0, <1>4, LoadOrdered
<1>5. CASE UNCHANGED runnerVars /\ lob' = lob
  BY <1>5, OrderedLeft DEF runnerVars
<1>6. MainStep => StartPath \/ StartSweepPath \/ LoadLobData \/ (UNCHANGED runnerVars /\ lob' = lob)
  BY DEF MainStep, Calibrate, LoadAggTrades, EndPath, RunFails,
         Summarise, NextSweep, SheetFails, EndSweepPath, EndConfig, RowsFail, Teardown,
         CloseChannel, Join
<1>7. SendStep \/ LogStep \/ UNCHANGED vars => UNCHANGED runnerVars /\ lob' = lob
  BY DEF SendStep, LogStep, vars, researchVars
<1> QED
  BY <1>1, <1>2, <1>3, <1>4, <1>5, <1>6, <1>7 DEF ResearchNext

(* Whatever a strategy sells into the book of a step, rescaled from a file  *)
(* or generated, it sells from the best level down, neither making nor      *)
(* losing depth or money: for every command line whose order books are      *)
(* listed as order_book.rs asks.                                            *)
THEOREM BooksAlwaysSellFromTheTop ==
  ASSUME FilesBestFirst
  PROVE  ResearchSpec => []BooksSellFromTheTop
<1>1. ResearchInit => OrderedInv
  <2> SUFFICES ASSUME ResearchInit PROVE OrderedInv
    OBVIOUS
  <2>1. lob = None /\ runner = "idle"
    BY DEF ResearchInit, RunnerInit
  <2> QED
    BY <2>1 DEF OrderedInv
<1>2. InventoryInv /\ TypeInv /\ CostInv /\ OrderedInv /\ [ResearchNext]_vars => OrderedInv'
  BY OrderedKept
<1>3. TypeInv /\ CostInv /\ OrderedInv => BooksSellFromTheTop
  <2> SUFFICES ASSUME TypeInv, CostInv, OrderedInv, runner = "stepping", turn = 1,
                      NEW quantity \in 0 .. Total
               PROVE  SellsFromTheTop(BookFor(seen.price).bids, quantity)
    BY DEF BooksSellFromTheTop
  <2> DEFINE price == seen.price
             b == seen.snapshot
  <2>1. SeenTyped
    BY DEF CostInv
  <2>2. price \in Nat \ {0} /\ seen.volatility \in Int /\ (b # None => b \in Snapshots)
    BY <2>1 DEF SeenTyped
  <2>3. b # None => Descending(b.bids)
    BY DEF OrderedInv
  <2>4. IsBook(BookFor(price))
    BY <2>1, <2>2, BookForIsBook
  <2>5. Descending(BookFor(price).bids)
    <3>1. CASE b = None
      <4>1. BookFor(price) = GenerateLob(price, seen.volatility)
        BY <3>1 DEF BookFor
      <4> HIDE DEF price
      <4> QED
        BY <2>2, <4>1, GeneratedDescends
    <3>2. CASE b # None
      <4>1. BookFor(price) = Rescale(b, price, MidPrice(b))
        BY <3>2 DEF BookFor
      <4> HIDE DEF price, b
      <4> QED
        BY <2>2, <2>3, <3>2, <4>1, RescaledDescends
    <3> QED
      BY <3>1, <3>2
  <2>6. quantity \in Nat
    BY RunnerAssumption
  <2> HIDE DEF price
  <2>7. SellsFromTheTop(BookFor(price).bids, quantity)
    BY <2>4, <2>5, <2>6, SellTakesTheBest DEF IsBook
  <2> QED
    BY <2>7 DEF price
<1> QED
  BY <1>1, <1>2, <1>3, InventoryInvariance, TypeInvariance, CostInvariance, PTL DEF ResearchSpec

-----------------------------------------------------------------------------
(* The log of everything the main thread and its runner have told, and the *)
(* rules it keeps.                                                         *)
Of(log, kinds) == {k \in DOMAIN log : log[k].kind \in kinds}
Count(log, kinds) == Cardinality(Of(log, kinds))
PlaceIn(log, k, kinds) == Cardinality({j \in Of(log, kinds) : j <= k})

LEMMA OfAppended ==
  ASSUME NEW log, IsSeq(log), NEW e, NEW kinds
  PROVE  LET after == Append(log, e)
             n == Len(log) IN
           /\ n \in Nat /\ Of(log, kinds) \subseteq 1 .. n /\ IsFiniteSet(Of(log, kinds))
           /\ Count(log, kinds) \in Nat
           /\ \A k : k \in Of(after, kinds) <=> k \in Of(log, kinds) \/ (k = n + 1 /\ e.kind \in kinds)
           /\ Count(after, kinds) = Count(log, kinds) + (IF e.kind \in kinds THEN 1 ELSE 0)
           /\ \A k \in Of(log, kinds) : PlaceIn(after, k, kinds) = PlaceIn(log, k, kinds)
           /\ e.kind \in kinds => PlaceIn(after, n + 1, kinds) = Count(log, kinds) + 1
<1> DEFINE after == Append(log, e)
           n == Len(log)
<1>1. /\ n \in Nat /\ DOMAIN log = 1 .. n /\ DOMAIN after = 1 .. n + 1
      /\ after[n + 1] = e /\ \A k \in 1 .. n : after[k] = log[k]
  BY AppendSeq
<1> HIDE DEF after, n
<1>2. Of(log, kinds) \subseteq 1 .. n
  BY <1>1 DEF Of
<1>3. IsFiniteSet(Of(log, kinds)) /\ Count(log, kinds) \in Nat
  <2>1. IsFiniteSet(1 .. n)
    BY <1>1, FS_Interval
  <2>2. IsFiniteSet(Of(log, kinds))
    BY <1>2, <2>1, FS_Subset
  <2> QED
    BY <2>2, FS_CardinalityType DEF Count
<1>4. \A k : k \in Of(after, kinds) <=> k \in Of(log, kinds) \/ (k = n + 1 /\ e.kind \in kinds)
  BY <1>1 DEF Of
<1>5. n + 1 \notin Of(log, kinds)
  BY <1>1, <1>2
<1>6. e.kind \in kinds => Count(after, kinds) = Count(log, kinds) + 1
  <2> SUFFICES ASSUME e.kind \in kinds PROVE Count(after, kinds) = Count(log, kinds) + 1
    OBVIOUS
  <2>1. Of(after, kinds) = Of(log, kinds) \cup {n + 1}
    BY <1>4
  <2> QED
    BY <1>3, <1>5, <2>1, FS_AddElement DEF Count
<1>7. e.kind \notin kinds => Count(after, kinds) = Count(log, kinds)
  <2> SUFFICES ASSUME e.kind \notin kinds PROVE Count(after, kinds) = Count(log, kinds)
    OBVIOUS
  <2>1. Of(after, kinds) = Of(log, kinds)
    BY <1>4
  <2> QED
    BY <2>1, Zenon DEF Count
<1>8. ASSUME NEW k \in Of(log, kinds) PROVE PlaceIn(after, k, kinds) = PlaceIn(log, k, kinds)
  <2>1. k \in 1 .. n
    BY <1>2
  <2>2. {j \in Of(after, kinds) : j <= k} = {j \in Of(log, kinds) : j <= k}
    BY <1>1, <1>4, <2>1
  <2> QED
    BY <2>2, Zenon DEF PlaceIn
<1>9. e.kind \in kinds => PlaceIn(after, n + 1, kinds) = Count(log, kinds) + 1
  <2>1. {j \in Of(after, kinds) : j <= n + 1} = Of(after, kinds)
    BY <1>1, <1>2, <1>4
  <2>2. PlaceIn(after, n + 1, kinds) = Count(after, kinds)
    BY <2>1, Zenon DEF PlaceIn, Count
  <2> QED
    BY <1>6, <2>2
<1>10. Count(after, kinds) = Count(log, kinds) + (IF e.kind \in kinds THEN 1 ELSE 0)
  BY <1>3, <1>6, <1>7
<1> QED
  BY <1>1, <1>2, <1>3, <1>4, <1>8, <1>9, <1>10 DEF after, n

-----------------------------------------------------------------------------
BracketKinds == {"PathStart", "PathEnd"}
Bracket(n) ==
  [kind |-> IF n % 2 = 1 THEN "PathStart" ELSE "PathEnd", path |-> (n - 1) \div 2]

InTurn(log) ==
  \A k \in Of(log, BracketKinds) : log[k] = Bracket(PlaceIn(log, k, BracketKinds))
FillOfOrder(log, k) ==
  /\ k > 1
  /\ log[k - 1].kind = "SubmitOrder"
  /\ log[k - 1].id = log[k].id /\ log[k - 1].qty = log[k].qty
FillsFollow(log) == \A k \in Of(log, {"OrderFilled"}) : FillOfOrder(log, k)
CountsUp(log) ==
  \A k \in Of(log, {"Progress"}) :
    /\ log[k].completed = PlaceIn(log, k, {"Progress"})
    /\ log[k].completed <= log[k].total
OrdersSized(log) == \A k \in Of(log, {"SubmitOrder"}) : log[k].qty \in Nat

WellTold(log) ==
  IsSeq(log) /\ InTurn(log) /\ FillsFollow(log) /\ CountsUp(log) /\ OrdersSized(log)

(* What may be told next. *)
MayFollow(log, e) ==
  /\ e.kind \in BracketKinds => e = Bracket(Count(log, BracketKinds) + 1)
  /\ e.kind = "OrderFilled" =>
       /\ Len(log) > 0 /\ log[Len(log)].kind = "SubmitOrder"
       /\ log[Len(log)].id = e.id /\ log[Len(log)].qty = e.qty
  /\ e.kind = "Progress" =>
       e.completed = Count(log, {"Progress"}) + 1 /\ e.completed <= e.total
  /\ e.kind = "SubmitOrder" => e.qty \in Nat

LEMMA WellToldAppended ==
  ASSUME NEW log, NEW e, WellTold(log), MayFollow(log, e)
  PROVE  WellTold(Append(log, e))
<1> DEFINE after == Append(log, e)
           n == Len(log)
<1>1. /\ n \in Nat /\ DOMAIN log = 1 .. n /\ DOMAIN after = 1 .. n + 1 /\ IsSeq(after)
      /\ after[n + 1] = e /\ \A k \in 1 .. n : after[k] = log[k]
  BY AppendSeq DEF WellTold
<1>2. \A kinds :
        /\ Of(log, kinds) \subseteq 1 .. n
        /\ \A k : k \in Of(after, kinds) <=> k \in Of(log, kinds) \/ (k = n + 1 /\ e.kind \in kinds)
        /\ \A k \in Of(log, kinds) : PlaceIn(after, k, kinds) = PlaceIn(log, k, kinds)
        /\ e.kind \in kinds => PlaceIn(after, n + 1, kinds) = Count(log, kinds) + 1
  BY OfAppended DEF WellTold
<1>8. MayFollow(log, e) /\ n = Len(log)
  OBVIOUS
<1> HIDE DEF after, n
<1>3. InTurn(after)
  <2> SUFFICES ASSUME NEW k \in Of(after, BracketKinds)
               PROVE  after[k] = Bracket(PlaceIn(after, k, BracketKinds))
    BY DEF InTurn
  <2>1. CASE k \in Of(log, BracketKinds)
    <3>1. after[k] = log[k] /\ PlaceIn(after, k, BracketKinds) = PlaceIn(log, k, BracketKinds)
      BY <1>1, <1>2, <2>1
    <3> QED
      BY <2>1, <3>1, Zenon DEF WellTold, InTurn
  <2>2. CASE k = n + 1 /\ e.kind \in BracketKinds
    <3>1. after[k] = e /\ PlaceIn(after, k, BracketKinds) = Count(log, BracketKinds) + 1
      BY <1>1, <1>2, <2>2
    <3> QED
      BY <1>8, <2>2, <3>1, Zenon DEF MayFollow
  <2> QED
    BY <1>2, <2>1, <2>2
<1>4. FillsFollow(after)
  <2> SUFFICES ASSUME NEW k \in Of(after, {"OrderFilled"}) PROVE FillOfOrder(after, k)
    BY DEF FillsFollow
  <2>1. CASE k \in Of(log, {"OrderFilled"})
    <3>1. FillOfOrder(log, k) /\ k \in 1 .. n
      BY <1>2, <2>1 DEF WellTold, FillsFollow
    <3>2. k - 1 \in 1 .. n
      BY <1>1, <3>1 DEF FillOfOrder
    <3>3. after[k] = log[k] /\ after[k - 1] = log[k - 1]
      BY <1>1, <3>1, <3>2
    <3> QED
      BY <3>1, <3>3 DEF FillOfOrder
  <2>2. CASE k = n + 1 /\ e.kind = "OrderFilled"
    <3>1. n > 0 /\ log[n].kind = "SubmitOrder" /\ log[n].id = e.id /\ log[n].qty = e.qty
      BY <1>8, <2>2 DEF MayFollow
    <3>2. k - 1 = n /\ n \in 1 .. n /\ k > 1
      BY <1>1, <2>2, <3>1
    <3>3. after[k] = e /\ after[k - 1] = log[n]
      BY <1>1, <2>2, <3>2
    <3> QED
      BY <3>1, <3>2, <3>3 DEF FillOfOrder
  <2> QED
    BY <1>2, <2>1, <2>2
<1>5. CountsUp(after)
  <2> SUFFICES ASSUME NEW k \in Of(after, {"Progress"})
               PROVE  /\ after[k].completed = PlaceIn(after, k, {"Progress"})
                      /\ after[k].completed <= after[k].total
    BY DEF CountsUp
  <2>1. CASE k \in Of(log, {"Progress"})
    <3>1. after[k] = log[k] /\ PlaceIn(after, k, {"Progress"}) = PlaceIn(log, k, {"Progress"})
      BY <1>1, <1>2, <2>1
    <3> QED
      BY <2>1, <3>1 DEF WellTold, CountsUp
  <2>2. CASE k = n + 1 /\ e.kind = "Progress"
    <3>1. after[k] = e /\ PlaceIn(after, k, {"Progress"}) = Count(log, {"Progress"}) + 1
      BY <1>1, <1>2, <2>2
    <3> QED
      BY <1>8, <2>2, <3>1 DEF MayFollow
  <2> QED
    BY <1>2, <2>1, <2>2
<1>6. OrdersSized(after)
  <2> SUFFICES ASSUME NEW k \in Of(after, {"SubmitOrder"}) PROVE after[k].qty \in Nat
    BY DEF OrdersSized
  <2>1. CASE k \in Of(log, {"SubmitOrder"})
    BY <1>1, <1>2, <2>1 DEF WellTold, OrdersSized
  <2>2. CASE k = n + 1 /\ e.kind = "SubmitOrder"
    BY <1>1, <1>8, <2>2 DEF MayFollow
  <2> QED
    BY <1>2, <2>1, <2>2
<1> QED
  BY <1>1, <1>3, <1>4, <1>5, <1>6 DEF WellTold, after

OrdersIn(log, mode) ==
  {k \in Of(log, {"SubmitOrder"}) :
     log[k].strategy = mode /\ \A j \in Of(log, {"PathStart"}) : j < k}
SumIn(log, mode) == SumFunction([k \in OrdersIn(log, mode) |-> log[k].qty])

LEMMA SumInIsSum ==
  ASSUME NEW log, WellTold(log), NEW mode
  PROVE  /\ OrdersIn(log, mode) \subseteq 1 .. Len(log) /\ IsFiniteSet(OrdersIn(log, mode))
         /\ \A k \in OrdersIn(log, mode) : log[k].qty \in Nat
         /\ SumIn(log, mode) = SumFunctionOnSet([k \in OrdersIn(log, mode) |-> log[k].qty],
                                                OrdersIn(log, mode))
         /\ SumIn(log, mode) \in Nat
<1> DEFINE I == OrdersIn(log, mode)
           f == [k \in I |-> log[k].qty]
<1>1. I \subseteq Of(log, {"SubmitOrder"})
  BY DEF OrdersIn
<1>2. Of(log, {"SubmitOrder"}) \subseteq 1 .. Len(log) /\ IsFiniteSet(Of(log, {"SubmitOrder"}))
  BY OfAppended DEF WellTold
<1>3. \A k \in I : log[k].qty \in Nat
  BY <1>1 DEF WellTold, OrdersSized
<1>4. SumIn(log, mode) = SumFunctionOnSet(f, I)
  <2>1. DOMAIN f = I
    OBVIOUS
  <2> HIDE DEF I
  <2>2. SumIn(log, mode) = SumFunction(f)
    BY DEF SumIn, I
  <2> QED
    BY <2>1, <2>2, Zenon DEF SumFunction
<1>5. IsFiniteSet(I)
  BY <1>1, <1>2, FS_Subset
<1>6. \A k \in I : f[k] \in Nat
  BY <1>3
<1> HIDE DEF f
<1>7. SumFunctionOnSet(f, I) \in Nat
  BY <1>5, <1>6, SumNat
<1> QED
  BY <1>1, <1>2, <1>3, <1>4, <1>5, <1>7 DEF f

(* A path starts with no orders; an order counts for its strategy; nothing *)
(* else changes what was ordered.                                          *)
LEMMA SumInAppended ==
  ASSUME NEW log, NEW e, WellTold(log), WellTold(Append(log, e)), NEW mode
  PROVE  LET after == Append(log, e) IN
           /\ e.kind = "PathStart" => SumIn(after, mode) = 0
           /\ e.kind = "SubmitOrder" =>
                SumIn(after, mode) = SumIn(log, mode) + (IF e.strategy = mode THEN e.qty ELSE 0)
           /\ e.kind \notin {"PathStart", "SubmitOrder"} => SumIn(after, mode) = SumIn(log, mode)
<1> DEFINE after == Append(log, e)
           n == Len(log)
           I == OrdersIn(log, mode)
           J == OrdersIn(after, mode)
           f == [k \in I |-> log[k].qty]
           g == [k \in J |-> after[k].qty]
<1>1. /\ n \in Nat /\ DOMAIN log = 1 .. n /\ DOMAIN after = 1 .. n + 1
      /\ after[n + 1] = e /\ \A k \in 1 .. n : after[k] = log[k]
  BY AppendSeq DEF WellTold
<1>2. \A kinds :
        /\ Of(log, kinds) \subseteq 1 .. n
        /\ \A k : k \in Of(after, kinds) <=> k \in Of(log, kinds) \/ (k = n + 1 /\ e.kind \in kinds)
  BY OfAppended DEF WellTold
<1>3. /\ I \subseteq 1 .. n /\ IsFiniteSet(I) /\ \A k \in I : log[k].qty \in Nat
      /\ SumIn(log, mode) = SumFunctionOnSet(f, I) /\ SumIn(log, mode) \in Nat
  BY SumInIsSum
<1>4. /\ J \subseteq 1 .. n + 1 /\ IsFiniteSet(J) /\ \A k \in J : after[k].qty \in Nat
      /\ SumIn(after, mode) = SumFunctionOnSet(g, J)
  <2>1. Len(after) = n + 1
    BY AppendSeq DEF WellTold
  <2>2. WellTold(after)
    OBVIOUS
  <2> HIDE DEF after, n
  <2> QED
    BY <2>1, <2>2, SumInIsSum
<1> HIDE DEF after, n
<1>5. ASSUME e.kind = "PathStart" PROVE SumIn(after, mode) = 0
  <2>1. n + 1 \in Of(after, {"PathStart"})
    BY <1>2, <1>5
  <2>2. n + 1 \notin Of(after, {"SubmitOrder"})
    BY <1>1, <1>2, <1>5
  <2>3. \A k \in J : k \in 1 .. n /\ n + 1 < k
    BY <1>1, <1>4, <2>1, <2>2 DEF OrdersIn
  <2>4. J = {}
    BY <1>1, <2>3
  <2> QED
    BY <1>4, <2>4, SumEmpty
<1>6. ASSUME e.kind # "PathStart"
      PROVE  \A k : k \in J <=> k \in I \/ (k = n + 1 /\ e.kind = "SubmitOrder" /\ e.strategy = mode)
  <2>1. Of(after, {"PathStart"}) = Of(log, {"PathStart"})
    <3>1. \A k : k \in Of(after, {"PathStart"})
                   <=> k \in Of(log, {"PathStart"}) \/ (k = n + 1 /\ e.kind \in {"PathStart"})
      BY <1>2, Zenon
    <3> QED
      BY <1>6, <3>1
  <2>2. ASSUME NEW k, k \in Of(log, {"SubmitOrder"})
        PROVE  k \in J <=> k \in I
    <3>1. k \in Of(after, {"SubmitOrder"}) /\ after[k] = log[k]
      BY <1>1, <1>2, <2>2
    <3> QED
      BY <2>1, <2>2, <3>1 DEF OrdersIn
  <2>3. ASSUME e.kind = "SubmitOrder"
        PROVE  n + 1 \in J <=> e.strategy = mode
    <3>1. \A j \in Of(log, {"PathStart"}) : j < n + 1
      BY <1>1, <1>2
    <3>2. n + 1 \in Of(after, {"SubmitOrder"})
      BY <1>2, <2>3
    <3> QED
      BY <1>1, <2>1, <3>1, <3>2 DEF OrdersIn
  <2>4. n + 1 \notin I
    BY <1>1, <1>3
  <2>5. \A k \in J : k \in Of(after, {"SubmitOrder"})
    BY DEF OrdersIn
  <2>6. \A k \in I : k \in Of(log, {"SubmitOrder"})
    BY DEF OrdersIn
  <2> HIDE DEF I, J
  <2> QED
    BY <1>2, <2>2, <2>3, <2>4, <2>5, <2>6
<1>7. \A k \in I : k \in J => g[k] = f[k]
  BY <1>1, <1>3
<1>8. ASSUME e.kind # "PathStart", ~(e.kind = "SubmitOrder" /\ e.strategy = mode)
      PROVE  SumIn(after, mode) = SumIn(log, mode)
  <2>1. J = I
    BY <1>6, <1>8
  <2> HIDE DEF f, g, I, J
  <2>2. SumFunctionOnSet(g, I) = SumFunctionOnSet(f, I)
    BY <1>7, <2>1, SumCongruence
  <2> QED
    BY <1>3, <1>4, <2>1, <2>2
<1>9. ASSUME e.kind = "SubmitOrder", e.strategy = mode
      PROVE  SumIn(after, mode) = SumIn(log, mode) + e.qty
  <2>1. J = I \cup {n + 1} /\ n + 1 \notin I
    BY <1>1, <1>3, <1>6, <1>9
  <2>2. g[n + 1] = e.qty /\ e.qty \in Nat
    BY <1>1, <1>4, <2>1
  <2>3. \A k \in I : g[k] = f[k] /\ g[k] \in Int
    BY <1>3, <1>7, <2>1
  <2> HIDE DEF f, g, I, J
  <2>4. SumFunctionOnSet(g, I) = SumFunctionOnSet(f, I)
    BY <2>3, SumCongruence
  <2> DEFINE top == n + 1
  <2>6. top \notin I /\ g[top] \in Int
    BY <2>1, <2>2
  <2> HIDE DEF top
  <2>7. SumFunctionOnSet(g, I \cup {top}) = g[top] + SumFunctionOnSet(g, I)
    BY <1>3, <2>3, <2>6, SumAdd
  <2>5. SumFunctionOnSet(g, I \cup {n + 1}) = g[n + 1] + SumFunctionOnSet(g, I)
    BY <2>7, Zenon DEF top
  <2> QED
    BY <1>3, <1>4, <2>1, <2>2, <2>4, <2>5
<1>10. e.kind = "SubmitOrder" =>
         SumIn(after, mode) = SumIn(log, mode) + (IF e.strategy = mode THEN e.qty ELSE 0)
  <2>1. CASE e.kind = "SubmitOrder" /\ e.strategy = mode
    BY <1>9, <2>1
  <2>2. CASE e.kind = "SubmitOrder" /\ e.strategy # mode
    BY <1>3, <1>8, <2>2
  <2> QED
    BY <2>1, <2>2
<1> QED
  BY <1>5, <1>8, <1>10 DEF after

-----------------------------------------------------------------------------
(* Who can tell: while the main thread runs it holds a sender, if there is *)
(* anything to tell; the runner has one during a debugged path; and the    *)
(* logger ends when nobody has, with nothing left in the channel.          *)
Wanted == Debug \/ Progress

TalkInv ==
  /\ IsSeq(printed) /\ IsSeq(queue) /\ IsSeq(outbox)
  /\ ~Wanted => senders = {} /\ logger = "none" /\ outbox = <<>> /\ queue = <<>> /\ printed = <<>>
  /\ Wanted /\ main \notin {"joining", "exit0", "exit1"} => "main" \in senders
  /\ "runner" \in senders => Debug /\ main \in {"running", "exit1"}
  /\ main \in {"joining", "exit0"} => outbox = <<>>
  /\ logger = "ended" => queue = <<>> /\ main \in {"joining", "exit0"}
  /\ main = "exit0" => logger \in {"none", "ended"}

LEMMA SeqSame == \A h : IsSeq(h)' <=> IsSeq(h)
BY DEF IsSeq

LEMMA WantedSame == line' = line => Wanted' = Wanted /\ Debug' = Debug /\ Progress' = Progress
BY DEF Wanted, Debug, Progress, Given

(* What a sender emits is told; what others emit is not. *)
LEMMA EmittedOne ==
  ASSUME NEW by, NEW e, Emit(by, <<e>>), UNCHANGED <<queue, printed>>,
         IsSeq(printed), IsSeq(queue), IsSeq(outbox)
  PROVE  /\ IsSeq(outbox') /\ IsSeq(queue') /\ IsSeq(printed') /\ IsSeq(Told)
         /\ Told' = IF by \in senders THEN Append(Told, e) ELSE Told
         /\ by \notin senders => outbox' = outbox
<1>1. CASE by \in senders
  <2>1. outbox' = outbox \o <<e>>
    BY <1>1 DEF Emit
  <2>2. /\ IsSeq(printed \o queue \o outbox) /\ IsSeq(outbox \o <<e>>)
        /\ printed \o queue \o (outbox \o <<e>>) = Append(printed \o queue \o outbox, e)
    BY TellOne
  <2> QED
    BY <1>1, <2>1, <2>2 DEF Told
<1>2. CASE by \notin senders
  <2>1. outbox' = outbox
    BY <1>2 DEF Emit
  <2>2. IsSeq(printed \o queue \o outbox)
    BY TellOne
  <2> QED
    BY <1>2, <2>1, <2>2 DEF Told
<1> QED
  BY <1>1, <1>2

LEMMA EmittedTwo ==
  ASSUME NEW by, NEW e, NEW f, Emit(by, <<e, f>>), UNCHANGED <<queue, printed>>,
         IsSeq(printed), IsSeq(queue), IsSeq(outbox)
  PROVE  /\ IsSeq(outbox') /\ IsSeq(queue') /\ IsSeq(printed') /\ IsSeq(Told)
         /\ Told' = IF by \in senders THEN Append(Append(Told, e), f) ELSE Told
         /\ by \notin senders => outbox' = outbox
<1>0. IsSeq(printed \o queue \o outbox)
  BY TellOne
<1>1. CASE by \in senders
  <2>1. outbox' = outbox \o <<e, f>>
    BY <1>1 DEF Emit
  <2>2. /\ IsSeq(outbox \o <<e, f>>)
        /\ printed \o queue \o (outbox \o <<e, f>>)
             = Append(Append(printed \o queue \o outbox, e), f)
    BY TellTwo
  <2> QED
    BY <1>0, <1>1, <2>1, <2>2 DEF Told
<1>2. CASE by \notin senders
  <2>1. outbox' = outbox
    BY <1>2 DEF Emit
  <2> QED
    BY <1>0, <1>2, <2>1 DEF Told
<1> QED
  BY <1>1, <1>2

LEMMA EmittedNone ==
  ASSUME NEW by, Emit(by, <<>>), IsSeq(outbox)
  PROVE  outbox' = outbox
<1>1. outbox \o <<>> = outbox
  <2>1. outbox \in Seq(Range(outbox))
    BY DEF IsSeq
  <2> DEFINE S == Range(outbox)
  <2> HIDE DEF S
  <2>2. outbox \in Seq(S)
    BY <2>1 DEF S
  <2> QED
    BY <2>2
<1> QED
  BY <1>1 DEF Emit

(* Nothing that is told gets lost on the way. *)
LEMMA ToldStays ==
  ASSUME IsSeq(printed), IsSeq(queue), IsSeq(outbox), SendEvent \/ PrintEvent \/ LoggerEnds
  PROVE  Told' = Told /\ IsSeq(outbox') /\ IsSeq(queue') /\ IsSeq(printed')
<1>0. /\ Told = Glued(Glued(printed, queue), outbox)
      /\ Told' = Glued(Glued(printed', queue'), outbox')
  BY Zenon DEF Told, Glued
<1>1. CASE SendEvent
  <2>1. Moves(outbox, queue, outbox', queue') /\ printed' = printed
    BY <1>1 DEF SendEvent, Moves
  <2>2. /\ IsSeq(queue') /\ IsSeq(outbox')
        /\ Glued(Glued(printed, queue'), outbox') = Glued(Glued(printed, queue), outbox)
    BY <2>1, MovedOne
  <2> QED
    BY <1>0, <2>1, <2>2
<1>2. CASE PrintEvent
  <2>1. Moves(queue, printed, queue', printed') /\ outbox' = outbox
    BY <1>2 DEF PrintEvent, Moves
  <2>2. IsSeq(printed') /\ IsSeq(queue') /\ Glued(printed', queue') = Glued(printed, queue)
    BY <2>1, MovedOne
  <2> QED
    BY <1>0, <2>1, <2>2
<1>3. CASE LoggerEnds
  BY <1>3 DEF LoggerEnds, Told
<1> QED
  BY <1>1, <1>2, <1>3

LEMMA SameSequence ==
  ASSUME NEW S, NEW x \in Seq(S), NEW y \in Seq(S), Len(x) = Len(y),
         \A i \in 1 .. Len(x) : x[i] = y[i]
  PROVE  x = y
OBVIOUS

LEMMA PairGlued ==
  ASSUME NEW e, NEW f
  PROVE  <<e>> \o <<f>> = <<e, f>> /\ <<e>> \o <<>> = <<e>>
<1> DEFINE S == {e, f}
           a == <<e>>
           b == <<f>>
           c == <<e, f>>
<1>1. a \in Seq(S) /\ b \in Seq(S) /\ c \in Seq(S)
  OBVIOUS
<1>2. Len(a) = 1 /\ a[1] = e /\ Len(b) = 1 /\ b[1] = f /\ Len(c) = 2 /\ c[1] = e /\ c[2] = f
  OBVIOUS
<1> HIDE DEF S, a, b, c
<1>7. a \o b \in Seq(S) /\ Len(a \o b) = Len(a) + Len(b)
  BY <1>1
<1>8. \A i \in 1 .. Len(a) : (a \o b)[i] = a[i]
  BY <1>1
<1>9. \A i \in 1 .. Len(b) : (a \o b)[Len(a) + i] = b[i]
  BY <1>1
<1>3. /\ a \o b \in Seq(S) /\ Len(a \o b) = 2
      /\ (a \o b)[1] = a[1] /\ (a \o b)[2] = b[1]
  <2>1. 1 \in 1 .. Len(a) /\ 1 \in 1 .. Len(b) /\ Len(a) + 1 = 2 /\ Len(a) + Len(b) = 2
    BY <1>2
  <2> QED
    BY <1>7, <1>8, <1>9, <2>1
<1>4. a \o b = c
  BY <1>1, <1>2, <1>3, SameSequence
<1>5. a \o <<>> = a
  BY <1>1
<1> QED
  BY <1>4, <1>5 DEF a, b, c

LEMMA PathEventsAre ==
  LET e == [kind |-> "PathEnd", path |-> path_id]
      f == [kind |-> "Progress", completed |-> path_id + 1, total |-> NumPaths] IN
    PathEvents = IF Progress THEN <<e, f>> ELSE <<e>>
<1> DEFINE e == [kind |-> "PathEnd", path |-> path_id]
           f == [kind |-> "Progress", completed |-> path_id + 1, total |-> NumPaths]
<1>1. PathEvents = <<e>> \o (IF Progress THEN <<f>> ELSE <<>>)
  BY DEF PathEvents
<1> HIDE DEF e, f
<1>2. <<e>> \o <<f>> = <<e, f>> /\ <<e>> \o <<>> = <<e>>
  BY PairGlued
<1>3. PathEvents = IF Progress THEN <<e, f>> ELSE <<e>>
  BY <1>1, <1>2
<1> QED
  BY <1>3 DEF e, f

LEMMA TalkAtFirst == ResearchInit => TalkInv
<1> SUFFICES ASSUME ResearchInit PROVE TalkInv
  OBVIOUS
<1>1. /\ main = "calibrate" /\ outbox = <<>> /\ queue = <<>> /\ printed = <<>>
      /\ senders = (IF Wanted THEN {"main"} ELSE {})
      /\ logger = (IF Wanted THEN "running" ELSE "none")
  BY DEF ResearchInit, ChannelInit, Wanted
<1>2. IsSeq(<<>>)
  BY DEF IsSeq
<1> QED
  BY <1>1, <1>2 DEF TalkInv

(* A step that tells nothing. *)
LEMMA TalkQuiet ==
  ASSUME TalkInv, UNCHANGED <<line, outbox, queue, printed>>,
         \/ /\ UNCHANGED <<senders, logger>>
            /\ main' = main \/ main' \notin {"joining", "exit0", "exit1"}
            /\ main = "running" => main' = "running"
            /\ main \notin {"joining", "exit0", "exit1"} \/ main' = main
         \/ LoggerDies /\ main' = "exit1" /\ senders' = senders
            /\ main \notin {"joining", "exit0", "exit1"}
         \/ main = "closing" /\ main' = "joining" /\ outbox = <<>> /\ logger' = logger
            /\ senders' = senders \ {"main"}
         \/ main = "joining" /\ main' = "exit0" /\ logger \in {"none", "ended"}
            /\ UNCHANGED <<senders, logger>>
  PROVE  TalkInv'
<1>1. Wanted' = Wanted /\ Debug' = Debug
  BY WantedSame
<1>2. IsSeq(printed)' /\ IsSeq(queue)' /\ IsSeq(outbox)'
  BY SeqSame DEF TalkInv
<1> QED
  BY <1>1, <1>2 DEF TalkInv, LoggerDies

LEMMA TalkKept ==
  ASSUME SweepInv, TalkInv, [ResearchNext]_vars
  PROVE  TalkInv'
<1> USE DEF At
<1>1. CASE Calibrate \/ LoadLobData \/ LoadAggTrades \/ RunFails \/ SheetFails \/ RowsFail
  <2>1. UNCHANGED <<line, outbox, queue, printed, senders>>
    BY <1>1 DEF Calibrate, LoadLobData, LoadAggTrades, RunFails, SheetFails, RowsFail,
                ExitOne, LoggerDies, channelVars
  <2>2. main \in {"calibrate", "load_lob", "load_trades", "running", "sweep_running",
                 "next_sweep", "next_sweep_path"}
    BY <1>1 DEF Calibrate, LoadLobData, LoadAggTrades, RunFails, SheetFails, RowsFail
  <2>3. \/ logger' = logger /\ main' \in {"load_lob", "load_trades", "next_sweep", "next_path"}
           /\ main # "running"
        \/ LoggerDies /\ main' = "exit1"
    BY <1>1 DEF Calibrate, LoadLobData, LoadAggTrades, RunFails, SheetFails, RowsFail,
                ExitOne, channelVars
  <2> QED
    BY <2>1, <2>2, <2>3, TalkQuiet
<1>2. CASE Summarise \/ NextSweep \/ EndSweepPath \/ EndConfig
  <2>1. UNCHANGED <<line, outbox, queue, printed, senders, logger>>
    BY <1>2 DEF Summarise, NextSweep, EndSweepPath, EndConfig, channelVars
  <2>2. /\ main \in {"next_path", "next_sweep", "sweep_running", "next_sweep_path"}
        /\ main' \in {"teardown", "next_sweep_path", "next_sweep"}
    BY <1>2 DEF Summarise, NextSweep, EndSweepPath, EndConfig
  <2> QED
    BY <2>1, <2>2, TalkQuiet
<1>3. CASE CloseChannel \/ Join
  BY <1>3, TalkQuiet DEF CloseChannel, Join, channelVars
<1>4. CASE StartPath
  <2>1. /\ Emit("main", <<[kind |-> "PathStart", path |-> path_id]>>)
        /\ UNCHANGED <<line, queue, printed, logger>>
        /\ main = "next_path" /\ main' = "running"
        /\ senders' = IF Debug /\ DebugPath(path_id) THEN senders \cup {"runner"} ELSE senders
    BY <1>4 DEF StartPath
  <2>2. /\ IsSeq(outbox') /\ IsSeq(queue') /\ IsSeq(printed')
        /\ "main" \notin senders => outbox' = outbox
    BY <2>1, EmittedOne DEF TalkInv
  <2>3. Wanted' = Wanted /\ Debug' = Debug /\ (Debug => Wanted)
    BY <2>1, WantedSame DEF Wanted
  <2>4. IsSeq(printed)' /\ IsSeq(queue)' /\ IsSeq(outbox)'
    BY <2>2, SeqSame
  <2> HIDE DEF At
  <2> QED
    BY <2>1, <2>2, <2>3, <2>4 DEF TalkInv
<1>5. CASE EndPath
  <2>1. /\ Emit("main", PathEvents) /\ UNCHANGED <<line, queue, printed, logger>>
        /\ main = "running" /\ main' = "next_path" /\ senders' = senders \ {"runner"}
    BY <1>5 DEF EndPath
  <2>2. /\ IsSeq(outbox') /\ IsSeq(queue') /\ IsSeq(printed')
        /\ "main" \notin senders => outbox' = outbox
    <3> DEFINE e == [kind |-> "PathEnd", path |-> path_id]
               f == [kind |-> "Progress", completed |-> path_id + 1, total |-> NumPaths]
    <3>1. PathEvents = IF Progress THEN <<e, f>> ELSE <<e>>
      BY PathEventsAre
    <3> HIDE DEF e, f
    <3> QED
      BY <2>1, <3>1, EmittedOne, EmittedTwo DEF TalkInv
  <2>3. Wanted' = Wanted /\ Debug' = Debug
    BY <2>1, WantedSame
  <2>4. IsSeq(printed)' /\ IsSeq(queue)' /\ IsSeq(outbox)'
    BY <2>2, SeqSame
  <2> HIDE DEF At
  <2> QED
    BY <2>1, <2>2, <2>3, <2>4 DEF TalkInv
<1>6. CASE StartSweepPath \/ Teardown
  <2>1. PICK e : /\ Emit("main", <<e>>) /\ UNCHANGED <<line, queue, printed, senders, logger>>
                 /\ main \in {"next_sweep_path", "teardown"} /\ main' \in {"sweep_running", "closing"}
    BY <1>6 DEF StartSweepPath, Teardown
  <2>2. /\ IsSeq(outbox') /\ IsSeq(queue') /\ IsSeq(printed')
        /\ "main" \notin senders => outbox' = outbox
    BY <2>1, EmittedOne DEF TalkInv
  <2>3. Wanted' = Wanted /\ Debug' = Debug
    BY <2>1, WantedSame
  <2>4. IsSeq(printed)' /\ IsSeq(queue)' /\ IsSeq(outbox)'
    BY <2>2, SeqSame
  <2> HIDE DEF At
  <2> QED
    BY <2>1, <2>2, <2>3, <2>4 DEF TalkInv
<1>7. CASE RunStep
  <2>1. UNCHANGED <<line, main, queue, printed, senders, logger>>
    BY <1>7 DEF RunStep, RunnerStep, BeginStep, Spin, CarryForward, OnBlock, BlockFails, EndStep,
           CloseRun, researchVars, channelVars
  <2>2. IsSeq(outbox') /\ ("runner" \notin senders => outbox' = outbox)
    <3>1. CASE BeginStep
      <4>1. PICK e : Emit("runner", <<e>>)
        BY <3>1 DEF BeginStep
      <4> QED
        BY <2>1, <4>1, EmittedOne DEF TalkInv
    <3>2. CASE OnBlock
      <4>1. PICK s, traded : Emit("runner", TradeEvents(s, traded))
        BY <3>2 DEF OnBlock
      <4>2. CASE traded = 0
        BY <4>1, <4>2, EmittedNone DEF TalkInv, TradeEvents
      <4>3. CASE traded # 0
        <5>1. PICK e, f : TradeEvents(s, traded) = <<e, f>>
          BY <4>3 DEF TradeEvents
        <5> QED
          BY <2>1, <4>1, <5>1, EmittedTwo DEF TalkInv
      <4> QED
        BY <4>2, <4>3
    <3>3. CASE outbox' = outbox
      BY <3>3 DEF TalkInv
    <3> QED
      BY <1>7, <3>1, <3>2, <3>3 DEF RunStep, RunnerStep, Spin, CarryForward, BlockFails, EndStep,
         CloseRun, channelVars
  <2>3. Wanted' = Wanted /\ Debug' = Debug /\ (Debug => Wanted)
    BY <2>1, WantedSame DEF Wanted
  <2>4. IsSeq(printed)' /\ IsSeq(queue)' /\ IsSeq(outbox)'
    BY <2>1, <2>2, SeqSame DEF TalkInv
  <2>5. "runner" \in senders => main \in {"running", "exit1"}
    BY DEF TalkInv
  <2> HIDE DEF At
  <2> QED
    BY <2>1, <2>2, <2>3, <2>4, <2>5 DEF TalkInv
<1>8. CASE ~Ended /\ (SendStep \/ LogStep)
  <2>1. UNCHANGED <<line, main, senders>> /\ main \notin {"exit0", "exit1"}
    BY <1>8 DEF SendStep, LogStep, SendEvent, PrintEvent, LoggerEnds, researchVars, Ended
  <2>2. Wanted' = Wanted /\ Debug' = Debug
    BY <2>1, WantedSame
  <2>3. IsSeq(printed)' /\ IsSeq(queue)' /\ IsSeq(outbox)'
    BY <1>8, ToldStays, SeqSame DEF TalkInv, SendStep, LogStep
  <2>4. CASE SendEvent
    <3>1. outbox # <<>> /\ UNCHANGED <<printed, logger>>
      BY <2>4 DEF SendEvent
    <3> QED
      BY <2>1, <2>2, <2>3, <3>1 DEF TalkInv
  <2>5. CASE PrintEvent
    <3>1. logger = "running" /\ queue # <<>> /\ UNCHANGED <<outbox, logger>>
      BY <2>5 DEF PrintEvent
    <3> QED
      BY <2>1, <2>2, <2>3, <3>1 DEF TalkInv
  <2>6. CASE LoggerEnds
    <3>1. /\ logger = "running" /\ queue = <<>> /\ senders = {} /\ logger' = "ended"
          /\ UNCHANGED <<outbox, queue, printed>>
      BY <2>6 DEF LoggerEnds
    <3> QED
      BY <2>1, <2>2, <2>3, <3>1 DEF TalkInv
  <2> QED
    BY <1>8, <2>4, <2>5, <2>6 DEF SendStep, LogStep
<1>9. CASE UNCHANGED vars
  BY <1>9, WantedSame, SeqSame DEF vars, researchVars, channelVars, TalkInv
<1> QED
  BY <1>1, <1>2, <1>3, <1>4, <1>5, <1>6, <1>7, <1>8, <1>9 DEF ResearchNext, MainStep

(* Which paths are told of where the main thread stands.                   *)
PlaceInv ==
  /\ main \in {"calibrate", "load_lob", "load_trades", "next_sweep"} => path_id = 0
  /\ main \in {"next_path", "running"} => ~Experiments
  /\ main \in {"next_sweep", "next_sweep_path", "sweep_running"} => Experiments
  /\ main \in {"teardown", "closing", "joining", "exit0"} => Experiments \/ path_id = NumPaths

LEMMA PlacesKept ==
  ASSUME SweepInv, PlaceInv, [ResearchNext]_vars
  PROVE  PlaceInv'
<1>1. line' = line
  BY DEF ResearchNext, MainStep, Calibrate, LoadLobData, LoadAggTrades, StartPath, EndPath, RunFails,
         Summarise, NextSweep, SheetFails, RowsFail, StartSweepPath, EndSweepPath, EndConfig, Teardown,
         CloseChannel, Join, RunStep, SendStep, LogStep, vars, researchVars
<1>2. NumPaths' = NumPaths /\ (Experiments' <=> Experiments)
  BY <1>1 DEF NumPaths, Experiments, Parsed, Given
<1> USE DEF At
<1>3. CASE Calibrate \/ LoadLobData \/ LoadAggTrades
  <2>1. path_id' = path_id /\ main \in {"calibrate", "load_lob", "load_trades"}
    BY <1>3 DEF Calibrate, LoadLobData, LoadAggTrades
  <2>2. main' \in {"load_lob", "load_trades", "exit1", IF Experiments THEN "next_sweep" ELSE "next_path"}
    BY <1>3 DEF Calibrate, LoadLobData, LoadAggTrades, ExitOne
  <2> QED
    BY <1>2, <2>1, <2>2 DEF PlaceInv
<1>4. CASE StartPath \/ EndPath \/ RunFails \/ SheetFails \/ RowsFail \/ Summarise
  BY <1>2, <1>4 DEF StartPath, EndPath, RunFails, SheetFails, RowsFail, Summarise, ExitOne, PlaceInv
<1>5. CASE NextSweep
  <2>1. main = "next_sweep" /\ main' \in {"teardown", "next_sweep_path"}
    BY <1>5 DEF NextSweep
  <2> QED
    BY <1>2, <2>1 DEF PlaceInv
<1>6. CASE StartSweepPath \/ EndSweepPath \/ EndConfig
  BY <1>2, <1>6 DEF StartSweepPath, EndSweepPath, EndConfig, PlaceInv
<1>7. CASE Teardown \/ CloseChannel \/ Join
  BY <1>2, <1>7 DEF Teardown, CloseChannel, Join, PlaceInv
<1>8. CASE RunStep \/ SendStep \/ LogStep \/ UNCHANGED vars
  BY <1>2, <1>8 DEF RunStep, SendStep, LogStep, vars, researchVars, PlaceInv
<1> QED
  BY <1>3, <1>4, <1>5, <1>6, <1>7, <1>8 DEF ResearchNext, MainStep

(* There is a path to count for every path of the current value. *)
LEMMA SweepRoom ==
  ASSUME LoadInv, SweepInv, main \in {"next_sweep_path", "sweep_running"}
  PROVE  progress_done + NumPaths <= TotalPaths
<1> DEFINE p == NumPaths
           v == ValuesIn(sweep - 1)
           l == Len(Grid)
<1>1. sweep \in 1 .. 4 /\ value \in 1 .. l /\ progress_done = p * (v + value - 1)
  BY DEF SweepInv
<1>2. p \in Nat \ {0} /\ v \in Nat /\ l \in Nat
  <2>1. sweep - 1 \in 0 .. 4
    BY <1>1
  <2> QED
    BY <1>1, <2>1, GridsTyped, NumPathsCount DEF Grid, LoadInv
<1>3. ValuesIn(sweep) = v + l /\ v + l <= ValuesIn(4) /\ ValuesIn(4) \in Nat
  <2>1. sweep - 1 \in 0 .. 3 /\ (sweep - 1) + 1 = sweep /\ sweep \in 0 .. 4
    BY <1>1
  <2> DEFINE j == sweep - 1
  <2> HIDE DEF j
  <2>2. ASSUME j \in 0 .. 3, sweep \in 1 .. 4, j + 1 = sweep
        PROVE  ValuesIn(sweep) = ValuesIn(j) + Len(Grids[sweep])
    BY <2>2, GridsTyped
  <2>3. ValuesIn(sweep) = v + l
    BY <1>1, <2>1, <2>2 DEF Grid, j
  <2>4. ValuesIn(sweep) <= ValuesIn(4) /\ ValuesIn(4) \in Nat
    <3>1. 4 \in 0 .. 4
      OBVIOUS
    <3> QED
      BY <2>1, <3>1, GridsTyped
  <2> QED
    BY <2>3, <2>4
<1>4. TotalPaths = p * ValuesIn(4)
  BY TotalIsAll DEF LoadInv
<1> DEFINE a == v + value
           b == ValuesIn(4)
<1>5. a \in Nat /\ b \in Nat /\ a <= b /\ v + value - 1 = a - 1
  BY <1>1, <1>2, <1>3
<1> HIDE DEF p, v, l, a, b
<1>6. p * a <= p * b /\ p * (a - 1) + p = p * a
  BY <1>2, <1>5
<1>7. progress_done = p * (a - 1) /\ TotalPaths = p * b
  BY <1>1, <1>4, <1>5 DEF b
<1> QED
  BY <1>2, <1>5, <1>6, <1>7 DEF p

-----------------------------------------------------------------------------
(* The log keeps its rules, and counts what has happened. *)
Brackets ==
  IF Experiments THEN 0 ELSE 2 * path_id + (IF main = "running" THEN 1 ELSE 0)
Closed == IF Experiments THEN 0 ELSE path_id
Advanced ==
  IF Experiments THEN progress_done + path_id + (IF main = "sweep_running" THEN 1 ELSE 0)
  ELSE IF Progress THEN path_id ELSE 0
Finished == IF Experiments THEN progress_done + path_id + 1 ELSE path_id

Counted(log) ==
  /\ Count(log, BracketKinds) = Brackets
  /\ Count(log, {"PathEnd"}) = Closed
  /\ Count(log, {"Progress"}) = Advanced

EndsWell(log) == Len(log) > 0 /\ log[Len(log)].kind = "SimulationEnd"

Ending == {"closing", "joining", "exit0"}

ToldInv ==
  \A log : log = Told =>
    /\ WellTold(log)
    /\ Wanted /\ main # "exit1" => Counted(log)
    /\ Count(log, {"Progress"}) <= Finished
    /\ Wanted /\ main \in Ending => EndsWell(log)

LEMMA ToldSame ==
  /\ \A log : WellTold(log)' <=> WellTold(log)
  /\ \A log, kinds : Count(log, kinds)' = Count(log, kinds)
  /\ \A log, mode : SumIn(log, mode)' = SumIn(log, mode)
  /\ \A log : EndsWell(log)' <=> EndsWell(log)
<1>1. \A log, kinds : Of(log, kinds)' = Of(log, kinds)
  BY DEF Of
<1>2. \A log, kinds : Count(log, kinds)' = Count(log, kinds)
  BY <1>1 DEF Count
<1>3. \A log, k, kinds : PlaceIn(log, k, kinds)' = PlaceIn(log, k, kinds)
  BY <1>1 DEF PlaceIn
<1>4. \A log : InTurn(log)' <=> InTurn(log)
  BY <1>1, <1>3 DEF InTurn, Bracket, BracketKinds
<1>5. \A log : FillsFollow(log)' <=> FillsFollow(log)
  BY <1>1 DEF FillsFollow, FillOfOrder
<1>6. \A log : CountsUp(log)' <=> CountsUp(log)
  BY <1>1, <1>3 DEF CountsUp
<1>7. \A log : OrdersSized(log)' <=> OrdersSized(log)
  BY <1>1 DEF OrdersSized
<1>8. \A log : WellTold(log)' <=> WellTold(log)
  BY <1>4, <1>5, <1>6, <1>7, SeqSame DEF WellTold
<1>9. \A log, mode : OrdersIn(log, mode)' = OrdersIn(log, mode)
  BY <1>1 DEF OrdersIn
<1>10. \A log, mode : SumIn(log, mode)' = SumIn(log, mode)
  BY <1>9 DEF SumIn
<1>11. \A log : EndsWell(log)' <=> EndsWell(log)
  BY DEF EndsWell
<1> QED
  BY <1>2, <1>8, <1>10, <1>11

(* After a step the log is as told. *)
LEMMA ToldBecomes ==
  ASSUME NEW after, Told' = after, WellTold(after),
         Wanted' /\ main' # "exit1" => /\ Count(after, BracketKinds) = Brackets'
                                       /\ Count(after, {"PathEnd"}) = Closed'
                                       /\ Count(after, {"Progress"}) = Advanced',
         Count(after, {"Progress"}) <= Finished',
         Wanted' /\ main' \in Ending => EndsWell(after)
  PROVE  ToldInv'
<1> SUFFICES ASSUME NEW log, log = Told'
             PROVE  /\ WellTold(log)'
                    /\ Wanted' /\ main' # "exit1" => Counted(log)'
                    /\ Count(log, {"Progress"})' <= Finished'
                    /\ Wanted' /\ main' \in Ending => EndsWell(log)'
  BY DEF ToldInv, Ending
<1>1. log = after
  OBVIOUS
<1>2. \A kinds : Count(log, kinds)' = Count(after, kinds)
  BY <1>1, ToldSame
<1>5. BracketKinds' = BracketKinds
  BY DEF BracketKinds
<1>3. WellTold(log)' /\ (EndsWell(log)' <=> EndsWell(after))
  BY <1>1, ToldSame
<1>4. Wanted' /\ main' # "exit1" => Counted(log)'
  BY <1>2, <1>5 DEF Counted
<1> QED
  BY <1>2, <1>3, <1>4

LEMMA LogCounts ==
  ASSUME ToldInv, IsSeq(Told)
  PROVE  /\ WellTold(Told) /\ \A kinds : Count(Told, kinds) \in Nat
         /\ Wanted /\ main # "exit1" => /\ Count(Told, BracketKinds) = Brackets
                                        /\ Count(Told, {"PathEnd"}) = Closed
                                        /\ Count(Told, {"Progress"}) = Advanced
         /\ Count(Told, {"Progress"}) <= Finished
         /\ Wanted /\ main \in Ending => EndsWell(Told)
<1>1. \A kinds : Count(Told, kinds) \in Nat
  BY OfAppended
<1> QED
  BY <1>1 DEF ToldInv, Counted, Ending

(* A step that tells nothing. *)
LEMMA ToldQuiet ==
  ASSUME ToldInv, IsSeq(Told), Told' = Told, line' = line, Finished \in Int, Finished' \in Int,
         Finished <= Finished',
         Wanted /\ main' # "exit1" =>
           main # "exit1" /\ Brackets' = Brackets /\ Closed' = Closed /\ Advanced' = Advanced,
         Wanted /\ main' \in Ending => main \in Ending
  PROVE  ToldInv'
<1>1. Wanted' = Wanted
  BY WantedSame
<1>2. /\ WellTold(Told) /\ Count(Told, {"Progress"}) \in Nat
      /\ Wanted /\ main # "exit1" => /\ Count(Told, BracketKinds) = Brackets
                                     /\ Count(Told, {"PathEnd"}) = Closed
                                     /\ Count(Told, {"Progress"}) = Advanced
      /\ Count(Told, {"Progress"}) <= Finished
      /\ Wanted /\ main \in Ending => EndsWell(Told)
  BY LogCounts
<1> DEFINE log == Told
<1>3. Told' = log /\ WellTold(log)
  BY <1>2
<1>4. Wanted' /\ main' # "exit1" => /\ Count(log, BracketKinds) = Brackets'
                                    /\ Count(log, {"PathEnd"}) = Closed'
                                    /\ Count(log, {"Progress"}) = Advanced'
  BY <1>1, <1>2
<1>5. Count(log, {"Progress"}) <= Finished'
  BY <1>2
<1>6. Wanted' /\ main' \in Ending => EndsWell(log)
  BY <1>1, <1>2
<1> HIDE DEF log
<1> QED
  BY <1>3, <1>4, <1>5, <1>6, ToldBecomes

(* What has been told when the main thread adds to it. *)
LEMMA TellsNext ==
  ASSUME NEW log, NEW e, WellTold(log), MayFollow(log, e)
  PROVE  /\ WellTold(Append(log, e))
         /\ \A kinds : /\ Count(log, kinds) \in Nat
                       /\ Count(Append(log, e), kinds) =
                            Count(log, kinds) + (IF e.kind \in kinds THEN 1 ELSE 0)
         /\ e.kind = "SimulationEnd" => EndsWell(Append(log, e))
<1>1. WellTold(Append(log, e))
  BY WellToldAppended
<1>2. \A kinds : /\ Count(log, kinds) \in Nat
                 /\ Count(Append(log, e), kinds) =
                      Count(log, kinds) + (IF e.kind \in kinds THEN 1 ELSE 0)
  BY OfAppended DEF WellTold
<1>3. /\ Len(log) \in Nat /\ Len(Append(log, e)) = Len(log) + 1
      /\ Append(log, e)[Len(log) + 1] = e
  BY AppendSeq DEF WellTold
<1>4. e.kind = "SimulationEnd" => EndsWell(Append(log, e))
  BY <1>3 DEF EndsWell
<1> QED
  BY <1>1, <1>2, <1>4

LEMMA LineSame ==
  ASSUME line' = line
  PROVE  /\ NumPaths' = NumPaths /\ (Experiments' <=> Experiments) /\ (Progress' <=> Progress)
         /\ Wanted' = Wanted /\ TotalPaths' = TotalPaths
<1>1. NumPaths' = NumPaths /\ (Experiments' <=> Experiments) /\ (Progress' <=> Progress)
  BY DEF NumPaths, Experiments, Progress, Parsed, Given
<1>2. TotalPaths' = TotalPaths
  BY <1>1 DEF TotalPaths, Grids
<1> QED
  BY <1>1, <1>2, WantedSame

LEMMA StartPathTold ==
  ASSUME LoadInv, SweepInv, TalkInv, PlaceInv, ToldInv, StartPath
  PROVE  ToldInv'
<1> DEFINE e == [kind |-> "PathStart", path |-> path_id]
           log == Told
           after == Append(log, e)
<1>1. /\ main = "next_path" /\ main' = "running" /\ Emit("main", <<e>>)
      /\ UNCHANGED <<line, path_id, progress_done, queue, printed>>
  BY DEF StartPath, At
<1>2. /\ IsSeq(Told) /\ Told' = IF "main" \in senders THEN after ELSE log
  BY <1>1, EmittedOne DEF TalkInv
<1>3. path_id \in Nat /\ progress_done \in Nat /\ ~Experiments
  BY <1>1, NumPathsCount DEF PlaceInv, SweepInv, LoadInv
<1>4. /\ (Experiments' <=> Experiments) /\ (Progress' <=> Progress) /\ Wanted' = Wanted
  BY <1>1, LineSame
<1>5. Wanted <=> "main" \in senders
  BY <1>1 DEF TalkInv
<1>6. /\ Brackets = 2 * path_id /\ Brackets' = 2 * path_id + 1 /\ Closed' = Closed
      /\ Advanced' = Advanced /\ Finished' = Finished /\ Finished \in Nat
  BY <1>1, <1>3, <1>4 DEF Brackets, Closed, Advanced, Finished
<1>7. CASE ~Wanted
  BY <1>1, <1>2, <1>5, <1>6, <1>7, ToldQuiet DEF Ending
<1>8. CASE Wanted
  <2>1. Told' = after
    BY <1>2, <1>5, <1>8
  <2>2. /\ WellTold(log) /\ \A kinds : Count(log, kinds) \in Nat
        /\ Count(log, BracketKinds) = Brackets /\ Count(log, {"PathEnd"}) = Closed
        /\ Count(log, {"Progress"}) = Advanced /\ Count(log, {"Progress"}) <= Finished
    BY <1>1, <1>2, <1>8, LogCounts
  <2>3. MayFollow(log, e)
    <3>1. Bracket(2 * path_id + 1) = e
      <4>1. (2 * path_id + 1) % 2 = 1 /\ ((2 * path_id + 1) - 1) \div 2 = path_id
        BY <1>3
      <4> QED
        BY <4>1 DEF Bracket
    <3> QED
      BY <1>6, <2>2, <3>1 DEF MayFollow
  <2>4. e.kind = "PathStart"
    OBVIOUS
  <2> HIDE DEF e, log
  <2>5. /\ WellTold(after)
        /\ \A kinds : Count(after, kinds) =
                        Count(log, kinds) + (IF e.kind \in kinds THEN 1 ELSE 0)
    BY <2>2, <2>3, TellsNext
  <2>6. /\ Count(after, BracketKinds) = Count(log, BracketKinds) + 1
        /\ Count(after, {"PathEnd"}) = Count(log, {"PathEnd"})
        /\ Count(after, {"Progress"}) = Count(log, {"Progress"})
    BY <2>2, <2>4, <2>5 DEF BracketKinds
  <2> HIDE DEF after
  <2>7. main' \notin Ending
    BY <1>1 DEF Ending
  <2> QED
    BY <1>6, <2>1, <2>2, <2>5, <2>6, <2>7, ToldBecomes
<1> QED
  BY <1>7, <1>8

LEMMA EndPathTold ==
  ASSUME LoadInv, SweepInv, TalkInv, PlaceInv, ToldInv, EndPath
  PROVE  ToldInv'
<1> DEFINE e == [kind |-> "PathEnd", path |-> path_id]
           f == [kind |-> "Progress", completed |-> path_id + 1, total |-> NumPaths]
           log == Told
           mid == Append(log, e)
           after == Append(mid, f)
<1>1. /\ main = "running" /\ main' = "next_path" /\ Emit("main", PathEvents)
      /\ UNCHANGED <<line, progress_done, queue, printed>> /\ path_id' = path_id + 1
  BY DEF EndPath, At
<1>2. /\ IsSeq(log)
      /\ Told' = IF "main" \in senders THEN IF Progress THEN after ELSE mid ELSE log
  <2>1. PathEvents = IF Progress THEN <<e, f>> ELSE <<e>>
    BY PathEventsAre
  <2> HIDE DEF e, f
  <2> QED
    BY <1>1, <2>1, EmittedOne, EmittedTwo DEF TalkInv
<1>3. /\ path_id \in Nat /\ progress_done \in Nat /\ ~Experiments
      /\ NumPaths \in Nat /\ path_id + 1 <= NumPaths
  BY <1>1, NumPathsCount DEF PlaceInv, SweepInv, LoadInv
<1>4. /\ (Experiments' <=> Experiments) /\ (Progress' <=> Progress) /\ Wanted' = Wanted
  BY <1>1, LineSame
<1>5. Wanted <=> "main" \in senders
  BY <1>1 DEF TalkInv
<1>6. /\ Brackets = 2 * path_id + 1 /\ Brackets' = 2 * path_id + 2
      /\ Closed = path_id /\ Closed' = path_id + 1
      /\ Advanced = (IF Progress THEN path_id ELSE 0)
      /\ Advanced' = (IF Progress THEN path_id + 1 ELSE 0)
      /\ Finished = path_id /\ Finished' = path_id + 1
  BY <1>1, <1>3, <1>4 DEF Brackets, Closed, Advanced, Finished
<1>7. CASE ~Wanted
  BY <1>1, <1>2, <1>3, <1>5, <1>6, <1>7, ToldQuiet DEF Ending
<1>8. CASE Wanted
  <2>2. /\ WellTold(log) /\ \A kinds : Count(log, kinds) \in Nat
        /\ Count(log, BracketKinds) = Brackets /\ Count(log, {"PathEnd"}) = Closed
        /\ Count(log, {"Progress"}) = Advanced
    BY <1>1, <1>2, <1>8, LogCounts
  <2>3. MayFollow(log, e)
    <3>1. Bracket(2 * path_id + 2) = e
      <4>1. (2 * path_id + 2) % 2 = 0 /\ ((2 * path_id + 2) - 1) \div 2 = path_id
        BY <1>3
      <4> QED
        BY <4>1 DEF Bracket
    <3>2. Count(log, BracketKinds) + 1 = 2 * path_id + 2
      BY <1>3, <1>6, <2>2
    <3> QED
      BY <3>1, <3>2 DEF MayFollow
  <2>4. e.kind = "PathEnd"
    OBVIOUS
  <2>5. /\ f.kind = "Progress" /\ f.completed = path_id + 1 /\ f.total = NumPaths
    OBVIOUS
  <2> HIDE DEF e, f, log
  <2>6. /\ WellTold(mid)
        /\ \A kinds : Count(mid, kinds) = Count(log, kinds) + (IF e.kind \in kinds THEN 1 ELSE 0)
    BY <2>2, <2>3, TellsNext
  <2>7. /\ Count(mid, BracketKinds) = Brackets'
        /\ Count(mid, {"PathEnd"}) = Closed'
        /\ Count(mid, {"Progress"}) = Advanced
    BY <1>3, <1>6, <2>2, <2>4, <2>6 DEF BracketKinds
  <2> HIDE DEF mid
  <2>8. main' \notin Ending
    BY <1>1 DEF Ending
  <2>9. CASE ~Progress
    <3>1. Told' = mid
      BY <1>2, <1>5, <1>8, <2>9
    <3>2. Advanced' = Advanced /\ Advanced <= Finished'
      BY <1>3, <1>6, <2>9
    <3> QED
      BY <2>6, <2>7, <2>8, <3>1, <3>2, ToldBecomes
  <2>10. CASE Progress
    <3>1. Told' = after
      BY <1>2, <1>5, <1>8, <2>10
    <3>2. MayFollow(mid, f)
      BY <1>3, <1>6, <2>5, <2>7, <2>10 DEF MayFollow, BracketKinds
    <3>3. /\ WellTold(after)
          /\ \A kinds : Count(after, kinds) = Count(mid, kinds) + (IF f.kind \in kinds THEN 1 ELSE 0)
      BY <2>6, <3>2, TellsNext
    <3>4. \A kinds : Count(mid, kinds) \in Nat
      BY <2>6, OfAppended DEF WellTold
    <3>5. /\ Count(after, BracketKinds) = Brackets'
          /\ Count(after, {"PathEnd"}) = Closed'
          /\ Count(after, {"Progress"}) = Advanced'
          /\ Advanced' <= Finished'
      BY <1>3, <1>6, <2>5, <2>7, <2>10, <3>3, <3>4 DEF BracketKinds
    <3> HIDE DEF after
    <3> QED
      BY <2>8, <3>1, <3>3, <3>5, ToldBecomes
  <2> QED
    BY <2>9, <2>10
<1> QED
  BY <1>7, <1>8

LEMMA ToldIsSeq == TalkInv => IsSeq(Told)
BY TellOne DEF TalkInv, Told

LEMMA ToldAtFirst == ResearchInit => ToldInv /\ PlaceInv
<1> SUFFICES ASSUME ResearchInit PROVE ToldInv /\ PlaceInv
  OBVIOUS
<1>1. /\ main = "calibrate" /\ outbox = <<>> /\ queue = <<>> /\ printed = <<>>
      /\ path_id = 0 /\ progress_done = 0
  BY DEF ResearchInit, ChannelInit
<1>2. Told = <<>>
  BY <1>1 DEF Told
<1>3. \A kinds : Of(<<>>, kinds) = {} /\ Count(<<>>, kinds) = 0
  <2>1. \A kinds : Of(<<>>, kinds) = {}
    BY DEF Of
  <2> QED
    BY <2>1, FS_EmptySet DEF Count
<1>4. WellTold(<<>>)
  <2>1. IsSeq(<<>>)
    BY DEF IsSeq
  <2> QED
    BY <1>3, <2>1 DEF WellTold, InTurn, FillsFollow, CountsUp, OrdersSized
<1>5. Brackets = 0 /\ Closed = 0 /\ Advanced = 0 /\ Finished \in {0, 1}
  BY <1>1 DEF Brackets, Closed, Advanced, Finished
<1>6. ToldInv
  BY <1>1, <1>2, <1>3, <1>4, <1>5 DEF ToldInv, Counted, Ending
<1> QED
  BY <1>1, <1>6 DEF PlaceInv

(* A path of a sweep is told of before it runs. *)
LEMMA StartSweepPathTold ==
  ASSUME LoadInv, SweepInv, TalkInv, PlaceInv, ToldInv, StartSweepPath
  PROVE  ToldInv'
<1> DEFINE e == [kind |-> "Progress", completed |-> progress_done + path_id + 1,
                 total |-> TotalPaths]
           log == Told
           after == Append(log, e)
<1>1. /\ main = "next_sweep_path" /\ main' = "sweep_running" /\ Emit("main", <<e>>)
      /\ path_id < NumPaths
      /\ UNCHANGED <<line, path_id, progress_done, queue, printed>>
  BY DEF StartSweepPath, At
<1>2. /\ IsSeq(log) /\ Told' = IF "main" \in senders THEN after ELSE log
  <2> HIDE DEF e
  <2> QED
    BY <1>1, EmittedOne DEF TalkInv
<1>3. /\ path_id \in Nat /\ progress_done \in Nat /\ Experiments /\ NumPaths \in Nat
      /\ TotalPaths \in Nat /\ progress_done + NumPaths <= TotalPaths
  BY <1>1, NumPathsCount, SweepRoom, TotalIsAll DEF PlaceInv, SweepInv, LoadInv
<1>4. /\ (Experiments' <=> Experiments) /\ Wanted' = Wanted
  BY <1>1, LineSame
<1>5. Wanted <=> "main" \in senders
  BY <1>1 DEF TalkInv
<1>6. /\ Brackets' = Brackets /\ Closed' = Closed
      /\ Advanced = progress_done + path_id /\ Advanced' = progress_done + path_id + 1
      /\ Finished' = Finished /\ Finished = progress_done + path_id + 1
  BY <1>1, <1>3, <1>4 DEF Brackets, Closed, Advanced, Finished
<1>7. CASE ~Wanted
  BY <1>1, <1>2, <1>3, <1>5, <1>6, <1>7, ToldQuiet DEF Ending
<1>8. CASE Wanted
  <2>1. Told' = after
    BY <1>2, <1>5, <1>8
  <2>2. /\ WellTold(log) /\ \A kinds : Count(log, kinds) \in Nat
        /\ Count(log, BracketKinds) = Brackets /\ Count(log, {"PathEnd"}) = Closed
        /\ Count(log, {"Progress"}) = Advanced
    BY <1>1, <1>2, <1>8, LogCounts
  <2>3. /\ e.kind = "Progress" /\ e.completed = progress_done + path_id + 1
        /\ e.total = TotalPaths
    OBVIOUS
  <2> HIDE DEF e, log
  <2>4. MayFollow(log, e)
    BY <1>1, <1>3, <1>6, <2>2, <2>3 DEF MayFollow, BracketKinds
  <2>5. /\ WellTold(after)
        /\ \A kinds : Count(after, kinds) =
                        Count(log, kinds) + (IF e.kind \in kinds THEN 1 ELSE 0)
    BY <2>2, <2>4, TellsNext
  <2>6. /\ Count(after, BracketKinds) = Brackets'
        /\ Count(after, {"PathEnd"}) = Closed'
        /\ Count(after, {"Progress"}) = Advanced' /\ Advanced' <= Finished'
    BY <1>3, <1>6, <2>2, <2>3, <2>5 DEF BracketKinds
  <2> HIDE DEF after
  <2>7. main' \notin Ending
    BY <1>1 DEF Ending
  <2> QED
    BY <2>1, <2>5, <2>6, <2>7, ToldBecomes
<1> QED
  BY <1>7, <1>8

(* The last thing that is told. *)
LEMMA TeardownTold ==
  ASSUME LoadInv, SweepInv, TalkInv, ToldInv, Teardown
  PROVE  ToldInv'
<1> DEFINE e == [kind |-> "SimulationEnd"]
           log == Told
           after == Append(log, e)
<1>1. /\ main = "teardown" /\ main' = "closing" /\ Emit("main", <<e>>)
      /\ UNCHANGED <<line, path_id, progress_done, queue, printed>>
  BY DEF Teardown, At
<1>2. /\ IsSeq(log) /\ Told' = IF "main" \in senders THEN after ELSE log
  <2> HIDE DEF e
  <2> QED
    BY <1>1, EmittedOne DEF TalkInv
<1>3. path_id \in Nat /\ progress_done \in Nat
  BY NumPathsCount DEF SweepInv, LoadInv
<1>4. /\ (Experiments' <=> Experiments) /\ (Progress' <=> Progress) /\ Wanted' = Wanted
  BY <1>1, LineSame
<1>5. Wanted <=> "main" \in senders
  BY <1>1 DEF TalkInv
<1>6. /\ Brackets' = Brackets /\ Closed' = Closed /\ Advanced' = Advanced
      /\ Finished' = Finished /\ Finished \in Nat
  BY <1>1, <1>3, <1>4 DEF Brackets, Closed, Advanced, Finished
<1>7. CASE ~Wanted
  <2>1. ~(Wanted /\ main' # "exit1") /\ ~(Wanted /\ main' \in Ending)
    BY <1>7
  <2> QED
    BY <1>1, <1>2, <1>5, <1>6, <1>7, <2>1, ToldQuiet
<1>8. CASE Wanted
  <2>1. Told' = after
    BY <1>2, <1>5, <1>8
  <2>2. /\ WellTold(log) /\ \A kinds : Count(log, kinds) \in Nat
        /\ Count(log, BracketKinds) = Brackets /\ Count(log, {"PathEnd"}) = Closed
        /\ Count(log, {"Progress"}) = Advanced /\ Count(log, {"Progress"}) <= Finished
    BY <1>1, <1>2, <1>8, LogCounts
  <2>3. e.kind = "SimulationEnd"
    OBVIOUS
  <2> HIDE DEF e, log
  <2>4. MayFollow(log, e)
    BY <2>3 DEF MayFollow, BracketKinds
  <2>5. /\ WellTold(after) /\ EndsWell(after)
        /\ \A kinds : Count(after, kinds) =
                        Count(log, kinds) + (IF e.kind \in kinds THEN 1 ELSE 0)
    BY <2>2, <2>3, <2>4, TellsNext
  <2>6. /\ Count(after, BracketKinds) = Brackets'
        /\ Count(after, {"PathEnd"}) = Closed'
        /\ Count(after, {"Progress"}) = Advanced' /\ Count(after, {"Progress"}) <= Finished'
    BY <1>6, <2>2, <2>3, <2>5 DEF BracketKinds
  <2> HIDE DEF after
  <2> QED
    BY <2>1, <2>5, <2>6, ToldBecomes
<1> QED
  BY <1>7, <1>8

(* The main thread and the logger at everything else. *)
LEMMA MainToldQuiet ==
  ASSUME LoadInv, SweepInv, TalkInv, PlaceInv, ToldInv,
         \/ Calibrate \/ LoadLobData \/ LoadAggTrades \/ RunFails \/ Summarise
         \/ NextSweep \/ SheetFails \/ EndSweepPath \/ EndConfig \/ RowsFail
         \/ CloseChannel \/ Join
  PROVE  ToldInv'
<1> USE DEF At
<1>1. UNCHANGED <<line, outbox, queue, printed>>
  BY DEF Calibrate, LoadLobData, LoadAggTrades, RunFails, Summarise, NextSweep, SheetFails,
         EndSweepPath, EndConfig, RowsFail, CloseChannel, Join, ExitOne, channelVars
<1>2. IsSeq(Told) /\ Told' = Told
  BY <1>1, ToldIsSeq DEF Told
<1>3. path_id \in Nat /\ progress_done \in Nat /\ NumPaths \in Nat
  BY NumPathsCount DEF SweepInv, LoadInv
<1>4. (Experiments' <=> Experiments) /\ (Progress' <=> Progress)
  BY <1>1, LineSame
<1>5. CASE RunFails \/ SheetFails
  <2>1. main' = "exit1" /\ UNCHANGED <<path_id, progress_done>>
    BY <1>5 DEF RunFails, SheetFails, ExitOne
  <2>2. Finished \in Nat /\ Finished' = Finished
    BY <1>3, <1>4, <2>1 DEF Finished
  <2>3. main' \notin Ending
    BY <2>1 DEF Ending
  <2> QED
    BY <1>1, <1>2, <2>1, <2>2, <2>3, ToldQuiet
<1>6. CASE Calibrate \/ LoadLobData \/ LoadAggTrades
  <2>1. /\ UNCHANGED <<path_id, progress_done>>
        /\ main \in {"calibrate", "load_lob", "load_trades"}
        /\ main' \in {"load_lob", "load_trades", "next_sweep", "next_path", "exit1"}
    BY <1>6 DEF Calibrate, LoadLobData, LoadAggTrades, ExitOne
  <2>2. /\ Finished \in Nat /\ Finished' = Finished /\ Brackets' = Brackets
        /\ Closed' = Closed /\ Advanced' = Advanced
    BY <1>3, <1>4, <2>1 DEF Finished, Brackets, Closed, Advanced
  <2>3. main' \notin Ending /\ main # "exit1"
    BY <2>1 DEF Ending
  <2> QED
    BY <1>1, <1>2, <2>2, <2>3, ToldQuiet
<1>7. CASE Summarise \/ CloseChannel \/ Join
  <2>1. /\ UNCHANGED <<path_id, progress_done>>
        /\ \/ main = "next_path" /\ main' = "teardown"
           \/ main = "closing" /\ main' = "joining"
           \/ main = "joining" /\ main' = "exit0"
    BY <1>7 DEF Summarise, CloseChannel, Join
  <2>2. /\ Finished \in Nat /\ Finished' = Finished /\ Brackets' = Brackets
        /\ Closed' = Closed /\ Advanced' = Advanced
    BY <1>3, <1>4, <2>1 DEF Finished, Brackets, Closed, Advanced
  <2>3. main # "exit1" /\ (main' \in Ending => main \in Ending)
    BY <2>1 DEF Ending
  <2> QED
    BY <1>1, <1>2, <2>2, <2>3, ToldQuiet
<1>8. CASE NextSweep
  <2>1. /\ progress_done' = progress_done /\ path_id' \in {0, path_id}
        /\ main = "next_sweep" /\ main' \in {"teardown", "next_sweep_path"}
    BY <1>8 DEF NextSweep
  <2>2. path_id = 0 /\ path_id' = 0
    BY <2>1 DEF PlaceInv
  <2>3. /\ Finished \in Nat /\ Finished' = Finished /\ Brackets' = Brackets
        /\ Closed' = Closed /\ Advanced' = Advanced
    BY <1>3, <1>4, <2>1, <2>2 DEF Finished, Brackets, Closed, Advanced
  <2>4. main # "exit1" /\ main' \notin Ending
    BY <2>1 DEF Ending
  <2> QED
    BY <1>1, <1>2, <2>3, <2>4, ToldQuiet
<1>9. CASE EndSweepPath
  <2>1. /\ progress_done' = progress_done /\ path_id' = path_id + 1
        /\ main = "sweep_running" /\ main' = "next_sweep_path"
    BY <1>9 DEF EndSweepPath
  <2>2. Experiments
    BY <2>1 DEF PlaceInv
  <2>3. /\ Finished \in Nat /\ Finished' = Finished + 1 /\ Brackets' = Brackets
        /\ Closed' = Closed /\ Advanced' = Advanced
    BY <1>3, <1>4, <2>1, <2>2 DEF Finished, Brackets, Closed, Advanced
  <2>4. main # "exit1" /\ main' \notin Ending
    BY <2>1 DEF Ending
  <2> QED
    BY <1>1, <1>2, <2>3, <2>4, ToldQuiet
<1>10. CASE EndConfig
  <2>1. /\ progress_done' = progress_done + NumPaths /\ path_id' = 0 /\ path_id = NumPaths
        /\ main = "next_sweep_path" /\ main' \in {"next_sweep", "next_sweep_path"}
    BY <1>10 DEF EndConfig
  <2>2. Experiments
    BY <2>1 DEF PlaceInv
  <2>3. /\ Finished \in Nat /\ Finished' = Finished /\ Brackets' = Brackets
        /\ Closed' = Closed /\ Advanced' = Advanced
    BY <1>3, <1>4, <2>1, <2>2 DEF Finished, Brackets, Closed, Advanced
  <2>4. main # "exit1" /\ main' \notin Ending
    BY <2>1 DEF Ending
  <2> QED
    BY <1>1, <1>2, <2>3, <2>4, ToldQuiet
<1>11. CASE RowsFail
  <2>1. /\ main' = "exit1" /\ progress_done' = progress_done + NumPaths /\ path_id' = path_id
        /\ main = "next_sweep_path"
    BY <1>11 DEF RowsFail, ExitOne
  <2>2. Experiments
    BY <2>1 DEF PlaceInv
  <2>3. Finished \in Nat /\ Finished' = Finished + NumPaths
    BY <1>3, <1>4, <2>1, <2>2 DEF Finished
  <2>4. main' \notin Ending
    BY <2>1 DEF Ending
  <2> QED
    BY <1>1, <1>2, <1>3, <2>1, <2>3, <2>4, ToldQuiet
<1> QED
  BY <1>5, <1>6, <1>7, <1>8, <1>9, <1>10, <1>11

(* What the runner tells counts for none of the main thread's events. *)
LEMMA PlacesStay ==
  ASSUME LoadInv, SweepInv, UNCHANGED researchVars
  PROVE  /\ line' = line /\ main' = main /\ Wanted' = Wanted
         /\ Brackets' = Brackets /\ Closed' = Closed /\ Advanced' = Advanced
         /\ Finished \in Nat /\ Finished' = Finished
<1>1. UNCHANGED <<line, main, path_id, progress_done>>
  BY DEF researchVars
<1>2. path_id \in Nat /\ progress_done \in Nat
  BY NumPathsCount DEF SweepInv, LoadInv
<1>3. (Experiments' <=> Experiments) /\ (Progress' <=> Progress) /\ Wanted' = Wanted
  BY <1>1, LineSame
<1> QED
  BY <1>1, <1>2, <1>3 DEF Brackets, Closed, Advanced, Finished

Aside(e) == e.kind \notin BracketKinds \cup {"Progress", "SimulationEnd"}

LEMMA AsideCounts ==
  ASSUME NEW log, WellTold(log), NEW e, Aside(e), MayFollow(log, e)
  PROVE  /\ WellTold(Append(log, e))
         /\ Count(Append(log, e), BracketKinds) = Count(log, BracketKinds)
         /\ Count(Append(log, e), {"PathEnd"}) = Count(log, {"PathEnd"})
         /\ Count(Append(log, e), {"Progress"}) = Count(log, {"Progress"})
<1>1. /\ WellTold(Append(log, e))
      /\ \A kinds : /\ Count(log, kinds) \in Nat
                    /\ Count(Append(log, e), kinds) =
                         Count(log, kinds) + (IF e.kind \in kinds THEN 1 ELSE 0)
  BY TellsNext
<1>2. e.kind \notin BracketKinds /\ e.kind \notin {"PathEnd"} /\ e.kind \notin {"Progress"}
  BY DEF Aside, BracketKinds
<1> QED
  BY <1>1, <1>2

LEMMA RunnerTellsOne ==
  ASSUME LoadInv, SweepInv, TalkInv, ToldInv, ~Ended, UNCHANGED researchVars,
         UNCHANGED <<queue, printed>>, NEW price,
         Emit("runner", <<[kind |-> "PriceUpdate", price |-> price]>>)
  PROVE  /\ ToldInv' /\ WellTold(Told)
         /\ \/ Told' = Told
            \/ "runner" \in senders /\ Told' = Append(Told, [kind |-> "PriceUpdate", price |-> price])
<1> DEFINE e == [kind |-> "PriceUpdate", price |-> price]
           log == Told
           after == Append(log, e)
<1>1. /\ IsSeq(log) /\ Told' = IF "runner" \in senders THEN after ELSE log
  <2> DEFINE d == e
  <2>1. Emit("runner", <<d>>)
    OBVIOUS
  <2> HIDE DEF d
  <2>2. /\ IsSeq(log) /\ Told' = IF "runner" \in senders THEN Append(log, d) ELSE log
    BY <2>1, EmittedOne DEF TalkInv
  <2> QED
    BY <2>2 DEF d
<1>2. /\ line' = line /\ main' = main /\ Wanted' = Wanted
      /\ Brackets' = Brackets /\ Closed' = Closed /\ Advanced' = Advanced
      /\ Finished \in Nat /\ Finished' = Finished
  BY PlacesStay
<1>3. "runner" \in senders => main = "running" /\ Wanted
  BY DEF TalkInv, Ended, Wanted
<1>4. /\ WellTold(log) /\ \A kinds : Count(log, kinds) \in Nat
      /\ Wanted /\ main # "exit1" => /\ Count(log, BracketKinds) = Brackets
                                     /\ Count(log, {"PathEnd"}) = Closed
                                     /\ Count(log, {"Progress"}) = Advanced
      /\ Count(log, {"Progress"}) <= Finished
  BY <1>1, LogCounts
<1>5. CASE "runner" \notin senders
  <2>1. Told' = Told
    BY <1>1, <1>5
  <2> QED
    BY <1>1, <1>2, <1>4, <2>1, ToldQuiet
<1>6. CASE "runner" \in senders
  <2>1. Told' = after
    BY <1>1, <1>6
  <2>2. e.kind = "PriceUpdate"
    OBVIOUS
  <2> HIDE DEF e, log
  <2>3. Aside(e) /\ MayFollow(log, e)
    BY <2>2 DEF Aside, MayFollow, BracketKinds
  <2>4. /\ WellTold(after)
        /\ Count(after, BracketKinds) = Count(log, BracketKinds)
        /\ Count(after, {"PathEnd"}) = Count(log, {"PathEnd"})
        /\ Count(after, {"Progress"}) = Count(log, {"Progress"})
    BY <1>4, <2>3, AsideCounts
  <2> HIDE DEF after
  <2>5. main' \notin Ending /\ main # "exit1"
    BY <1>2, <1>3, <1>6 DEF Ending
  <2>6. ToldInv'
    BY <1>2, <1>4, <2>1, <2>4, <2>5, ToldBecomes
  <2> QED
    BY <1>4, <1>6, <2>1, <2>6 DEF log, after, e
<1> QED
  BY <1>5, <1>6

LEMMA RunnerTellsTwo ==
  ASSUME LoadInv, SweepInv, TalkInv, ToldInv, ~Ended, UNCHANGED researchVars,
         UNCHANGED <<queue, printed>>, NEW e, NEW f, Emit("runner", <<e, f>>),
         e.kind = "SubmitOrder", f.kind = "OrderFilled", e.id = f.id, e.qty = f.qty, e.qty \in Nat
  PROVE  /\ ToldInv' /\ WellTold(Told)
         /\ \/ "runner" \notin senders /\ Told' = Told
            \/ /\ "runner" \in senders /\ Told' = Append(Append(Told, e), f)
               /\ WellTold(Append(Told, e)) /\ WellTold(Append(Append(Told, e), f))
<1> DEFINE log == Told
           mid == Append(log, e)
           after == Append(mid, f)
<1>1. /\ IsSeq(log) /\ Told' = IF "runner" \in senders THEN after ELSE log
  BY EmittedTwo DEF TalkInv
<1>2. /\ line' = line /\ main' = main /\ Wanted' = Wanted
      /\ Brackets' = Brackets /\ Closed' = Closed /\ Advanced' = Advanced
      /\ Finished \in Nat /\ Finished' = Finished
  BY PlacesStay
<1>3. "runner" \in senders => main = "running" /\ Wanted
  BY DEF TalkInv, Ended, Wanted
<1>4. /\ WellTold(log) /\ \A kinds : Count(log, kinds) \in Nat
      /\ Wanted /\ main # "exit1" => /\ Count(log, BracketKinds) = Brackets
                                     /\ Count(log, {"PathEnd"}) = Closed
                                     /\ Count(log, {"Progress"}) = Advanced
      /\ Count(log, {"Progress"}) <= Finished
  BY <1>1, LogCounts
<1>5. CASE "runner" \notin senders
  <2>1. Told' = Told
    BY <1>1, <1>5
  <2> QED
    BY <1>1, <1>2, <1>4, <1>5, <2>1, ToldQuiet
<1>6. CASE "runner" \in senders
  <2>1. Told' = after
    BY <1>1, <1>6
  <2> HIDE DEF log
  <2>2. Aside(e) /\ MayFollow(log, e) /\ Aside(f)
    BY DEF Aside, MayFollow, BracketKinds
  <2>3. /\ WellTold(mid)
        /\ Count(mid, BracketKinds) = Count(log, BracketKinds)
        /\ Count(mid, {"PathEnd"}) = Count(log, {"PathEnd"})
        /\ Count(mid, {"Progress"}) = Count(log, {"Progress"})
    BY <1>4, <2>2, AsideCounts
  <2>4. MayFollow(mid, f)
    <3>1. IsSeq(log)
      BY <1>4 DEF WellTold
    <3>2. /\ Len(log) \in Nat /\ Len(mid) = Len(log) + 1 /\ mid[Len(log) + 1] = e
      BY <3>1, AppendSeq
    <3>3. Len(mid) > 0 /\ mid[Len(mid)] = e
      BY <3>2
    <3> HIDE DEF mid
    <3> QED
      BY <3>3 DEF MayFollow, BracketKinds
  <2>5. /\ WellTold(after)
        /\ Count(after, BracketKinds) = Count(mid, BracketKinds)
        /\ Count(after, {"PathEnd"}) = Count(mid, {"PathEnd"})
        /\ Count(after, {"Progress"}) = Count(mid, {"Progress"})
    <3> HIDE DEF mid
    <3> QED
      BY <2>2, <2>3, <2>4, AsideCounts
  <2>6. main' \notin Ending /\ main # "exit1"
    BY <1>2, <1>3, <1>6 DEF Ending
  <2> HIDE DEF after, mid
  <2>7. ToldInv'
    BY <1>2, <1>3, <1>4, <1>6, <2>1, <2>3, <2>5, <2>6, ToldBecomes
  <2> QED
    BY <1>4, <1>6, <2>1, <2>3, <2>5, <2>7 DEF log, mid, after
<1> QED
  BY <1>5, <1>6

(* What a strategy sells: it has its turn and sells n of what it has left. *)
LEMMA BlockSells ==
  ASSUME InventoryInv, FairInv, StepInv, RunInv, CostInv, OnBlock
  PROVE  \E i \in DOMAIN strategies : \E n \in 0 .. strategies[i].remaining :
           /\ DOMAIN strategies' = DOMAIN strategies
           /\ \A j \in DOMAIN strategies : j # i => strategies'[j] = strategies[j]
           /\ strategies'[i].mode = strategies[i].mode
           /\ strategies'[i].remaining = strategies[i].remaining - n
           /\ strategies[i].remaining \in Nat
           /\ Emit("runner", TradeEvents(strategies[i], n))
<1>1. PICK i \in DOMAIN strategies :
        /\ HasTurn(i) /\ ~strategies[i].completed
        /\ \E traded \in Chunks(strategies[i]) :
             /\ strategies' = [strategies EXCEPT ![i] = AfterBlock(@, traded)]
             /\ Emit("runner", TradeEvents(strategies[i], traded))
  BY DEF OnBlock
<1>2. PICK n \in Chunks(strategies[i]) :
        /\ strategies' = [strategies EXCEPT ![i] = AfterBlock(@, n)]
        /\ Emit("runner", TradeEvents(strategies[i], n))
  BY <1>1
<1> DEFINE s == strategies[i]
           t == AfterBlock(s, n)
<1>3. /\ SeenTyped /\ step \in Nat /\ setup.impact \in Int
      /\ (vpin = None <=> setup.bucket = None) /\ s.remaining \in Nat /\ Trades(s)
  BY <1>1, HasItsTurn
<1>4. n \in 0 .. s.remaining
  BY DEF Chunks
<1>5. t.mode = s.mode /\ t.remaining = s.remaining - n
  <2> HIDE DEF s
  <2> QED
    BY <1>3, <1>4, BlockTrades
<1>6. /\ DOMAIN strategies' = DOMAIN strategies /\ strategies'[i] = t
      /\ \A j \in DOMAIN strategies : j # i => strategies'[j] = strategies[j]
  BY <1>2
<1> HIDE DEF t
<1>7. /\ DOMAIN strategies' = DOMAIN strategies
      /\ \A j \in DOMAIN strategies : j # i => strategies'[j] = strategies[j]
      /\ strategies'[i].mode = strategies[i].mode
      /\ strategies'[i].remaining = strategies[i].remaining - n
      /\ strategies[i].remaining \in Nat
      /\ Emit("runner", TradeEvents(strategies[i], n))
  BY <1>2, <1>3, <1>5, <1>6
<1> QED
  BY <1>4, <1>7

(* The runner tells of its prices and its orders, and of nothing else. *)
LEMMA RunStepTold ==
  ASSUME InventoryInv, FairInv, StepInv, TypeInv, CostInv, TalkInv, ToldInv, ~Ended, RunStep
  PROVE  ToldInv'
<1>1. LoadInv /\ SweepInv /\ RunInv /\ UNCHANGED researchVars /\ RunnerStep
  BY DEF TypeInv, RunStep
<1>2. CASE BeginStep
  <2>1. PICK price : Emit("runner", <<[kind |-> "PriceUpdate", price |-> price]>>)
    BY <1>2 DEF BeginStep
  <2>2. UNCHANGED <<queue, printed>>
    BY <1>2 DEF BeginStep
  <2> QED
    BY <1>1, <2>1, <2>2, RunnerTellsOne
<1>3. CASE OnBlock
  <2>1. PICK i \in DOMAIN strategies : \E n \in 0 .. strategies[i].remaining :
           /\ strategies[i].remaining \in Nat
           /\ Emit("runner", TradeEvents(strategies[i], n))
    BY <1>1, <1>3, BlockSells
  <2>2. PICK n \in 0 .. strategies[i].remaining :
           /\ strategies[i].remaining \in Nat
           /\ Emit("runner", TradeEvents(strategies[i], n))
    BY <2>1
  <2>3. UNCHANGED <<queue, printed>>
    BY <1>3 DEF OnBlock
  <2>4. CASE n = 0
    <3>1. outbox' = outbox
      BY <2>2, <2>4, EmittedNone DEF TalkInv, TradeEvents
    <3>2. Told' = Told
      BY <2>3, <3>1 DEF Told
    <3> QED
      BY <1>1, <3>2, PlacesStay, ToldIsSeq, ToldQuiet
  <2>5. CASE n # 0
    <3>1. PICK e, f : /\ TradeEvents(strategies[i], n) = <<e, f>>
                      /\ e.kind = "SubmitOrder" /\ f.kind = "OrderFilled"
                      /\ e.id = f.id /\ e.qty = f.qty /\ e.qty = n
      BY <2>5 DEF TradeEvents
    <3>2. Emit("runner", <<e, f>>) /\ n \in Nat
      BY <2>2, <3>1
    <3> QED
      BY <1>1, <2>3, <3>1, <3>2, RunnerTellsTwo
  <2> QED
    BY <2>4, <2>5
<1>4. CASE Spin \/ CarryForward \/ BlockFails \/ EndStep \/ CloseRun
  <2>1. Told' = Told
    BY <1>4 DEF Spin, CarryForward, BlockFails, EndStep, CloseRun, channelVars, Told
  <2> QED
    BY <1>1, <2>1, PlacesStay, ToldIsSeq, ToldQuiet
<1> QED
  BY <1>1, <1>2, <1>3, <1>4 DEF RunnerStep

LEMMA ToldKept ==
  ASSUME InventoryInv, FairInv, StepInv, TypeInv, CostInv, TalkInv, PlaceInv, ToldInv,
         [ResearchNext]_vars
  PROVE  ToldInv'
<1>1. LoadInv /\ SweepInv
  BY DEF TypeInv
<1>2. CASE ~Ended /\ MainStep
  BY <1>1, <1>2, MainToldQuiet, StartPathTold, EndPathTold, StartSweepPathTold, TeardownTold
  DEF MainStep
<1>3. CASE ~Ended /\ RunStep
  BY <1>3, RunStepTold
<1>4. CASE SendStep \/ LogStep
  <2>1. UNCHANGED researchVars /\ (SendEvent \/ PrintEvent \/ LoggerEnds)
    BY <1>4 DEF SendStep, LogStep
  <2>2. Told' = Told
    BY <2>1, ToldStays DEF TalkInv
  <2> QED
    BY <1>1, <2>1, <2>2, PlacesStay, ToldIsSeq, ToldQuiet
<1>5. CASE UNCHANGED vars
  <2>1. UNCHANGED researchVars /\ Told' = Told
    BY <1>5 DEF vars, channelVars, Told
  <2> QED
    BY <1>1, <2>1, PlacesStay, ToldIsSeq, ToldQuiet
<1> QED
  BY <1>2, <1>3, <1>4, <1>5 DEF ResearchNext

(* The orders of a debugged path add up to what its strategies sold. *)
OrdersInv ==
  "runner" \in senders =>
    /\ \A i, j \in DOMAIN strategies : strategies[i].mode = strategies[j].mode => i = j
    /\ \A log : log = Told =>
         \A i \in DOMAIN strategies :
           SumIn(log, strategies[i].mode) = Total - strategies[i].remaining

LEMMA OrdersStay ==
  ASSUME OrdersInv, "runner" \in senders' => "runner" \in senders,
         DOMAIN strategies' = DOMAIN strategies,
         \A i \in DOMAIN strategies : /\ strategies'[i].mode = strategies[i].mode
                                      /\ strategies'[i].remaining = strategies[i].remaining,
         NEW after, Told' = after,
         \A log, mode : log = Told => SumIn(after, mode) = SumIn(log, mode)
  PROVE  OrdersInv'
<1> SUFFICES ASSUME "runner" \in senders'
             PROVE  /\ \A i, j \in DOMAIN strategies' :
                         strategies'[i].mode = strategies'[j].mode => i = j
                    /\ \A log : log = Told' =>
                         \A i \in DOMAIN strategies' :
                           SumIn(log, strategies[i].mode)' = Total - strategies'[i].remaining
  BY DEF OrdersInv
<1>1. /\ \A i, j \in DOMAIN strategies : strategies[i].mode = strategies[j].mode => i = j
      /\ \A log : log = Told =>
           \A i \in DOMAIN strategies :
             SumIn(log, strategies[i].mode) = Total - strategies[i].remaining
  BY DEF OrdersInv
<1>2. \A i, j \in DOMAIN strategies' : strategies'[i].mode = strategies'[j].mode => i = j
  BY <1>1
<1>3. ASSUME NEW i \in DOMAIN strategies'
      PROVE  SumIn(after, strategies[i].mode) = Total - strategies[i].remaining
  <2> DEFINE told == Told
  <2>1. told = Told
    OBVIOUS
  <2> HIDE DEF told
  <2>2. SumIn(told, strategies[i].mode) = Total - strategies[i].remaining
    BY <1>1, <2>1
  <2>3. SumIn(after, strategies[i].mode) = SumIn(told, strategies[i].mode)
    BY <2>1
  <2> QED
    BY <2>2, <2>3
<1>4. ASSUME NEW log, log = Told', NEW i \in DOMAIN strategies'
      PROVE  SumIn(log, strategies[i].mode)' = Total - strategies'[i].remaining
  <2> DEFINE mode == strategies'[i].mode
  <2>1. log = after /\ mode = strategies[i].mode /\ strategies'[i].remaining = strategies[i].remaining
    BY <1>4
  <2> HIDE DEF mode
  <2>2. SumIn(log, mode) = Total - strategies'[i].remaining
    BY <1>3, <2>1
  <2>3. \A m : SumIn(log, m)' = SumIn(log, m)
    BY ToldSame
  <2> QED
    BY <2>2, <2>3 DEF mode
<1> QED
  BY <1>2, <1>4

LEMMA ModesDiffer == \A i, j \in DOMAIN BuildStrategies : BuildStrategies[i] = BuildStrategies[j] => i = j
<1> DEFINE n == Len(Lineup)
           a == Append(Lineup, "regime_ac")
<1>1. /\ n \in Nat /\ DOMAIN Lineup = 1 .. n /\ DOMAIN a = 1 .. n + 1
      /\ a[n + 1] = "regime_ac" /\ \A k \in 1 .. n : a[k] = Lineup[k]
  BY LineupIsSeq, AppendSeq
<1> HIDE DEF n, a
<1>2. \A i, j \in 1 .. n : Lineup[i] = Lineup[j] => i = j
  BY <1>1, LineupAssumption
<1>3. \A i \in 1 .. n : Lineup[i] # "regime_ac"
  BY <1>1, LineupAssumption
<1>4. \A i, j \in DOMAIN a : a[i] = a[j] => i = j
  <2> SUFFICES ASSUME NEW i \in 1 .. n + 1, NEW j \in 1 .. n + 1, a[i] = a[j] PROVE i = j
    BY <1>1
  <2>1. i \in 1 .. n \/ i = n + 1
    BY <1>1
  <2>2. j \in 1 .. n \/ j = n + 1
    BY <1>1
  <2> QED
    BY <1>1, <1>2, <1>3, <2>1, <2>2
<1> QED
  BY <1>1, <1>2, <1>4 DEF BuildStrategies, a

LEMMA ToldIsWell ==
  ASSUME NEW after, Told' = after, ToldInv'
  PROVE  WellTold(after)
<1>1. WellTold(after)'
  BY DEF ToldInv
<1> QED
  BY <1>1, ToldSame

(* A path begins with nothing ordered and everything left. *)
LEMMA StartPathOrders ==
  ASSUME LoadInv, SweepInv, TalkInv, PlaceInv, ToldInv, StartPath
  PROVE  OrdersInv'
<1> SUFFICES ASSUME "runner" \in senders' PROVE OrdersInv'
  BY DEF OrdersInv
<1> DEFINE e == [kind |-> "PathStart", path |-> path_id]
           log == Told
           after == Append(log, e)
<1>1. /\ main = "next_path" /\ main' = "running" /\ Emit("main", <<e>>)
      /\ UNCHANGED <<line, queue, printed>> /\ NewRunner(PathSetup)
      /\ senders' = IF Debug /\ DebugPath(path_id) THEN senders \cup {"runner"} ELSE senders
  BY DEF StartPath, At
<1>2. "runner" \notin senders /\ Debug /\ Wanted /\ "main" \in senders
  BY <1>1 DEF TalkInv, Wanted
<1>3. IsSeq(log) /\ Told' = after
  <2> HIDE DEF e
  <2>1. IsSeq(log) /\ Told' = IF "main" \in senders THEN after ELSE log
    BY <1>1, EmittedOne DEF TalkInv
  <2> QED
    BY <1>2, <2>1
<1>4. WellTold(log) /\ WellTold(after)
  <2>1. WellTold(log)
    BY DEF ToldInv
  <2>2. ToldInv'
    BY StartPathTold
  <2>3. WellTold(after)
    BY <1>3, <2>2, ToldIsWell
  <2> QED
    BY <2>1, <2>3
<1>5. \A mode : SumIn(after, mode) = 0
  <2>1. e.kind = "PathStart"
    OBVIOUS
  <2> HIDE DEF e, log
  <2> QED
    BY <1>4, <2>1, SumInAppended
<1>6. /\ DOMAIN strategies' = DOMAIN BuildStrategies
      /\ \A i \in DOMAIN strategies' :
           strategies'[i].mode = BuildStrategies[i] /\ strategies'[i].remaining = Total
  <2>1. PathSetup.lineup = BuildStrategies
    BY DEF PathSetup
  <2>2. strategies' = [i \in DOMAIN BuildStrategies |-> NewStrategy(BuildStrategies[i])]
    BY <1>1, <2>1 DEF NewRunner
  <2>3. \A mode : NewStrategy(mode).mode = mode /\ NewStrategy(mode).remaining = Total
    BY DEF NewStrategy
  <2> QED
    BY <2>2, <2>3
<1>7. \A i, j \in DOMAIN strategies' : strategies'[i].mode = strategies'[j].mode => i = j
  BY <1>6, ModesDiffer
<1>8. ASSUME NEW h, h = Told', NEW i \in DOMAIN strategies'
      PROVE  SumIn(h, strategies[i].mode)' = Total - strategies'[i].remaining
  <2> DEFINE mode == strategies'[i].mode
  <2> HIDE DEF mode, after
  <2>1. SumIn(h, mode) = 0
    BY <1>3, <1>5, <1>8
  <2>2. Total - strategies'[i].remaining = 0
    BY <1>6, RunnerAssumption
  <2>3. \A m : SumIn(h, m)' = SumIn(h, m)
    BY ToldSame
  <2> QED
    BY <2>1, <2>2, <2>3 DEF mode
<1> QED
  BY <1>7, <1>8 DEF OrdersInv

(* An order counts for the strategy that sells. *)
LEMMA OnBlockOrders ==
  ASSUME InventoryInv, FairInv, StepInv, TypeInv, CostInv, TalkInv, ToldInv, OrdersInv,
         ~Ended, UNCHANGED researchVars, OnBlock
  PROVE  OrdersInv'
<1> SUFFICES ASSUME "runner" \in senders' PROVE OrdersInv'
  BY DEF OrdersInv
<1>1. "runner" \in senders /\ UNCHANGED <<queue, printed>>
  BY DEF OnBlock
<1>2. LoadInv /\ SweepInv /\ RunInv
  BY DEF TypeInv
<1>3. PICK i \in DOMAIN strategies : \E n \in 0 .. strategies[i].remaining :
        /\ DOMAIN strategies' = DOMAIN strategies
        /\ \A j \in DOMAIN strategies : j # i => strategies'[j] = strategies[j]
        /\ strategies'[i].mode = strategies[i].mode
        /\ strategies'[i].remaining = strategies[i].remaining - n
        /\ strategies[i].remaining \in Nat
        /\ Emit("runner", TradeEvents(strategies[i], n))
  BY <1>2, BlockSells
<1>4. PICK n \in 0 .. strategies[i].remaining :
        /\ DOMAIN strategies' = DOMAIN strategies
        /\ \A j \in DOMAIN strategies : j # i => strategies'[j] = strategies[j]
        /\ strategies'[i].mode = strategies[i].mode
        /\ strategies'[i].remaining = strategies[i].remaining - n
        /\ strategies[i].remaining \in Nat
        /\ Emit("runner", TradeEvents(strategies[i], n))
  BY <1>3
<1>5. CASE n = 0
  <2>1. outbox' = outbox
    BY <1>4, <1>5, EmittedNone DEF TalkInv, TradeEvents
  <2>2. Told' = Told
    BY <1>1, <2>1 DEF Told
  <2>3. \A j \in DOMAIN strategies : /\ strategies'[j].mode = strategies[j].mode
                                     /\ strategies'[j].remaining = strategies[j].remaining
    BY <1>4, <1>5
  <2> DEFINE after == Told
  <2>4. Told' = after /\ \A log, mode : log = Told => SumIn(after, mode) = SumIn(log, mode)
    BY <2>2
  <2> HIDE DEF after
  <2> QED
    BY <1>1, <1>4, <2>3, <2>4, OrdersStay
<1>6. CASE n # 0
  <2>1. PICK e, f : /\ TradeEvents(strategies[i], n) = <<e, f>>
                    /\ e.kind = "SubmitOrder" /\ f.kind = "OrderFilled"
                    /\ e.id = f.id /\ e.qty = f.qty /\ e.qty = n
                    /\ e.strategy = strategies[i].mode
    BY <1>6 DEF TradeEvents
  <2>2. Emit("runner", <<e, f>>) /\ n \in Nat
    BY <1>4, <2>1
  <2> DEFINE log == Told
             mid == Append(log, e)
             after == Append(mid, f)
  <2>3. Told' = after /\ WellTold(log) /\ WellTold(mid) /\ WellTold(after)
    BY <1>1, <1>2, <2>1, <2>2, RunnerTellsTwo
  <2>0. log = Told
    OBVIOUS
  <2> HIDE DEF log
  <2>4. \A mode : SumIn(mid, mode) = SumIn(log, mode) + (IF e.strategy = mode THEN e.qty ELSE 0)
    BY <2>1, <2>3, SumInAppended
  <2> HIDE DEF mid
  <2>5. \A mode : SumIn(after, mode) = SumIn(mid, mode)
    BY <2>1, <2>3, SumInAppended
  <2> HIDE DEF after
  <2>6. /\ \A k, j \in DOMAIN strategies : strategies[k].mode = strategies[j].mode => k = j
        /\ \A k \in DOMAIN strategies :
             SumIn(log, strategies[k].mode) = Total - strategies[k].remaining
    BY <1>1, <2>0 DEF OrdersInv
  <2>7. /\ DOMAIN strategies' = DOMAIN strategies
        /\ \A k \in DOMAIN strategies' : strategies'[k].mode = strategies[k].mode
    BY <1>4
  <2>8. ASSUME NEW k \in DOMAIN strategies
        PROVE  SumIn(after, strategies'[k].mode) = Total - strategies'[k].remaining
    <3>1. SumIn(after, strategies'[k].mode) =
            SumIn(log, strategies[k].mode)
              + (IF e.strategy = strategies[k].mode THEN e.qty ELSE 0)
      BY <2>4, <2>5, <2>7
    <3>2. SumIn(log, strategies[k].mode) = Total - strategies[k].remaining
      BY <2>6
    <3>3. CASE k = i
      <4>1. SumIn(after, strategies'[k].mode) = (Total - strategies[k].remaining) + n
        BY <2>1, <3>1, <3>2, <3>3
      <4> QED
        BY <1>4, <2>2, <3>3, <4>1, RunnerAssumption
    <3>4. CASE k # i
      <4>1. e.strategy # strategies[k].mode
        BY <2>1, <2>6, <3>4
      <4>2. strategies'[k].remaining = strategies[k].remaining
        BY <1>4, <3>4
      <4>3. strategies[k].remaining \in Nat
        BY DEF InventoryInv, InventoryAgrees
      <4> QED
        BY <3>1, <3>2, <4>1, <4>2, <4>3, RunnerAssumption
    <3> QED
      BY <3>3, <3>4
  <2>9. ASSUME NEW h, h = Told', NEW k \in DOMAIN strategies'
        PROVE  SumIn(h, strategies[k].mode)' = Total - strategies'[k].remaining
    <3> DEFINE mode == strategies'[k].mode
    <3>1. SumIn(h, mode) = Total - strategies'[k].remaining
      BY <2>3, <2>7, <2>8, <2>9
    <3> HIDE DEF mode
    <3>2. \A m : SumIn(h, m)' = SumIn(h, m)
      BY ToldSame
    <3> QED
      BY <3>1, <3>2 DEF mode
  <2>10. \A k, j \in DOMAIN strategies' : strategies'[k].mode = strategies'[j].mode => k = j
    BY <2>6, <2>7
  <2> QED
    BY <2>9, <2>10 DEF OrdersInv
<1> QED
  BY <1>5, <1>6

LEMMA LiquidateLeaves ==
  ASSUME NEW s, IsTrader(s)
  PROVE  Liquidate(s).mode = s.mode /\ Liquidate(s).remaining = s.remaining
<1>1. CASE ~setup.force_complete \/ s.remaining = 0
  <2>1. Liquidate(s) = s
    BY <1>1, Zenon DEF Liquidate
  <2> QED
    BY <2>1, Zenon
<1>2. CASE ~(~setup.force_complete \/ s.remaining = 0)
  <2> DEFINE m == RecordForcedLiquidation(s.metrics, s.remaining,
                    IF prices = <<>> THEN 1 ELSE Last(prices))
  <2>1. Liquidate(s) = [s EXCEPT !.completed = TRUE, !.metrics = m]
    BY <1>2, Zenon DEF Liquidate
  <2> HIDE DEF m
  <2> QED
    BY <2>1 DEF IsTrader
<1> QED
  BY <1>1, <1>2, Zenon

LEMMA RunStepOrders ==
  ASSUME InventoryInv, FairInv, StepInv, TypeInv, CostInv, TalkInv, ToldInv, OrdersInv,
         ~Ended, RunStep
  PROVE  OrdersInv'
<1>1. LoadInv /\ SweepInv /\ UNCHANGED researchVars /\ RunnerStep
  BY DEF TypeInv, RunStep
<1>2. CASE BeginStep
  <2>1. PICK price : Emit("runner", <<[kind |-> "PriceUpdate", price |-> price]>>)
    BY <1>2 DEF BeginStep
  <2>2. UNCHANGED <<queue, printed, senders, strategies>>
    BY <1>2 DEF BeginStep
  <2> DEFINE e == [kind |-> "PriceUpdate", price |-> price]
             log == Told
             last == Append(log, e)
  <2>3. /\ ToldInv' /\ WellTold(log) /\ (Told' = log \/ Told' = last)
    BY <1>1, <2>1, <2>2, RunnerTellsOne
  <2>4. CASE Told' = log
    <3> DEFINE after == log
    <3>1. Told' = after /\ \A h, mode : h = Told => SumIn(after, mode) = SumIn(h, mode)
      BY <2>4
    <3> HIDE DEF after
    <3> QED
      BY <2>2, <3>1, OrdersStay
  <2>5. CASE Told' = last
    <3>1. WellTold(last)
      BY <2>3, <2>5, ToldIsWell
    <3>2. e.kind = "PriceUpdate"
      OBVIOUS
    <3>0. log = Told
      OBVIOUS
    <3> HIDE DEF e, log
    <3>3. \A mode : SumIn(last, mode) = SumIn(log, mode)
      BY <2>3, <3>1, <3>2, SumInAppended
    <3> DEFINE after == last
    <3>4. Told' = after /\ \A h, mode : h = Told => SumIn(after, mode) = SumIn(h, mode)
      BY <2>5, <3>0, <3>3
    <3> HIDE DEF after
    <3> QED
      BY <2>2, <3>4, OrdersStay
  <2> QED
    BY <2>3, <2>4, <2>5
<1>3. CASE OnBlock
  BY <1>1, <1>3, OnBlockOrders
<1>4. CASE Spin \/ CarryForward \/ BlockFails \/ EndStep \/ CloseRun
  <2> DEFINE after == Told
  <2>1. Told' = after /\ senders' = senders
    BY <1>4 DEF Spin, CarryForward, BlockFails, EndStep, CloseRun, channelVars, Told
  <2>2. \A h, mode : h = Told => SumIn(after, mode) = SumIn(h, mode)
    OBVIOUS
  <2> HIDE DEF after
  <2>3. /\ DOMAIN strategies' = DOMAIN strategies
        /\ \A i \in DOMAIN strategies : /\ strategies'[i].mode = strategies[i].mode
                                        /\ strategies'[i].remaining = strategies[i].remaining
    <3>1. CASE strategies' = strategies
      BY <3>1
    <3>2. CASE CloseRun
      <4>1. /\ DOMAIN strategies' = DOMAIN strategies
            /\ \A i \in DOMAIN strategies : strategies'[i] = Liquidate(strategies[i])
        BY <3>2 DEF CloseRun
      <4>2. \A i \in DOMAIN strategies : IsTrader(strategies[i])
        BY DEF CostInv, EveryoneKeeps, Trades
      <4> QED
        BY <4>1, <4>2, LiquidateLeaves
    <3> QED
      BY <1>4, <3>1, <3>2 DEF Spin, CarryForward, BlockFails, EndStep
  <2> QED
    BY <2>1, <2>2, <2>3, OrdersStay
<1> QED
  BY <1>1, <1>2, <1>3, <1>4 DEF RunnerStep

LEMMA OrdersKept ==
  ASSUME InventoryInv, FairInv, StepInv, TypeInv, CostInv, TalkInv, PlaceInv, ToldInv, OrdersInv,
         [ResearchNext]_vars
  PROVE  OrdersInv'
<1>1. LoadInv /\ SweepInv
  BY DEF TypeInv
<1>2. CASE ~Ended /\ StartPath
  BY <1>1, <1>2, StartPathOrders
<1>3. CASE ~Ended /\ RunStep
  BY <1>3, RunStepOrders
<1> DEFINE after == Told
<1>4. \A h, mode : h = Told => SumIn(after, mode) = SumIn(h, mode)
  OBVIOUS
<1> HIDE DEF after
<1>5. CASE SendStep \/ LogStep
  <2>1. /\ strategies' = strategies /\ senders' = senders
        /\ SendEvent \/ PrintEvent \/ LoggerEnds
    BY <1>5 DEF SendStep, LogStep, runnerVars, SendEvent, PrintEvent, LoggerEnds
  <2>2. Told' = after
    BY <2>1, ToldStays DEF TalkInv, after
  <2> QED
    BY <1>4, <2>1, <2>2, OrdersStay
<1>6. CASE UNCHANGED vars
  <2>1. strategies' = strategies /\ senders' = senders /\ Told' = after
    BY <1>6 DEF vars, runnerVars, channelVars, Told, after
  <2> QED
    BY <1>4, <2>1, OrdersStay
<1>7. CASE RunFails \/ SheetFails \/ RowsFail
  <2>1. strategies' = strategies /\ senders' = senders /\ Told' = after
    BY <1>7 DEF RunFails, SheetFails, RowsFail, ExitOne, runnerVars, Told, after
  <2> QED
    BY <1>4, <2>1, OrdersStay
<1>8. CASE EndPath
  <2>1. "runner" \notin senders'
    BY <1>8 DEF EndPath
  <2> QED
    BY <2>1 DEF OrdersInv
<1>9. CASE \/ Calibrate \/ LoadLobData \/ LoadAggTrades \/ Summarise
           \/ NextSweep \/ StartSweepPath \/ EndSweepPath \/ EndConfig
           \/ Teardown \/ CloseChannel \/ Join
  <2>1. senders' \subseteq senders /\ main \notin {"running", "exit1"}
    BY <1>9 DEF Calibrate, LoadLobData, LoadAggTrades, Summarise, NextSweep, StartSweepPath,
       EndSweepPath, EndConfig, Teardown, CloseChannel, Join, ExitOne, channelVars, At
  <2>2. "runner" \notin senders'
    BY <2>1 DEF TalkInv
  <2> QED
    BY <2>2 DEF OrdersInv
<1> QED
  BY <1>2, <1>3, <1>5, <1>6, <1>7, <1>8, <1>9 DEF ResearchNext, MainStep

-----------------------------------------------------------------------------
LogInv == TalkInv /\ PlaceInv /\ ToldInv /\ OrdersInv

(* What the logger is told keeps its order and its counts, in every        *)
(* interleaving of the main thread, the runner and the logger: a path's    *)
(* brackets and its progress stand where the main thread stands, and the   *)
(* orders since the last path began are what its strategies have sold.     *)
THEOREM LogInvariance == ResearchSpec => []LogInv
<1>1. ResearchInit => LogInv
  <2> SUFFICES ASSUME ResearchInit PROVE LogInv
    OBVIOUS
  <2>1. "runner" \notin senders
    BY DEF ResearchInit, ChannelInit
  <2>2. OrdersInv
    BY <2>1 DEF OrdersInv
  <2> QED
    BY <2>2, TalkAtFirst, ToldAtFirst DEF LogInv
<1>2. InventoryInv /\ FairInv /\ StepInv /\ TypeInv /\ CostInv /\ LogInv /\ [ResearchNext]_vars
        => LogInv'
  <2> SUFFICES ASSUME InventoryInv, FairInv, StepInv, TypeInv, CostInv, LogInv, [ResearchNext]_vars
               PROVE  LogInv'
    OBVIOUS
  <2>1. SweepInv /\ TalkInv /\ PlaceInv /\ ToldInv /\ OrdersInv
    BY DEF TypeInv, LogInv
  <2> QED
    BY <2>1, TalkKept, PlacesKept, ToldKept, OrdersKept DEF LogInv
<1> QED
  BY <1>1, <1>2, InventoryInvariance, FairInvariance, StepInvariance, TypeInvariance,
     CostInvariance, PTL DEF ResearchSpec

(* The log tells the run, whatever the command line asks for: brackets in  *)
(* turn, fills after their orders, orders that add up to what was sold,    *)
(* progress that counts one by one and runs at most one path ahead, and    *)
(* all of it printed when the program ends well (logger.rs, event.rs,      *)
(* research_sim.rs 736-950).                                               *)
THEOREM LogAlwaysTellsTheRun == ResearchSpec => []LogTellsTheRun
<1>1. TypeInv /\ LogInv => LogTellsTheRun
  <2> SUFFICES ASSUME TypeInv, LogInv PROVE LogTellsTheRun
    OBVIOUS
  <2> DEFINE log == Told
  <2>1. LoadInv /\ SweepInv /\ TalkInv /\ PlaceInv /\ ToldInv /\ OrdersInv /\ IsSeq(log)
    BY ToldIsSeq DEF TypeInv, LogInv
  <2>2. \A kinds : OfKind(kinds) = Of(log, kinds)
    BY DEF OfKind, Of
  <2>3. \A k, kinds : Place(k, kinds) = PlaceIn(log, k, kinds)
    BY <2>2 DEF Place, PlaceIn
  <2>4. \A mode : Submitted(mode) = SumIn(log, mode)
    <3>1. \A mode : Orders(mode) = OrdersIn(log, mode)
      BY <2>2 DEF Orders, OrdersIn
    <3> QED
      BY <3>1 DEF Submitted, SumIn
  <2>5. /\ WellTold(log) /\ Count(log, {"Progress"}) <= Finished
        /\ Wanted /\ main # "exit1" => Count(log, {"PathEnd"}) = Closed
        /\ Wanted /\ main \in Ending => EndsWell(log)
    BY <2>1, LogCounts
  <2>6. \A k \in OfKind({"PathStart", "PathEnd"}) :
          LET n == Place(k, {"PathStart", "PathEnd"}) IN
            log[k] = [kind |-> IF n % 2 = 1 THEN "PathStart" ELSE "PathEnd",
                      path |-> (n - 1) \div 2]
    <3>1. \A k \in Of(log, BracketKinds) : log[k] = Bracket(PlaceIn(log, k, BracketKinds))
      BY <2>5 DEF WellTold, InTurn
    <3> HIDE DEF log
    <3> QED
      BY <2>2, <2>3, <3>1 DEF Bracket, BracketKinds
  <2>7. \A k \in OfKind({"OrderFilled"}) :
          /\ k > 1
          /\ log[k - 1].kind = "SubmitOrder"
          /\ log[k - 1].id = log[k].id /\ log[k - 1].qty = log[k].qty
    <3>1. \A k \in Of(log, {"OrderFilled"}) : FillOfOrder(log, k)
      BY <2>5 DEF WellTold, FillsFollow
    <3> HIDE DEF log
    <3> QED
      BY <2>2, <3>1 DEF FillOfOrder
  <2>8. "runner" \in senders =>
          \A i \in DOMAIN strategies :
            Submitted(strategies[i].mode) = Total - strategies[i].remaining
    BY <2>1, <2>4 DEF OrdersInv
  <2>9. \A k \in OfKind({"Progress"}) :
          /\ log[k].completed = Place(k, {"Progress"})
          /\ log[k].completed <= log[k].total
    <3>1. \A k \in Of(log, {"Progress"}) :
            /\ log[k].completed = PlaceIn(log, k, {"Progress"})
            /\ log[k].completed <= log[k].total
      BY <2>5 DEF WellTold, CountsUp
    <3> HIDE DEF log
    <3> QED
      BY <2>2, <2>3, <3>1
  <2>10. Cardinality(OfKind({"Progress"})) <=
           (IF Experiments THEN progress_done + path_id + 1 ELSE path_id)
    BY <2>2, <2>5 DEF Count, Finished
  <2>11. ASSUME main = "exit0", logger # "none"
         PROVE  /\ queue = <<>> /\ Last(printed).kind = "SimulationEnd"
                /\ Experiments \/ Cardinality(OfKind({"PathEnd"})) = NumPaths
    <3>1. queue = <<>> /\ outbox = <<>> /\ Wanted /\ IsSeq(printed)
      BY <2>1, <2>11 DEF TalkInv
    <3>2. log = printed
      <4>1. printed \in Seq(Range(printed))
        BY <3>1 DEF IsSeq
      <4> DEFINE S == Range(printed)
      <4> HIDE DEF S
      <4>2. printed \in Seq(S)
        BY <4>1 DEF S
      <4>3. printed \o <<>> = printed
        BY <4>2
      <4> QED
        BY <3>1, <4>3 DEF Told
    <3>3. EndsWell(log) /\ Count(log, {"PathEnd"}) = Closed
      BY <2>5, <2>11, <3>1 DEF Ending
    <3>4. Last(printed).kind = "SimulationEnd"
      BY <3>2, <3>3 DEF EndsWell, Last
    <3>5. Experiments \/ path_id = NumPaths
      BY <2>1, <2>11 DEF PlaceInv
    <3> QED
      BY <2>2, <3>1, <3>3, <3>4, <3>5 DEF Count, Closed
  <2> QED
    BY <2>6, <2>7, <2>8, <2>9, <2>10, <2>11 DEF LogTellsTheRun
<1> QED
  BY <1>1, TypeInvariance, LogInvariance, PTL

-----------------------------------------------------------------------------
(* The statistics of the paths. *)
Ascending(r) == r \in Seq(Int) /\ r # <<>> /\ \A j, k \in DOMAIN r : j <= k => r[j] <= r[k]

(* What percentile_sorted takes from a rank, in hundredths of a place.     *)
Interpolated(r, rank) ==
  LET lo == rank \div 100
      hi == Smaller(lo + 1, Len(r) - 1) IN
    r[lo + 1] + ((rank % 100) * (r[hi + 1] - r[lo + 1])) \div 100

LEMMA InterpolatedBetween ==
  ASSUME NEW r, Ascending(r), NEW rank \in 0 .. 100 * (Len(r) - 1)
  PROVE  LET lo == rank \div 100
             hi == Smaller(lo + 1, Len(r) - 1) IN
           /\ lo + 1 \in 1 .. Len(r) /\ hi + 1 \in 1 .. Len(r)
           /\ rank % 100 \in 0 .. 99 /\ r[hi + 1] - r[lo + 1] \in Nat
           /\ r[lo + 1] \in Int /\ r[hi + 1] \in Int
           /\ Interpolated(r, rank) \in Int
           /\ r[lo + 1] <= Interpolated(r, rank) /\ Interpolated(r, rank) <= r[hi + 1]
<1> DEFINE n == Len(r)
           lo == rank \div 100
           hi == Smaller(lo + 1, n - 1)
           a == rank % 100
           d == r[hi + 1] - r[lo + 1]
           x == (a * d) \div 100
<1>1. n \in Nat \ {0} /\ DOMAIN r = 1 .. n /\ \A k \in 1 .. n : r[k] \in Int
  BY DEF Ascending
<1>2. lo + 1 \in 1 .. n /\ hi + 1 \in 1 .. n /\ lo + 1 <= hi + 1 /\ a \in 0 .. 99
  <2>1. lo \in Nat /\ 100 * lo <= rank /\ a \in 0 .. 99
    OBVIOUS
  <2> HIDE DEF lo, a, n
  <2>2. lo <= n - 1
    BY <1>1, <2>1 DEF n
  <2> QED
    BY <1>1, <2>1, <2>2 DEF Smaller
<1>3. r[lo + 1] \in Int /\ r[hi + 1] \in Int /\ d \in Nat
  <2> HIDE DEF lo, hi, n
  <2>1. r[lo + 1] \in Int /\ r[hi + 1] \in Int
    BY <1>1, <1>2
  <2>2. r[lo + 1] <= r[hi + 1]
    BY <1>1, <1>2 DEF Ascending
  <2> QED
    BY <2>1, <2>2
<1>4. Interpolated(r, rank) = r[lo + 1] + x
  BY DEF Interpolated
<1> HIDE DEF a, d, lo, hi
<1>5. x \in 0 .. d
  BY <1>2, <1>3, ShareOf
<1> HIDE DEF x
<1>6. Interpolated(r, rank) \in Int /\ r[lo + 1] <= Interpolated(r, rank)
      /\ Interpolated(r, rank) <= r[hi + 1]
  <2>1. d = r[hi + 1] - r[lo + 1]
    BY DEF d
  <2> QED
    BY <1>3, <1>4, <1>5, <2>1
<1> QED
  BY <1>2, <1>3, <1>6 DEF a, d, lo, hi

LEMMA InterpolatedGrows ==
  ASSUME NEW r, Ascending(r), NEW p \in 0 .. 100 * (Len(r) - 1), NEW q \in 0 .. 100 * (Len(r) - 1),
         p <= q
  PROVE  Interpolated(r, p) <= Interpolated(r, q)
<1> DEFINE n == Len(r)
           lop == p \div 100
           loq == q \div 100
           hip == Smaller(lop + 1, n - 1)
           hiq == Smaller(loq + 1, n - 1)
           ip == Interpolated(r, p)
           iq == Interpolated(r, q)
<1>1. /\ lop + 1 \in 1 .. n /\ hip + 1 \in 1 .. n /\ loq + 1 \in 1 .. n
      /\ p % 100 \in 0 .. 99 /\ q % 100 \in 0 .. 99 /\ r[hip + 1] - r[lop + 1] \in Nat
      /\ r[hip + 1] \in Int /\ r[lop + 1] \in Int /\ r[loq + 1] \in Int
      /\ ip \in Int /\ iq \in Int
      /\ ip <= r[hip + 1] /\ r[loq + 1] <= iq
  BY InterpolatedBetween
<1>2. n \in Nat \ {0} /\ DOMAIN r = 1 .. n
  BY DEF Ascending
<1>3. lop <= loq /\ (lop = loq => p % 100 <= q % 100)
  OBVIOUS
<1>4. CASE lop = loq
  <2> DEFINE a == p % 100
             b == q % 100
             d == r[hip + 1] - r[lop + 1]
             x == (a * d) \div 100
             y == (b * d) \div 100
  <2>1. ip = r[lop + 1] + x /\ iq = r[lop + 1] + y
    BY <1>4 DEF Interpolated
  <2>2. a \in 0 .. 99 /\ b \in 0 .. 99 /\ d \in Nat /\ a <= b
    BY <1>1, <1>3, <1>4
  <2> HIDE DEF a, b, d
  <2>3. x \in 0 .. d /\ y \in 0 .. d /\ x <= y
    BY <2>2, ShareOf
  <2> HIDE DEF x, y, ip, iq, lop
  <2>4. x \in Int /\ y \in Int
    BY <2>3
  <2> QED
    BY <1>1, <2>1, <2>3, <2>4 DEF ip, iq
<1>5. CASE lop < loq
  <2>1. hip + 1 <= loq + 1
    <3>1. lop \in Int /\ loq \in Int
      OBVIOUS
    <3> HIDE DEF lop, loq, n
    <3> QED
      BY <1>1, <1>2, <1>5, <3>1 DEF Smaller
  <2> HIDE DEF lop, loq, hip, n, ip, iq
  <2>2. r[hip + 1] <= r[loq + 1]
    BY <1>1, <1>2, <2>1 DEF Ascending
  <2> QED
    BY <1>1, <2>2 DEF ip, iq
<1> QED
  BY <1>3, <1>4, <1>5

LEMMA SortedRanks ==
  ASSUME NEW s \in Seq(Int), s # <<>>
  PROVE  /\ Ranked(Sorted(s), s) /\ Ascending(Sorted(s))
         /\ Len(Sorted(s)) = Len(s) /\ DOMAIN Sorted(s) = 1 .. Len(s)
         /\ \A i \in DOMAIN s : Sorted(s)[1] <= s[i] /\ s[i] <= Sorted(s)[Len(s)]
         /\ SumFunctionOnSet(Sorted(s), DOMAIN s) = SumOf(s)
<1> DEFINE n == Len(s)
           r == Sorted(s)
           at(k) == CHOOSE v \in Range(s) :
                      /\ Cardinality({i \in DOMAIN s : s[i] < v}) < k
                      /\ Cardinality({i \in DOMAIN s : s[i] <= v}) >= k
<1>1. n \in Nat \ {0} /\ DOMAIN s = 1 .. n /\ \A i \in 1 .. n : s[i] \in Int
  OBVIOUS
<1>2. r = [k \in 1 .. n |-> at(k)]
  BY <1>1 DEF Sorted
<1>3. ASSUME NEW k \in 1 .. n PROVE Ranks(s, k, at(k))
  <2>1. PICK v : Ranks(s, k, v)
    <3> HIDE DEF n
    <3>1. n \in Nat
      BY <1>1
    <3> QED
      BY <1>1, <3>1, RankExists
  <2>2. v \in Range(s) /\ Cardinality({i \in DOMAIN s : s[i] < v}) < k
        /\ Cardinality({i \in DOMAIN s : s[i] <= v}) >= k
    BY <2>1 DEF Ranks, Less, UpTo
  <2>3. at(k) \in Range(s) /\ Cardinality({i \in DOMAIN s : s[i] < at(k)}) < k
        /\ Cardinality({i \in DOMAIN s : s[i] <= at(k)}) >= k
    BY <2>2, Zenon
  <2> QED
    BY <2>3, Zenon DEF Ranks, Less, UpTo
<1> HIDE DEF at, r, n
<1>4. DOMAIN r = 1 .. n /\ \A k \in 1 .. n : r[k] = at(k)
  BY <1>2
<1>5. Ranked(r, s)
  BY <1>1, <1>3, <1>4 DEF Ranked
<1>6. n \in Nat /\ n # 0
  BY <1>1
<1>7. /\ \A k \in 1 .. n : r[k] \in Int
      /\ \A j, k \in 1 .. n : j <= k => r[j] <= r[k]
      /\ \A i \in 1 .. n : r[1] <= s[i] /\ s[i] <= r[n]
  BY <1>1, <1>5, <1>6, RankedOrder
<1>8. r \in Seq(Int) /\ Len(r) = n /\ r # <<>>
  <2>1. r = [k \in 1 .. n |-> r[k]]
    BY <1>2, <1>4
  <2>2. r \in [1 .. n -> Int]
    BY <1>7, <2>1
  <2> QED
    BY <1>6, <2>2
<1>9. SumFunctionOnSet(r, 1 .. n) = SumFunctionOnSet(s, 1 .. n)
  BY <1>1, <1>5, <1>6, RankedSum
<1>10. SumOf(s) = SumFunctionOnSet(s, DOMAIN s)
  BY SumOfIsSum
<1> QED
  BY <1>1, <1>4, <1>5, <1>7, <1>8, <1>9, <1>10 DEF Ascending, r, n

(* The worst of the paths are on average no better than all of them, and   *)
(* the statistics of a sweep's row come in their order (distribution.rs).  *)
THEOREM StatisticsInOrder ==
  ASSUME NEW s \in Seq(Int), s # <<>>
  PROVE  DistributionStats(s).count = Len(s) /\ StatsOrdered(DistributionStats(s))
<1> DEFINE n == Len(s)
           r == Sorted(s)
           P(p) == Percentile(r, p)
           d == DistributionStats(s)
           t == P(5)
           A == {k \in 1 .. n : r[k] <= t}
           B == {k \in 1 .. n : ~(r[k] <= t)}
           a == SumFunctionOnSet(r, A)
           b == SumFunctionOnSet(r, B)
           ca == Cardinality(A)
           cb == Cardinality(B)
           sum == SumOf(s)
<1>1. n \in Nat \ {0} /\ DOMAIN s = 1 .. n /\ \A i \in 1 .. n : s[i] \in Int
  OBVIOUS
<1>2. /\ Ascending(r) /\ Len(r) = n /\ DOMAIN r = 1 .. n
      /\ \A i \in 1 .. n : r[1] <= s[i] /\ s[i] <= r[n]
      /\ SumFunctionOnSet(r, 1 .. n) = sum
  BY <1>1, SortedRanks
<1>3. /\ d.count = n /\ d.mean = sum \div n /\ d.median = P(50) /\ d.var_95 = t
      /\ d.cvar_95 = Cvar(r, 95) /\ d.max = Last(r) /\ d.min = Head(r)
  BY DEF DistributionStats
<1> HIDE DEF r, n, d
<1>4. Last(r) = r[n] /\ Head(r) = r[1] /\ \A k \in 1 .. n : r[k] \in Int
  BY <1>1, <1>2 DEF Last, Ascending
<1>5. /\ P(5) \in Int /\ P(50) \in Int
      /\ r[1] <= P(5) /\ P(5) <= P(50) /\ P(50) <= r[n]
  <2>1. 5 * (n - 1) \in 0 .. 100 * (n - 1) /\ 50 * (n - 1) \in 0 .. 100 * (n - 1)
        /\ 5 * (n - 1) <= 50 * (n - 1)
    BY <1>1
  <2>2. P(5) = Interpolated(r, 5 * (n - 1)) /\ P(50) = Interpolated(r, 50 * (n - 1))
    BY <1>2 DEF Percentile, Interpolated
  <2>3. P(5) <= P(50)
    BY <1>2, <2>1, <2>2, InterpolatedGrows
  <2>4. ASSUME NEW rank \in 0 .. 100 * (n - 1)
        PROVE  /\ Interpolated(r, rank) \in Int
               /\ r[1] <= Interpolated(r, rank) /\ Interpolated(r, rank) <= r[n]
    <3> DEFINE lo == rank \div 100
               hi == Smaller(lo + 1, n - 1)
    <3>1. /\ lo + 1 \in 1 .. n /\ hi + 1 \in 1 .. n
          /\ Interpolated(r, rank) \in Int
          /\ r[lo + 1] <= Interpolated(r, rank) /\ Interpolated(r, rank) <= r[hi + 1]
      BY <1>2, InterpolatedBetween
    <3> HIDE DEF lo, hi
    <3>2. 1 \in 1 .. n /\ n \in 1 .. n /\ 1 <= lo + 1 /\ hi + 1 <= n
      BY <1>1, <3>1
    <3>3. r[1] <= r[lo + 1] /\ r[hi + 1] <= r[n]
      BY <1>2, <3>1, <3>2 DEF Ascending
    <3>4. r[1] \in Int /\ r[n] \in Int /\ r[lo + 1] \in Int /\ r[hi + 1] \in Int
      BY <1>4, <3>1, <3>2
    <3> QED
      BY <3>1, <3>3, <3>4
  <2> QED
    BY <2>1, <2>2, <2>3, <2>4
<1> HIDE DEF P, t
<1>6. IsFiniteSet(1 .. n) /\ Cardinality(1 .. n) = n
  BY <1>1, FS_Interval
<1>7. /\ A \subseteq 1 .. n /\ B \subseteq 1 .. n /\ A \cup B = 1 .. n /\ A \cap B = {}
      /\ \A k \in A : r[k] <= t /\ r[k] \in Int
      /\ \A k \in B : r[k] >= t /\ r[k] \in Int
      /\ 1 \in A
  BY <1>1, <1>4, <1>5 DEF t
<1>8. Cvar(r, 95) = IF A = {} THEN t ELSE a \div ca
  BY <1>2 DEF Cvar, t, P
<1> HIDE DEF A, B
<1>9. IsFiniteSet(A) /\ IsFiniteSet(B) /\ ca \in Nat \ {0} /\ cb \in Nat /\ ca + cb = n
  <2>1. IsFiniteSet(A) /\ IsFiniteSet(B)
    BY <1>6, <1>7, FS_Subset
  <2>2. Cardinality(A \cup B) = ca + cb - Cardinality(A \cap B)
    BY <2>1, FS_Union
  <2>3. ca \in Nat /\ cb \in Nat /\ ca # 0 /\ Cardinality({}) = 0
    BY <1>7, <2>1, FS_CardinalityType, FS_EmptySet
  <2>4. n = ca + cb - 0
    BY <1>6, <1>7, <2>2, <2>3, Zenon
  <2> QED
    BY <2>1, <2>3, <2>4
<1>10. sum = a + b
  <2>1. SumFunctionOnSet(r, A \cup B) = a + b
    BY <1>7, <1>9, SumUnion
  <2> QED
    BY <1>2, <1>7, <2>1, Zenon
<1>11. t \in Int /\ r[1] \in Int /\ r[n] \in Int
  BY <1>1, <1>4, <1>5 DEF t
<1>12. /\ a \in Int /\ b \in Int
       /\ a <= t * ca /\ b >= t * cb
       /\ a >= r[1] * ca
       /\ sum <= r[n] * n
  <2>1. a \in Int /\ a <= t * ca
    BY <1>7, <1>9, <1>11, SumBounded
  <2>2. b \in Int /\ b >= t * cb
    BY <1>7, <1>9, <1>11, SumBounded
  <2>3. ASSUME NEW k \in 1 .. n PROVE r[k] >= r[1] /\ r[k] <= r[n] /\ r[k] \in Int
    <3>1. 1 \in 1 .. n /\ n \in 1 .. n /\ 1 <= k /\ k <= n
      BY <1>1
    <3>2. r[1] <= r[k] /\ r[k] <= r[n]
      BY <1>2, <3>1 DEF Ascending
    <3> QED
      BY <1>4, <1>11, <3>2
  <2>4. \A k \in A : r[k] >= r[1] /\ r[k] \in Int
    BY <1>7, <2>3
  <2>5. a >= r[1] * ca
    BY <1>9, <1>11, <2>4, SumBounded
  <2>6. sum <= r[n] * Cardinality(1 .. n)
    BY <1>2, <1>6, <1>11, <2>3, SumBounded
  <2> QED
    BY <1>6, <2>1, <2>2, <2>5, <2>6
<1> HIDE DEF a, b, ca, cb, sum
<1> DEFINE c == a \div ca
           m == sum \div n
           low == r[1]
           high == r[n]
<1>13. c \in Int /\ m \in Int /\ low <= c /\ c <= m /\ m <= high
  <2> HIDE DEF low, high, c, m
  <2>1. low \in Int /\ high \in Int /\ sum \in Int
    BY <1>10, <1>11, <1>12 DEF low, high
  <2>2. c \in Int /\ c * ca <= a /\ m \in Int
    BY <1>1, <1>9, <1>12, <2>1, Quotient DEF c, m
  <2>3. low <= c /\ c <= t
    BY <1>9, <1>11, <1>12, <2>1, Quotient DEF low, c
  <2>4. m <= high
    BY <1>1, <1>12, <2>1, Quotient DEF high, m
  <2>5. c * n <= sum
    <3> DEFINE x == c * ca
               y == c * cb
               z == t * cb
    <3>1. c * n = x + y
      BY <1>9, <2>2
    <3>2. y <= z
      <4>1. (t - c) * cb \in Nat /\ z = y + (t - c) * cb /\ y \in Int
        BY <1>9, <1>11, <2>2, <2>3
      <4> QED
        BY <4>1
    <3>3. x \in Int /\ y \in Int /\ z \in Int /\ x <= a /\ z <= b
      BY <1>9, <1>11, <1>12, <2>2
    <3> HIDE DEF x, y, z
    <3> QED
      BY <1>10, <1>12, <3>1, <3>2, <3>3
  <2>6. c <= m
    BY <1>1, <2>1, <2>2, <2>5, Quotient DEF m
  <2> QED
    BY <2>2, <2>3, <2>4, <2>6
<1>14. d.cvar_95 = c
  BY <1>3, <1>7, <1>8
<1> QED
  BY <1>3, <1>4, <1>5, <1>13, <1>14 DEF StatsOrdered, d, n, t

-----------------------------------------------------------------------------
(* The outputs.  A run is built from the setup of where the main thread    *)
(* stands, its records are numbers, and what it exports is complete.       *)
StepRecords == [remaining : Int, cost : Int]
Recorded(h) == h \in Seq(StepRecords)

BuiltFrom ==
  /\ DOMAIN strategies = DOMAIN setup.lineup
  /\ setup.lineup = IF Experiments THEN Lineup ELSE BuildStrategies
  /\ ~Experiments => setup.results \in {"writable", "blocked"}
  /\ runner = "done" => setup.results # "blocked"

Exported ==
  /\ Len(csv) = Len(prices)
  /\ \A k \in DOMAIN csv : \A i \in DOMAIN strategies : csv[k].cells[i] # None
  /\ csv # <<>> => \A i \in DOMAIN strategies : Last(csv).cells[i] = Record(strategies[i])

ExportInv ==
  /\ runner # "idle" => BuiltFrom
  /\ \A i \in DOMAIN history : \A h : h = history[i] => Recorded(h)
  /\ runner = "closing" => \A i \in DOMAIN history : UpToDate(i)
  /\ runner = "done" /\ setup.results = "writable" => Exported

LEMMA OptionsSame ==
  ASSUME line' = line
  PROVE  /\ Experiments' = Experiments /\ BuildStrategies' = BuildStrategies
         /\ NumPaths' = NumPaths
BY DEF Experiments, BuildStrategies, NumPaths, Parsed, Given

LEMMA LineStays ==
  ASSUME [ResearchNext]_vars
  PROVE  line' = line
BY DEF ResearchNext, MainStep, Calibrate, LoadLobData, LoadAggTrades, StartPath, EndPath, RunFails,
       Summarise, NextSweep, SheetFails, RowsFail, StartSweepPath, EndSweepPath, EndConfig, Teardown,
       CloseChannel, Join, RunStep, SendStep, LogStep, vars, researchVars

LEMMA RecordedSame == \A h : Recorded(h)' <=> Recorded(h)
BY DEF Recorded, StepRecords

(* A step that leaves the runner's data alone. *)
LEMMA ExportLeft ==
  ASSUME ExportInv, line' = line,
         UNCHANGED <<setup, strategies, history, prices, csv>>,
         runner' = runner \/ (runner = "stepping" /\ runner' \in {"spinning", "failed"})
  PROVE  ExportInv'
<1>1. runner' # "idle" => BuiltFrom'
  BY OptionsSame DEF ExportInv, BuiltFrom
<1>2. \A i \in DOMAIN history' : \A h : h = history'[i] => Recorded(h)'
  BY RecordedSame DEF ExportInv
<1>3. runner' = "closing" => \A i \in DOMAIN history' : UpToDate(i)'
  BY DEF ExportInv, UpToDate, IsSeq, Record
<1>4. runner' = "done" /\ setup'.results = "writable" => Exported'
  BY DEF ExportInv, Exported, Record, Last
<1> QED
  BY <1>1, <1>2, <1>3, <1>4 DEF ExportInv

LEMMA NewRunnerExports ==
  ASSUME NEW s, NewRunner(s), line' = line, IsSeq(s.lineup),
         s.lineup = IF Experiments THEN Lineup ELSE BuildStrategies,
         ~Experiments => s.results \in {"writable", "blocked"}
  PROVE  ExportInv'
<1>1. /\ setup' = s /\ runner' = "stepping" /\ DOMAIN strategies' = DOMAIN s.lineup
      /\ \A i \in DOMAIN history' : history'[i] = <<>>
  BY DEF NewRunner
<1>2. BuiltFrom'
  BY <1>1, OptionsSame DEF BuiltFrom
<1>3. Recorded(<<>>)
  BY DEF Recorded
<1>4. \A i \in DOMAIN history' : \A h : h = history'[i] => Recorded(h)'
  BY <1>1, <1>3, RecordedSame
<1> QED
  BY <1>1, <1>2, <1>4 DEF ExportInv

LEMMA RecordIsRecord ==
  ASSUME NEW s, Trades(s), s.remaining \in Int
  PROVE  Record(s) \in StepRecords
BY DEF Trades, Books, IsAccount, Amounts, Record, StepRecords

LEMMA RecordedAppend ==
  ASSUME NEW h, Recorded(h), NEW e \in StepRecords
  PROVE  Recorded(Append(h, e))
BY DEF Recorded

(* A strategy has its turn. *)
LEMMA TurnExports ==
  ASSUME ExportInv, InventoryInv', CostInv', runner = "stepping", runner' = "stepping", line' = line,
         UNCHANGED setup, DOMAIN strategies' = DOMAIN strategies,
         NEW i \in DOMAIN strategies, NEW s, s = strategies'[i],
         history' = [history EXCEPT ![i] = Append(@, Record(s))],
         DOMAIN history = DOMAIN strategies
  PROVE  ExportInv'
<1>1. BuiltFrom'
  BY OptionsSame DEF ExportInv, BuiltFrom
<1>2. Trades(s)
  <2>1. Trades(s)'
    BY DEF CostInv, EveryoneKeeps
  <2> QED
    BY <2>1, TradesSame
<1>3. s.remaining \in Int
  <2>1. s.remaining \in 0 .. Total
    BY DEF InventoryInv, InventoryAgrees
  <2> QED
    BY <2>1, RunnerAssumption
<1>4. Record(s) \in StepRecords
  BY <1>2, <1>3, RecordIsRecord
<1>5. ASSUME NEW j \in DOMAIN history', NEW h, h = history'[j] PROVE Recorded(h)
  <2> DEFINE g == history[j]
             e == Record(s)
  <2>1. Recorded(g)
    BY <1>5 DEF ExportInv
  <2>2. h = IF j = i THEN Append(g, e) ELSE g
    BY <1>5
  <2>3. e \in StepRecords
    BY <1>4
  <2> HIDE DEF g, e
  <2>4. Recorded(Append(g, e))
    BY <2>1, <2>3, RecordedAppend
  <2> QED
    BY <2>1, <2>2, <2>4
<1>6. \A j \in DOMAIN history' : \A h : h = history'[j] => Recorded(h)'
  BY <1>5, RecordedSame
<1> QED
  BY <1>1, <1>6 DEF ExportInv

LEMMA CloseRunExports ==
  ASSUME InventoryInv, FairInv, StepInv, CostInv, ExportInv, CloseRun, line' = line
  PROVE  ExportInv'
<1>1. /\ runner \in {"closing", "stepping"} /\ runner # "idle"
      /\ runner' = (IF setup.results = "blocked" THEN "failed" ELSE "done")
      /\ strategies' = [i \in DOMAIN strategies |-> Liquidate(strategies[i])]
      /\ setup.results = "writable" => csv' = [k \in DOMAIN prices |-> CsvRow(k)]
      /\ UNCHANGED <<setup, history, prices>>
  BY DEF CloseRun
<1>2. BuiltFrom'
  BY <1>1, OptionsSame DEF ExportInv, BuiltFrom
<1>3. \A i \in DOMAIN history' : \A h : h = history'[i] => Recorded(h)'
  BY <1>1, RecordedSame DEF ExportInv
<1>4. \A i \in DOMAIN history : UpToDate(i)
  BY <1>1 DEF ExportInv, StepInv
<1>5. \A i \in DOMAIN history : Len(history[i]) = Len(prices)
  <2>1. runner = "closing" => \A i \in DOMAIN history : Len(history[i]) = Len(prices)
    BY DEF StepInv
  <2>2. ASSUME runner = "stepping" PROVE \A i \in DOMAIN history : Len(history[i]) = Len(prices)
    <3>1. FairRun /\ step \in Nat /\ turn = 0 /\ Len(prices) = step
      BY <2>2 DEF CloseRun, FairInv, FairRun, StepInv
    <3> QED
      BY <3>1 DEF FairRun, Kept, Done
  <2> QED
    BY <1>1, <2>1, <2>2
<1>6. DOMAIN history = DOMAIN strategies /\ prices \in Seq(Int)
  BY DEF CostInv
<1>7. ASSUME setup.results = "writable" PROVE Exported'
  <2> DEFINE n == Len(prices)
             row(k) == CsvRow(k)
  <2>1. n \in Nat /\ DOMAIN prices = 1 .. n
    BY <1>6
  <2>2. csv' = [k \in 1 .. n |-> row(k)]
    BY <1>1, <1>7, <2>1
  <2>3. DOMAIN csv' = 1 .. n /\ Len(csv') = n /\ \A k \in 1 .. n : csv'[k] = row(k)
    <3> HIDE DEF row, n
    <3> QED
      BY <2>1, <2>2
  <2>4. ASSUME NEW k \in 1 .. n, NEW i \in DOMAIN history
        PROVE  /\ row(k).cells[i] = history[i][k] /\ history[i][k] \in StepRecords
    <3> DEFINE h == history[i]
    <3>1. Recorded(h) /\ Len(h) = n
      BY <1>5 DEF ExportInv
    <3>2. row(k).cells[i] = IF k \in DOMAIN h THEN h[k] ELSE None
      BY DEF CsvRow
    <3> HIDE DEF h, n, row
    <3>3. k \in DOMAIN h /\ h[k] \in StepRecords
      BY <2>1, <3>1 DEF Recorded
    <3>4. row(k).cells[i] = h[k]
      BY <3>2, <3>3
    <3> QED
      BY <3>3, <3>4 DEF h
  <2>5. None \notin StepRecords
    BY RunnerAssumption DEF StepRecords
  <2>7. DOMAIN strategies' = DOMAIN history /\ \A i \in DOMAIN strategies : strategies'[i] = strategies[i]
    <3>1. ~setup.force_complete
      BY <1>1, <1>7 DEF InventoryInv, SetupSound
    <3>2. \A i \in DOMAIN strategies : Liquidate(strategies[i]) = strategies[i]
      BY <3>1 DEF Liquidate
    <3> QED
      BY <1>1, <1>6, <3>2
  <2>8. Len(csv') = Len(prices')
    BY <1>1, <2>3
  <2>9. \A k \in DOMAIN csv' : \A i \in DOMAIN strategies' : csv'[k].cells[i] # None
    <3> HIDE DEF row, n
    <3> QED
      BY <2>3, <2>4, <2>5, <2>7
  <2>10. ASSUME csv' # <<>>, NEW i \in DOMAIN strategies'
         PROVE  Last(csv').cells[i] = Record(strategies[i])
    <3>1. n # 0
      <4>1. n = 0 => csv' = <<>>
        BY <2>2
      <4> QED
        BY <2>10, <4>1
    <3>2. n \in 1 .. n
      BY <2>1, <3>1
    <3> DEFINE e == Record(strategies[i])
    <3>3. i \in DOMAIN history /\ Len(history[i]) = n /\ history[i][n] = e
      <4>1. i \in DOMAIN history /\ Len(history[i]) = n
        BY <1>5, <2>7
      <4>2. Len(history[i]) > 0
        BY <2>1, <3>1, <4>1
      <4> QED
        BY <1>4, <4>1, <4>2 DEF UpToDate
    <3> HIDE DEF e, n, row
    <3>4. Last(csv') = row(n)
      BY <2>3, <3>2 DEF Last
    <3>5. row(n).cells[i] = e
      BY <2>4, <3>2, <3>3
    <3> QED
      BY <3>4, <3>5 DEF e
  <2>11. \A i \in DOMAIN strategies' : Record(strategies'[i]) = Record(strategies[i])
    BY <1>6, <2>7
  <2>12. csv' # <<>> => \A i \in DOMAIN strategies' : Last(csv').cells[i] = Record(strategies'[i])
    BY <2>10, <2>11
  <2> QED
    BY <2>8, <2>9, <2>12 DEF Exported, Last, Record
<1> QED
  BY <1>1, <1>2, <1>3, <1>7 DEF ExportInv

LEMMA RunStepExports ==
  ASSUME InventoryInv, FairInv, StepInv, CostInv, ExportInv, InventoryInv', CostInv',
         RunnerStep, line' = line
  PROVE  ExportInv'
<1>1. CASE BeginStep
  <2>1. runner = "stepping" /\ runner' = runner /\ UNCHANGED <<setup, strategies, history>>
    BY <1>1 DEF BeginStep
  <2>2. BuiltFrom'
    BY <2>1, OptionsSame DEF ExportInv, BuiltFrom
  <2>3. \A i \in DOMAIN history' : \A h : h = history'[i] => Recorded(h)'
    BY <2>1, RecordedSame DEF ExportInv
  <2> QED
    BY <2>1, <2>2, <2>3 DEF ExportInv
<1>2. CASE Spin \/ BlockFails
  BY <1>2, ExportLeft DEF Spin, BlockFails, HasTurn
<1>3. CASE CarryForward
  <2>1. PICK i \in DOMAIN strategies :
          /\ HasTurn(i)
          /\ history' = [history EXCEPT ![i] = Append(@, Record(strategies[i]))]
    BY <1>3 DEF CarryForward
  <2>2. runner = "stepping" /\ UNCHANGED <<setup, runner, strategies>>
    BY <1>3, <2>1 DEF CarryForward, HasTurn
  <2> DEFINE s == strategies[i]
  <2>3. s = strategies'[i] /\ history' = [history EXCEPT ![i] = Append(@, Record(s))]
    BY <2>1, <2>2
  <2>4. DOMAIN history = DOMAIN strategies /\ DOMAIN strategies' = DOMAIN strategies
    BY <2>2 DEF CostInv
  <2> HIDE DEF s
  <2> QED
    BY <2>2, <2>3, <2>4, TurnExports
<1>4. CASE OnBlock
  <2>1. PICK i \in DOMAIN strategies :
          /\ HasTurn(i)
          /\ \E traded \in Chunks(strategies[i]) :
               /\ strategies' = [strategies EXCEPT ![i] = AfterBlock(@, traded)]
               /\ history' = [history EXCEPT ![i] = Append(@, Record(strategies'[i]))]
    BY <1>4 DEF OnBlock
  <2>2. runner = "stepping" /\ UNCHANGED <<setup, runner>>
    BY <1>4, <2>1 DEF OnBlock, HasTurn
  <2> DEFINE s == strategies'[i]
  <2>3. s = strategies'[i] /\ history' = [history EXCEPT ![i] = Append(@, Record(s))]
        /\ DOMAIN strategies' = DOMAIN strategies
    BY <2>1
  <2>4. DOMAIN history = DOMAIN strategies
    BY DEF CostInv
  <2> HIDE DEF s
  <2> QED
    BY <2>2, <2>3, <2>4, TurnExports
<1>5. CASE EndStep
  <2>1. /\ runner = "stepping" /\ runner' \in {"stepping", "closing"}
        /\ UNCHANGED <<setup, strategies, history, prices, csv>>
    BY <1>5 DEF EndStep
  <2>2. BuiltFrom'
    BY <2>1, OptionsSame DEF ExportInv, BuiltFrom
  <2>3. \A i \in DOMAIN history' : \A h : h = history'[i] => Recorded(h)'
    BY <2>1, RecordedSame DEF ExportInv
  <2>4. \A i \in DOMAIN history' : UpToDate(i)'
    BY <2>1 DEF StepInv, UpToDate, IsSeq, Record
  <2> QED
    BY <2>1, <2>2, <2>3, <2>4 DEF ExportInv
<1>6. CASE CloseRun
  BY <1>6, CloseRunExports
<1> QED
  BY <1>1, <1>2, <1>3, <1>4, <1>5, <1>6 DEF RunnerStep

LEMMA ExportKept ==
  ASSUME InventoryInv, FairInv, StepInv, TypeInv, CostInv, LogInv, ExportInv,
         InventoryInv', CostInv', [ResearchNext]_vars
  PROVE  ExportInv'
<1>0. line' = line /\ LoadInv /\ SweepInv /\ PlaceInv
  BY LineStays DEF TypeInv, LogInv
<1>1. CASE StartPath
  <2>1. NewRunner(PathSetup) /\ ~Experiments
    BY <1>0, <1>1 DEF StartPath, At, PlaceInv
  <2>2. PathSetup.lineup = BuildStrategies /\ PathSetup.results \in {"writable", "blocked"}
    BY DEF PathSetup, ResultsDir
  <2> QED
    BY <1>0, <2>1, <2>2, PathLineup, NewRunnerExports
<1>2. CASE StartSweepPath
  <2>1. NewRunner(SweepSetup) /\ Experiments /\ sweep \in {1, 2, 3, 4}
    BY <1>0, <1>2 DEF StartSweepPath, At, PlaceInv, SweepInv
  <2>2. SweepSetup.lineup = Lineup
    BY <2>1 DEF SweepSetup
  <2> QED
    BY <1>0, <2>1, <2>2, SweepLineup, NewRunnerExports
<1>3. CASE RunStep
  BY <1>0, <1>3, RunStepExports DEF RunStep
<1>4. CASE UNCHANGED runnerVars
  BY <1>0, <1>4, ExportLeft DEF runnerVars
<1>5. MainStep => StartPath \/ StartSweepPath \/ UNCHANGED runnerVars
  BY DEF MainStep, Calibrate, LoadLobData, LoadAggTrades, EndPath, RunFails,
         Summarise, NextSweep, SheetFails, EndSweepPath, EndConfig, RowsFail, Teardown,
         CloseChannel, Join
<1>6. SendStep \/ LogStep \/ UNCHANGED vars => UNCHANGED runnerVars
  BY DEF SendStep, LogStep, vars
<1> QED
  BY <1>1, <1>2, <1>3, <1>4, <1>5, <1>6 DEF ResearchNext

-----------------------------------------------------------------------------
(* What the paths add up to: a shortfall for each, and components that     *)
(* explain them.                                                           *)
Components == {"spread", "temporary", "permanent", "timing", "opportunity"}

Gathered(a, n) ==
  /\ a.shortfalls \in Seq(Int) /\ Len(a.shortfalls) = n /\ a.path_count = n
  /\ \A f \in Components : a[f] \in Int
  /\ a.spread + a.temporary + a.permanent + a.timing + a.opportunity = SumOf(a.shortfalls)

Wrapped == {"teardown", "closing", "joining", "exit0"}

PathsUnderway ==
  \/ main = "running"
  \/ main = "next_path" /\ path_id > 0
  \/ main \in Wrapped

PathsInv ==
  ~Experiments =>
    /\ PathsUnderway =>
         /\ runner # "idle" /\ (main # "running" => runner = "done")
         /\ DOMAIN samples = DOMAIN BuildStrategies
         /\ \A i \in DOMAIN samples : \A a, n : a = samples[i] /\ n = path_id => Gathered(a, n)
    /\ main \in Wrapped /\ summary # None => DOMAIN summary = DOMAIN samples

LEMMA GatheredSame == \A a, n : Gathered(a, n)' <=> Gathered(a, n)
BY DEF Gathered

LEMMA NothingGathered == Gathered(NewSamples, 0)
<1>1. <<>> \in Seq(Int) /\ Len(<<>>) = 0
  OBVIOUS
<1> QED
  BY <1>1, EmptySum DEF Gathered, NewSamples, Components

LEMMA GatherAdds ==
  ASSUME NEW n \in Nat, NEW a, Gathered(a, n), NEW m, Books(m)
  PROVE  Gathered(Gather(a, m), n + 1)
<1> DEFINE d == IF m.trade_count = 0
                THEN [spread_cost |-> 0, temporary_impact |-> 0, permanent_impact |-> 0,
                      timing_cost |-> 0, opportunity_cost |-> 0]
                ELSE Decompose(m)
           x == Shortfall(m)
           p == a.shortfalls
           g == Gather(a, m)
           q == Append(p, x)
<1>1. /\ m.spread \in Int /\ m.temporary \in Int /\ m.permanent \in Int /\ m.timing \in Int
      /\ m.forced_cost \in Int /\ m.cumulative_cost \in Int
      /\ m.cumulative_cost = m.spread + m.temporary + m.permanent + m.timing + m.forced_cost
      /\ m.initial_notional # 0
  BY DEF Books, IsAccount, Amounts, Explained
<1>2. x = m.cumulative_cost
  BY <1>1 DEF Shortfall
<1>3. m.trade_count = 0 => m.cumulative_cost = 0
  <2> SUFFICES ASSUME m.trade_count = 0 PROVE m.cumulative_cost = 0
    OBVIOUS
  <2>1. m.per_trade_cost \in Seq(Int) /\ Len(m.per_trade_cost) <= 0 /\ m.forced_cost = 0
    BY DEF Books
  <2>2. m.per_trade_cost = <<>>
    BY <2>1
  <2>3. m.cumulative_cost = 0 + 0
    BY <2>1, <2>2, EmptySum DEF Books
  <2> QED
    BY <2>3
<1>4. /\ d.spread_cost \in Int /\ d.temporary_impact \in Int /\ d.permanent_impact \in Int
      /\ d.timing_cost \in Int /\ d.opportunity_cost \in Int
      /\ d.spread_cost + d.temporary_impact + d.permanent_impact + d.timing_cost
           + d.opportunity_cost = x
  <2>1. CASE m.trade_count = 0
    BY <1>2, <1>3, <2>1
  <2>2. CASE m.trade_count # 0
    <3>1. d.spread_cost = m.spread /\ d.temporary_impact = m.temporary
          /\ d.permanent_impact = m.permanent
          /\ d.timing_cost = m.timing /\ d.opportunity_cost = m.forced_cost
      BY <2>2 DEF Decompose
    <3> HIDE DEF d
    <3> QED
      BY <1>1, <1>2, <3>1
  <2> QED
    BY <2>1, <2>2
<1>5. /\ g.shortfalls = q /\ g.path_count = a.path_count + 1
      /\ g.spread = a.spread + d.spread_cost /\ g.temporary = a.temporary + d.temporary_impact
      /\ g.permanent = a.permanent + d.permanent_impact /\ g.timing = a.timing + d.timing_cost
      /\ g.opportunity = a.opportunity + d.opportunity_cost
  BY DEF Gather
<1> HIDE DEF d, x, p, g, q
<1>6. p \in Seq(Int) /\ x \in Int /\ Len(p) = n /\ a.path_count = n
  BY <1>1, <1>2 DEF Gathered, p
<1>7. q \in Seq(Int) /\ Len(q) = n + 1 /\ SumOf(p) \in Int /\ SumOf(q) = SumOf(p) + x
  BY <1>6, SumOfAppend DEF q
<1>8. /\ a.spread \in Int /\ a.temporary \in Int /\ a.permanent \in Int /\ a.timing \in Int
      /\ a.opportunity \in Int
      /\ a.spread + a.temporary + a.permanent + a.timing + a.opportunity = SumOf(p)
  BY DEF Gathered, Components, p
<1>9. /\ g.spread \in Int /\ g.temporary \in Int /\ g.permanent \in Int /\ g.timing \in Int
      /\ g.opportunity \in Int
  BY <1>4, <1>5, <1>8
<1>10. g.spread + g.temporary + g.permanent + g.timing + g.opportunity = SumOf(q)
  <2>1. g.spread + g.temporary + g.permanent + g.timing + g.opportunity
          = (a.spread + a.temporary + a.permanent + a.timing + a.opportunity)
              + (d.spread_cost + d.temporary_impact + d.permanent_impact + d.timing_cost
                   + d.opportunity_cost)
    BY <1>4, <1>5, <1>8, FivefoldSum
  <2> QED
    BY <1>4, <1>7, <1>8, <2>1
<1>11. \A f \in Components : g[f] \in Int
  BY <1>9 DEF Components
<1> QED
  BY <1>5, <1>6, <1>7, <1>10, <1>11 DEF Gathered, g

LEMMA PathsLeft ==
  ASSUME PathsInv, line' = line, UNCHANGED <<path_id, samples, summary>>,
         main' = main \/ (main \in Wrapped /\ main' \in Wrapped) \/ ~PathsUnderway',
         PathsUnderway /\ PathsUnderway' => runner' = runner \/ (main = "running" /\ runner' # "idle")
  PROVE  PathsInv'
<1>1. Experiments' = Experiments /\ BuildStrategies' = BuildStrategies
  BY OptionsSame
<1>2. ~PathsUnderway' => PathsInv'
  BY DEF PathsInv, PathsUnderway
<1>3. ASSUME PathsUnderway', ~Experiments
      PROVE  /\ runner' # "idle" /\ (main' # "running" => runner' = "done")
             /\ DOMAIN samples' = DOMAIN BuildStrategies
             /\ \A i \in DOMAIN samples' : \A a, n : a = samples'[i] /\ n = path_id' => Gathered(a, n)'
             /\ main' \in Wrapped /\ summary' # None => DOMAIN summary' = DOMAIN samples'
  <2>1. PathsUnderway /\ (main' \in Wrapped => main \in Wrapped)
        /\ (main = "running" <=> main' = "running")
    BY <1>3 DEF PathsUnderway, Wrapped
  <2>2. /\ runner # "idle" /\ (main # "running" => runner = "done")
        /\ DOMAIN samples = DOMAIN BuildStrategies
        /\ \A i \in DOMAIN samples : \A a, n : a = samples[i] /\ n = path_id => Gathered(a, n)
        /\ main \in Wrapped /\ summary # None => DOMAIN summary = DOMAIN samples
    BY <1>3, <2>1 DEF PathsInv
  <2> QED
    BY <1>3, <2>1, <2>2, GatheredSame
<1> QED
  BY <1>1, <1>2, <1>3 DEF PathsInv

LEMMA StartPathGathers ==
  ASSUME SweepInv, PlaceInv, PathsInv, StartPath, line' = line
  PROVE  PathsInv'
<1>1. Experiments' = Experiments /\ BuildStrategies' = BuildStrategies /\ ~Experiments
  BY OptionsSame DEF StartPath, At, PlaceInv
<1>2. /\ runner' = "stepping" /\ main = "next_path" /\ main' = "running" /\ path_id' = path_id
      /\ samples' = IF path_id = 0 THEN [i \in DOMAIN BuildStrategies |-> NewSamples] ELSE samples
  BY DEF StartPath, NewRunner, At
<1>3. CASE path_id = 0
  <2>1. DOMAIN samples' = DOMAIN BuildStrategies /\ \A i \in DOMAIN samples' : samples'[i] = NewSamples
    BY <1>2, <1>3
  <2>2. \A i \in DOMAIN samples' : \A a, n : a = samples'[i] /\ n = path_id' => Gathered(a, n)'
    BY <1>2, <1>3, <2>1, NothingGathered, GatheredSame
  <2> QED
    BY <1>1, <1>2, <2>1, <2>2 DEF PathsInv, Wrapped
<1>4. CASE path_id # 0
  <2>1. path_id > 0
    <3>1. path_id \in 0 .. NumPaths
      BY DEF SweepInv
    <3> QED
      BY <1>4, <3>1
  <2>2. /\ DOMAIN samples = DOMAIN BuildStrategies
        /\ \A i \in DOMAIN samples : \A a, n : a = samples[i] /\ n = path_id => Gathered(a, n)
    BY <1>1, <1>2, <2>1 DEF PathsInv, PathsUnderway
  <2>3. \A i \in DOMAIN samples' : \A a, n : a = samples'[i] /\ n = path_id' => Gathered(a, n)'
    BY <1>2, <1>4, <2>2, GatheredSame
  <2> QED
    BY <1>1, <1>2, <1>4, <2>2, <2>3 DEF PathsInv, Wrapped
<1> QED
  BY <1>3, <1>4

LEMMA EndPathGathers ==
  ASSUME SweepInv, PlaceInv, CostInv, ExportInv, PathsInv, EndPath, line' = line
  PROVE  PathsInv'
<1>1. Experiments' = Experiments /\ BuildStrategies' = BuildStrategies /\ ~Experiments
  BY OptionsSame DEF EndPath, At, PlaceInv
<1>2. /\ runner = "done" /\ runner' = "done" /\ main = "running" /\ main' = "next_path"
      /\ path_id' = path_id + 1
      /\ samples' = [i \in DOMAIN samples |-> Gather(samples[i], strategies[i].metrics)]
  BY DEF EndPath, At, runnerVars
<1>3. /\ DOMAIN samples = DOMAIN BuildStrategies
      /\ \A i \in DOMAIN samples : \A a, n : a = samples[i] /\ n = path_id => Gathered(a, n)
  BY <1>1, <1>2 DEF PathsInv, PathsUnderway
<1>4. DOMAIN strategies = DOMAIN samples
  BY <1>1, <1>2, <1>3 DEF ExportInv, BuiltFrom
<1>5. path_id \in Nat
  <2>1. path_id \in 0 .. NumPaths
    BY DEF SweepInv
  <2> QED
    BY <2>1
<1>6. ASSUME NEW i \in DOMAIN samples', NEW a, a = samples'[i] PROVE Gathered(a, path_id + 1)
  <2> DEFINE b == samples[i]
             m == strategies[i].metrics
  <2>1. a = Gather(b, m) /\ i \in DOMAIN samples
    BY <1>2, <1>6
  <2>2. Gathered(b, path_id) /\ Books(m)
    BY <1>3, <1>4, <2>1 DEF CostInv, EveryoneKeeps, Trades
  <2> HIDE DEF b, m
  <2> QED
    BY <1>5, <2>1, <2>2, GatherAdds
<1>7. \A i \in DOMAIN samples' : \A a, n : a = samples'[i] /\ n = path_id' => Gathered(a, n)'
  BY <1>2, <1>6, GatheredSame
<1>8. DOMAIN samples' = DOMAIN BuildStrategies
  BY <1>2, <1>3
<1> QED
  BY <1>1, <1>2, <1>7, <1>8 DEF PathsInv, Wrapped

LEMMA SummariseGathers ==
  ASSUME LoadInv, SweepInv, PlaceInv, PathsInv, Summarise, line' = line
  PROVE  PathsInv'
<1>1. Experiments' = Experiments /\ BuildStrategies' = BuildStrategies /\ ~Experiments
  BY OptionsSame DEF Summarise, At, PlaceInv
<1>2. /\ main = "next_path" /\ main' = "teardown" /\ path_id = NumPaths
      /\ UNCHANGED <<path_id, samples, runner>>
      /\ summary' = [i \in DOMAIN samples |-> SummaryOf(samples[i])] \/ summary' = None
  BY DEF Summarise, At, runnerVars
<1>3. path_id > 0
  BY <1>2, NumPathsCount DEF LoadInv
<1>4. /\ runner = "done" /\ DOMAIN samples = DOMAIN BuildStrategies
      /\ \A i \in DOMAIN samples : \A a, n : a = samples[i] /\ n = path_id => Gathered(a, n)
  BY <1>1, <1>2, <1>3 DEF PathsInv, PathsUnderway
<1>5. \A i \in DOMAIN samples' : \A a, n : a = samples'[i] /\ n = path_id' => Gathered(a, n)'
  BY <1>2, <1>4, GatheredSame
<1>6. summary' # None => DOMAIN summary' = DOMAIN samples'
  BY <1>2
<1> QED
  BY <1>1, <1>2, <1>4, <1>5, <1>6 DEF PathsInv

LEMMA PathsKept ==
  ASSUME TypeInv, CostInv, LogInv, ExportInv, PathsInv, [ResearchNext]_vars
  PROVE  PathsInv'
<1>0. line' = line /\ LoadInv /\ SweepInv /\ PlaceInv
  BY LineStays DEF TypeInv, LogInv
<1>1. CASE StartPath
  BY <1>0, <1>1, StartPathGathers
<1>2. CASE EndPath
  BY <1>0, <1>2, EndPathGathers
<1>3. CASE Summarise
  BY <1>0, <1>3, SummariseGathers
<1>4. CASE Calibrate \/ LoadLobData \/ LoadAggTrades \/ RunFails
  <2>1. UNCHANGED <<path_id, samples, summary>>
        /\ main' \in {"load_lob", "load_trades", "next_sweep", "next_path", "exit1"}
        /\ (main' = "next_path" => main = "load_trades")
    BY <1>4 DEF Calibrate, LoadLobData, LoadAggTrades, RunFails, ExitOne, At
  <2>2. ~PathsUnderway'
    BY <1>0, <2>1 DEF PlaceInv, PathsUnderway, Wrapped
  <2> QED
    BY <1>0, <2>1, <2>2, PathsLeft
<1>5. CASE NextSweep \/ SheetFails \/ StartSweepPath \/ EndSweepPath \/ EndConfig \/ RowsFail
  <2>1. Experiments
    BY <1>0, <1>5 DEF NextSweep, SheetFails, StartSweepPath, EndSweepPath, EndConfig, RowsFail, At,
                      PlaceInv
  <2> QED
    BY <1>0, <2>1, OptionsSame DEF PathsInv
<1>6. CASE Teardown \/ CloseChannel \/ Join
  <2>1. UNCHANGED <<path_id, samples, summary, runner>> /\ main \in Wrapped /\ main' \in Wrapped
    BY <1>6 DEF Teardown, CloseChannel, Join, At, Wrapped, runnerVars
  <2> QED
    BY <1>0, <2>1, PathsLeft
<1>7. CASE RunStep
  <2>1. UNCHANGED <<path_id, samples, summary, main>>
    BY <1>7 DEF RunStep, researchVars
  <2>2. runner \in {"stepping", "closing"} /\ runner' # "idle"
    BY <1>7 DEF RunStep, RunnerStep, BeginStep, Spin, CarryForward, OnBlock, BlockFails, EndStep,
                CloseRun, HasTurn
  <2>3. PathsUnderway /\ ~Experiments => main = "running"
    BY <2>2 DEF PathsInv
  <2>4. CASE Experiments
    BY <1>0, <2>4, OptionsSame DEF PathsInv
  <2>5. CASE ~Experiments
    BY <1>0, <2>1, <2>2, <2>3, <2>5, PathsLeft
  <2> QED
    BY <2>4, <2>5
<1>8. CASE SendStep \/ LogStep \/ UNCHANGED vars
  <2>1. UNCHANGED <<path_id, samples, summary, main, runner>>
    BY <1>8 DEF SendStep, LogStep, vars, researchVars, runnerVars
  <2> QED
    BY <1>0, <2>1, PathsLeft
<1> QED
  BY <1>1, <1>2, <1>3, <1>4, <1>5, <1>6, <1>7, <1>8 DEF ResearchNext, MainStep

-----------------------------------------------------------------------------
(* What a sweep writes: a row for every value and strategy, over all       *)
(* paths, its statistics in order.                                         *)
Sampled(a, n) ==
  /\ {"shortfalls", "objectives"} \subseteq DOMAIN a
  /\ a.shortfalls \in Seq(Int) /\ Len(a.shortfalls) = n
  /\ a.objectives \in Seq(Int) /\ Len(a.objectives) = n

RowInOrder(row, n) ==
  row.shortfall.count = n /\ StatsOrdered(row.shortfall) /\ StatsOrdered(row.ac_objective)

Sheet(t, n, rows) == IsSeq(t) /\ Len(t) = rows /\ \A r \in 1 .. rows : RowInOrder(t[r], n)

Sweeping == main \in {"next_sweep_path", "sweep_running"}
Written(s) == IF Sweeping /\ s = sweep THEN value - 1 ELSE Len(Grids[s])

SheetsInv ==
  Experiments =>
    /\ Sweeping =>
         /\ main = "sweep_running" => runner # "idle"
         /\ DOMAIN samples = DOMAIN Lineup
         /\ \A i \in DOMAIN samples : \A a, n : a = samples[i] /\ n = path_id => Sampled(a, n)
    /\ main # "exit1" =>
         /\ IsSeq(sheets) /\ Len(sheets) = sweep
         /\ \A s \in 1 .. sweep : \A t, n, k :
              t = sheets[s] /\ n = NumPaths /\ k = Written(s) * Len(Lineup) => Sheet(t, n, k)
    /\ main \in Wrapped => sweep = 4 /\ progress_done = TotalPaths

LEMMA SampledSame == \A a, n : Sampled(a, n)' <=> Sampled(a, n)
BY DEF Sampled

LEMMA SheetSame == \A t, n, k : Sheet(t, n, k)' <=> Sheet(t, n, k)
BY DEF Sheet, IsSeq, RowInOrder, StatsOrdered

LEMMA NothingSampled == Sampled(NewSamples, 0)
<1>1. <<>> \in Seq(Int) /\ Len(<<>>) = 0
  OBVIOUS
<1> QED
  BY <1>1 DEF Sampled, NewSamples

LEMMA SampleAdds ==
  ASSUME NEW n \in Nat, NEW a, Sampled(a, n), NEW x \in Int, NEW y \in Int, NEW b,
         b = [a EXCEPT !.shortfalls = Append(@, x), !.objectives = Append(@, y)]
  PROVE  Sampled(b, n + 1)
<1> DEFINE p == a.shortfalls
           q == a.objectives
<1>1. /\ b.shortfalls = Append(p, x) /\ b.objectives = Append(q, y) /\ DOMAIN b = DOMAIN a
      /\ {"shortfalls", "objectives"} \subseteq DOMAIN a
  BY DEF Sampled
<1>2. p \in Seq(Int) /\ q \in Seq(Int) /\ Len(p) = n /\ Len(q) = n
  BY DEF Sampled
<1> HIDE DEF p, q
<1>3. /\ Append(p, x) \in Seq(Int) /\ Len(Append(p, x)) = n + 1
      /\ Append(q, y) \in Seq(Int) /\ Len(Append(q, y)) = n + 1
  BY <1>2, IntAppended
<1> QED
  BY <1>1, <1>3 DEF Sampled

LEMMA OutcomesAreNumbers ==
  ASSUME NEW m, Books(m)
  PROVE  Shortfall(m) \in Int /\ AcObjective(m) \in Int
<1> DEFINE c == m.cumulative_cost
           p == m.risk_penalty
           v == m.initial_notional
<1>1. c \in Int /\ p \in Int /\ v \in Nat \ {0}
  BY DEF Books, IsAccount, Amounts
<1> HIDE DEF c, p, v
<1>2. c + p \div v \in Int
  BY <1>1
<1> QED
  BY <1>1, <1>2 DEF Shortfall, AcObjective, c, p, v

LEMMA SheetsGlued ==
  ASSUME NEW n, NEW k, NEW l, NEW a, NEW b, Sheet(a, n, k), Sheet(b, n, l)
  PROVE  Sheet(Glued(a, b), n, k + l)
<1> DEFINE S == Range(a) \cup Range(b)
           c == Glued(a, b)
<1>1. a \in Seq(S) /\ b \in Seq(S)
  BY SeqWithin DEF Sheet
<1>2. Len(a) = k /\ Len(b) = l /\ k \in Nat /\ l \in Nat
  BY <1>1 DEF Sheet
<1> HIDE DEF S
<1>3. /\ c \in Seq(S) /\ Len(c) = k + l
      /\ \A r \in 1 .. k + l : c[r] = IF r <= k THEN a[r] ELSE b[r - k]
  BY <1>1, <1>2 DEF Glued
<1> HIDE DEF c
<1>4. IsSeq(c)
  BY <1>3, SeqOfSet
<1>5. ASSUME NEW r \in 1 .. k + l PROVE RowInOrder(c[r], n)
  <2>1. CASE r <= k
    <3>1. r \in 1 .. k /\ c[r] = a[r]
      BY <1>2, <1>3, <2>1
    <3> QED
      BY <3>1 DEF Sheet
  <2>2. CASE ~(r <= k)
    <3>1. r - k \in 1 .. l /\ c[r] = b[r - k]
      BY <1>2, <1>3, <2>2
    <3> QED
      BY <3>1 DEF Sheet
  <2> QED
    BY <2>1, <2>2
<1>6. Sheet(c, n, k + l)
  BY <1>3, <1>4, <1>5 DEF Sheet
<1> QED
  BY <1>6 DEF c

(* The rows of a value. *)
LEMMA RowsOfValue ==
  ASSUME LoadInv, SheetsInv, Experiments, Sweeping, path_id = NumPaths,
         NEW new, new = [i \in DOMAIN Lineup |-> SweepRow(i)]
  PROVE  Sheet(new, NumPaths, Len(Lineup)) /\ Len(Lineup) \in Nat
<1>1. DOMAIN Lineup = 1 .. Len(Lineup) /\ Len(Lineup) \in Nat
  BY ResearchAssumption
<1>2. NumPaths \in Nat \ {0}
  BY NumPathsCount DEF LoadInv
<1>3. ASSUME NEW i \in DOMAIN Lineup PROVE RowInOrder(SweepRow(i), NumPaths)
  <2> DEFINE p == samples[i].shortfalls
             q == samples[i].objectives
             row == SweepRow(i)
  <2>1. p \in Seq(Int) /\ q \in Seq(Int) /\ Len(p) = NumPaths /\ Len(q) = NumPaths
    BY <1>3 DEF SheetsInv, Sampled
  <2>2. row.shortfall = DistributionStats(p) /\ row.ac_objective = DistributionStats(q)
    BY DEF SweepRow
  <2> HIDE DEF p, q, row
  <2>3. p # <<>> /\ q # <<>>
    BY <1>2, <2>1
  <2>4. /\ DistributionStats(p).count = Len(p) /\ StatsOrdered(DistributionStats(p))
        /\ StatsOrdered(DistributionStats(q))
    BY <2>1, <2>3, StatisticsInOrder
  <2>5. RowInOrder(row, NumPaths)
    BY <2>1, <2>2, <2>4 DEF RowInOrder
  <2> QED
    BY <2>5 DEF row
<1>4. /\ new = [k \in 1 .. Len(Lineup) |-> new[k]]
      /\ \A k \in 1 .. Len(Lineup) : new[k] = SweepRow(k)
  BY <1>1
<1>5. IsSeq(new) /\ Len(new) = Len(Lineup)
  BY <1>1, <1>4, FunctionIsSeq
<1> QED
  BY <1>1, <1>3, <1>4, <1>5 DEF Sheet

(* A step that writes nothing. *)
LEMMA SheetsLeft ==
  ASSUME SheetsInv, UNCHANGED <<line, path_id, samples, sheets, sweep, value, progress_done>>,
         main # "exit1", main' = "exit1" \/ (Sweeping' <=> Sweeping),
         main' \in Wrapped => main \in Wrapped,
         main' = "sweep_running" => runner' # "idle"
  PROVE  SheetsInv'
<1>1. Experiments' = Experiments /\ NumPaths' = NumPaths /\ TotalPaths' = TotalPaths
  BY OptionsSame DEF TotalPaths
<1>2. main' # "exit1" => \A s \in 1 .. sweep : Written(s)' = Written(s)
  BY DEF Written
<1>3. ASSUME Experiments, Sweeping'
      PROVE  /\ DOMAIN samples' = DOMAIN Lineup
             /\ \A i \in DOMAIN samples' : \A a, n : a = samples'[i] /\ n = path_id' => Sampled(a, n)'
  <2>1. main' # "exit1"
    BY <1>3 DEF Sweeping
  <2>2. Sweeping
    BY <1>3, <2>1
  <2> QED
    BY <1>3, <2>2, SampledSame DEF SheetsInv
<1>4. ASSUME Experiments, main' # "exit1"
      PROVE  /\ IsSeq(sheets)' /\ Len(sheets') = sweep'
             /\ \A s \in 1 .. sweep' : \A t, n, k :
                  t = sheets'[s] /\ n = NumPaths' /\ k = Written(s)' * Len(Lineup) => Sheet(t, n, k)'
  <2>1. IsSeq(sheets)'
    BY <1>4 DEF SheetsInv, IsSeq
  <2> QED
    BY <1>1, <1>2, <1>4, <2>1, SheetSame DEF SheetsInv
<1>5. Experiments /\ main' \in Wrapped => sweep' = 4 /\ progress_done' = TotalPaths'
  BY <1>1 DEF SheetsInv
<1> QED
  BY <1>1, <1>3, <1>4, <1>5 DEF SheetsInv

LEMMA EndSweepPathSamples ==
  ASSUME SweepInv, PlaceInv, CostInv, ExportInv, SheetsInv, EndSweepPath, line' = line
  PROVE  SheetsInv'
<1>1. Experiments' = Experiments /\ NumPaths' = NumPaths /\ Experiments
  BY OptionsSame DEF EndSweepPath, At, PlaceInv
<1>2. /\ runner = "done" /\ main = "sweep_running" /\ main' = "next_sweep_path"
      /\ path_id' = path_id + 1 /\ UNCHANGED <<sheets, sweep, value, progress_done>>
      /\ samples' = [i \in DOMAIN samples |->
           [samples[i] EXCEPT !.shortfalls = Append(@, Shortfall(strategies[i].metrics)),
                              !.objectives = Append(@, AcObjective(strategies[i].metrics))]]
  BY DEF EndSweepPath, At
<1>3. Sweeping /\ Sweeping'
  BY <1>2 DEF Sweeping
<1>4. /\ DOMAIN samples = DOMAIN Lineup
      /\ \A i \in DOMAIN samples : \A a, n : a = samples[i] /\ n = path_id => Sampled(a, n)
  BY <1>1, <1>3 DEF SheetsInv
<1>5. DOMAIN strategies = DOMAIN samples
  BY <1>1, <1>2, <1>4 DEF ExportInv, BuiltFrom
<1>6. path_id \in Nat
  <2>1. path_id \in 0 .. NumPaths
    BY DEF SweepInv
  <2> QED
    BY <2>1
<1>7. ASSUME NEW i \in DOMAIN samples', NEW a, a = samples'[i] PROVE Sampled(a, path_id + 1)
  <2> DEFINE b == samples[i]
             m == strategies[i].metrics
  <2>1. /\ i \in DOMAIN samples
        /\ a = [b EXCEPT !.shortfalls = Append(@, Shortfall(m)),
                         !.objectives = Append(@, AcObjective(m))]
    BY <1>2, <1>7
  <2>2. Sampled(b, path_id) /\ Books(m)
    BY <1>4, <1>5, <2>1 DEF CostInv, EveryoneKeeps, Trades
  <2> HIDE DEF b, m
  <2>3. Shortfall(m) \in Int /\ AcObjective(m) \in Int
    BY <2>2, OutcomesAreNumbers
  <2> QED
    BY <1>6, <2>1, <2>2, <2>3, SampleAdds
<1>8. /\ DOMAIN samples' = DOMAIN Lineup
      /\ \A i \in DOMAIN samples' : \A a, n : a = samples'[i] /\ n = path_id' => Sampled(a, n)'
  <2>1. DOMAIN samples' = DOMAIN samples /\ path_id' = path_id + 1
    BY <1>2
  <2> QED
    BY <1>4, <1>7, <2>1, SampledSame
<1>9. \A s \in 1 .. sweep : Written(s)' = Written(s)
  BY <1>2, <1>3 DEF Written
<1>10. /\ IsSeq(sheets)' /\ Len(sheets') = sweep'
       /\ \A s \in 1 .. sweep' : \A t, n, k :
            t = sheets'[s] /\ n = NumPaths' /\ k = Written(s)' * Len(Lineup) => Sheet(t, n, k)'
  <2>1. IsSeq(sheets)'
    BY <1>1, <1>2 DEF SheetsInv, IsSeq
  <2> QED
    BY <1>1, <1>2, <1>9, <2>1, SheetSame DEF SheetsInv
<1> QED
  BY <1>2, <1>8, <1>10 DEF SheetsInv, Wrapped

(* A sweep begins, or the last is done. *)
LEMMA NextSweepOpens ==
  ASSUME LoadInv, SweepInv, PlaceInv, SheetsInv, NextSweep, line' = line
  PROVE  SheetsInv'
<1>1. Experiments' = Experiments /\ NumPaths' = NumPaths /\ Experiments /\ TotalPaths' = TotalPaths
  BY OptionsSame DEF NextSweep, At, PlaceInv, TotalPaths
<1>2. main = "next_sweep" /\ progress_done' = progress_done
  BY DEF NextSweep, At
<1>3. /\ IsSeq(sheets) /\ Len(sheets) = sweep
      /\ \A s \in 1 .. sweep : \A t, n, k :
           t = sheets[s] /\ n = NumPaths /\ k = Written(s) * Len(Lineup) => Sheet(t, n, k)
  BY <1>1, <1>2 DEF SheetsInv
<1>4. \A s \in 1 .. sweep : Written(s) = Len(Grids[s])
  BY <1>2 DEF Written, Sweeping
<1>5. CASE sweep = Len(Grids)
  <2>1. main' = "teardown" /\ UNCHANGED <<sweep, value, sheets, path_id, samples>>
    BY <1>5 DEF NextSweep
  <2>2. sweep = 4 /\ progress_done = TotalPaths
    <3>1. sweep = 4
      BY <1>5, GridsTyped
    <3>2. progress_done = NumPaths * ValuesIn(sweep)
      BY <1>2 DEF SweepInv
    <3> QED
      BY <3>1, <3>2, TotalIsAll DEF LoadInv
  <2>3. \A s \in 1 .. sweep : Written(s)' = Written(s)
    BY <1>4, <2>1 DEF Written, Sweeping
  <2>4. IsSeq(sheets)' /\ ~Sweeping'
    BY <1>3, <2>1 DEF IsSeq, Sweeping
  <2>5. \A s \in 1 .. sweep' : \A t, n, k :
          t = sheets'[s] /\ n = NumPaths' /\ k = Written(s)' * Len(Lineup) => Sheet(t, n, k)'
    BY <1>1, <1>3, <2>1, <2>3, SheetSame
  <2> QED
    BY <1>1, <1>2, <1>3, <2>1, <2>2, <2>4, <2>5 DEF SheetsInv
<1>6. CASE sweep # Len(Grids)
  <2>1. /\ main' = "next_sweep_path" /\ sweep' = sweep + 1 /\ value' = 1
        /\ sheets' = Append(sheets, <<>>) /\ path_id' = 0
        /\ samples' = [i \in DOMAIN Lineup |-> NewSamples]
    BY <1>6 DEF NextSweep
  <2>2. sweep \in Nat
    <3>1. sweep \in 0 .. 4
      BY DEF SweepInv
    <3> QED
      BY <3>1
  <2>3. /\ IsSeq(sheets') /\ Len(sheets') = sweep + 1 /\ sheets'[sweep + 1] = <<>>
        /\ \A s \in 1 .. sweep : sheets'[s] = sheets[s]
    BY <1>3, <2>1, <2>2, AppendSeq
  <2>4. /\ DOMAIN samples' = DOMAIN Lineup
        /\ \A i \in DOMAIN samples' : \A a, n : a = samples'[i] /\ n = path_id' => Sampled(a, n)'
    BY <2>1, NothingSampled, SampledSame
  <2>5. Sheet(<<>>, NumPaths, 0)
    <3>1. IsSeq(<<>>) /\ Len(<<>>) = 0 /\ 1 .. 0 = {}
      BY DEF IsSeq
    <3> QED
      BY <3>1 DEF Sheet
  <2>6. ASSUME NEW s \in 1 .. sweep', NEW t, NEW k, t = sheets'[s], k = Written(s)' * Len(Lineup)
        PROVE  Sheet(t, NumPaths, k)
    <3>1. CASE s = sweep + 1
      <4>1. Written(s)' = 1 - 1
        BY <2>1, <3>1 DEF Written, Sweeping
      <4>2. Len(Lineup) \in Nat
        BY ResearchAssumption
      <4>3. k = 0
        BY <2>6, <4>1, <4>2
      <4>4. t = <<>>
        BY <2>3, <2>6, <3>1
      <4> QED
        BY <2>5, <4>3, <4>4
    <3>2. CASE s # sweep + 1
      <4>1. s \in 1 .. sweep
        BY <2>1, <2>2, <3>2
      <4>2. Written(s)' = Written(s)
        BY <1>4, <2>1, <3>2, <4>1 DEF Written
      <4> QED
        BY <1>3, <2>3, <2>6, <4>1, <4>2
    <3> QED
      BY <3>1, <3>2
  <2>7. \A s \in 1 .. sweep' : \A t, n, k :
          t = sheets'[s] /\ n = NumPaths' /\ k = Written(s)' * Len(Lineup) => Sheet(t, n, k)'
    BY <1>1, <2>6, SheetSame
  <2>8. IsSeq(sheets)' /\ Len(sheets') = sweep'
    BY <2>1, <2>3 DEF IsSeq
  <2> QED
    BY <1>1, <2>1, <2>4, <2>7, <2>8 DEF SheetsInv, Wrapped
<1> QED
  BY <1>5, <1>6

(* A value is done: its rows are written. *)
LEMMA EndConfigWrites ==
  ASSUME LoadInv, SweepInv, PlaceInv, SheetsInv, EndConfig, line' = line
  PROVE  SheetsInv'
<1> DEFINE new == SweepRows
           old == sheets[sweep]
           L == Len(Lineup)
<1>1. Experiments' = Experiments /\ NumPaths' = NumPaths /\ Experiments
  BY OptionsSame DEF EndConfig, At, PlaceInv
<1>2. /\ main = "next_sweep_path" /\ path_id = NumPaths /\ path_id' = 0 /\ sweep' = sweep
      /\ samples' = [i \in DOMAIN Lineup |-> NewSamples]
      /\ value' = (IF value = Len(Grid) THEN value ELSE value + 1)
      /\ main' = (IF value = Len(Grid) THEN "next_sweep" ELSE "next_sweep_path")
      /\ sheets' = [sheets EXCEPT ![sweep] = Glued(old, new)]
  BY DEF EndConfig, At, Glued
<1>3. Sweeping /\ sweep \in 1 .. 4 /\ value \in 1 .. Len(Grid) /\ Grid = Grids[sweep]
  BY <1>2 DEF Sweeping, SweepInv, Grid
<1>4. value \in Nat \ {0} /\ sweep \in Nat
  <2>1. Len(Grid) \in Nat
    BY <1>3, GridsTyped
  <2> QED
    BY <1>3, <2>1
<1>5. /\ IsSeq(sheets) /\ Len(sheets) = sweep
      /\ \A s \in 1 .. sweep : \A t, n, k :
           t = sheets[s] /\ n = NumPaths /\ k = Written(s) * L => Sheet(t, n, k)
  BY <1>1, <1>2 DEF SheetsInv
<1>6. Sheet(new, NumPaths, L) /\ L \in Nat
  BY <1>1, <1>2, <1>3, RowsOfValue DEF SweepRows
<1> HIDE DEF new, old, L
<1>7. sweep \in 1 .. sweep /\ Written(sweep) = value - 1
  BY <1>3, <1>4 DEF Written
<1>8. Sheet(old, NumPaths, (value - 1) * L)
  BY <1>5, <1>7 DEF old
<1>9. (value - 1) * L + L = value * L
  BY <1>4, <1>6
<1>10. Sheet(Glued(old, new), NumPaths, value * L)
  BY <1>6, <1>8, <1>9, SheetsGlued
<1>11. ASSUME NEW s, s = sweep PROVE Written(s)' = value
  <2>1. CASE value = Len(Grid)
    BY <1>2, <1>3, <1>11, <2>1 DEF Written, Sweeping
  <2>2. CASE value # Len(Grid)
    <3>1. Written(s)' = (value + 1) - 1
      BY <1>2, <1>11, <2>2 DEF Written, Sweeping
    <3> QED
      BY <1>4, <3>1
  <2> QED
    BY <2>1, <2>2
<1>12. \A s \in 1 .. sweep : s # sweep => Written(s)' = Written(s)
  BY <1>2 DEF Written
<1>13. /\ DOMAIN sheets' = DOMAIN sheets /\ DOMAIN sheets = 1 .. sweep
       /\ sheets'[sweep] = Glued(old, new)
       /\ \A s \in 1 .. sweep : s # sweep => sheets'[s] = sheets[s]
  BY <1>2, <1>5, <1>7 DEF IsSeq
<1>14. IsSeq(sheets') /\ Len(sheets') = sweep
  <2>1. sheets' = [s \in 1 .. sweep |-> sheets'[s]]
    BY <1>2, <1>13
  <2> DEFINE f == sheets'
  <2> HIDE DEF f
  <2>2. f = [s \in 1 .. sweep |-> f[s]]
    BY <2>1 DEF f
  <2>3. IsSeq(f) /\ Len(f) = sweep
    BY <1>4, <2>2, FunctionIsSeq
  <2> QED
    BY <2>3 DEF f
<1>15. ASSUME NEW s \in 1 .. sweep, NEW t, NEW k, t = sheets'[s], k = Written(s)' * L
       PROVE  Sheet(t, NumPaths, k)
  <2>1. CASE s = sweep
    <3>1. t = Glued(old, new) /\ k = value * L
      BY <1>11, <1>13, <1>15, <2>1
    <3> QED
      BY <1>10, <3>1
  <2>2. CASE s # sweep
    BY <1>5, <1>12, <1>13, <1>15, <2>2
  <2> QED
    BY <2>1, <2>2
<1>16. \A s \in 1 .. sweep' : \A t, n, k :
         t = sheets'[s] /\ n = NumPaths' /\ k = Written(s)' * Len(Lineup) => Sheet(t, n, k)'
  BY <1>1, <1>2, <1>15, SheetSame DEF L
<1>17. /\ DOMAIN samples' = DOMAIN Lineup
       /\ \A i \in DOMAIN samples' : \A a, n : a = samples'[i] /\ n = path_id' => Sampled(a, n)'
  BY <1>2, NothingSampled, SampledSame
<1>18. IsSeq(sheets)' /\ Len(sheets') = sweep' /\ main' \notin Wrapped /\ main' # "sweep_running"
  BY <1>2, <1>14 DEF IsSeq, Wrapped
<1> QED
  BY <1>16, <1>17, <1>18 DEF SheetsInv

LEMMA SheetsKept ==
  ASSUME TypeInv, CostInv, LogInv, ExportInv, SheetsInv, [ResearchNext]_vars
  PROVE  SheetsInv'
<1>0. line' = line /\ LoadInv /\ SweepInv /\ PlaceInv
  BY LineStays DEF TypeInv, LogInv
<1>1. CASE EndSweepPath
  BY <1>0, <1>1, EndSweepPathSamples
<1>2. CASE NextSweep
  BY <1>0, <1>2, NextSweepOpens
<1>3. CASE EndConfig
  BY <1>0, <1>3, EndConfigWrites
<1>4. CASE Calibrate \/ LoadLobData \/ LoadAggTrades \/ RunFails \/ StartSweepPath
             \/ Teardown \/ CloseChannel \/ Join
  <2>1. UNCHANGED <<line, path_id, samples, sheets, sweep, value, progress_done>>
    BY <1>4 DEF Calibrate, LoadLobData, LoadAggTrades, RunFails, StartSweepPath,
                Teardown, CloseChannel, Join
  <2>2. main # "exit1" /\ (main' \in Wrapped => main \in Wrapped)
    BY <1>4 DEF Calibrate, LoadLobData, LoadAggTrades, RunFails, StartSweepPath,
                Teardown, CloseChannel, Join, ExitOne, At, Wrapped
  <2>3. main' = "exit1" \/ (Sweeping' <=> Sweeping)
    BY <1>4 DEF Calibrate, LoadLobData, LoadAggTrades, RunFails, StartSweepPath,
                Teardown, CloseChannel, Join, ExitOne, At, Sweeping
  <2>4. main' = "sweep_running" => runner' # "idle"
    BY <1>4 DEF Calibrate, LoadLobData, LoadAggTrades, RunFails, StartSweepPath,
                Teardown, CloseChannel, Join, ExitOne, At, NewRunner
  <2> QED
    BY <2>1, <2>2, <2>3, <2>4, SheetsLeft
<1>8. CASE SheetFails \/ RowsFail
  <2>1. main' = "exit1" /\ ~Sweeping' /\ main' \notin Wrapped
    BY <1>8 DEF SheetFails, RowsFail, ExitOne, Sweeping, Wrapped
  <2> QED
    BY <2>1 DEF SheetsInv
<1>5. CASE StartPath \/ EndPath \/ Summarise
  <2>1. ~Experiments
    BY <1>0, <1>5 DEF StartPath, EndPath, Summarise, At, PlaceInv
  <2> QED
    BY <1>0, <2>1, OptionsSame DEF SheetsInv
<1>6. CASE ~Ended /\ (RunStep \/ SendStep \/ LogStep)
  <2>1. UNCHANGED <<line, path_id, samples, sheets, sweep, value, progress_done, main>>
    BY <1>6 DEF RunStep, SendStep, LogStep, researchVars
  <2>2. main # "exit1"
    BY <1>6 DEF Ended
  <2>3. CASE RunStep
    <3>1. runner' # "idle"
      BY <2>3 DEF RunStep, RunnerStep, BeginStep, Spin, CarryForward, OnBlock, BlockFails, EndStep,
                  CloseRun, HasTurn
    <3> QED
      BY <2>1, <2>2, <3>1, SheetsLeft DEF Sweeping
  <2>4. CASE SendStep \/ LogStep
    <3>1. runner' = runner
      BY <2>4 DEF SendStep, LogStep, runnerVars
    <3>2. CASE Experiments
      <4>1. main' = "sweep_running" => runner' # "idle"
        BY <2>1, <3>1, <3>2 DEF SheetsInv, Sweeping
      <4> QED
        BY <2>1, <2>2, <4>1, SheetsLeft DEF Sweeping
    <3>3. CASE ~Experiments
      BY <1>0, <3>3, OptionsSame DEF SheetsInv
    <3> QED
      BY <3>2, <3>3
  <2> QED
    BY <1>6, <2>3, <2>4
<1>7. CASE UNCHANGED vars
  <2>1. UNCHANGED <<line, path_id, samples, sheets, sweep, value, progress_done, main, runner>>
    BY <1>7 DEF vars, researchVars, runnerVars
  <2>2. CASE main = "exit1"
    BY <1>0, <2>1, <2>2, OptionsSame DEF SheetsInv, Sweeping, Wrapped
  <2>3. CASE Experiments /\ main # "exit1"
    <3>1. main' = "sweep_running" => runner' # "idle"
      BY <2>1, <2>3 DEF SheetsInv, Sweeping
    <3> QED
      BY <2>1, <2>3, <3>1, SheetsLeft DEF Sweeping
  <2>4. CASE ~Experiments
    BY <1>0, <2>4, OptionsSame DEF SheetsInv
  <2> QED
    BY <2>2, <2>3, <2>4
<1> QED
  BY <1>1, <1>2, <1>3, <1>4, <1>5, <1>6, <1>7, <1>8 DEF ResearchNext, MainStep

-----------------------------------------------------------------------------
(* All that is written, on the way to the exit.                            *)
OutInv == ExportInv /\ PathsInv /\ SheetsInv

LEMMA NothingOut ==
  ASSUME ResearchInit
  PROVE  OutInv
<1>1. main = "calibrate" /\ runner = "idle" /\ history = <<>> /\ sheets = <<>> /\ sweep = 0
  BY DEF ResearchInit, RunnerInit
<1>2. IsSeq(<<>>) /\ Len(<<>>) = 0 /\ DOMAIN <<>> = {} /\ 1 .. 0 = {}
  BY DEF IsSeq
<1>3. ExportInv
  BY <1>1, <1>2 DEF ExportInv
<1>4. PathsInv
  BY <1>1 DEF PathsInv, PathsUnderway, Wrapped
<1>5. SheetsInv
  BY <1>1, <1>2 DEF SheetsInv, Sweeping, Wrapped
<1> QED
  BY <1>3, <1>4, <1>5 DEF OutInv

(* The outputs are built up without a gap: what a run exports, what the    *)
(* paths add up to and what a sweep has written are complete for as far    *)
(* as the main thread is (research_sim.rs, experiments.rs, export_csv).    *)
THEOREM OutputInvariance == ResearchSpec => []OutInv
<1>1. ResearchInit => OutInv
  BY NothingOut
<1>2. InventoryInv /\ FairInv /\ StepInv /\ TypeInv /\ CostInv /\ LogInv /\ OutInv
        /\ InventoryInv' /\ CostInv' /\ [ResearchNext]_vars
        => OutInv'
  BY ExportKept, PathsKept, SheetsKept DEF OutInv
<1> QED
  BY <1>1, <1>2, InventoryInvariance, FairInvariance, StepInvariance, TypeInvariance,
     CostInvariance, LogInvariance, PTL DEF ResearchSpec

LEMMA ComparisonWritten ==
  ASSUME TypeInv, LogInv, OutInv, main = "exit0", ~Experiments
  PROVE  ComparisonOutputs
<1>1. path_id = NumPaths
  BY DEF LogInv, PlaceInv
<1>2. PathsUnderway /\ main \in Wrapped
  BY DEF PathsUnderway, Wrapped
<1>3. /\ runner = "done" /\ (summary # None => DOMAIN summary = DOMAIN BuildStrategies)
      /\ \A i \in DOMAIN samples : Gathered(samples[i], NumPaths)
  BY <1>1, <1>2 DEF OutInv, PathsInv
<1>4. setup.results = "writable"
  BY <1>3 DEF OutInv, ExportInv, BuiltFrom
<1>5. Exported
  BY <1>3, <1>4 DEF OutInv, ExportInv
<1> QED
  BY <1>3, <1>5 DEF ComparisonOutputs, Gathered, Exported

LEMMA SweepsWritten ==
  ASSUME TypeInv, OutInv, main = "exit0", Experiments
  PROVE  SweepOutputs
<1>1. main \in Wrapped /\ ~Sweeping /\ main # "exit1"
  BY DEF Wrapped, Sweeping
<1>2. /\ sweep = 4 /\ progress_done = TotalPaths /\ Len(sheets) = 4
      /\ \A s \in 1 .. 4 : \A t, n, k :
           t = sheets[s] /\ n = NumPaths /\ k = Written(s) * Len(Lineup) => Sheet(t, n, k)
  BY <1>1 DEF OutInv, SheetsInv
<1>3. \A s \in 1 .. 4 : Written(s) = Len(Grids[s])
  BY <1>1 DEF Written
<1>4. ASSUME NEW s \in 1 .. 4
      PROVE  /\ Len(sheets[s]) = Len(Grids[s]) * Len(Lineup)
             /\ \A r \in DOMAIN sheets[s] : RowInOrder(sheets[s][r], NumPaths)
  <2> DEFINE t == sheets[s]
             k == Len(Grids[s]) * Len(Lineup)
  <2>1. Sheet(t, NumPaths, k)
    BY <1>2, <1>3
  <2> HIDE DEF t, k
  <2>2. Len(t) = k /\ DOMAIN t = 1 .. k
    BY <2>1 DEF Sheet, IsSeq
  <2>3. \A r \in DOMAIN t : RowInOrder(t[r], NumPaths)
    BY <2>1, <2>2 DEF Sheet
  <2> QED
    BY <2>2, <2>3 DEF t, k
<1> QED
  BY <1>2, <1>4, GridsTyped DEF SweepOutputs, RowInOrder

(* A program that ends well leaves nothing half done, whatever the command *)
(* line, the number of paths, the grids and the writes that fail on the    *)
(* way: sums over all paths with components that explain the shortfalls, a *)
(* summary of every strategy if there is one at all, and a comparison.csv  *)
(* without holes, or four sheets with ordered statistics per value and     *)
(* strategy (research_sim.rs 889-942, experiments.rs, export_csv).         *)
THEOREM OutputsAlwaysComplete == ResearchSpec => []OutputsComplete
<1>1. TypeInv /\ LogInv /\ OutInv /\ InStep => OutputsComplete
  BY ComparisonWritten, SweepsWritten DEF OutputsComplete
<1> QED
  BY <1>1, TypeInvariance, LogInvariance, OutputInvariance, HistoryInStep, PTL
=============================================================================
