------------------------------ MODULE Metrics ------------------------------
(***************************************************************************)
(* analytics/metrics.rs, the cost accounts of one execution, and           *)
(* analytics/distribution.rs, the statistics over the paths of a sweep.    *)
(* Prices are ticks, quantities units, fractions whole percentages; a      *)
(* percentage of the notional is kept as the amount it is taken of.        *)
(***************************************************************************)
EXTENDS Vpin, Functions, FiniteSets, FiniteSetsExt

NewMetrics(arrival_price, inventory) ==
  [arrival_price |-> arrival_price, initial_notional |-> arrival_price * inventory,
   total_executed |-> 0, vwap_numerator |-> 0, cumulative_cost |-> 0,
   cost_sq |-> 0, risk_penalty |-> 0, trade_count |-> 0, forced_cost |-> 0,
   spread |-> 0, temporary |-> 0, permanent |-> 0, timing |-> 0,
   vpin_at_execution |-> <<>>, per_trade_cost |-> <<>>, regime_at_execution |-> <<>>]

ExecPrice(t) == t.market_price + t.slippage_cost
RealizedCost(m, t) == t.quantity * (ExecPrice(t) - m.arrival_price)
SpreadOf(t) == t.quantity * t.half_spread
TemporaryOf(t) == (t.quantity * t.temporary * t.market_price) \div 100
PermanentOf(t) == (t.quantity * t.permanent * t.raw_price) \div 100

(* record_trade of a trade [quantity, market_price, slippage_cost,         *)
(* temporary, permanent, raw_price, half_spread]: timing is what the other *)
(* components leave unexplained.                                           *)
RecordTrade(m, t) ==
  LET cost == RealizedCost(m, t) IN
    [m EXCEPT !.total_executed = @ + t.quantity,
              !.vwap_numerator = @ + t.quantity * ExecPrice(t),
              !.cumulative_cost = @ + cost,
              !.cost_sq = @ + cost * cost,
              !.per_trade_cost = Append(@, cost),
              !.trade_count = @ + 1,
              !.spread = @ + SpreadOf(t),
              !.temporary = @ + TemporaryOf(t),
              !.permanent = @ + PermanentOf(t),
              !.timing = @ + (cost - SpreadOf(t) - TemporaryOf(t) - PermanentOf(t))]

(* Bug shape: the forced cost is told apart but left out of the total.     *)
RecordForcedLiquidationAside(m, quantity, last_price) ==
  [m EXCEPT !.forced_cost = @ + quantity * (last_price - m.arrival_price),
            !.total_executed = @ + quantity,
            !.trade_count = @ + 1]

(* record_forced_liquidation: neither a per-trade cost nor a part of the   *)
(* volume-weighted price.                                                  *)
RecordForcedLiquidation(m, quantity, last_price) ==
  LET cost == quantity * (last_price - m.arrival_price) IN
    [m EXCEPT !.cumulative_cost = @ + cost,
              !.forced_cost = @ + cost,
              !.total_executed = @ + quantity,
              !.trade_count = @ + 1]

(* record_risk_step, the step's share of a year left out. *)
RecordRiskStep(m, inventory, sigma) ==
  LET exposure == inventory * m.arrival_price * sigma IN
    [m EXCEPT !.risk_penalty = @ + exposure * exposure]

RecordVpin(m, vpin) == [m EXCEPT !.vpin_at_execution = Append(@, vpin)]
RecordRegime(m, label) == [m EXCEPT !.regime_at_execution = Append(@, label)]

-----------------------------------------------------------------------------
(* decompose: None before the first trade. *)
Decompose(m) ==
  IF m.trade_count = 0 THEN None
  ELSE [spread_cost |-> m.spread, temporary_impact |-> m.temporary,
        permanent_impact |-> m.permanent, timing_cost |-> m.timing,
        opportunity_cost |-> m.forced_cost, total |-> m.cumulative_cost]

(* vwap and avg_exec_price *)
Vwap(m) == IF m.total_executed <= 0 THEN None ELSE m.vwap_numerator \div m.total_executed

(* shortfall_percent, and ac_objective_percent for a risk aversion of one, *)
(* both as amounts; 0 is what the callers take for None.                   *)
Shortfall(m) == IF m.initial_notional = 0 THEN 0 ELSE m.cumulative_cost
AcObjective(m) ==
  IF m.initial_notional = 0 \/ m.trade_count = 0 THEN 0
  ELSE m.cumulative_cost + m.risk_penalty \div m.initial_notional

MeanCost(m) == IF m.trade_count = 0 THEN None ELSE m.cumulative_cost \div m.trade_count

(* cost_variance times the square of the number of trades. *)
CostVariance(m) ==
  IF m.trade_count = 0 THEN None ELSE m.trade_count * m.cost_sq - m.cumulative_cost * m.cumulative_cost

(* conditional_shortfall_percent: the cost of the trades made below the    *)
(* threshold, and above it.                                                *)
ConditionalShortfall(m, threshold) ==
  LET n == Smaller(Len(m.vpin_at_execution), Len(m.per_trade_cost))
      high == {i \in 1 .. n : m.vpin_at_execution[i] > threshold}
      cost(S) == IF S = {} THEN None ELSE FoldFunctionOnSet(+, 0, m.per_trade_cost, S) IN
    IF m.initial_notional = 0 THEN <<None, None>>
    ELSE <<cost((1 .. n) \ high), cost(high)>>

(* regime_distribution and is_by_regime, as functions of the label. *)
RegimeDistribution(m) ==
  [label \in Range(m.regime_at_execution) |->
     Cardinality({i \in DOMAIN m.regime_at_execution : m.regime_at_execution[i] = label})]

IsByRegime(m) ==
  LET n == Smaller(Len(m.regime_at_execution), Len(m.per_trade_cost)) IN
    [label \in Range(m.regime_at_execution) |->
       FoldFunctionOnSet(+, 0, m.per_trade_cost,
                         {i \in 1 .. n : m.regime_at_execution[i] = label})]

-----------------------------------------------------------------------------
(* The value at place k has fewer than k smaller ones, and with its equals *)
(* at least k.                                                             *)
Sorted(samples) ==
  [k \in DOMAIN samples |->
     CHOOSE v \in Range(samples) :
       /\ Cardinality({i \in DOMAIN samples : samples[i] < v}) < k
       /\ Cardinality({i \in DOMAIN samples : samples[i] <= v}) >= k]

(* percentile_sorted: linear between the two ranks, rounded down. *)
Percentile(sorted, p) ==
  LET rank == p * (Len(sorted) - 1)
      lo == rank \div 100
      hi == Smaller(lo + 1, Len(sorted) - 1) IN
    sorted[lo + 1] + ((rank % 100) * (sorted[hi + 1] - sorted[lo + 1])) \div 100

(* cvar_sorted: the mean of the samples no better than the percentile.     *)
Cvar(sorted, alpha) ==
  LET threshold == Percentile(sorted, 100 - alpha)
      tail == {k \in DOMAIN sorted : sorted[k] <= threshold} IN
    IF tail = {} THEN threshold
    ELSE SumFunctionOnSet(sorted, tail) \div Cardinality(tail)

(* from_samples, the moments above the second left out. *)
DistributionStats(samples) ==
  LET sorted == Sorted(samples) IN
    IF samples = <<>> THEN None
    ELSE [count    |-> Len(samples),
          mean     |-> SumOf(samples) \div Len(samples),
          variance |-> Len(samples) * SumOf([i \in DOMAIN samples |-> samples[i] * samples[i]])
                         - SumOf(samples) ^ 2,
          median   |-> Percentile(sorted, 50),
          var_95   |-> Percentile(sorted, 5),
          cvar_95  |-> Cvar(sorted, 95),
          max      |-> Last(sorted),
          min      |-> Head(sorted)]

-----------------------------------------------------------------------------
(* The conservation law of the accounts that decompose asserts, and the    *)
(* books it rests on: the total is the sum over the trades and the forced  *)
(* part, the components explain all of it, every trade has its VPIN        *)
(* reading when they are taken, and the split by VPIN loses none of them.  *)
Conserved(m, observes_vpin) ==
  LET d == Decompose(m)
      split == ConditionalShortfall(m, 50)
      part(x) == IF x = None THEN 0 ELSE x IN
    /\ d # None =>
         d.spread_cost + d.temporary_impact + d.permanent_impact + d.timing_cost
           + d.opportunity_cost = d.total
    /\ m.cumulative_cost = SumOf(m.per_trade_cost) + m.forced_cost
    /\ observes_vpin => /\ Len(m.vpin_at_execution) = Len(m.per_trade_cost)
                        /\ part(split[1]) + part(split[2]) = SumOf(m.per_trade_cost)
    /\ FoldFunction(+, 0, RegimeDistribution(m)) = Len(m.regime_at_execution)
    /\ CostVariance(m) # None /\ m.forced_cost = 0 => CostVariance(m) >= 0
=============================================================================
