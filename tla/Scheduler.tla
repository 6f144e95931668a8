----------------------------- MODULE Scheduler -----------------------------
(***************************************************************************)
(* The execution scheduler: Scheduler in engine/scheduler.rs, with the     *)
(* chunk rules of the strategies it drives (strategies/heuristic.rs,       *)
(* optimal.rs, adaptive.rs, regime_ac.rs) and the RiskManager it owns.     *)
(* Scheduler::on_block is called once per block and takes one step.        *)
(*                                                                         *)
(*   mode                how this scheduler was built; never changes       *)
(*   remaining_notional  lots still to sell                                *)
(*   completed           set once, when remaining_notional reaches dust    *)
(*   schedule            planned inventory x_0 .. x_T of the Optimal mode, *)
(*                       None until its first block.  The code stores the  *)
(*                       trades q_k = x_k - x_(k+1)                        *)
(*   current_step        chunks booked in the Optimal and Adaptive modes   *)
(*   rac_remaining, steps_taken   RegimeAcStrategy's own account           *)
(*                                                                         *)
(* The sinh formulas are abstracted to what they guarantee.  With x > 0,   *)
(* x/sinh(x) < 1 and convexity give: an Optimal trajectory falls from the  *)
(* total to zero, an Adaptive chunk is at least the linear share of what   *)
(* is left, a RegimeAc trade at most that share.  Volatility and depth     *)
(* reach the model as an impact rate and a timing cost per block.          *)
(***************************************************************************)
EXTENDS RiskManager

CONSTANTS
  TwapSlice,        \* twap_qty_per_step
  Horizon,          \* initial_horizon, or the schedule's length T
  HeuristicChunks,  \* base_chunk times the clamped depth and volatility factors
  Conditions,       \* what a block may bring: [impact |-> i, timing |-> t]
  None              \* execution_schedule before the first block

ASSUME SchedulerAssumption ==
  /\ TwapSlice \in Nat \ {0}
  /\ Horizon \in Nat \ {0}
  /\ HeuristicChunks \subseteq Nat \ {0}
  /\ Conditions \subseteq [impact : Nat, timing : Nat]
  /\ None \notin [0 .. Horizon -> 0 .. TotalNotional]

VARIABLES mode, remaining_notional, completed, schedule, current_step,
          rac_remaining, steps_taken

orderVars == <<remaining_notional, completed>>
optimalVars == <<schedule, current_step>>
regimeVars == <<rac_remaining, steps_taken>>
schedulerVars == <<riskVars, mode, orderVars, optimalVars, regimeVars>>

ExecutionMode == {"Twap", "Heuristic", "Optimal", "AdaptiveOptimal", "RegimeAc"}

(* The modes whose chunks pass request_execute_chunk. *)
Gated == {"Heuristic", "Optimal", "AdaptiveOptimal"}

(* AlmgrenChriss::schedule: x_0 is the total, x_T is forced to zero.       *)
Trajectories ==
  { x \in [0 .. Horizon -> 0 .. TotalNotional] :
      /\ x[0] = TotalNotional
      /\ x[Horizon] = 0
      /\ \A k \in 0 .. Horizon - 1 : x[k + 1] <= x[k] }

SchedulerTypeOK ==
  /\ RiskTypeOK
  /\ mode \in ExecutionMode
  /\ remaining_notional \in 0 .. TotalNotional
  /\ completed \in BOOLEAN
  /\ schedule \in Trajectories \cup {None}
  /\ current_step \in Nat
  /\ rac_remaining \in 0 .. TotalNotional
  /\ steps_taken \in Nat

(* Scheduler::new *)
SchedulerInit ==
  /\ RiskInit
  /\ mode \in ExecutionMode
  /\ remaining_notional = TotalNotional
  /\ completed = FALSE
  /\ schedule = None
  /\ current_step = 0
  /\ rac_remaining = TotalNotional
  /\ steps_taken = 0

-----------------------------------------------------------------------------
(* predict_slippage: a part that grows with the chunk, a part that does not. *)
PredictSlippage(chunk, cond) == cond.impact * chunk + cond.timing

(* Bug shape: completion is tested before the chunk is taken off. *)
BookChunkLate(chunk) ==
  /\ remaining_notional' = AtLeastZero(remaining_notional - chunk)
  /\ completed' = (remaining_notional = 0)

(* Scheduler::book, and the same lines in on_block_regime_ac. *)
BookChunk(chunk) ==
  /\ remaining_notional' = AtLeastZero(remaining_notional - chunk)
  /\ completed' = (remaining_notional - chunk <= 0)

GrantedFor(chunk, cond) == Granted(chunk, PredictSlippage(chunk, cond))

(* A granted chunk is booked with the risk manager and then off the order. *)
Execute(chunk, cond) ==
  /\ BookRisk(chunk, PredictSlippage(chunk, cond))
  /\ BookChunk(chunk)

(* Bug shape: only whole slices are sold. *)
OnBlockTwapWholeSlices ==
  /\ mode = "Twap" /\ ~completed
  /\ TwapSlice <= remaining_notional
  /\ BookChunk(TwapSlice)
  /\ UNCHANGED <<riskVars, mode, optimalVars, regimeVars>>

(* on_block_twap: one slice, no risk check. *)
OnBlockTwap ==
  /\ mode = "Twap" /\ ~completed
  /\ BookChunk(Smaller(TwapSlice, remaining_notional))
  /\ UNCHANGED <<riskVars, mode, optimalVars, regimeVars>>

(* Half of a chunk, rounded to a lot either way. *)
Halves(chunk) == { h \in {chunk \div 2, chunk - chunk \div 2} : h > 0 }

(* Bug shape: the retry books half with the risk manager, the whole chunk  *)
(* off the order.                                                          *)
OnBlockHeuristicWholeRetry(cond) ==
  /\ mode = "Heuristic" /\ ~completed
  /\ \E c \in HeuristicChunks :
       LET chunk == Smaller(c, remaining_notional) IN
         \/ Execute(chunk, cond)
         \/ /\ ~GrantedFor(chunk, cond)
            /\ \E half \in Halves(chunk) :
                 BookRisk(half, PredictSlippage(half, cond)) /\ BookChunk(chunk)
  /\ UNCHANGED <<mode, optimalVars, regimeVars>>

(* on_block_heuristic: a denied chunk is tried once more at half size.     *)
OnBlockHeuristic(cond) ==
  /\ mode = "Heuristic" /\ ~completed
  /\ \E c \in HeuristicChunks :
       LET chunk == Smaller(c, remaining_notional) IN
         \/ Execute(chunk, cond)
         \/ /\ ~GrantedFor(chunk, cond)
            /\ \E half \in Halves(chunk) :
                 \/ Execute(half, cond)
                 \/ ~GrantedFor(half, cond) /\ UNCHANGED <<riskVars, orderVars>>
  /\ UNCHANGED <<mode, optimalVars, regimeVars>>

(* Bug shape: a denied chunk is dropped and the schedule moves on. *)
FollowScheduleDropping(x, cond) ==
  IF current_step >= Horizon
  THEN /\ remaining_notional' = 0
       /\ completed' = TRUE
       /\ UNCHANGED <<riskVars, current_step>>
  ELSE LET proposed == Smaller(x[current_step] - x[current_step + 1],
                               remaining_notional) IN
         /\ current_step' = current_step + 1
         /\ \/ Execute(proposed, cond)
            \/ ~GrantedFor(proposed, cond) /\ UNCHANGED <<riskVars, orderVars>>

(* The Optimal step once a schedule is there: past its end whatever is     *)
(* left is written off; a granted chunk moves on to the next step, a       *)
(* denied one is proposed again at the next block.                         *)
FollowSchedule(x, cond) ==
  IF current_step >= Horizon
  THEN /\ remaining_notional' = 0
       /\ completed' = TRUE
       /\ UNCHANGED <<riskVars, current_step>>
  ELSE LET proposed == Smaller(x[current_step] - x[current_step + 1],
                               remaining_notional) IN
         \/ /\ Execute(proposed, cond)
            /\ current_step' = current_step + 1
         \/ /\ ~GrantedFor(proposed, cond)
            /\ UNCHANGED <<riskVars, orderVars, current_step>>

(* on_block_optimal: the schedule is built by the first block and kept.    *)
OnBlockOptimal(cond) ==
  /\ mode = "Optimal" /\ ~completed
  /\ \E x \in (IF schedule = None THEN Trajectories ELSE {schedule}) :
       /\ schedule' = x
       /\ FollowSchedule(x, cond)
  /\ UNCHANGED <<mode, regimeVars>>

(* Steps left at the k-th of Horizon, never less than one. *)
StepsLeft(k) == IF Horizon - k > 1 THEN Horizon - k ELSE 1

(* AdaptiveOptimalStrategy::compute_chunk: at least the linear share.      *)
AdaptiveChunks(remaining, left) ==
  { q \in 0 .. remaining : q * left >= remaining }

(* on_block_adaptive_optimal *)
OnBlockAdaptive(cond) ==
  /\ mode = "AdaptiveOptimal" /\ ~completed
  /\ \E q \in AdaptiveChunks(remaining_notional, StepsLeft(current_step)) :
       \/ /\ Execute(q, cond)
          /\ current_step' = current_step + 1
       \/ /\ ~GrantedFor(q, cond)
          /\ UNCHANGED <<riskVars, orderVars, current_step>>
  /\ UNCHANGED <<mode, schedule, regimeVars>>

(* Bug shape: the trade is rounded up past what is left. *)
RegimeTradesUncapped(remaining, left) ==
  { q \in 0 .. remaining + 1 : (q - 1) * left <= remaining }

(* RegimeAcStrategy's trade: remaining * kappa / sinh(kappa * left), at    *)
(* most the linear share, and the whole residual on the last step.         *)
RegimeTrades(remaining, left) ==
  IF left = 1 THEN {remaining} ELSE { q \in 0 .. remaining : q * left <= remaining }

(* on_block_regime_ac with RegimeAcStrategy::on_block: the strategy keeps  *)
(* its own remaining inventory, and the risk manager is not asked.         *)
OnBlockRegimeAc ==
  /\ mode = "RegimeAc" /\ ~completed
  /\ \E q \in RegimeTrades(rac_remaining, StepsLeft(steps_taken)) :
       /\ rac_remaining' = rac_remaining - q
       /\ IF q > 0 THEN BookChunk(q) ELSE UNCHANGED orderVars
  /\ steps_taken' = steps_taken + 1
  /\ UNCHANGED <<riskVars, mode, optimalVars>>

(* on_block *)
OnBlock ==
  \/ OnBlockTwap
  \/ OnBlockRegimeAc
  \/ \E cond \in Conditions :
       OnBlockHeuristic(cond) \/ OnBlockOptimal(cond) \/ OnBlockAdaptive(cond)

SchedulerSpec == SchedulerInit /\ [][OnBlock]_schedulerVars

(* Blocks keep coming while the process lives. *)
SchedulerFairSpec == SchedulerSpec /\ WF_schedulerVars(OnBlock)

-----------------------------------------------------------------------------
(* Every lot is either still to sell or booked with the risk manager, in   *)
(* every gated mode and through every retry, denial and clamp, and the     *)
(* order is complete exactly when nothing is left.  So the write-off past  *)
(* the end of an Optimal schedule never writes anything off, and a         *)
(* completed order was sold in full.                                       *)
InventoryAccounted ==
  /\ mode \in Gated => executed_notional + remaining_notional = TotalNotional
  /\ mode = "RegimeAc" => rac_remaining = remaining_notional
  /\ completed <=> remaining_notional = 0

(* An Optimal order sits exactly on its planned trajectory however many    *)
(* of its chunks were denied; an Adaptive or RegimeAc order is done by the *)
(* last of its Horizon booked steps.                                       *)
OnSchedule ==
  /\ schedule # None => remaining_notional = schedule[current_step]
  /\ current_step <= Horizon /\ steps_taken <= Horizon
  /\ mode \in {"Optimal", "AdaptiveOptimal"} /\ current_step = Horizon => completed
  /\ steps_taken = Horizon => completed

(* The scheduler implements the abstract sell order: through the gate, the *)
(* retries, the clamps and five sets of rules, each block sells some of    *)
(* what is left at no more than the agreed average rate.                   *)
Order == INSTANCE SellOrder WITH Total <- TotalNotional, Rate <- SlippageRate,
           left <- remaining_notional, spent <- used_slippage, done <- completed

ImplementsOrder == Order!OrderSpec

(* The modes that bypass the risk gate always finish the order while       *)
(* blocks keep coming.  The gated ones need not: a chunk whose timing cost *)
(* alone exceeds its share may be denied for ever.                         *)
UngatedCompletes == mode \notin Gated ~> completed

=============================================================================
