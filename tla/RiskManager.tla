---------------------------- MODULE RiskManager ----------------------------
(***************************************************************************)
(* The slippage risk manager of the live engine and of the research        *)
(* runner: RiskManager in engine/risk.rs.  It decides, chunk by chunk,     *)
(* whether a predicted slippage may be booked against a budget.            *)
(*                                                                         *)
(*   executed_notional   what has been booked so far                       *)
(*   used_slippage       the slippage booked with it                       *)
(*   emergency_used      the part of it above the proportional shares      *)
(*                                                                         *)
(* Notional is counted in lots (one lot is the dust below which the        *)
(* scheduler calls an order finished) and slippage in a unit fine enough   *)
(* that max_slippage_pct of one lot is the integer SlippageRate.  The      *)
(* code's division by total_notional is then exact:                        *)
(*   (chunk / total) * (total * pct) = pct * chunk.                        *)
(***************************************************************************)
EXTENDS Integers

CONSTANTS
  TotalNotional,     \* total_notional, in lots
  SlippageRate,      \* max_slippage_pct, in slippage units per lot
  EmergencyReserve   \* reserve_frac * max_slippage_budget

ASSUME RiskAssumption ==
  /\ TotalNotional \in Nat \ {0}
  /\ SlippageRate \in Nat
  /\ EmergencyReserve \in Nat

VARIABLES executed_notional, used_slippage, emergency_used

riskVars == <<executed_notional, used_slippage, emergency_used>>

RiskTypeOK ==
  /\ executed_notional \in Nat
  /\ used_slippage \in Nat
  /\ emergency_used \in Nat

RiskInit ==
  /\ executed_notional = 0
  /\ used_slippage = 0
  /\ emergency_used = 0

-----------------------------------------------------------------------------
AtLeastZero(x) == IF x > 0 THEN x ELSE 0

Smaller(a, b) == IF a < b THEN a ELSE b

MaxSlippageBudget == SlippageRate * TotalNotional

(* Bug shape: the reserve is held back from the budget. *)
RemainingHeldBack == AtLeastZero(MaxSlippageBudget - EmergencyReserve - used_slippage)

RemainingBudget == AtLeastZero(MaxSlippageBudget - used_slippage)

PerChunkAllocation(chunk) == SlippageRate * chunk

CapRunning(chunk) ==
  AtLeastZero(SlippageRate * (executed_notional + chunk) - used_slippage)

(* Bug shape: the running-average cap is left out. *)
AllowedWithoutAverage(chunk) ==
  Smaller(PerChunkAllocation(chunk) + AtLeastZero(EmergencyReserve - emergency_used),
          RemainingBudget)

(* The tightest of the share plus what the reserve has left, the running   *)
(* average's headroom and the remaining budget.                            *)
AllowedForNext(chunk) ==
  LET remainingEmergency == AtLeastZero(EmergencyReserve - emergency_used)
      ceiling == PerChunkAllocation(chunk) + remainingEmergency
  IN  Smaller(Smaller(ceiling, CapRunning(chunk)), RemainingBudget)

Granted(chunk, slippage) == slippage <= AllowedForNext(chunk)

(* The accepting branch of request_execute_chunk; the denying one,         *)
(* ~Granted, leaves the three accumulators alone.                          *)
BookRisk(chunk, slippage) ==
  /\ Granted(chunk, slippage)
  /\ executed_notional' = executed_notional + chunk
  /\ used_slippage' = used_slippage + slippage
  /\ emergency_used' =
       emergency_used + AtLeastZero(slippage - PerChunkAllocation(chunk))

-----------------------------------------------------------------------------
(* The documented invariants of risk.rs:3-8 together: cumulative slippage  *)
(* within the budget, average rate within max_slippage_pct, and the draws  *)
(* above the proportional shares within the reserve, although each draw is *)
(* compared only with what the reserve has left.                           *)
RiskBounds ==
  /\ used_slippage <= MaxSlippageBudget
  /\ used_slippage <= SlippageRate * executed_notional
  /\ emergency_used <= EmergencyReserve

(* Overruns are never paid for by later chunks: whatever was booked        *)
(* before, a chunk that fits the order and asks for no more than its       *)
(* proportional share is granted.                                          *)
FairShareGranted ==
  \A chunk \in 0 .. TotalNotional - executed_notional :
    Granted(chunk, PerChunkAllocation(chunk))
=============================================================================
