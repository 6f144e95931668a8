-------------------------- MODULE SchedulerProofs --------------------------
(***************************************************************************)
(* What Scheduler and RiskManager guarantee for every order size, slippage *)
(* rate, reserve, horizon and every sequence of block conditions.          *)
(*                                                                         *)
(* The safety properties of Scheduler become inductive together with       *)
(* ModesApart, which says that the state of a mode moves only in that      *)
(* mode.  One lemma treats the risk manager alone, one the booking of a    *)
(* chunk, one each of the five handlers.                                   *)
(***************************************************************************)
EXTENDS Scheduler, TLAPS

(* The state one mode keeps is untouched in the others, and an Optimal     *)
(* order without a schedule has not begun.                                 *)
ModesApart ==
  /\ schedule # None => mode = "Optimal"
  /\ mode = "Optimal" /\ schedule = None
       => current_step = 0 /\ remaining_notional = TotalNotional
  /\ mode \notin {"Optimal", "AdaptiveOptimal"} => current_step = 0
  /\ mode # "RegimeAc" => steps_taken = 0
  /\ mode \notin Gated => used_slippage = 0

IInv ==
  /\ SchedulerTypeOK
  /\ RiskBounds
  /\ InventoryAccounted
  /\ OnSchedule
  /\ ModesApart

(* The bounds the risk manager keeps, with its types. *)
RiskInv == RiskTypeOK /\ RiskBounds

-----------------------------------------------------------------------------
(* Products of naturals: the facts about the slippage rate that linear     *)
(* arithmetic cannot see.                                                  *)
LEMMA ProductFacts ==
  ASSUME NEW r \in Nat, NEW a \in Nat, NEW b \in Nat
  PROVE  /\ r * a \in Nat
         /\ r * (a + b) = r * a + r * b
         /\ a <= b => r * a <= r * b
  <1>1. r * a \in Nat /\ r * b \in Nat
    OBVIOUS
  <1>2. r * (a + b) = r * a + r * b
    OBVIOUS
  <1>3. ASSUME a <= b PROVE r * a <= r * b
    <2>1. b - a \in Nat /\ b = a + (b - a)
      BY <1>3
    <2>2. r * (b - a) \in Nat
      BY <2>1
    <2>3. r * b = r * a + r * (b - a)
      BY <2>1
    <2> QED
      BY <1>1, <2>2, <2>3
  <1> QED
    BY <1>1, <1>2, <1>3

(* The three ceilings of allowed_for_next, the running average distributed. *)
LEMMA ThreeCeilings ==
  ASSUME RiskTypeOK, NEW chunk \in Nat, NEW slippage \in Nat
  PROVE  LET share == SlippageRate * chunk
             sold == SlippageRate * executed_notional
             budget == SlippageRate * TotalNotional
         IN  Granted(chunk, slippage) <=>
               /\ slippage <= share + AtLeastZero(EmergencyReserve - emergency_used)
               /\ slippage <= AtLeastZero(sold + share - used_slippage)
               /\ slippage <= AtLeastZero(budget - used_slippage)
  <1> USE RiskAssumption
  <1> DEFINE share == SlippageRate * chunk
             sold == SlippageRate * executed_notional
             budget == SlippageRate * TotalNotional
             ceiling == share + AtLeastZero(EmergencyReserve - emergency_used)
             average == AtLeastZero(sold + share - used_slippage)
             rest == AtLeastZero(budget - used_slippage)
  <1>1. share \in Nat /\ sold \in Nat /\ budget \in Nat
    BY ProductFacts DEF RiskTypeOK
  <1>2. CapRunning(chunk) = average
    <2>1. SlippageRate * (executed_notional + chunk) = sold + share
      BY ProductFacts DEF RiskTypeOK
    <2> QED
      BY <1>1, <2>1 DEF CapRunning, AtLeastZero, RiskTypeOK
  <1>3. AllowedForNext(chunk) = Smaller(Smaller(ceiling, average), rest)
    BY <1>2 DEF AllowedForNext, PerChunkAllocation, RemainingBudget, MaxSlippageBudget
  <1>4. ceiling \in Nat /\ average \in Nat /\ rest \in Nat
    <2> HIDE DEF share, sold, budget
    <2> QED
      BY <1>1 DEF AtLeastZero, RiskTypeOK
  <1>5. Granted(chunk, slippage) <=>
          slippage <= ceiling /\ slippage <= average /\ slippage <= rest
    <2>1. Granted(chunk, slippage) <=> slippage <= Smaller(Smaller(ceiling, average), rest)
      BY <1>3 DEF Granted
    <2> HIDE DEF ceiling, average, rest
    <2> QED
      BY <2>1, <1>4 DEF Smaller
  <1> QED
    BY <1>5

(* request_execute_chunk, when it grants a chunk, keeps the three bounds.  *)
LEMMA BookRiskKeepsBounds ==
  ASSUME RiskInv, NEW chunk \in Nat, NEW slippage \in Nat, BookRisk(chunk, slippage)
  PROVE  RiskInv'
  <1> USE RiskAssumption
  <1> DEFINE share == SlippageRate * chunk
             sold == SlippageRate * executed_notional
  <1>1. /\ executed_notional \in Nat /\ used_slippage \in Nat /\ emergency_used \in Nat
        /\ used_slippage <= SlippageRate * TotalNotional
        /\ used_slippage <= sold
        /\ emergency_used <= EmergencyReserve
    BY DEF RiskInv, RiskTypeOK, RiskBounds, MaxSlippageBudget
  <1>2. share \in Nat /\ sold \in Nat /\ SlippageRate * TotalNotional \in Nat
    BY <1>1, ProductFacts
  <1>3. SlippageRate * (executed_notional + chunk) = sold + share
    BY <1>1, ProductFacts
  <1>4. /\ slippage <= share + AtLeastZero(EmergencyReserve - emergency_used)
        /\ slippage <= AtLeastZero(sold + share - used_slippage)
        /\ slippage <= AtLeastZero(SlippageRate * TotalNotional - used_slippage)
    BY ThreeCeilings DEF BookRisk, RiskInv
  <1>5. /\ executed_notional' = executed_notional + chunk
        /\ used_slippage' = used_slippage + slippage
        /\ emergency_used' = emergency_used + AtLeastZero(slippage - share)
    BY DEF BookRisk, PerChunkAllocation
  <1>6. RiskTypeOK'
    BY <1>1, <1>2, <1>5 DEF RiskTypeOK, AtLeastZero
  <1>7. used_slippage' <= MaxSlippageBudget
    BY <1>1, <1>2, <1>4, <1>5 DEF MaxSlippageBudget, AtLeastZero
  <1>8. used_slippage' <= SlippageRate * executed_notional'
    <2>1. used_slippage' <= sold + share
      BY <1>1, <1>2, <1>4, <1>5 DEF AtLeastZero
    <2> QED
      BY <2>1, <1>3, <1>5
  <1>9. emergency_used' <= EmergencyReserve
    BY <1>1, <1>2, <1>4, <1>5 DEF AtLeastZero
  <1> QED
    BY <1>6, <1>7, <1>8, <1>9 DEF RiskInv, RiskBounds, MaxSlippageBudget

(* Whoever keeps the bounds grants every chunk its proportional share.     *)
LEMMA BoundsGrantFairShare ==
  ASSUME RiskInv
  PROVE  FairShareGranted
  <1> USE RiskAssumption
  <1> SUFFICES ASSUME NEW chunk \in 0 .. TotalNotional - executed_notional
               PROVE  Granted(chunk, PerChunkAllocation(chunk))
    BY DEF FairShareGranted
  <1> DEFINE share == SlippageRate * chunk
             sold == SlippageRate * executed_notional
             budget == SlippageRate * TotalNotional
  <1>1. /\ executed_notional \in Nat /\ used_slippage \in Nat /\ emergency_used \in Nat
        /\ used_slippage <= sold
        /\ chunk \in Nat /\ executed_notional + chunk <= TotalNotional
    BY DEF RiskInv, RiskTypeOK, RiskBounds
  <1>2. share \in Nat /\ sold \in Nat /\ budget \in Nat
    BY <1>1, ProductFacts
  <1>3. SlippageRate * (executed_notional + chunk) = sold + share
    BY <1>1, ProductFacts
  <1>4. sold + share <= budget
    <2>1. executed_notional + chunk \in Nat /\ TotalNotional \in Nat
      BY <1>1
    <2>2. SlippageRate * (executed_notional + chunk) <= budget
      BY <2>1, <1>1, ProductFacts
    <2> QED
      BY <1>3, <2>2
  <1> HIDE DEF share, sold, budget
  <1>5. /\ share <= share + AtLeastZero(EmergencyReserve - emergency_used)
        /\ share <= AtLeastZero(sold + share - used_slippage)
        /\ share <= AtLeastZero(budget - used_slippage)
    BY <1>1, <1>2, <1>4 DEF AtLeastZero
  <1> QED
    <2> USE DEF share, sold, budget
    <2> QED
      BY <1>1, <1>2, <1>5, ThreeCeilings DEF PerChunkAllocation, RiskInv

-----------------------------------------------------------------------------
(* A slippage prediction is a natural number. *)
LEMMA PredictionType ==
  ASSUME NEW cond \in Conditions, NEW chunk \in Nat
  PROVE  PredictSlippage(chunk, cond) \in Nat
  <1>1. cond.impact \in Nat /\ cond.timing \in Nat
    BY SchedulerAssumption
  <1>2. cond.impact * chunk \in Nat
    BY <1>1, ProductFacts
  <1> QED
    BY <1>1, <1>2 DEF PredictSlippage

(* Booking a chunk that fits takes exactly that chunk off, and completes   *)
(* the order exactly if nothing is left.                                   *)
LEMMA BookChunkAccounts ==
  ASSUME remaining_notional \in Nat, NEW chunk \in 0 .. remaining_notional,
         BookChunk(chunk)
  PROVE  /\ remaining_notional' = remaining_notional - chunk
         /\ remaining_notional' \in 0 .. remaining_notional
         /\ completed' \in BOOLEAN
         /\ (completed' <=> remaining_notional' = 0)
  <1>1. /\ remaining_notional' = remaining_notional - chunk
        /\ remaining_notional' \in 0 .. remaining_notional
    BY DEF BookChunk, AtLeastZero
  <1>2. completed' = (remaining_notional - chunk <= 0)
    BY DEF BookChunk
  <1>3. (remaining_notional - chunk <= 0) <=> remaining_notional' = 0
    BY <1>1
  <1>4. completed' \in BOOLEAN /\ (completed' <=> remaining_notional' = 0)
    <2>1. CASE remaining_notional - chunk <= 0
      <3>1. completed' = TRUE
        BY <1>2, <2>1
      <3> QED
        BY <3>1, <1>3, <2>1, Zenon
    <2>2. CASE ~(remaining_notional - chunk <= 0)
      <3>1. completed' = FALSE
        <4>1. (remaining_notional - chunk <= 0) = FALSE
          BY <2>2, SMT
        <4> QED
          BY <1>2, <4>1, Zenon
      <3> QED
        BY <3>1, <1>3, <2>2, Zenon
    <2> QED
      BY <2>1, <2>2
  <1> QED
    BY <1>1, <1>4

(* A granted chunk keeps the risk bounds and the account of the lots.      *)
LEMMA ExecuteAccounts ==
  ASSUME RiskInv, remaining_notional \in Nat,
         executed_notional + remaining_notional = TotalNotional,
         NEW cond \in Conditions, NEW chunk \in 0 .. remaining_notional,
         Execute(chunk, cond)
  PROVE  /\ RiskInv'
         /\ executed_notional' + remaining_notional' = TotalNotional
         /\ remaining_notional' = remaining_notional - chunk
         /\ remaining_notional' \in 0 .. remaining_notional
         /\ completed' \in BOOLEAN
         /\ (completed' <=> remaining_notional' = 0)
  <1>1. chunk \in Nat /\ PredictSlippage(chunk, cond) \in Nat
    BY PredictionType
  <1>2. BookRisk(chunk, PredictSlippage(chunk, cond)) /\ BookChunk(chunk)
    BY DEF Execute
  <1>3. RiskInv'
    BY <1>1, <1>2, BookRiskKeepsBounds
  <1>4. executed_notional' = executed_notional + chunk
    BY <1>2 DEF BookRisk
  <1> QED
    BY <1>2, <1>3, <1>4, BookChunkAccounts DEF RiskInv, RiskTypeOK

(* on_block_twap preserves the invariant: the slice is clamped to what is  *)
(* left.                                                                   *)
LEMMA TwapStep ==
  ASSUME IInv, OnBlockTwap
  PROVE  IInv'
  <1> USE RiskAssumption, SchedulerAssumption
  <1>1. /\ mode = "Twap" /\ ~completed
        /\ BookChunk(Smaller(TwapSlice, remaining_notional))
        /\ UNCHANGED <<executed_notional, used_slippage, emergency_used, mode,
                       schedule, current_step, rac_remaining, steps_taken>>
    BY DEF OnBlockTwap, riskVars, optimalVars, regimeVars
  <1>2. remaining_notional \in 0 .. TotalNotional
    BY DEF IInv, SchedulerTypeOK
  <1>3. Smaller(TwapSlice, remaining_notional) \in 0 .. remaining_notional
    BY <1>2 DEF Smaller
  <1>4. /\ remaining_notional' \in 0 .. TotalNotional
        /\ completed' \in BOOLEAN
        /\ (completed' <=> remaining_notional' = 0)
    BY <1>1, <1>2, <1>3, BookChunkAccounts
  <1>5. SchedulerTypeOK' /\ RiskBounds'
    BY <1>1, <1>4 DEF IInv, SchedulerTypeOK, RiskTypeOK, RiskBounds, MaxSlippageBudget,
                      Trajectories
  <1>6. InventoryAccounted' /\ OnSchedule' /\ ModesApart'
    BY <1>1, <1>4 DEF IInv, InventoryAccounted, OnSchedule, ModesApart, Gated
  <1> QED
    BY <1>5, <1>6 DEF IInv

(* on_block_heuristic: the chunk, its half, or nothing is booked. *)
LEMMA HeuristicStep ==
  ASSUME IInv, NEW cond \in Conditions, OnBlockHeuristic(cond)
  PROVE  IInv'
  <1> USE RiskAssumption, SchedulerAssumption
  <1>1. /\ mode = "Heuristic" /\ ~completed
        /\ UNCHANGED <<mode, schedule, current_step, rac_remaining, steps_taken>>
    BY DEF OnBlockHeuristic, optimalVars, regimeVars
  <1>2. /\ remaining_notional \in 0 .. TotalNotional /\ RiskInv
        /\ executed_notional + remaining_notional = TotalNotional
    BY <1>1 DEF IInv, SchedulerTypeOK, RiskInv, InventoryAccounted, Gated
  <1>3. PICK c \in HeuristicChunks :
          LET chunk == Smaller(c, remaining_notional) IN
            \/ Execute(chunk, cond)
            \/ /\ ~GrantedFor(chunk, cond)
               /\ \E half \in Halves(chunk) :
                    \/ Execute(half, cond)
                    \/ ~GrantedFor(half, cond) /\ UNCHANGED <<riskVars, orderVars>>
    BY DEF OnBlockHeuristic
  <1>4. Smaller(c, remaining_notional) \in 0 .. remaining_notional
    BY <1>2 DEF Smaller
  <1>5. \A half \in Halves(Smaller(c, remaining_notional)) :
          half \in 0 .. remaining_notional
    BY <1>2, <1>4 DEF Halves
  <1>6. \/ \E chunk \in 0 .. remaining_notional : Execute(chunk, cond)
        \/ UNCHANGED <<riskVars, orderVars>>
    BY <1>3, <1>4, <1>5
  <1>7. /\ RiskInv' /\ executed_notional' + remaining_notional' = TotalNotional
        /\ remaining_notional' \in 0 .. TotalNotional
        /\ completed' \in BOOLEAN /\ (completed' <=> remaining_notional' = 0)
    <2>1. CASE \E chunk \in 0 .. remaining_notional : Execute(chunk, cond)
      BY <1>2, <2>1, ExecuteAccounts
    <2>2. CASE UNCHANGED <<riskVars, orderVars>>
      BY <1>2, <2>2 DEF IInv, SchedulerTypeOK, InventoryAccounted, RiskInv, RiskTypeOK,
                        RiskBounds, MaxSlippageBudget, riskVars, orderVars
    <2> QED
      BY <1>6, <2>1, <2>2
  <1>8. SchedulerTypeOK' /\ RiskBounds'
    BY <1>1, <1>7 DEF IInv, SchedulerTypeOK, RiskInv, Trajectories
  <1>9. InventoryAccounted' /\ OnSchedule' /\ ModesApart'
    BY <1>1, <1>7 DEF IInv, InventoryAccounted, OnSchedule, ModesApart, Gated
  <1> QED
    BY <1>8, <1>9 DEF IInv

(* A trajectory falls from the total to zero within the total. *)
LEMMA TrajectoryFacts ==
  ASSUME NEW x \in Trajectories
  PROVE  /\ x # None
         /\ x[0] = TotalNotional /\ x[Horizon] = 0
         /\ \A k \in 0 .. Horizon - 1 :
              x[k] \in Nat /\ x[k + 1] \in Nat /\ x[k + 1] <= x[k]
  <1> USE RiskAssumption, SchedulerAssumption
  <1>1. /\ x \in [0 .. Horizon -> 0 .. TotalNotional]
        /\ x[0] = TotalNotional /\ x[Horizon] = 0
        /\ \A k \in 0 .. Horizon - 1 : x[k + 1] <= x[k]
    BY DEF Trajectories
  <1>2. \A k \in 0 .. Horizon - 1 : k \in 0 .. Horizon /\ k + 1 \in 0 .. Horizon
    OBVIOUS
  <1> QED
    BY <1>1, <1>2

(* on_block_optimal: the order stays on its trajectory, so the write-off   *)
(* past the end is out of reach.                                           *)
LEMMA OptimalStep ==
  ASSUME IInv, NEW cond \in Conditions, OnBlockOptimal(cond)
  PROVE  IInv'
  <1> USE RiskAssumption, SchedulerAssumption
  <1>1. /\ mode = "Optimal" /\ ~completed
        /\ UNCHANGED <<mode, rac_remaining, steps_taken>>
    BY DEF OnBlockOptimal, regimeVars
  <1>2. /\ remaining_notional \in 0 .. TotalNotional /\ RiskInv
        /\ executed_notional + remaining_notional = TotalNotional
        /\ remaining_notional # 0
        /\ current_step \in 0 .. Horizon /\ steps_taken = 0
    BY <1>1 DEF IInv, SchedulerTypeOK, RiskInv, InventoryAccounted, OnSchedule, ModesApart,
                Gated
  <1>3. PICK x \in Trajectories :
          schedule' = x /\ FollowSchedule(x, cond) /\ remaining_notional = x[current_step]
    <2>1. CASE schedule = None
      <3>1. \A x \in Trajectories : x[current_step] = remaining_notional
        BY <1>1, <2>1, TrajectoryFacts DEF IInv, ModesApart
      <3> QED
        BY <2>1, <3>1 DEF OnBlockOptimal
    <2>2. CASE schedule # None
      BY <2>2 DEF OnBlockOptimal, IInv, SchedulerTypeOK, OnSchedule
    <2> QED
      BY <2>1, <2>2
  <1>4. /\ x # None /\ x[Horizon] = 0
        /\ \A k \in 0 .. Horizon - 1 :
             x[k] \in Nat /\ x[k + 1] \in Nat /\ x[k + 1] <= x[k]
    BY TrajectoryFacts
  <1>5. current_step \in 0 .. Horizon - 1
    <2>1. current_step # Horizon
      BY <1>2, <1>3, <1>4
    <2> QED
      BY <1>2, <2>1
  <1> DEFINE step == x[current_step] - x[current_step + 1]
  <1>6. step \in 0 .. remaining_notional /\ Smaller(step, remaining_notional) = step
    BY <1>3, <1>4, <1>5 DEF Smaller
  <1>7. \/ Execute(step, cond) /\ current_step' = current_step + 1
        \/ UNCHANGED <<riskVars, orderVars, current_step>>
    BY <1>3, <1>5, <1>6 DEF FollowSchedule
  <1>8. /\ RiskInv' /\ executed_notional' + remaining_notional' = TotalNotional
        /\ remaining_notional' \in 0 .. TotalNotional
        /\ completed' \in BOOLEAN /\ (completed' <=> remaining_notional' = 0)
        /\ remaining_notional' = x[current_step']
        /\ current_step' \in 0 .. Horizon
        /\ current_step' = Horizon => completed'
    <2>1. CASE Execute(step, cond) /\ current_step' = current_step + 1
      <3>1. /\ RiskInv' /\ executed_notional' + remaining_notional' = TotalNotional
            /\ remaining_notional' = remaining_notional - step
            /\ remaining_notional' \in 0 .. remaining_notional
            /\ completed' \in BOOLEAN /\ (completed' <=> remaining_notional' = 0)
        BY <1>2, <1>6, <2>1, ExecuteAccounts
      <3>2. remaining_notional' = x[current_step']
        BY <1>3, <1>4, <1>5, <2>1, <3>1
      <3>3. current_step' = Horizon => completed'
        BY <1>4, <3>1, <3>2
      <3> QED
        BY <1>2, <1>5, <2>1, <3>1, <3>2, <3>3
    <2>2. CASE UNCHANGED <<riskVars, orderVars, current_step>>
      BY <1>2, <1>3, <1>5, <2>2 DEF IInv, SchedulerTypeOK, InventoryAccounted, RiskInv,
                      RiskTypeOK, RiskBounds, MaxSlippageBudget, riskVars, orderVars
    <2> QED
      BY <1>7, <2>1, <2>2
  <1>9. SchedulerTypeOK' /\ RiskBounds'
    <2>1. Trajectories' = Trajectories
      BY DEF Trajectories
    <2> QED
      BY <1>1, <1>3, <1>8, <2>1 DEF IInv, SchedulerTypeOK, RiskInv
  <1>10. InventoryAccounted'
    BY <1>1, <1>8 DEF InventoryAccounted, Gated
  <1>11. OnSchedule' /\ ModesApart'
    BY <1>1, <1>2, <1>3, <1>4, <1>8 DEF OnSchedule, ModesApart, Gated
  <1> QED
    BY <1>9, <1>10, <1>11 DEF IInv

(* on_block_adaptive_optimal: with one step left the chunk is all that     *)
(* remains.                                                                *)
LEMMA AdaptiveStep ==
  ASSUME IInv, NEW cond \in Conditions, OnBlockAdaptive(cond)
  PROVE  IInv'
  <1> USE RiskAssumption, SchedulerAssumption
  <1>1. /\ mode = "AdaptiveOptimal" /\ ~completed
        /\ UNCHANGED <<mode, schedule, rac_remaining, steps_taken>>
    BY DEF OnBlockAdaptive, regimeVars
  <1>2. /\ remaining_notional \in 0 .. TotalNotional /\ RiskInv
        /\ executed_notional + remaining_notional = TotalNotional
        /\ current_step \in 0 .. Horizon - 1 /\ steps_taken = 0
        /\ schedule = None
    BY <1>1 DEF IInv, SchedulerTypeOK, RiskInv, InventoryAccounted, OnSchedule, ModesApart,
                Gated
  <1>3. PICK q \in AdaptiveChunks(remaining_notional, StepsLeft(current_step)) :
          \/ Execute(q, cond) /\ current_step' = current_step + 1
          \/ UNCHANGED <<riskVars, orderVars, current_step>>
    BY DEF OnBlockAdaptive
  <1>4. q \in 0 .. remaining_notional
    BY DEF AdaptiveChunks
  <1>5. current_step + 1 = Horizon => q = remaining_notional
    <2>1. SUFFICES ASSUME current_step + 1 = Horizon PROVE q = remaining_notional
      OBVIOUS
    <2>2. StepsLeft(current_step) = 1
      BY <1>2, <2>1 DEF StepsLeft
    <2>3. q * 1 >= remaining_notional
      BY <2>2 DEF AdaptiveChunks
    <2> QED
      BY <1>2, <1>4, <2>3
  <1>6. /\ RiskInv' /\ executed_notional' + remaining_notional' = TotalNotional
        /\ remaining_notional' \in 0 .. TotalNotional
        /\ completed' \in BOOLEAN /\ (completed' <=> remaining_notional' = 0)
        /\ current_step' \in 0 .. Horizon
        /\ current_step' = Horizon => completed'
    <2>1. CASE Execute(q, cond) /\ current_step' = current_step + 1
      <3>1. /\ RiskInv' /\ executed_notional' + remaining_notional' = TotalNotional
            /\ remaining_notional' = remaining_notional - q
            /\ remaining_notional' \in 0 .. remaining_notional
            /\ completed' \in BOOLEAN /\ (completed' <=> remaining_notional' = 0)
        BY <1>2, <1>4, <2>1, ExecuteAccounts
      <3>2. current_step' = Horizon => completed'
        BY <1>2, <1>4, <1>5, <2>1, <3>1
      <3> QED
        BY <1>2, <2>1, <3>1, <3>2
    <2>2. CASE UNCHANGED <<riskVars, orderVars, current_step>>
      BY <1>2, <2>2 DEF IInv, SchedulerTypeOK, InventoryAccounted, RiskInv, RiskTypeOK,
                        RiskBounds, MaxSlippageBudget, riskVars, orderVars
    <2> QED
      BY <1>3, <2>1, <2>2
  <1>7. SchedulerTypeOK' /\ RiskBounds'
    BY <1>1, <1>6 DEF IInv, SchedulerTypeOK, RiskInv, Trajectories
  <1>8. InventoryAccounted' /\ OnSchedule' /\ ModesApart'
    BY <1>1, <1>2, <1>6 DEF IInv, InventoryAccounted, OnSchedule, ModesApart, Gated
  <1> QED
    BY <1>7, <1>8 DEF IInv

(* on_block_regime_ac: the strategy's account and the order's move         *)
(* together, and the last step sweeps both.                                *)
LEMMA RegimeAcStep ==
  ASSUME IInv, OnBlockRegimeAc
  PROVE  IInv'
  <1> USE RiskAssumption, SchedulerAssumption
  <1>1. /\ mode = "RegimeAc" /\ ~completed
        /\ steps_taken' = steps_taken + 1
        /\ UNCHANGED <<executed_notional, used_slippage, emergency_used, mode,
                       schedule, current_step>>
    BY DEF OnBlockRegimeAc, riskVars, optimalVars
  <1>2. /\ remaining_notional \in 1 .. TotalNotional
        /\ rac_remaining = remaining_notional
        /\ steps_taken \in 0 .. Horizon - 1
        /\ schedule = None /\ current_step = 0
    BY <1>1 DEF IInv, SchedulerTypeOK, InventoryAccounted, OnSchedule, ModesApart, Gated
  <1>3. PICK q \in RegimeTrades(rac_remaining, StepsLeft(steps_taken)) :
          /\ rac_remaining' = rac_remaining - q
          /\ IF q > 0 THEN BookChunk(q) ELSE UNCHANGED orderVars
    BY DEF OnBlockRegimeAc
  <1>4. q \in 0 .. remaining_notional
    BY <1>2 DEF RegimeTrades
  <1>5. steps_taken + 1 = Horizon => q = remaining_notional
    BY <1>2 DEF RegimeTrades, StepsLeft
  <1>6. /\ remaining_notional' = remaining_notional - q
        /\ completed' \in BOOLEAN /\ (completed' <=> remaining_notional' = 0)
    <2>1. CASE q > 0
      BY <1>2, <1>3, <1>4, <2>1, BookChunkAccounts
    <2>2. CASE q = 0
      <3>1. remaining_notional' = remaining_notional /\ completed' = completed
        BY <1>3, <2>2 DEF orderVars
      <3>2. completed' = FALSE
        BY <1>1, <3>1 DEF IInv, SchedulerTypeOK
      <3>3. remaining_notional' # 0 /\ remaining_notional' = remaining_notional - q
        BY <1>2, <2>2, <3>1
      <3> QED
        BY <3>2, <3>3, Zenon
    <2> QED
      BY <1>4, <2>1, <2>2
  <1>7. /\ rac_remaining' = remaining_notional'
        /\ remaining_notional' \in 0 .. TotalNotional
        /\ steps_taken' \in 0 .. Horizon
        /\ steps_taken' = Horizon => completed'
    BY <1>1, <1>2, <1>3, <1>4, <1>5, <1>6
  <1>8. SchedulerTypeOK' /\ RiskBounds'
    BY <1>1, <1>2, <1>6, <1>7 DEF IInv, SchedulerTypeOK, RiskTypeOK, RiskBounds,
                                  MaxSlippageBudget, Trajectories
  <1>9. InventoryAccounted' /\ OnSchedule' /\ ModesApart'
    BY <1>1, <1>2, <1>6, <1>7 DEF IInv, InventoryAccounted, OnSchedule, ModesApart, Gated
  <1> QED
    BY <1>8, <1>9 DEF IInv

-----------------------------------------------------------------------------
(* A new scheduler satisfies the invariant. *)
LEMMA InitEstablishes ==
  SchedulerInit => IInv
  <1> USE RiskAssumption, SchedulerAssumption
  <1> SUFFICES ASSUME SchedulerInit PROVE IInv
    OBVIOUS
  <1>1. SchedulerTypeOK
    <2>1. /\ RiskTypeOK
          /\ remaining_notional \in 0 .. TotalNotional
          /\ rac_remaining \in 0 .. TotalNotional
          /\ current_step \in Nat /\ steps_taken \in Nat
      BY DEF SchedulerInit, RiskInit, RiskTypeOK
    <2>2. mode \in ExecutionMode /\ completed \in BOOLEAN
      BY Zenon DEF SchedulerInit
    <2>3. schedule \in Trajectories \cup {None}
      BY Zenon DEF SchedulerInit
    <2> QED
      BY <2>1, <2>2, <2>3 DEF SchedulerTypeOK
  <1>2. RiskBounds
    <2>1. SlippageRate * TotalNotional \in Nat /\ SlippageRate * 0 = 0
      BY ProductFacts
    <2> QED
      BY <2>1 DEF SchedulerInit, RiskInit, RiskBounds, MaxSlippageBudget
  <1>3. InventoryAccounted /\ OnSchedule /\ ModesApart
    BY DEF SchedulerInit, RiskInit, InventoryAccounted, OnSchedule, ModesApart, ExecutionMode,
           Gated
  <1> QED
    BY <1>1, <1>2, <1>3 DEF IInv

(* on_block preserves it, whichever mode it dispatches to. *)
LEMMA OnBlockPreserves ==
  IInv /\ [OnBlock]_schedulerVars => IInv'
  <1> SUFFICES ASSUME IInv, [OnBlock]_schedulerVars PROVE IInv'
    OBVIOUS
  <1>1. CASE OnBlockTwap
    BY <1>1, TwapStep
  <1>2. CASE OnBlockRegimeAc
    BY <1>2, RegimeAcStep
  <1>3. ASSUME NEW cond \in Conditions, OnBlockHeuristic(cond) PROVE IInv'
    BY <1>3, HeuristicStep
  <1>4. ASSUME NEW cond \in Conditions, OnBlockOptimal(cond) PROVE IInv'
    BY <1>4, OptimalStep
  <1>5. ASSUME NEW cond \in Conditions, OnBlockAdaptive(cond) PROVE IInv'
    BY <1>5, AdaptiveStep
  <1>6. CASE UNCHANGED schedulerVars
    BY <1>6 DEF schedulerVars, riskVars, orderVars, optimalVars, regimeVars, IInv,
                SchedulerTypeOK, RiskTypeOK, Trajectories, RiskBounds, MaxSlippageBudget,
                InventoryAccounted, OnSchedule, ModesApart
  <1> QED
    BY <1>1, <1>2, <1>3, <1>4, <1>5, <1>6 DEF OnBlock

(* The inductive invariant holds of every reachable state. *)
THEOREM Invariance ==
  SchedulerSpec => []IInv
  <1> QED
    BY InitEstablishes, OnBlockPreserves, PTL DEF SchedulerSpec

(* Every variable keeps its type: in particular remaining_notional never   *)
(* goes below zero and a schedule, once made, is a trajectory.             *)
THEOREM TypeCorrect ==
  SchedulerSpec => []SchedulerTypeOK
  <1>1. IInv => SchedulerTypeOK
    BY DEF IInv
  <1> QED
    BY <1>1, Invariance, PTL

(* Budget, average rate and reserve hold in every mode, for every rate,    *)
(* reserve and sequence of blocks.                                         *)
THEOREM RiskBounded ==
  SchedulerSpec => []RiskBounds
  <1>1. IInv => RiskBounds
    BY DEF IInv
  <1> QED
    BY <1>1, Invariance, PTL

(* A chunk that fits the order and asks for its share is never refused.    *)
THEOREM FairShareAlwaysGranted ==
  SchedulerSpec => []FairShareGranted
  <1>1. IInv => FairShareGranted
    BY BoundsGrantFairShare DEF IInv, SchedulerTypeOK, RiskInv
  <1> QED
    BY <1>1, Invariance, PTL

(* No lot is lost or sold twice, and complete means sold in full. *)
THEOREM NothingLost ==
  SchedulerSpec => []InventoryAccounted
  <1>1. IInv => InventoryAccounted
    BY DEF IInv
  <1> QED
    BY <1>1, Invariance, PTL

(* The order follows its trajectory and is done by its last step. *)
THEOREM AlwaysOnSchedule ==
  SchedulerSpec => []OnSchedule
  <1>1. IInv => OnSchedule
    BY DEF IInv
  <1> QED
    BY <1>1, Invariance, PTL

-----------------------------------------------------------------------------
(* Booking at most what is left, with or without the risk manager, sells   *)
(* some of it and takes back no slippage.                                  *)
LEMMA ExecuteSells ==
  ASSUME IInv, NEW cond \in Conditions, NEW chunk \in 0 .. remaining_notional,
         Execute(chunk, cond)
  PROVE  remaining_notional' \in 0 .. remaining_notional /\ used_slippage' >= used_slippage
  <1>1. used_slippage \in Nat /\ remaining_notional \in Nat /\ chunk \in Nat
    BY RiskAssumption DEF IInv, SchedulerTypeOK, RiskTypeOK
  <1>2. PredictSlippage(chunk, cond) \in Nat
    BY <1>1, PredictionType
  <1>3. remaining_notional' \in 0 .. remaining_notional
    BY <1>1, BookChunkAccounts DEF Execute
  <1>4. used_slippage' = used_slippage + PredictSlippage(chunk, cond)
    BY DEF Execute, BookRisk
  <1> QED
    BY <1>1, <1>2, <1>3, <1>4

(* One block sells some of what is left, and only while the order is open. *)
LEMMA OnBlockSells ==
  ASSUME IInv, OnBlock
  PROVE  /\ ~completed
         /\ remaining_notional' \in 0 .. remaining_notional
         /\ used_slippage' >= used_slippage
  <1> USE RiskAssumption, SchedulerAssumption
  <1>1. /\ remaining_notional \in Nat /\ used_slippage \in Nat
        /\ current_step \in Nat /\ rac_remaining \in Nat
    BY DEF IInv, SchedulerTypeOK, RiskTypeOK
  <1>2. CASE OnBlockTwap
    <2>1. Smaller(TwapSlice, remaining_notional) \in 0 .. remaining_notional
      BY <1>1 DEF Smaller
    <2> QED
      BY <1>1, <1>2, <2>1, BookChunkAccounts DEF OnBlockTwap, riskVars
  <1>3. CASE OnBlockRegimeAc
    <2>1. mode = "RegimeAc" /\ ~completed /\ used_slippage' = used_slippage
      BY <1>3 DEF OnBlockRegimeAc, riskVars
    <2>2. PICK q \in RegimeTrades(rac_remaining, StepsLeft(steps_taken)) :
            IF q > 0 THEN BookChunk(q) ELSE UNCHANGED orderVars
      BY <1>3 DEF OnBlockRegimeAc
    <2>3. q \in 0 .. remaining_notional
      BY <1>1, <2>1 DEF RegimeTrades, IInv, InventoryAccounted
    <2> QED
      BY <1>1, <2>1, <2>2, <2>3, BookChunkAccounts DEF orderVars
  <1>4. ASSUME NEW cond \in Conditions,
               (\E chunk \in 0 .. remaining_notional : Execute(chunk, cond))
                 \/ UNCHANGED <<riskVars, orderVars>>
        PROVE  remaining_notional' \in 0 .. remaining_notional /\ used_slippage' >= used_slippage
    BY <1>1, <1>4, ExecuteSells DEF riskVars, orderVars
  <1>5. ASSUME NEW cond \in Conditions, OnBlockHeuristic(cond)
        PROVE  /\ ~completed
               /\ remaining_notional' \in 0 .. remaining_notional
               /\ used_slippage' >= used_slippage
    <2>1. PICK c \in HeuristicChunks :
            LET chunk == Smaller(c, remaining_notional) IN
              \/ Execute(chunk, cond)
              \/ \E half \in Halves(chunk) :
                   Execute(half, cond) \/ UNCHANGED <<riskVars, orderVars>>
      BY <1>5 DEF OnBlockHeuristic
    <2>2. Smaller(c, remaining_notional) \in 0 .. remaining_notional
      BY <1>1 DEF Smaller
    <2>3. \A half \in Halves(Smaller(c, remaining_notional)) :
            half \in 0 .. remaining_notional
      BY <1>1, <2>2 DEF Halves
    <2> QED
      BY <1>4, <1>5, <2>1, <2>2, <2>3 DEF OnBlockHeuristic
  <1>6. ASSUME NEW cond \in Conditions, OnBlockOptimal(cond)
        PROVE  /\ ~completed
               /\ remaining_notional' \in 0 .. remaining_notional
               /\ used_slippage' >= used_slippage
    <2>1. PICK x \in Trajectories : FollowSchedule(x, cond)
      BY <1>6 DEF OnBlockOptimal, IInv, SchedulerTypeOK
    <2>2. CASE current_step >= Horizon
      BY <1>1, <1>6, <2>1, <2>2 DEF FollowSchedule, OnBlockOptimal, riskVars
    <2>3. CASE ~(current_step >= Horizon)
      <3> DEFINE proposed == Smaller(x[current_step] - x[current_step + 1], remaining_notional)
      <3>1. current_step \in 0 .. Horizon - 1
        BY <1>1, <2>3
      <3>2. proposed \in 0 .. remaining_notional
        BY <1>1, <3>1, TrajectoryFacts DEF Smaller
      <3>3. Execute(proposed, cond) \/ UNCHANGED <<riskVars, orderVars>>
        BY <2>1, <2>3 DEF FollowSchedule
      <3> QED
        BY <1>4, <1>6, <3>2, <3>3 DEF OnBlockOptimal
    <2> QED
      BY <2>2, <2>3
  <1>7. ASSUME NEW cond \in Conditions, OnBlockAdaptive(cond)
        PROVE  /\ ~completed
               /\ remaining_notional' \in 0 .. remaining_notional
               /\ used_slippage' >= used_slippage
    BY <1>4, <1>7 DEF OnBlockAdaptive, AdaptiveChunks
  <1>8. (OnBlockTwap \/ OnBlockRegimeAc) => ~completed
    BY DEF OnBlockTwap, OnBlockRegimeAc
  <1> QED
    BY <1>2, <1>3, <1>5, <1>6, <1>7, <1>8 DEF OnBlock

(* The average-rate bound seen from the order's side: what has been booked *)
(* never exceeds the rate on what has been sold.                           *)
WithinRate == used_slippage <= SlippageRate * (TotalNotional - remaining_notional)

(* The invariant implies it, in the modes that book no slippage as well.   *)
LEMMA SpentWithinRate ==
  ASSUME IInv
  PROVE  WithinRate
  <1> USE RiskAssumption DEF WithinRate
  <1>1. /\ executed_notional \in Nat /\ remaining_notional \in 0 .. TotalNotional
        /\ mode \in ExecutionMode
    BY DEF IInv, SchedulerTypeOK, RiskTypeOK
  <1>2. CASE mode \in Gated
    <2>1. executed_notional = TotalNotional - remaining_notional
      BY <1>1, <1>2 DEF IInv, InventoryAccounted
    <2> QED
      BY <2>1 DEF IInv, RiskBounds
  <1>3. CASE mode \notin Gated
    <2>1. used_slippage = 0 /\ TotalNotional - remaining_notional \in Nat
      BY <1>1, <1>3 DEF IInv, ModesApart
    <2> QED
      BY <2>1, ProductFacts
  <1> QED
    BY <1>2, <1>3

(* The scheduler implements the abstract sell order of SellOrder. *)
THEOREM SchedulerImplementsOrder ==
  SchedulerSpec => ImplementsOrder
  <1> USE RiskAssumption, SchedulerAssumption
  <1>1. SchedulerInit => Order!OrderInit
    BY DEF SchedulerInit, RiskInit, Order!OrderInit
  <1>2. IInv => WithinRate
    BY SpentWithinRate
  <1>3. IInv /\ IInv' /\ WithinRate' /\ [OnBlock]_schedulerVars
          => [Order!Sell]_<<remaining_notional, used_slippage, completed>>
    <2> SUFFICES ASSUME IInv, IInv', WithinRate', [OnBlock]_schedulerVars
                 PROVE  [Order!Sell]_<<remaining_notional, used_slippage, completed>>
      OBVIOUS
    <2>1. CASE OnBlock
      <3>1. /\ ~completed
            /\ remaining_notional' \in 0 .. remaining_notional
            /\ used_slippage' >= used_slippage
        BY <2>1, OnBlockSells
      <3>2. used_slippage' <= SlippageRate * (TotalNotional - remaining_notional')
        BY DEF WithinRate
      <3>3. completed' = (remaining_notional' = 0)
        <4>1. completed' \in BOOLEAN /\ (completed' <=> remaining_notional' = 0)
          BY DEF IInv, SchedulerTypeOK, InventoryAccounted
        <4> QED
          BY <4>1, Zenon
      <3> QED
        BY <3>1, <3>2, <3>3 DEF Order!Sell
    <2>2. CASE UNCHANGED schedulerVars
      BY <2>2 DEF schedulerVars, riskVars, orderVars
    <2> QED
      BY <2>1, <2>2
  <1> QED
    BY <1>1, <1>2, <1>3, Invariance, PTL DEF SchedulerSpec, ImplementsOrder, Order!OrderSpec

=============================================================================
