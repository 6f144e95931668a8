-------------------------- MODULE LiveEngineProofs --------------------------
(***************************************************************************)
(* What the live engine guarantees for every order, every retry limit and  *)
(* every chain, whatever the HTTP handlers do between its awaits.          *)
(*                                                                         *)
(* The engine only ever moves the scheduler by one of the scheduler's own  *)
(* steps, so it implements SchedulerSpec and inherits the theorems of      *)
(* SchedulerProofs.  The rest needs to know what each await leaves behind: *)
(* InFlight says how far counters and published value lag while a block is *)
(* under way, Halted that a stopped engine cannot reach a second decision. *)
(***************************************************************************)
EXTENDS LiveEngine, SchedulerProofs

(* The awaits before a decision, from which a stopped engine has not yet   *)
(* booked anything.                                                        *)
BeforeDecision == RpcCalls \cup {"decide"}

(* While a block is under way it is counted late, and the reader of        *)
(* AppState sees what was left before it.                                  *)
InFlight ==
  /\ pc \in {"reserves", "decide"} => blocks_processed < last_seen_block
  /\ pc = "count" =>
       /\ chunks_executed + risk_denials < blocks_processed
       /\ ~completed => chunks_executed + risk_denials + 1 = blocks_processed
       /\ chunks_executed <= TotalNotional - remaining_before
  /\ pc \in {"count", "publish"} =>
       remaining_before >= remaining_notional /\ published_remaining = remaining_before

(* A running engine books nothing while stopped, and one that was stopped  *)
(* on its way to a decision has not booked yet.                            *)
Halted ==
  /\ is_running \/ pc \in BeforeDecision => booked_stopped = 0
  /\ booked_stopped <= 1

(* A call under way has not failed MaxRetries times. *)
RetriesLeft == pc # "down" => attempt < MaxRetries

EngineInv ==
  /\ EngineTypeOK
  /\ mode \in LiveModes
  /\ CountersAgree
  /\ PublishedLags
  /\ InFlight
  /\ Halted
  /\ RetriesLeft

-----------------------------------------------------------------------------
(* What a decision does to the order, as far as the engine is concerned.   *)
LEMMA DecideSells ==
  ASSUME IInv, IInv', mode \in LiveModes, Decide
  PROVE  /\ mode' = mode
         /\ remaining_notional' \in 0 .. remaining_notional
         /\ executed_notional + remaining_notional = TotalNotional
         /\ executed_notional' + remaining_notional' = TotalNotional
         /\ completed => completed' /\ remaining_notional' = remaining_notional
  <1> USE RiskAssumption, SchedulerAssumption
  <1>1. remaining_notional \in 0 .. TotalNotional /\ executed_notional \in Nat
        /\ remaining_notional' \in 0 .. TotalNotional /\ executed_notional' \in Nat
    BY DEF IInv, SchedulerTypeOK, RiskTypeOK
  <1>2. executed_notional + remaining_notional = TotalNotional
    BY DEF IInv, InventoryAccounted, LiveModes, Gated
  <1>3. OnBlock \/ (completed /\ UNCHANGED schedulerVars)
    BY DEF Decide
  <1>4. mode' = mode
    BY <1>3 DEF OnBlock, OnBlockTwap, OnBlockRegimeAc, OnBlockHeuristic, OnBlockOptimal,
                OnBlockAdaptive, schedulerVars
  <1>5. executed_notional' + remaining_notional' = TotalNotional
    BY <1>4 DEF IInv, InventoryAccounted, LiveModes, Gated
  <1>6. CASE OnBlock
    <2>1. ~completed /\ remaining_notional' \in 0 .. remaining_notional
      BY <1>6, OnBlockSells
    <2>2. completed => completed' /\ remaining_notional' = remaining_notional
      BY <2>1, Zenon
    <2> QED
      BY <1>4, <1>2, <1>5, <2>1, <2>2, Zenon
  <1>7. CASE completed /\ UNCHANGED schedulerVars
    <2>1. remaining_notional' = remaining_notional /\ completed'
      BY <1>7, Zenon DEF schedulerVars, orderVars
    <2>2. remaining_notional' \in 0 .. remaining_notional
      BY <1>1, <2>1
    <2> QED
      BY <1>4, <1>2, <1>5, <2>1, <2>2, Zenon
  <1> QED
    BY <1>3, <1>6, <1>7

(* Every step of the engine is a block of the scheduler or leaves it be.   *)
LEMMA EngineStepsScheduler ==
  [EngineNext]_engineVars => [OnBlock]_schedulerVars
  BY DEF EngineNext, EngineStep, RpcAnswer, RpcFailure, ResolveDecimals, Tick, GetBlockNumber,
         GetReserves, Decide, CountDecision, Publish, SetRunning, CtrlC, NewBlock, engineVars

(* The engine drives the scheduler by its own steps only: behind retries,  *)
(* stops and awaits every behaviour is one of the scheduler's.             *)
THEOREM EngineDrivesScheduler ==
  EngineSpec => SchedulerSpec
  <1>1. EngineInit => SchedulerInit
    BY DEF EngineInit
  <1> QED
    BY <1>1, EngineStepsScheduler, PTL DEF EngineSpec, SchedulerSpec

(* So the engine sells one order, at no more than the agreed rate, however *)
(* it is stopped, restarted or cut short.                                  *)
THEOREM EngineImplementsOrder ==
  EngineSpec => ImplementsOrder
  BY EngineDrivesScheduler, SchedulerImplementsOrder, PTL

-----------------------------------------------------------------------------
(* A freshly started engine. *)
LEMMA EngineInitEstablishes ==
  EngineInit => EngineInv
  <1> USE RiskAssumption, SchedulerAssumption, EngineAssumption
  <1> SUFFICES ASSUME EngineInit PROVE EngineInv
    OBVIOUS
  <1>1. SchedulerTypeOK /\ remaining_notional = TotalNotional
    BY InitEstablishes DEF EngineInit, IInv, SchedulerInit
  <1>2. EngineTypeOK
    <2>1. is_running \in BOOLEAN /\ ctrl_c \in BOOLEAN
      BY Zenon DEF EngineInit
    <2> QED
      BY <1>1, <2>1 DEF EngineInit, EngineTypeOK, RpcCalls
  <1>3. executed_notional = 0
    BY DEF EngineInit, SchedulerInit, RiskInit
  <1> QED
    BY <1>1, <1>2, <1>3 DEF EngineInit, EngineInv, CountersAgree, PublishedLags, InFlight,
                            Halted, RetriesLeft, BeforeDecision, RpcCalls

(* The steps that leave the scheduler alone. *)
LEMMA RpcPreserves ==
  ASSUME EngineInv, RpcFailure \/ RpcAnswer
  PROVE  EngineInv'
  <1> USE RiskAssumption, SchedulerAssumption, EngineAssumption
  <1> USE DEF EngineInv, EngineTypeOK, CountersAgree, PublishedLags, InFlight, Halted,
              RetriesLeft, BeforeDecision, RpcCalls, appState, counters, outside
  <1>1. UNCHANGED <<executed_notional, mode, remaining_notional, completed>>
    BY DEF RpcFailure, RpcAnswer, ResolveDecimals, GetBlockNumber, GetReserves, schedulerVars,
           riskVars, orderVars
  <1>2. SchedulerTypeOK'
    BY DEF RpcFailure, RpcAnswer, ResolveDecimals, GetBlockNumber, GetReserves, schedulerVars,
           riskVars, orderVars, optimalVars, regimeVars, SchedulerTypeOK, RiskTypeOK,
           Trajectories
  <1>3. remaining_notional \in Nat /\ executed_notional \in Nat
    BY DEF SchedulerTypeOK, RiskTypeOK
  <1>4. CASE RpcFailure
    BY <1>1, <1>2, <1>3, <1>4 DEF RpcFailure
  <1>5. CASE ResolveDecimals
    BY <1>1, <1>2, <1>3, <1>5 DEF ResolveDecimals
  <1>6. ASSUME NEW n \in 0 .. MaxBlock, GetBlockNumber(n) PROVE EngineInv'
    BY <1>1, <1>2, <1>3, <1>6 DEF GetBlockNumber
  <1>7. CASE GetReserves
    BY <1>1, <1>2, <1>3, <1>7 DEF GetReserves
  <1> QED
    BY <1>4, <1>5, <1>6, <1>7 DEF RpcAnswer

(* The decision: the only step that moves the order. *)
LEMMA DecidePreserves ==
  ASSUME EngineInv, IInv, IInv', Decide
  PROVE  EngineInv'
  <1> USE RiskAssumption, SchedulerAssumption, EngineAssumption
  <1>1. /\ mode' = mode
        /\ remaining_notional' \in 0 .. remaining_notional
        /\ executed_notional + remaining_notional = TotalNotional
        /\ executed_notional' + remaining_notional' = TotalNotional
        /\ completed => completed' /\ remaining_notional' = remaining_notional
    BY DecideSells DEF EngineInv
  <1>2. /\ pc = "decide" /\ pc' = "count"
        /\ remaining_before' = remaining_notional
        /\ blocks_processed' = blocks_processed + 1
        /\ booked_stopped' \in {booked_stopped, booked_stopped + 1}
        /\ is_running => booked_stopped' = booked_stopped
        /\ UNCHANGED <<attempt, last_seen_block, is_running, chunks_executed,
                       risk_denials, published_remaining, head, ctrl_c>>
    BY DEF Decide, outside
  <1>3. /\ SchedulerTypeOK' /\ remaining_notional \in 0 .. TotalNotional
        /\ executed_notional \in Nat /\ executed_notional' \in Nat
    BY DEF IInv, SchedulerTypeOK, RiskTypeOK
  <1>4. EngineTypeOK' /\ mode' \in LiveModes
    BY <1>1, <1>2, <1>3 DEF EngineInv, EngineTypeOK
  <1>5. CountersAgree' /\ PublishedLags' /\ InFlight'
    BY <1>1, <1>2, <1>3 DEF EngineInv, EngineTypeOK, CountersAgree, PublishedLags, InFlight
  <1>6. Halted' /\ RetriesLeft'
    BY <1>2 DEF EngineInv, EngineTypeOK, Halted, RetriesLeft, BeforeDecision, RpcCalls
  <1> QED
    BY <1>4, <1>5, <1>6 DEF EngineInv

(* The steps after it: counting and publishing. *)
LEMMA CountAndPublishPreserve ==
  ASSUME EngineInv, IInv, CountDecision \/ Publish
  PROVE  EngineInv'
  <1> USE RiskAssumption, SchedulerAssumption, EngineAssumption
  <1>1. UNCHANGED <<executed_notional, mode, remaining_notional, completed>>
    BY DEF CountDecision, Publish, schedulerVars, riskVars, orderVars
  <1>2. SchedulerTypeOK'
    BY DEF CountDecision, Publish, EngineInv, EngineTypeOK, schedulerVars,
           riskVars, orderVars, optimalVars, regimeVars, SchedulerTypeOK, RiskTypeOK,
           Trajectories
  <1>3. /\ remaining_notional \in Nat
        /\ executed_notional + remaining_notional = TotalNotional
        /\ executed_notional \in Nat
    BY DEF IInv, SchedulerTypeOK, RiskTypeOK, InventoryAccounted, EngineInv, LiveModes, Gated
  <1> USE DEF EngineInv, EngineTypeOK, CountersAgree, PublishedLags, InFlight, Halted,
              RetriesLeft, BeforeDecision, RpcCalls, counters, outside
  <1>4. CASE CountDecision
    BY <1>1, <1>2, <1>3, <1>4 DEF CountDecision
  <1>5. CASE Publish
    BY <1>1, <1>2, <1>3, <1>5 DEF Publish
  <1> QED
    BY <1>4, <1>5

(* The ticker, the handlers, the operator and the chain. *)
LEMMA OthersPreserve ==
  ASSUME EngineInv, IInv,
         \/ Tick \/ CtrlC \/ NewBlock
         \/ \E running \in BOOLEAN : SetRunning(running)
         \/ UNCHANGED engineVars
  PROVE  EngineInv'
  <1> USE RiskAssumption, SchedulerAssumption, EngineAssumption
  <1>1. UNCHANGED <<executed_notional, mode, remaining_notional, completed>>
    BY DEF Tick, CtrlC, NewBlock, SetRunning, engineVars, schedulerVars, riskVars, orderVars
  <1>2. SchedulerTypeOK'
    BY DEF Tick, CtrlC, NewBlock, SetRunning, engineVars, EngineInv, EngineTypeOK,
           schedulerVars, riskVars, orderVars, optimalVars, regimeVars, SchedulerTypeOK,
           RiskTypeOK, Trajectories
  <1>3. /\ remaining_notional \in Nat
        /\ executed_notional + remaining_notional = TotalNotional
        /\ executed_notional \in Nat
    BY DEF IInv, SchedulerTypeOK, RiskTypeOK, InventoryAccounted, EngineInv, LiveModes, Gated
  <1> USE DEF EngineInv, EngineTypeOK, CountersAgree, PublishedLags, InFlight, Halted,
              RetriesLeft, BeforeDecision, RpcCalls, appState, counters, outside, taskVars
  <1>4. CASE Tick
    BY <1>1, <1>2, <1>3, <1>4 DEF Tick
  <1>5. CASE CtrlC
    BY <1>1, <1>2, <1>3, <1>5 DEF CtrlC
  <1>6. CASE NewBlock
    BY <1>1, <1>2, <1>3, <1>6 DEF NewBlock
  <1>7. ASSUME NEW running \in BOOLEAN, SetRunning(running) PROVE EngineInv'
    BY <1>1, <1>2, <1>3, <1>7 DEF SetRunning
  <1>8. CASE UNCHANGED engineVars
    BY <1>1, <1>2, <1>3, <1>8 DEF engineVars
  <1> QED
    BY <1>4, <1>5, <1>6, <1>7, <1>8

-----------------------------------------------------------------------------
(* The engine's inductive invariant, over the one of the scheduler it      *)
(* drives.                                                                 *)
THEOREM EngineInvariance ==
  EngineSpec => []EngineInv
  <1>1. IInv /\ IInv' /\ EngineInv /\ [EngineNext]_engineVars => EngineInv'
    BY RpcPreserves, DecidePreserves, CountAndPublishPreserve, OthersPreserve
       DEF EngineNext, EngineStep
  <1>2. EngineSpec => []IInv
    BY EngineDrivesScheduler, Invariance, PTL
  <1> QED
    BY <1>1, <1>2, EngineInitEstablishes, PTL DEF EngineSpec

(* Every variable keeps its type: no call fails more than MaxRetries times *)
(* and the published value is never more than the order.                   *)
THEOREM EngineTypeCorrect ==
  EngineSpec => []EngineTypeOK
  <1>1. EngineInv => EngineTypeOK
    BY DEF EngineInv
  <1> QED
    BY <1>1, EngineInvariance, PTL

(* The counters behind /metrics agree with the blocks and with the order.  *)
THEOREM CountersAlwaysAgree ==
  EngineSpec => []CountersAgree
  <1>1. EngineInv => CountersAgree
    BY DEF EngineInv
  <1> QED
    BY <1>1, EngineInvariance, PTL

(* /status lags by at most the chunk in flight and never understates.      *)
THEOREM PublishedLagsAtMostOne ==
  EngineSpec => []PublishedLags
  <1>1. EngineInv => PublishedLags
    BY DEF EngineInv
  <1> QED
    BY <1>1, EngineInvariance, PTL

(* After POST /stop at most one chunk is booked. *)
THEOREM StopAlwaysTakesEffect ==
  EngineSpec => []StopTakesEffect
  <1>1. EngineInv => StopTakesEffect
    BY DEF EngineInv, Halted, StopTakesEffect
  <1> QED
    BY <1>1, EngineInvariance, PTL
=============================================================================
