----------------------------- MODULE LiveEngine -----------------------------
(***************************************************************************)
(* The live engine process: Engine::run and on_new_block in                *)
(* engine/engine.rs, the RPC retry helper of blockchain/client.rs, the     *)
(* HTTP control plane of api/mod.rs and the shutdown of main.rs, around    *)
(* the Scheduler.  The engine task and the HTTP handlers run concurrently  *)
(* and share AppState; every await of the engine is a place where the      *)
(* handlers and the chain may move.                                        *)
(*                                                                         *)
(*   pc                where the engine task stands; "down": process gone  *)
(*   attempt           failed attempts of the RPC call under way           *)
(*   last_seen_block   Engine field                                        *)
(*   remaining_before  local of on_new_block                               *)
(*   is_running, blocks_processed, chunks_executed, risk_denials,          *)
(*   published_remaining   AppState                                        *)
(*   head              the newest block of the chain (external)            *)
(*   ctrl_c            the operator asked the process to end               *)
(*   booked_stopped    history: chunks booked while stopped               *)
(***************************************************************************)
EXTENDS Scheduler

CONSTANTS
  MaxRetries,   \* MAX_RETRIES of the RPC helper
  MaxBlock      \* bound on the chain's growth, for TLC

ASSUME EngineAssumption ==
  /\ MaxRetries \in Nat \ {0}
  /\ MaxBlock \in Nat

VARIABLES pc, attempt, last_seen_block, remaining_before, is_running,
          blocks_processed, chunks_executed, risk_denials, published_remaining,
          head, ctrl_c, booked_stopped

counters == <<blocks_processed, chunks_executed, risk_denials>>
appState == <<is_running, counters, published_remaining>>
taskVars == <<pc, attempt, last_seen_block, remaining_before>>
outside  == <<head, ctrl_c>>
engineVars == <<schedulerVars, taskVars, appState, outside, booked_stopped>>

(* main.rs builds the scheduler in one of these modes only. *)
LiveModes == {"Heuristic", "Optimal", "AdaptiveOptimal"}

RpcCalls == {"decimals", "block_number", "reserves"}

EngineTypeOK ==
  /\ SchedulerTypeOK
  /\ pc \in RpcCalls \cup {"tick", "decide", "count", "publish", "down"}
  /\ attempt \in 0 .. MaxRetries
  /\ last_seen_block \in 0 .. MaxBlock
  /\ remaining_before \in 0 .. TotalNotional
  /\ is_running \in BOOLEAN
  /\ blocks_processed \in Nat /\ chunks_executed \in Nat /\ risk_denials \in Nat
  /\ published_remaining \in 0 .. TotalNotional
  /\ head \in 0 .. MaxBlock
  /\ ctrl_c \in BOOLEAN
  /\ booked_stopped \in Nat

(* Engine::new and AppState::new: the control flag starts raised. *)
EngineInit ==
  /\ SchedulerInit
  /\ mode \in LiveModes
  /\ pc = "decimals"
  /\ attempt = 0
  /\ last_seen_block = 0
  /\ remaining_before = TotalNotional
  /\ is_running = TRUE
  /\ blocks_processed = 0 /\ chunks_executed = 0 /\ risk_denials = 0
  /\ published_remaining = TotalNotional
  /\ head \in 0 .. MaxBlock
  /\ ctrl_c = FALSE
  /\ booked_stopped = 0

-----------------------------------------------------------------------------
(* Bug shape: one attempt more than MaxRetries. *)
RpcFailureOneMore ==
  /\ pc \in RpcCalls
  /\ attempt' = attempt + 1
  /\ pc' = IF attempt = MaxRetries THEN "down" ELSE pc
  /\ UNCHANGED <<schedulerVars, last_seen_block, remaining_before, appState,
                 outside, booked_stopped>>

(* retry_with_backoff: a failed attempt is tried again until MaxRetries of *)
(* them have failed; then the error leaves run() through `?` and the       *)
(* select! of main ends the process, HTTP server included.                 *)
RpcFailure ==
  /\ pc \in RpcCalls
  /\ attempt' = attempt + 1
  /\ pc' = IF attempt + 1 = MaxRetries THEN "down" ELSE pc
  /\ UNCHANGED <<schedulerVars, last_seen_block, remaining_before, appState,
                 outside, booked_stopped>>

(* The four startup calls of run(): two token addresses, two decimals. *)
ResolveDecimals ==
  /\ pc = "decimals"
  /\ pc' = "tick"
  /\ attempt' = 0
  /\ UNCHANGED <<schedulerVars, last_seen_block, remaining_before, appState,
                 outside, booked_stopped>>

(* Bug shape: the control flag is not read. *)
TickUnchecked ==
  /\ pc = "tick"
  /\ pc' = "block_number"
  /\ UNCHANGED <<schedulerVars, attempt, last_seen_block, remaining_before,
                 appState, outside, booked_stopped>>

(* The ticker fires; a stopped engine goes back to sleep. *)
Tick ==
  /\ pc = "tick"
  /\ is_running
  /\ pc' = "block_number"
  /\ UNCHANGED <<schedulerVars, attempt, last_seen_block, remaining_before,
                 appState, outside, booked_stopped>>

(* Bug shape: a block already seen is processed again. *)
GetBlockNumberAgain(n) ==
  /\ pc = "block_number"
  /\ n <= head
  /\ attempt' = 0
  /\ last_seen_block' = n
  /\ pc' = "reserves"
  /\ UNCHANGED <<schedulerVars, remaining_before, appState, outside, booked_stopped>>

(* Bug shape: the block right after the last one is taken for the same. *)
GetBlockNumberSkipping(n) ==
  /\ pc = "block_number"
  /\ n <= head
  /\ attempt' = 0
  /\ IF n > last_seen_block + 1
     THEN last_seen_block' = n /\ pc' = "reserves"
     ELSE pc' = "tick" /\ UNCHANGED last_seen_block
  /\ UNCHANGED <<schedulerVars, remaining_before, appState, outside, booked_stopped>>

(* The node answers with a block number, its own view of the head.  A new  *)
(* number is recorded before the block is processed.                       *)
GetBlockNumber(n) ==
  /\ pc = "block_number"
  /\ n <= head
  /\ attempt' = 0
  /\ IF n > last_seen_block
     THEN last_seen_block' = n /\ pc' = "reserves"
     ELSE pc' = "tick" /\ UNCHANGED last_seen_block
  /\ UNCHANGED <<schedulerVars, remaining_before, appState, outside, booked_stopped>>

(* on_new_block, 1 to 3: a block with an empty reserve is skipped. *)
GetReserves ==
  /\ pc = "reserves"
  /\ attempt' = 0
  /\ pc' \in {"decide", "tick"}
  /\ UNCHANGED <<schedulerVars, last_seen_block, remaining_before, appState,
                 outside, booked_stopped>>

(* on_new_block, 7 and 8: the scheduler decides, the block is counted. *)
Decide ==
  /\ pc = "decide"
  /\ remaining_before' = remaining_notional
  /\ \/ OnBlock
     \/ completed /\ UNCHANGED schedulerVars
  /\ blocks_processed' = blocks_processed + 1
  /\ booked_stopped' = IF ~is_running /\ remaining_notional' < remaining_notional
                       THEN booked_stopped + 1 ELSE booked_stopped
  /\ pc' = "count"
  /\ UNCHANGED <<attempt, last_seen_block, is_running, chunks_executed,
                 risk_denials, published_remaining, outside>>

(* 8: a chunk or a denial; nothing once the order is complete. *)
CountDecision ==
  /\ pc = "count"
  /\ \/ /\ remaining_before # remaining_notional
        /\ chunks_executed' = chunks_executed + 1
        /\ UNCHANGED risk_denials
     \/ /\ remaining_before = remaining_notional /\ ~completed
        /\ risk_denials' = risk_denials + 1
        /\ UNCHANGED chunks_executed
     \/ /\ remaining_before = remaining_notional /\ completed
        /\ UNCHANGED <<chunks_executed, risk_denials>>
  /\ pc' = "publish"
  /\ UNCHANGED <<schedulerVars, attempt, last_seen_block, remaining_before,
                 is_running, blocks_processed, published_remaining, outside,
                 booked_stopped>>

(* Bug shape: the value read before the decision is published. *)
PublishBefore ==
  /\ pc = "publish"
  /\ published_remaining' = remaining_before
  /\ pc' = "tick"
  /\ UNCHANGED <<schedulerVars, attempt, last_seen_block, remaining_before,
                 is_running, counters, outside, booked_stopped>>

(* 8: the write of AppState.remaining_notional, behind two lock awaits. *)
Publish ==
  /\ pc = "publish"
  /\ published_remaining' = remaining_notional
  /\ pc' = "tick"
  /\ UNCHANGED <<schedulerVars, attempt, last_seen_block, remaining_before,
                 is_running, counters, outside, booked_stopped>>

(* POST /start and POST /stop *)
SetRunning(running) ==
  /\ pc # "down"
  /\ is_running' = running
  /\ booked_stopped' = IF running \/ is_running THEN 0 ELSE booked_stopped
  /\ UNCHANGED <<schedulerVars, taskVars, counters, published_remaining, outside>>

CtrlC ==
  /\ pc # "down"
  /\ ctrl_c' = TRUE
  /\ pc' = "down"
  /\ UNCHANGED <<schedulerVars, attempt, last_seen_block, remaining_before,
                 appState, head, booked_stopped>>

NewBlock ==
  /\ head < MaxBlock
  /\ head' = head + 1
  /\ UNCHANGED <<schedulerVars, taskVars, appState, ctrl_c, booked_stopped>>

RpcAnswer ==
  \/ ResolveDecimals
  \/ \E n \in 0 .. MaxBlock : GetBlockNumber(n)
  \/ GetReserves

EngineStep == RpcAnswer \/ Tick \/ Decide \/ CountDecision \/ Publish

EngineNext ==
  \/ EngineStep
  \/ RpcFailure
  \/ \E running \in BOOLEAN : SetRunning(running)
  \/ CtrlC
  \/ NewBlock

EngineSpec == EngineInit /\ [][EngineNext]_engineVars

(* The runtime keeps scheduling the engine task, a call that keeps being   *)
(* retried is answered in the end, and a node that keeps being asked       *)
(* reports the head in the end.  Nothing makes the operator or the chain   *)
(* act.                                                                    *)
EngineFairSpec ==
  /\ EngineSpec
  /\ WF_engineVars(EngineStep)
  /\ SF_engineVars(GetBlockNumber(head))

-----------------------------------------------------------------------------
(* The counters behind /metrics: between blocks each processed block is a  *)
(* chunk or a denial until the order completes, while a block is in flight *)
(* the reader may miss one, and no block number is processed twice.        *)
CountersAgree ==
  /\ blocks_processed <= last_seen_block
  /\ chunks_executed + risk_denials <= blocks_processed
  /\ pc \notin {"count", "down"} /\ ~completed
       => chunks_executed + risk_denials = blocks_processed
  /\ pc # "count" => chunks_executed <= executed_notional

(* /status never reports less left to sell than there is, it lags by at    *)
(* most the chunk in flight, and between blocks it is exact.               *)
PublishedLags ==
  /\ published_remaining >= remaining_notional
  /\ published_remaining \in {remaining_notional, remaining_before}
  /\ pc \notin {"count", "publish", "down"} => published_remaining = remaining_notional

(* Once POST /stop has answered, at most the block already in flight can   *)
(* still book a chunk before the next POST /start.                         *)
StopTakesEffect == ~is_running => booked_stopped <= 1

(* A running engine gets to the newest block, whatever is reported in      *)
(* between, unless it is stopped or the process ends.                      *)
NewBlockSeen ==
  (head > last_seen_block)
    ~> (last_seen_block = head \/ ~is_running \/ pc = "down")
=============================================================================
