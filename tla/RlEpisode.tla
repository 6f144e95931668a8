----------------------------- MODULE RlEpisode -----------------------------
(***************************************************************************)
(* One RlEnv of the rl_env process (src/bin/rl_env/env), driven by a       *)
(* client that may send any sequence of resets and steps over the pipe:    *)
(* the three market modes, the replay they read (market/lob_replay.rs,     *)
(* market/counterfactual_lob.rs), the end of an episode and the dump of    *)
(* what is left.  The environment is one started without --adversarial.    *)
(*                                                                         *)
(*   mode, episode_steps          from the command line; 0 is no           *)
(*                                --episode-steps (the legacy protocol)    *)
(*   total_steps, total_inventory, step_idx, remaining, total_filled,      *)
(*   pending_baseline, ofi_start  the fields of RlEnv of these names       *)
(*   cursor     of lob_replay, or of the replay inside cf_lob              *)
(*   book       current_book; in counterfactual mode cf_lob's.  Its depth  *)
(*              is the sum of the bid levels not yet consumed              *)
(*   ofi_start  is kept even without --agg-trades, where the code zeroes it *)
(*   impact     cf_lob.sold_btc, in the order's units                      *)
(*   done       of the last StepResult                                     *)
(*   ready      history: did the last reset succeed?                       *)
(*   sold_at    history: sold into each snapshot in this episode           *)
(*   charged    history: how often the TWAP baseline was charged           *)
(*                                                                         *)
(* Quantities are integers.  Prices, rewards and the state vector are left *)
(* out: nothing the environment decides depends on them.  The size of the  *)
(* baseline is left out too; pending_baseline counts what is owed.         *)
(***************************************************************************)
EXTENDS Integers

CONSTANTS
  Modes,         \* RlModes to start from
  Protocols,     \* values of --episode-steps, 0 for none
  Snapshots,     \* how many the day has
  Depth,         \* bid depth of each snapshot
  SyntheticDepth,
  Sizes,         \* total_inventory a reset may draw
  Horizons,      \* total_steps a reset may draw in the legacy protocol
  DustShare,     \* an order is finished with 1/DustShare of it left: 1000
  TwapBaseline,  \* --reward-baseline twap
  MaxEpisodes,   \* bound: resets
  MaxSteps       \* bound: steps since the last reset

ASSUME RlAssumption ==
  /\ Modes \subseteq {"synthetic", "historical", "counterfactual"}
  /\ Protocols \subseteq Nat
  /\ Snapshots \in Nat \ {0}
  /\ Depth \in [0 .. Snapshots - 1 -> Nat] /\ SyntheticDepth \in Nat
  /\ Sizes \subseteq Nat \ {0}
  /\ Horizons \subseteq Nat \ {0}
  /\ DustShare \in Nat \ {0}
  /\ TwapBaseline \in BOOLEAN
  /\ MaxEpisodes \in Nat /\ MaxSteps \in Nat

VARIABLES mode, episode_steps, total_steps, total_inventory, step_idx,
          remaining, total_filled, pending_baseline, ofi_start, cursor, book,
          impact, done, ready, sold_at, charged, episodes

rlVars == <<mode, episode_steps, total_steps, total_inventory, step_idx,
            remaining, total_filled, pending_baseline, ofi_start, cursor, book,
            impact, done, ready, sold_at, charged, episodes>>

(* None: no replay yet; a book that is no snapshot of the day. *)
None == -1
NoBook == [at |-> None, depth |-> 0]
Books == [at : None .. Snapshots - 1, depth : Nat]

RlTypeOK ==
  /\ mode \in Modes /\ episode_steps \in Protocols
  /\ total_steps \in Nat /\ total_inventory \in Nat \ {0}
  /\ step_idx \in Nat /\ remaining \in Nat /\ total_filled \in Nat
  /\ pending_baseline \in Nat /\ ofi_start \in 0 .. Snapshots - 1
  /\ cursor \in None .. Snapshots /\ book \in Books /\ impact \in Nat
  /\ done \in BOOLEAN /\ ready \in BOOLEAN
  /\ sold_at \in [0 .. Snapshots - 1 -> Nat] /\ charged \in Nat
  /\ episodes \in Nat

Replaying == mode # "synthetic"
Counterfactual == mode = "counterfactual"

RlInit ==
  /\ mode \in Modes /\ episode_steps \in Protocols
  /\ Replaying \/ episode_steps = 0
  /\ total_steps \in IF episode_steps # 0 THEN {episode_steps} ELSE Horizons
  /\ total_inventory \in Sizes
  /\ step_idx = 0 /\ remaining = 0 /\ total_filled = 0
  /\ pending_baseline = 0 /\ ofi_start = 0
  /\ cursor = None /\ book = NoBook /\ impact = 0
  /\ done = FALSE /\ ready = FALSE
  /\ sold_at = [i \in 0 .. Snapshots - 1 |-> 0]
  /\ charged = 0 /\ episodes = 0

----------------------------------------------------------------------------
(* The replay and the books.                                               *)

Lesser(a, b) == IF a <= b THEN a ELSE b

Snapshot(i) == [at |-> i, depth |-> Depth[i]]

(* LobReplay::next_snapshot: the book under the cursor, and the cursor.     *)
NextBook(c) == IF c \in 0 .. Snapshots - 1 THEN Snapshot(c) ELSE NoBook
NextCursor(c) == IF c \in 0 .. Snapshots - 1 THEN c + 1 ELSE c

(* LobReplay::seek clamps to the last snapshot. *)
Seek(i) == Lesser(i, Snapshots - 1)

(* Bug shape: a start that leaves one snapshot too few.                    *)
StartsOneLate ==
  IF episode_steps = 0
    THEN 0 .. (IF Snapshots \div 3 >= 1 THEN Snapshots \div 3 - 1 ELSE 0)
    ELSE 0 .. Snapshots - episode_steps

(* Where an episode may start: legacy in the first third of the day, with  *)
(* --episode-steps wherever that many further snapshots are left, possibly *)
(* nowhere.                                                                *)
Starts ==
  IF episode_steps = 0
    THEN 0 .. (IF Snapshots \div 3 >= 1 THEN Snapshots \div 3 - 1 ELSE 0)
    ELSE 0 .. Snapshots - (episode_steps + 1)

(* Bug shape: a fill that takes more than the levels hold.                 *)
FillableAll(b, qty) == qty

(* OrderBook::fill_market_sell takes what the levels hold. *)
Fillable(b, qty) == Lesser(qty, b.depth)
After(b, qty) == [b EXCEPT !.depth = b.depth - Fillable(b, qty)]

SoldInto(sold, b, qty) ==
  [i \in DOMAIN sold |-> sold[i] + IF i = b.at THEN Fillable(b, qty) ELSE 0]

----------------------------------------------------------------------------
(* RlEnv::reset_at: the order of the new episode.  The replay modes draw   *)
(* its size and horizon, synthetic mode keeps those of the command line.   *)
NewOrder ==
  /\ total_inventory' \in IF Replaying THEN Sizes ELSE {total_inventory}
  /\ total_steps' \in IF Replaying /\ episode_steps = 0
                      THEN Horizons ELSE {total_steps}
  /\ remaining' = total_inventory'

(* Bug shape: a reset that keeps what the last episode has filled.         *)
StartOverFilled ==
  /\ episodes < MaxEpisodes
  /\ episodes' = episodes + 1
  /\ NewOrder
  /\ step_idx' = 0
  /\ sold_at' = [i \in DOMAIN sold_at |-> 0]
  /\ charged' = 0
  /\ UNCHANGED <<mode, episode_steps, total_filled>>

(* What every reset does, whether it succeeds or not.                      *)
StartOver ==
  /\ episodes < MaxEpisodes
  /\ episodes' = episodes + 1
  /\ NewOrder
  /\ step_idx' = 0
  /\ total_filled' = 0
  /\ sold_at' = [i \in DOMAIN sold_at |-> 0]
  /\ charged' = 0
  /\ UNCHANGED <<mode, episode_steps>>

ResetSynthetic ==
  /\ mode = "synthetic"
  /\ StartOver
  /\ book' = [at |-> None, depth |-> SyntheticDepth]
  /\ cursor' = None
  /\ pending_baseline' = 0
  /\ done' = FALSE /\ ready' = TRUE
  /\ UNCHANGED <<ofi_start, impact>>

(* reset_historical moves its own replay to the start and reads the first  *)
(* book; reset_counterfactual has cf_lob seek there, which clears what it  *)
(* remembers of our selling.                                               *)
ResetReplay(start) ==
  /\ Replaying
  /\ StartOver
  /\ ofi_start' = start
  /\ book' = NextBook(Seek(start))
  /\ cursor' = NextCursor(Seek(start))
  /\ impact' = 0
  /\ pending_baseline' = IF Counterfactual /\ TwapBaseline THEN 1 ELSE 0
  /\ done' = FALSE /\ ready' = TRUE

(* Bug shape: a failed reset that leaves the last baseline owed.           *)
ResetFailsOwing ==
  /\ Replaying
  /\ StartOver
  /\ done' = TRUE /\ ready' = FALSE
  /\ UNCHANGED <<ofi_start, cursor, book, impact, pending_baseline>>

(* The day cannot be read, or holds no start for the request (start_frac   *)
(* out of range, a day too short): the market is left as it was.           *)
ResetFails ==
  /\ Replaying
  /\ StartOver
  /\ pending_baseline' = 0
  /\ done' = TRUE /\ ready' = FALSE
  /\ UNCHANGED <<ofi_start, cursor, book, impact>>

----------------------------------------------------------------------------
(* The end of a step: with left of the order unsold, is the episode at its *)
(* end, and is what is left dumped: forced at the end of the time, or as   *)
(* the last sliver of an order that is finished.                           *)
InvDone(left) == left * DustShare <= total_inventory
TimeDone == step_idx + 1 >= total_steps
Forced(left, ended) == ended /\ ~InvDone(left)
Dust(left, ended) == ~Forced(left, ended) /\ InvDone(left) /\ left > 0

(* Bug shape: the final sliver is kept.                                    *)
DumpedWithoutDust(left, ended) == IF Forced(left, ended) THEN left ELSE 0

Dumped(left, ended) ==
  IF Forced(left, ended) \/ Dust(left, ended) THEN left ELSE 0

(* Books the step: filled of the order in the book as it stood, the dump   *)
(* in target.  What a dump finds no depth for is sold at the punitive      *)
(* price, so all of it counts as filled.                                   *)
Settle(filled, target, ended) ==
  LET left == remaining - filled
      dumped == Dumped(left, ended)
  IN /\ step_idx < MaxSteps
     /\ step_idx' = step_idx + 1
     /\ remaining' = left - dumped
     /\ total_filled' = total_filled + filled + dumped
     /\ done' = (InvDone(left) \/ ended)
     /\ sold_at' = SoldInto(SoldInto(sold_at, book, filled), target, dumped)
     /\ UNCHANGED <<mode, episode_steps, total_steps, total_inventory,
                    ofi_start, ready, episodes>>

(* advance_market: a new synthetic book, the next snapshot, or, past the   *)
(* last one, the same book as our own selling left it.                     *)
Advanced(b) ==
  IF mode = "synthetic"
    THEN IF ready THEN [at |-> None, depth |-> SyntheticDepth] ELSE b
    ELSE IF NextBook(cursor) = NoBook THEN b ELSE NextBook(cursor)

(* RlEnv::step in synthetic and historical mode; intended is any part of   *)
(* what remains.  The dump consumes the book it is sold into.              *)
Step(intended) ==
  LET filled == Fillable(book, intended)
      next == Advanced(After(book, filled))
  IN /\ ~Counterfactual
     /\ Settle(filled, next, TimeDone)
     /\ book' = After(next, Dumped(remaining - filled, TimeDone))
     /\ cursor' = NextCursor(cursor)
     /\ UNCHANGED <<pending_baseline, impact, charged>>

(* Bug shape: the dump of an exhausted replay into a fresh copy.           *)
StepCounterfactualFresh(intended) ==
  LET filled == Fillable(book, intended)
      exhausted == cursor # None /\ NextBook(cursor) = NoBook
      target == IF exhausted THEN book ELSE NextBook(cursor)
  IN /\ Counterfactual
     /\ Settle(filled, target, TimeDone \/ exhausted)
     /\ book' = NextBook(cursor)
     /\ cursor' = NextCursor(cursor)
     /\ impact' = IF cursor = None THEN impact ELSE impact + intended
     /\ charged' = charged + pending_baseline
     /\ pending_baseline' = 0

(* step_counterfactual sells into copies of cf_lob's book.  The dump of an *)
(* exhausted replay goes into this step's copy, after our own fill.        *)
StepCounterfactual(intended) ==
  LET filled == Fillable(book, intended)
      exhausted == cursor # None /\ NextBook(cursor) = NoBook
      target == IF exhausted THEN After(book, filled) ELSE NextBook(cursor)
  IN /\ Counterfactual
     /\ Settle(filled, target, TimeDone \/ exhausted)
     /\ book' = NextBook(cursor)
     /\ cursor' = NextCursor(cursor)
     /\ impact' = IF cursor = None THEN impact ELSE impact + intended
     /\ charged' = charged + pending_baseline
     /\ pending_baseline' = 0

RlNext ==
  \/ ResetSynthetic
  \/ \E start \in Starts : ResetReplay(start)
  \/ ResetFails
  \/ \E intended \in 0 .. remaining :
       Step(intended) \/ StepCounterfactual(intended)

RlSpec == RlInit /\ [][RlNext]_rlVars

----------------------------------------------------------------------------
(* Properties.                                                             *)

(* The done flag a client trains and evaluates on (execution.rs:195, :365) *)
(* tells the truth about the order: once a step says done all of it has    *)
(* been sold, dust and forced rest included, and as long as no step says   *)
(* so there is more than dust left and time to sell it.                    *)
DoneIffSold ==
  ready /\ step_idx > 0 =>
    /\ done <=> remaining = 0
    /\ ~done => step_idx < total_steps /\ ~InvDone(remaining)

(* No episode sells the same depth twice, although counterfactual fills    *)
(* and dumps walk copies of a book (execution.rs:292, :376) and historical *)
(* mode goes on with a consumed book past the last snapshot.               *)
DepthSoldOnce == \A i \in DOMAIN sold_at : sold_at[i] <= Depth[i]

(* "so an episode always ends on real data" (reset.rs:133): under          *)
(* --episode-steps every step up to the end stands on the snapshot its     *)
(* order flow is read from, ofi_start + step_idx; a counterfactual episode *)
(* of the legacy protocol does so until its end.                           *)
OnRealData ==
  /\ Replaying /\ ready
  /\ \/ episode_steps # 0 /\ step_idx <= total_steps
     \/ Counterfactual /\ ~done
  => book.at = ofi_start + step_idx

(* "charged once, on the first step, whatever the action"                  *)
(* (execution.rs:355): an episode owes the TWAP baseline once, has paid it *)
(* after its first step, and never pays what an earlier episode owed.      *)
BaselineChargedOnce ==
  /\ pending_baseline + charged =
       IF Counterfactual /\ TwapBaseline /\ ready THEN 1 ELSE 0
  /\ step_idx > 0 => pending_baseline = 0

(* "everything sold so far" (counterfactual_lob.rs:9, :118): the impact    *)
(* model never counts more than the episode has sold.                      *)
ImpactOfSales == Counterfactual /\ ready => impact <= total_filled

(* An episode is a liquidation: nothing is lost or sold twice, done means  *)
(* sold, and a done environment sells nothing until it is reset.  A failed *)
(* reset counts as a beginning, since steps do sell after it.              *)
Order == INSTANCE Liquidation WITH
  left <- remaining, sold <- total_filled, over <- done /\ remaining = 0

ImplementsLiquidation == Order!LiquidationSpec

=============================================================================
