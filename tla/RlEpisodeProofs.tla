-------------------------- MODULE RlEpisodeProofs --------------------------
(***************************************************************************)
(* What an RlEnv guarantees for every day, order size, horizon and every   *)
(* sequence of resets, failed resets and steps.                            *)
(*                                                                         *)
(* The properties become inductive together with three facts about the     *)
(* replay: InStep ties cursor and book to the step, DepthLeft ties what    *)
(* was sold into a snapshot to what its book has left, NoReplay says that  *)
(* there is no snapshot without a replay.  One lemma treats the end of a   *)
(* step (Settle), which both kinds of step share, then one each action.    *)
(***************************************************************************)
EXTENDS RlEpisode, TLAPS

(* The replay and the episode keep step: until the day runs out the book   *)
(* is the snapshot at the start plus the steps taken, the cursor one past  *)
(* it, and under --episode-steps the horizon ends before the day does.     *)
FixedHorizon == episode_steps # 0 => total_steps = episode_steps

InStep ==
  Replaying /\ ready =>
    /\ cursor = Lesser(ofi_start + step_idx + 1, Snapshots)
    /\ ofi_start + step_idx < Snapshots => book.at = ofi_start + step_idx
    /\ Counterfactual /\ ~done => ofi_start + step_idx < Snapshots
    /\ episode_steps # 0 => ofi_start + total_steps < Snapshots

(* What has been sold into a snapshot fits beside what its book has left,  *)
(* unless the order is sold; snapshots ahead of the cursor are untouched.  *)
DepthLeft ==
  /\ book.at < cursor \/ book.at = None
  /\ \A i \in DOMAIN sold_at :
       /\ sold_at[i] <= Depth[i]
       /\ i >= cursor => sold_at[i] = 0
       /\ book.at = i => book.depth <= Depth[i]
       /\ book.at = i /\ (Counterfactual => remaining > 0)
            => sold_at[i] + book.depth <= Depth[i]

(* No replay, no snapshot. *)
NoReplay ==
  /\ mode = "synthetic" => cursor = None
  /\ cursor = None => book.at = None

RlIInv ==
  /\ RlTypeOK
  /\ DoneIffSold
  /\ DepthLeft
  /\ FixedHorizon
  /\ InStep
  /\ NoReplay
  /\ BaselineChargedOnce

-----------------------------------------------------------------------------
(* A fill takes no more than asked and no more than there is. *)
LEMMA FillFacts ==
  ASSUME NEW b \in Books, NEW qty \in Nat
  PROVE  /\ Fillable(b, qty) \in 0 .. qty
         /\ Fillable(b, qty) <= b.depth
         /\ After(b, qty) \in Books
         /\ After(b, qty).at = b.at
         /\ After(b, qty).depth = b.depth - Fillable(b, qty)
  <1>1. b.depth \in Nat /\ b.at \in None .. Snapshots - 1
    BY DEF Books
  <1>2. Fillable(b, qty) \in 0 .. qty /\ Fillable(b, qty) <= b.depth
    BY <1>1 DEF Fillable, Lesser
  <1> QED
    BY <1>1, <1>2 DEF After, Books

(* What a fill adds to the snapshots' accounts. *)
LEMMA SoldIntoFacts ==
  ASSUME NEW sold \in [0 .. Snapshots - 1 -> Nat], NEW b \in Books, NEW qty \in Nat
  PROVE  /\ SoldInto(sold, b, qty) \in [0 .. Snapshots - 1 -> Nat]
         /\ \A i \in 0 .. Snapshots - 1 :
              /\ i = b.at => SoldInto(sold, b, qty)[i] = sold[i] + Fillable(b, qty)
              /\ i # b.at => SoldInto(sold, b, qty)[i] = sold[i]
  <1>1. Fillable(b, qty) \in Nat
    BY DEF Fillable, Lesser, Books
  <1> QED
    BY <1>1 DEF SoldInto

(* What the replay yields next. *)
LEMMA NextFacts ==
  ASSUME NEW c \in None .. Snapshots
  PROVE  /\ NextBook(c) \in Books
         /\ NextCursor(c) \in None .. Snapshots
         /\ c \in 0 .. Snapshots - 1 =>
              /\ NextBook(c).at = c /\ NextBook(c).depth = Depth[c]
              /\ NextBook(c) # NoBook
              /\ NextCursor(c) = c + 1
         /\ c \notin 0 .. Snapshots - 1 =>
              NextBook(c) = NoBook /\ NextCursor(c) = c
  <1> USE RlAssumption
  <1>1. NoBook \in Books /\ NoBook.at = None
    BY DEF NoBook, Books, None
  <1>2. CASE c \in 0 .. Snapshots - 1
    <2>1. Depth[c] \in Nat
      BY <1>2
    <2>2. NextBook(c) = [at |-> c, depth |-> Depth[c]] /\ NextCursor(c) = c + 1
      BY <1>2 DEF NextBook, NextCursor, Snapshot
    <2> QED
      BY <1>1, <1>2, <2>1, <2>2 DEF Books, None
  <1>3. CASE c \notin 0 .. Snapshots - 1
    BY <1>1, <1>3 DEF NextBook, NextCursor
  <1> QED
    BY <1>2, <1>3

-----------------------------------------------------------------------------
LEMMA InitEstablishes ==
  RlInit => RlIInv
  <1> SUFFICES ASSUME RlInit PROVE RlIInv
    OBVIOUS
  <1> USE RlAssumption DEF RlInit
  <1>1. RlTypeOK
    <2>1. done \in BOOLEAN /\ ready \in BOOLEAN
      OBVIOUS
    <2>2. sold_at \in [0 .. Snapshots - 1 -> Nat]
      OBVIOUS
    <2>3. book \in Books /\ cursor \in None .. Snapshots
      BY DEF Books, NoBook, None
    <2>4. total_steps \in Nat
      OBVIOUS
    <2> QED
      BY <2>1, <2>2, <2>3, <2>4 DEF RlTypeOK
  <1>2. DoneIffSold /\ FixedHorizon /\ InStep /\ BaselineChargedOnce
    BY DEF DoneIffSold, FixedHorizon, InStep, BaselineChargedOnce
  <1>3. DepthLeft
    BY DEF DepthLeft, NoBook, None
  <1>4. NoReplay
    BY DEF NoReplay, NoBook
  <1> QED
    BY <1>1, <1>2, <1>3, <1>4 DEF RlIInv

(* The order a reset begins with. *)
LEMMA NewOrderFacts ==
  ASSUME RlTypeOK, StartOver
  PROVE  /\ total_inventory' \in Nat \ {0} /\ total_steps' \in Nat
         /\ remaining' = total_inventory'
         /\ remaining' > 0
         /\ step_idx' = 0 /\ total_filled' = 0 /\ charged' = 0
         /\ sold_at' = [i \in 0 .. Snapshots - 1 |-> 0]
         /\ sold_at' \in [0 .. Snapshots - 1 -> Nat]
         /\ episodes' \in Nat
         /\ mode' = mode /\ episode_steps' = episode_steps
         /\ FixedHorizon => FixedHorizon'
  <1> USE RlAssumption
  <1>1. sold_at' = [i \in 0 .. Snapshots - 1 |-> 0]
    BY DEF StartOver, RlTypeOK
  <1>2. CASE Replaying
    BY <1>1, <1>2 DEF StartOver, NewOrder, RlTypeOK, FixedHorizon
  <1>3. CASE ~Replaying
    BY <1>1, <1>3 DEF StartOver, NewOrder, RlTypeOK, FixedHorizon
  <1> QED
    BY <1>2, <1>3

LEMMA ResetSyntheticPreserves ==
  ASSUME RlIInv, ResetSynthetic
  PROVE  RlIInv'
  <1> USE RlAssumption DEF RlIInv, ResetSynthetic
  <1>1. RlTypeOK' /\ FixedHorizon'
    <2>1. done' \in BOOLEAN /\ ready' \in BOOLEAN
      OBVIOUS
    <2>2. book' \in Books /\ cursor' \in None .. Snapshots
      BY DEF RlTypeOK, Books, None
    <2>3. ofi_start' \in 0 .. Snapshots - 1 /\ impact' \in Nat /\ pending_baseline' \in Nat
      BY DEF RlTypeOK
    <2>4. mode' \in Modes /\ episode_steps' \in Protocols
      BY NewOrderFacts DEF RlTypeOK
    <2> QED
      BY <2>1, <2>2, <2>3, <2>4, NewOrderFacts DEF RlTypeOK
  <1>2. DoneIffSold' /\ InStep' /\ BaselineChargedOnce'
    BY NewOrderFacts
       DEF DoneIffSold, InStep, BaselineChargedOnce, Replaying, Counterfactual
  <1>3. DepthLeft' /\ NoReplay'
    BY NewOrderFacts DEF DepthLeft, NoReplay, None
  <1> QED
    BY <1>1, <1>2, <1>3

LEMMA ResetFailsPreserves ==
  ASSUME RlIInv, ResetFails
  PROVE  RlIInv'
  <1> USE RlAssumption DEF RlIInv, ResetFails
  <1>1. RlTypeOK' /\ FixedHorizon'
    <2>1. done' \in BOOLEAN /\ ready' \in BOOLEAN
      OBVIOUS
    <2>2. book' \in Books /\ cursor' \in None .. Snapshots
      BY DEF RlTypeOK, Books, None
    <2>3. ofi_start' \in 0 .. Snapshots - 1 /\ impact' \in Nat /\ pending_baseline' \in Nat
      BY DEF RlTypeOK
    <2>4. mode' \in Modes /\ episode_steps' \in Protocols
      BY NewOrderFacts DEF RlTypeOK
    <2> QED
      BY <2>1, <2>2, <2>3, <2>4, NewOrderFacts DEF RlTypeOK
  <1>2. DoneIffSold' /\ InStep' /\ BaselineChargedOnce'
    BY NewOrderFacts DEF DoneIffSold, InStep, BaselineChargedOnce
  <1>3. DepthLeft'
    BY NewOrderFacts DEF DepthLeft, RlTypeOK, Books
  <1>4. NoReplay'
    BY NewOrderFacts DEF NoReplay
  <1> QED
    BY <1>1, <1>2, <1>3, <1>4

LEMMA ResetReplayPreserves ==
  ASSUME RlIInv, NEW start \in Starts, ResetReplay(start)
  PROVE  RlIInv'
  <1> USE RlAssumption DEF RlIInv, ResetReplay
  <1>1. start \in 0 .. Snapshots - 1
    BY DEF Starts, RlTypeOK
  <1>2. Seek(start) = start
    BY <1>1 DEF Seek, Lesser
  <1>3. book'.at = start /\ book'.depth = Depth[start] /\ book' \in Books
        /\ cursor' = start + 1
    BY <1>1, <1>2, NextFacts DEF None
  <1>4. RlTypeOK' /\ FixedHorizon'
    <2>1. done' \in BOOLEAN /\ ready' \in BOOLEAN
      OBVIOUS
    <2>2. book' \in Books /\ cursor' \in None .. Snapshots
      BY <1>1, <1>3 DEF RlTypeOK, Books, None
    <2>3. ofi_start' \in 0 .. Snapshots - 1 /\ impact' \in Nat /\ pending_baseline' \in Nat
      BY <1>1, <1>3 DEF RlTypeOK
    <2>4. mode' \in Modes /\ episode_steps' \in Protocols
      BY NewOrderFacts DEF RlTypeOK
    <2> QED
      BY <2>1, <2>2, <2>3, <2>4, NewOrderFacts DEF RlTypeOK
  <1>5. DoneIffSold' /\ BaselineChargedOnce'
    BY NewOrderFacts DEF DoneIffSold, BaselineChargedOnce, Counterfactual
  <1>6. DepthLeft' /\ NoReplay'
    BY <1>1, <1>3, NewOrderFacts DEF DepthLeft, NoReplay, None, Replaying
  <1>7. InStep'
    <2>1. episode_steps \in Nat
      BY DEF RlTypeOK
    <2>2. episode_steps # 0 =>
            total_steps' = episode_steps /\ start + episode_steps < Snapshots
      BY <1>1, <2>1, NewOrderFacts DEF FixedHorizon, Starts
    <2> QED
      BY <1>1, <1>3, <2>1, <2>2, NewOrderFacts DEF InStep, Lesser
  <1> QED
    BY <1>4, <1>5, <1>6, <1>7

-----------------------------------------------------------------------------
(* At the end of the episode everything left is dumped, before it nothing. *)
LEMMA DumpedFacts ==
  ASSUME RlTypeOK, NEW left \in Nat, NEW ended \in BOOLEAN
  PROVE  /\ Dumped(left, ended) = IF InvDone(left) \/ ended THEN left ELSE 0
         /\ ~InvDone(left) => left > 0
  <1>1. InvDone(0)
    BY RlAssumption DEF InvDone, RlTypeOK
  <1>2. ~InvDone(left) => left > 0
    BY <1>1
  <1>3. CASE ended /\ ~InvDone(left)
    <2>1. Forced(left, ended)
      BY <1>3, Zenon DEF Forced
    <2> QED
      BY <1>2, <1>3, <2>1, Zenon DEF Dumped
  <1>4. CASE InvDone(left)
    <2>1. ~Forced(left, ended)
      BY <1>4, Zenon DEF Forced
    <2>2. CASE left > 0
      BY <1>2, <1>4, <2>1, <2>2, Zenon DEF Dumped, Dust
    <2>3. CASE left = 0
      BY <1>2, <1>4, <2>3, Zenon DEF Dumped
    <2> QED
      BY <2>2, <2>3
  <1>5. CASE ~ended /\ ~InvDone(left)
    <2>1. ~Forced(left, ended) /\ ~Dust(left, ended)
      BY <1>5, Zenon DEF Forced, Dust
    <2> QED
      BY <1>2, <1>5, <2>1, Zenon DEF Dumped
  <1> QED
    BY <1>2, <1>3, <1>4, <1>5

(* What both kinds of step do to the order. *)
LEMMA SettleOrder ==
  ASSUME RlTypeOK, NEW filled \in 0 .. remaining, NEW target \in Books,
         NEW ended \in BOOLEAN, TimeDone => ended, Settle(filled, target, ended)
  PROVE  /\ Dumped(remaining - filled, ended) \in 0 .. remaining - filled
         /\ remaining' = remaining - filled - Dumped(remaining - filled, ended)
         /\ remaining' \in 0 .. remaining
         /\ total_filled' = total_filled + remaining - remaining'
         /\ total_filled' \in Nat
         /\ done' \in BOOLEAN
         /\ done' <=> remaining' = 0
         /\ ended => done'
         /\ ~done' => step_idx' < total_steps' /\ ~InvDone(remaining)'
         /\ step_idx' = step_idx + 1 /\ step_idx' \in Nat
  <1> DEFINE left == remaining - filled
  <1>1. left \in Nat /\ remaining \in Nat /\ filled \in Nat /\ total_filled \in Nat
        /\ step_idx \in Nat /\ total_steps \in Nat
    BY DEF RlTypeOK
  <1>2. /\ remaining' = left - Dumped(left, ended)
        /\ total_filled' = total_filled + filled + Dumped(left, ended)
        /\ done' = (InvDone(left) \/ ended)
        /\ step_idx' = step_idx + 1
        /\ total_steps' = total_steps /\ total_inventory' = total_inventory
    BY DEF Settle
  <1>3. /\ Dumped(left, ended) = IF InvDone(left) \/ ended THEN left ELSE 0
        /\ ~InvDone(left) => left > 0
    BY <1>1, DumpedFacts
  <1>4. done' \in BOOLEAN /\ (done' <=> InvDone(left) \/ ended)
    <2> HIDE DEF left
    <2> QED
      BY <1>2, Zenon
  <1>5. CASE InvDone(left) \/ ended
    <2>1. Dumped(left, ended) = left
      BY <1>3, <1>5
    <2> QED
      BY <1>1, <1>2, <1>4, <1>5, <2>1
  <1>6. CASE ~(InvDone(left) \/ ended)
    <2>1. Dumped(left, ended) = 0 /\ left > 0
      BY <1>3, <1>6
    <2>2. remaining' = left
      BY <1>1, <1>2, <2>1
    <2>3. ~InvDone(remaining)'
      BY <1>2, <1>6, <2>2 DEF InvDone
    <2>4. step_idx' < total_steps'
      BY <1>1, <1>2, <1>6 DEF TimeDone
    <2> QED
      BY <1>1, <1>2, <1>4, <1>6, <2>1, <2>2, <2>3, <2>4
  <1> QED
    BY <1>5, <1>6

(* And to the snapshots' accounts. *)
LEMMA SettleDepth ==
  ASSUME RlTypeOK, NEW filled \in 0 .. remaining, NEW target \in Books,
         NEW ended \in BOOLEAN, filled <= book.depth, Settle(filled, target, ended)
  PROVE  LET took == Fillable(target, Dumped(remaining - filled, ended)) IN
         /\ took \in Nat /\ took <= target.depth
         /\ took <= Dumped(remaining - filled, ended)
         /\ sold_at' \in [0 .. Snapshots - 1 -> Nat]
         /\ \A i \in 0 .. Snapshots - 1 :
              sold_at'[i] = sold_at[i] + (IF i = book.at THEN filled ELSE 0)
                                       + (IF i = target.at THEN took ELSE 0)
  <1> DEFINE dumped == Dumped(remaining - filled, ended)
             sold == SoldInto(sold_at, book, filled)
  <1>1. filled \in Nat /\ remaining - filled \in Nat /\ book \in Books
        /\ sold_at \in [0 .. Snapshots - 1 -> Nat]
    BY DEF RlTypeOK
  <1>2. dumped \in Nat
    BY <1>1, DumpedFacts
  <1>3. Fillable(book, filled) = filled
    BY DEF Fillable, Lesser
  <1>4. /\ sold \in [0 .. Snapshots - 1 -> Nat]
        /\ \A i \in 0 .. Snapshots - 1 :
             sold[i] = sold_at[i] + (IF i = book.at THEN filled ELSE 0)
    <2> HIDE DEF sold
    <2>1. /\ sold \in [0 .. Snapshots - 1 -> Nat]
          /\ \A i \in 0 .. Snapshots - 1 :
               /\ i = book.at => sold[i] = sold_at[i] + Fillable(book, filled)
               /\ i # book.at => sold[i] = sold_at[i]
      BY <1>1, SoldIntoFacts DEF sold
    <2> QED
      BY <1>1, <1>3, <2>1
  <1>5. sold_at' = SoldInto(sold, target, dumped)
    BY DEF Settle
  <1>6. /\ Fillable(target, dumped) \in 0 .. dumped
        /\ Fillable(target, dumped) <= target.depth
    BY <1>2, FillFacts
  <1> HIDE DEF sold, dumped
  <1>7. /\ sold_at' \in [0 .. Snapshots - 1 -> Nat]
        /\ \A i \in 0 .. Snapshots - 1 :
             /\ i = target.at => sold_at'[i] = sold[i] + Fillable(target, dumped)
             /\ i # target.at => sold_at'[i] = sold[i]
    BY <1>2, <1>4, <1>5, SoldIntoFacts
  <1>8. \A i \in 0 .. Snapshots - 1 :
          sold_at'[i] = sold_at[i] + (IF i = book.at THEN filled ELSE 0)
                          + (IF i = target.at THEN Fillable(target, dumped) ELSE 0)
    BY <1>1, <1>2, <1>4, <1>6, <1>7
  <1> QED
    BY <1>2, <1>6, <1>7, <1>8 DEF dumped

-----------------------------------------------------------------------------
(* The types after a step; the caller has those of the market. *)
LEMMA SettleTypes ==
  ASSUME RlTypeOK, NEW filled \in 0 .. remaining, NEW target \in Books,
         NEW ended \in BOOLEAN, TimeDone => ended, filled <= book.depth,
         Settle(filled, target, ended),
         book' \in Books, cursor' \in None .. Snapshots, impact' \in Nat,
         charged' \in Nat, pending_baseline' \in Nat
  PROVE  RlTypeOK' /\ DoneIffSold' /\ (FixedHorizon => FixedHorizon')
  <1>1. /\ remaining' \in 0 .. remaining /\ total_filled' \in Nat
        /\ done' \in BOOLEAN /\ step_idx' \in Nat
        /\ done' <=> remaining' = 0
        /\ ~done' => step_idx' < total_steps' /\ ~InvDone(remaining)'
    BY SettleOrder
  <1>2. sold_at' \in [0 .. Snapshots - 1 -> Nat]
    BY SettleDepth
  <1>3. /\ mode' = mode /\ episode_steps' = episode_steps
        /\ total_steps' = total_steps /\ total_inventory' = total_inventory
        /\ ofi_start' = ofi_start /\ ready' = ready /\ episodes' = episodes
    BY DEF Settle
  <1>4. remaining' \in Nat
    BY <1>1 DEF RlTypeOK
  <1>5. ready' \in BOOLEAN
    BY <1>3, Zenon DEF RlTypeOK
  <1>6. RlTypeOK'
    <2>1. /\ mode' \in Modes /\ episode_steps' \in Protocols
          /\ total_steps' \in Nat /\ total_inventory' \in Nat \ {0}
          /\ ofi_start' \in 0 .. Snapshots - 1 /\ episodes' \in Nat
      BY <1>3 DEF RlTypeOK
    <2> QED
      BY <1>1, <1>2, <1>4, <1>5, <2>1 DEF RlTypeOK
  <1>7. DoneIffSold'
    BY <1>1, Zenon DEF DoneIffSold
  <1>8. FixedHorizon => FixedHorizon'
    BY <1>3 DEF FixedHorizon
  <1> QED
    BY <1>6, <1>7, <1>8

LEMMA StepPreserves ==
  ASSUME RlIInv, NEW intended \in 0 .. remaining, Step(intended)
  PROVE  RlIInv'
  <1> DEFINE filled == Fillable(book, intended)
             sold_out == After(book, filled)
             next == Advanced(sold_out)
             dumped == Dumped(remaining - filled, TimeDone)
  <1> USE RlAssumption
  <1>1. RlTypeOK /\ book \in Books /\ remaining \in Nat /\ intended \in Nat
        /\ cursor \in None .. Snapshots
    BY DEF RlIInv, RlTypeOK
  <1>2. filled \in 0 .. remaining /\ filled <= book.depth
    BY <1>1, FillFacts
  <1>3. /\ sold_out \in Books /\ sold_out.at = book.at
        /\ sold_out.depth = book.depth - filled
    <2>1. Fillable(book, filled) = filled
      BY <1>2 DEF Fillable, Lesser
    <2>2. filled \in Nat
      BY <1>1, <1>2
    <2> HIDE DEF filled
    <2> QED
      BY <1>1, <2>1, <2>2, FillFacts
  <1>4. ~Counterfactual /\ Settle(filled, next, TimeDone)
        /\ book' = After(next, dumped) /\ cursor' = NextCursor(cursor)
        /\ pending_baseline' = pending_baseline /\ impact' = impact
        /\ charged' = charged
    BY DEF Step
  <1>5. TimeDone \in BOOLEAN
    BY DEF TimeDone
  <1>6. dumped \in Nat
    BY <1>1, <1>2, <1>5, DumpedFacts
  (* Where the market goes. *)
  <1>7. /\ next \in Books
        /\ cursor \in 0 .. Snapshots - 1 /\ Replaying =>
             next.at = cursor /\ next.depth = Depth[cursor]
        /\ cursor \notin 0 .. Snapshots - 1 /\ Replaying => next = sold_out
        /\ ~Replaying => next.at = None
    <2>1. CASE Replaying
      <3>1. next = IF NextBook(cursor) = NoBook THEN sold_out ELSE NextBook(cursor)
        BY <2>1 DEF Advanced, Replaying
      <3> HIDE DEF next, sold_out
      <3> QED
        BY <1>1, <1>3, <2>1, <3>1, NextFacts
    <2>2. CASE ~Replaying
      <3>1. book.at = None
        BY <2>2 DEF RlIInv, NoReplay, Replaying
      <3>2. [at |-> None, depth |-> SyntheticDepth] \in Books
        BY DEF Books, None
      <3>3. next = sold_out \/ next = [at |-> None, depth |-> SyntheticDepth]
        BY <2>2 DEF Advanced, Replaying
      <3> HIDE DEF next, sold_out
      <3> QED
        BY <1>3, <2>2, <3>1, <3>2, <3>3
    <2> QED
      BY <2>1, <2>2
  <1>8. /\ book' \in Books /\ book'.at = next.at
        /\ book'.depth = next.depth - Fillable(next, dumped)
        /\ Fillable(next, dumped) \in Nat
    <2> HIDE DEF next, dumped
    <2>1. /\ After(next, dumped) \in Books /\ After(next, dumped).at = next.at
          /\ After(next, dumped).depth = next.depth - Fillable(next, dumped)
      BY <1>6, <1>7, FillFacts
    <2>2. Fillable(next, dumped) \in Nat
      BY <1>6, <1>7 DEF Fillable, Lesser, Books
    <2>3. book' = After(next, dumped)
      BY <1>4
    <2> QED
      BY <2>1, <2>2, <2>3
  <1>9. cursor' \in None .. Snapshots
    BY <1>1, <1>4, NextFacts
  <1>10. RlTypeOK' /\ DoneIffSold' /\ FixedHorizon'
    <2>1. impact' \in Nat /\ charged' \in Nat /\ pending_baseline' \in Nat
      BY <1>4 DEF RlIInv, RlTypeOK
    <2> HIDE DEF filled, next
    <2> QED
      BY <1>1, <1>2, <1>4, <1>5, <1>7, <1>8, <1>9, <2>1, SettleTypes DEF RlIInv
  <1>11. /\ mode' = mode /\ ready' = ready /\ episode_steps' = episode_steps
         /\ ofi_start' = ofi_start /\ total_steps' = total_steps
         /\ step_idx' = step_idx + 1
    BY <1>4 DEF Settle
  <1>12. BaselineChargedOnce'
    BY <1>4, <1>11 DEF RlIInv, BaselineChargedOnce, Counterfactual, RlTypeOK
  <1>13. NoReplay'
    <2> HIDE DEF next, sold_out, dumped
    <2>1. cursor = None => cursor' = None /\ next.at = None
      <3>1. cursor = None => cursor \notin 0 .. Snapshots - 1 /\ book.at = None
        BY DEF RlIInv, NoReplay, None
      <3> QED
        BY <1>1, <1>3, <1>4, <1>7, <3>1, NextFacts
    <2>2. cursor' = None => cursor = None
      <3>1. cursor \in 0 .. Snapshots - 1 => cursor' = cursor + 1
        BY <1>1, <1>4, NextFacts
      <3>2. cursor \notin 0 .. Snapshots - 1 => cursor' = cursor
        BY <1>1, <1>4, NextFacts
      <3> QED
        BY <1>1, <3>1, <3>2 DEF None
    <2> QED
      BY <1>8, <1>11, <2>1, <2>2 DEF RlIInv, NoReplay
  <1>14. InStep'
    <2> SUFFICES ASSUME Replaying, ready PROVE InStep'
      BY <1>11 DEF InStep, Replaying
    <2>1. /\ cursor = Lesser(ofi_start + step_idx + 1, Snapshots)
          /\ episode_steps # 0 => ofi_start + total_steps < Snapshots
      BY DEF RlIInv, InStep
    <2>2. ofi_start \in Nat /\ step_idx \in Nat
      BY DEF RlIInv, RlTypeOK
    <2> QED
      BY <1>1, <1>3, <1>4, <1>7, <1>8, <1>11, <2>1, <2>2, NextFacts
         DEF InStep, Lesser, Counterfactual
  <1>15. DepthLeft'
    <2> DEFINE took == Fillable(next, dumped)
    <2>1. /\ took \in Nat /\ took <= next.depth
          /\ sold_at' \in [0 .. Snapshots - 1 -> Nat]
          /\ \A i \in 0 .. Snapshots - 1 :
               sold_at'[i] = sold_at[i] + (IF i = book.at THEN filled ELSE 0)
                                        + (IF i = next.at THEN took ELSE 0)
      <3> HIDE DEF next
      <3> QED
        BY <1>1, <1>2, <1>4, <1>5, <1>7, SettleDepth DEF filled
    <2>2. /\ sold_at \in [0 .. Snapshots - 1 -> Nat]
          /\ book.at \in None .. Snapshots - 1 /\ book.depth \in Nat
          /\ next.at \in None .. Snapshots - 1 /\ next.depth \in Nat
      BY <1>1, <1>7 DEF RlTypeOK, Books
    <2>3. /\ book.at < cursor \/ book.at = None
          /\ \A i \in 0 .. Snapshots - 1 :
               /\ sold_at[i] <= Depth[i]
               /\ i >= cursor => sold_at[i] = 0
               /\ book.at = i => book.depth <= Depth[i]
               /\ book.at = i => sold_at[i] + book.depth <= Depth[i]
      BY <1>4, <2>2 DEF RlIInv, DepthLeft
    <2>4. \A i \in 0 .. Snapshots - 1 : sold_at[i] \in Nat /\ Depth[i] \in Nat
      BY <2>2
    <2>5. /\ cursor \in 0 .. Snapshots - 1 => cursor' = cursor + 1
          /\ cursor \notin 0 .. Snapshots - 1 => cursor' = cursor
      BY <1>1, <1>4, NextFacts
    <2>6. cursor = None \/ Replaying
      BY DEF RlIInv, NoReplay, Replaying
    <2>7. book'.at = next.at /\ book'.depth = next.depth - took
      BY <1>8
    <2>8. filled \in Nat /\ filled <= book.depth
      BY <1>1, <1>2
    <2> HIDE DEF next, took, filled, dumped, sold_out
    <2>9. book'.at < cursor' \/ book'.at = None
      BY <1>1, <1>3, <1>7, <2>2, <2>3, <2>5, <2>6, <2>7
    <2>10. ASSUME NEW i \in 0 .. Snapshots - 1
           PROVE  /\ sold_at'[i] <= Depth[i]
                  /\ i >= cursor' => sold_at'[i] = 0
                  /\ book'.at = i => book'.depth <= Depth[i]
                  /\ book'.at = i => sold_at'[i] + book'.depth <= Depth[i]
      <3>0. /\ sold_at[i] \in Nat /\ Depth[i] \in Nat /\ sold_at[i] <= Depth[i]
            /\ i >= cursor => sold_at[i] = 0
            /\ book.at = i => sold_at[i] + book.depth <= Depth[i]
            /\ sold_at'[i] = sold_at[i] + (IF i = book.at THEN filled ELSE 0)
                                        + (IF i = next.at THEN took ELSE 0)
        BY <2>1, <2>3, <2>4
      <3>a. i >= cursor => i # book.at
        BY <1>1, <2>2, <2>3 DEF None
      <3>1. CASE cursor \in 0 .. Snapshots - 1
        <4>1. Replaying /\ next.at = cursor /\ next.depth = Depth[cursor]
          BY <1>7, <2>6, <3>1 DEF None
        <4>2. cursor' = cursor + 1 /\ book.at # cursor
          BY <2>2, <2>3, <2>5, <3>1 DEF None
        <4>3. CASE i = cursor
          <5>1. sold_at'[i] = took
            BY <2>1, <3>0, <4>1, <4>2, <4>3
          <5> QED
            BY <2>1, <2>2, <2>7, <3>0, <4>1, <4>2, <4>3, <5>1
        <4>4. CASE i # cursor
          <5>1. sold_at'[i] = sold_at[i] + (IF i = book.at THEN filled ELSE 0)
            BY <2>1, <2>8, <3>0, <4>1, <4>4
          <5>2. i >= cursor' => i >= cursor
            BY <3>1, <4>2
          <5> QED
            BY <2>2, <2>7, <2>8, <3>0, <3>a, <4>1, <4>4, <5>1, <5>2
        <4> QED
          BY <4>3, <4>4
      <3>2. CASE cursor \notin 0 .. Snapshots - 1 /\ Replaying
        <4>1. next.at = book.at /\ next.depth = book.depth - filled /\ cursor' = cursor
          BY <1>3, <1>7, <2>5, <3>2
        <4>2. CASE i = book.at
          <5>1. sold_at'[i] = sold_at[i] + filled + took
            BY <2>1, <2>8, <3>0, <4>1, <4>2
          <5>2. ~(i >= cursor')
            BY <3>a, <4>1, <4>2
          <5>3. sold_at[i] + book.depth <= Depth[i] /\ took <= book.depth - filled
            BY <2>1, <3>0, <4>1, <4>2
          <5>4. book'.depth = book.depth - filled - took
            BY <2>7, <4>1
          <5>5. book.depth \in Nat /\ sold_at[i] \in Nat /\ Depth[i] \in Nat /\ took \in Nat
            BY <2>1, <2>2, <3>0
          <5> QED
            BY <2>8, <5>1, <5>2, <5>3, <5>4, <5>5
        <4>3. CASE i # book.at
          <5>1. sold_at'[i] = sold_at[i]
            BY <3>0, <4>1, <4>3
          <5> QED
            BY <2>7, <3>0, <4>1, <4>3, <5>1
        <4> QED
          BY <4>2, <4>3
      <3>3. CASE ~Replaying
        <4>1. next.at = None /\ book.at = None /\ cursor = None /\ cursor' = cursor
          BY <1>7, <2>5, <2>6, <3>3 DEF RlIInv, NoReplay, None
        <4> QED
          BY <2>7, <3>0, <4>1 DEF None
      <3> QED
        BY <3>1, <3>2, <3>3
    <2> QED
      BY <2>1, <2>9, <2>10 DEF DepthLeft
  <1> QED
    BY <1>10, <1>12, <1>13, <1>14, <1>15 DEF RlIInv

LEMMA StepCounterfactualPreserves ==
  ASSUME RlIInv, NEW intended \in 0 .. remaining, StepCounterfactual(intended)
  PROVE  RlIInv'
  <1> DEFINE filled == Fillable(book, intended)
             exhausted == cursor # None /\ NextBook(cursor) = NoBook
             sold_out == After(book, filled)
             target == IF exhausted THEN sold_out ELSE NextBook(cursor)
             ended == TimeDone \/ exhausted
             dumped == Dumped(remaining - filled, ended)
             took == Fillable(target, dumped)
  <1> USE RlAssumption
  <1>1. RlTypeOK /\ book \in Books /\ remaining \in Nat /\ intended \in Nat
        /\ cursor \in None .. Snapshots
    BY DEF RlIInv, RlTypeOK
  <1>2. filled \in 0 .. remaining /\ filled \in Nat /\ filled <= book.depth
    <2>1. filled \in 0 .. remaining /\ filled <= book.depth
      BY <1>1, FillFacts
    <2> QED
      BY <1>1, <2>1
  <1>3. /\ sold_out \in Books /\ sold_out.at = book.at
        /\ sold_out.depth = book.depth - filled
    <2>1. Fillable(book, filled) = filled
      BY <1>2 DEF Fillable, Lesser
    <2> HIDE DEF filled
    <2> QED
      BY <1>1, <1>2, <2>1, FillFacts
  <1>4. Counterfactual /\ Settle(filled, target, ended)
        /\ book' = NextBook(cursor) /\ cursor' = NextCursor(cursor)
        /\ impact' = (IF cursor = None THEN impact ELSE impact + intended)
        /\ charged' = charged + pending_baseline /\ pending_baseline' = 0
    BY DEF StepCounterfactual
  <1>5. ended \in BOOLEAN /\ (TimeDone => ended) /\ (exhausted => ended)
    BY DEF TimeDone
  <1>6. /\ book' \in Books /\ cursor' \in None .. Snapshots
        /\ cursor \in 0 .. Snapshots - 1 =>
             /\ ~exhausted
             /\ book'.at = cursor /\ book'.depth = Depth[cursor]
             /\ target = book' /\ cursor' = cursor + 1
        /\ cursor \notin 0 .. Snapshots - 1 =>
             book' = NoBook /\ cursor' = cursor
    <2> HIDE DEF sold_out
    <2> QED
      BY <1>1, <1>4, NextFacts DEF None
  <1>7. cursor = Snapshots => exhausted /\ target = sold_out
    BY <1>1, NextFacts DEF None
  <1>8. cursor = None => ~exhausted /\ target = NoBook
    BY NextFacts DEF None
  <1>9. target \in Books
    <2> HIDE DEF sold_out
    <2> QED
      BY <1>1, <1>3, NextFacts
  <1>10. /\ mode' = mode /\ ready' = ready /\ episode_steps' = episode_steps
         /\ ofi_start' = ofi_start /\ total_steps' = total_steps
         /\ step_idx' = step_idx + 1
    BY <1>4 DEF Settle
  <1> HIDE DEF filled, exhausted, ended, sold_out, target
  <1>11. RlTypeOK' /\ DoneIffSold' /\ FixedHorizon'
    <2>1. impact' \in Nat /\ charged' \in Nat /\ pending_baseline' \in Nat
      BY <1>1, <1>4 DEF RlTypeOK
    <2> QED
      BY <1>1, <1>2, <1>4, <1>5, <1>6, <1>9, <2>1, SettleTypes DEF RlIInv
  <1>12. BaselineChargedOnce'
    BY <1>1, <1>4, <1>10 DEF RlIInv, BaselineChargedOnce, Counterfactual, RlTypeOK
  <1>13. NoReplay'
    <2>1. cursor' = None => cursor = None
      BY <1>1, <1>6 DEF None
    <2>2. cursor = None => cursor \notin 0 .. Snapshots - 1
      BY DEF None
    <2> QED
      BY <1>4, <1>6, <1>10, <2>1, <2>2 DEF NoReplay, NoBook, Counterfactual
  <1>14. /\ remaining' \in 0 .. remaining
         /\ dumped \in 0 .. remaining - filled
         /\ remaining' = remaining - filled - dumped
         /\ exhausted => done'
    BY <1>1, <1>2, <1>4, <1>5, <1>9, SettleOrder
  <1>15. InStep'
    <2> SUFFICES ASSUME ready PROVE InStep'
      BY <1>10 DEF InStep
    <2>1. /\ cursor = Lesser(ofi_start + step_idx + 1, Snapshots)
          /\ episode_steps # 0 => ofi_start + total_steps < Snapshots
      BY <1>4 DEF RlIInv, InStep, Counterfactual, Replaying
    <2>2. ofi_start \in Nat /\ step_idx \in Nat
      BY <1>1 DEF RlTypeOK
    <2>3. CASE cursor \in 0 .. Snapshots - 1
      <3>1. cursor = ofi_start + step_idx + 1
        BY <2>1, <2>2, <2>3 DEF Lesser
      <3> QED
        BY <1>6, <1>10, <2>1, <2>2, <2>3, <3>1 DEF InStep, Lesser
    <2>4. CASE cursor \notin 0 .. Snapshots - 1
      <3>1. cursor = Snapshots /\ ofi_start + step_idx + 1 >= Snapshots
        BY <2>1, <2>2, <2>4 DEF Lesser
      <3>2. done'
        BY <1>7, <1>14, <3>1
      <3> QED
        BY <1>6, <1>10, <2>1, <2>2, <2>4, <3>1, <3>2 DEF InStep, Lesser
    <2> QED
      BY <2>3, <2>4
  <1>16. DepthLeft'
    <2>1. /\ took \in Nat /\ took <= target.depth /\ took <= dumped
          /\ sold_at' \in [0 .. Snapshots - 1 -> Nat]
          /\ \A i \in 0 .. Snapshots - 1 :
               sold_at'[i] = sold_at[i] + (IF i = book.at THEN filled ELSE 0)
                                        + (IF i = target.at THEN took ELSE 0)
      BY <1>1, <1>2, <1>4, <1>5, <1>9, SettleDepth
    <2> HIDE DEF took, dumped
    <2>2. /\ sold_at \in [0 .. Snapshots - 1 -> Nat]
          /\ book.at \in None .. Snapshots - 1 /\ book.depth \in Nat
          /\ book'.at \in None .. Snapshots - 1 /\ book'.depth \in Nat
          /\ target.at \in None .. Snapshots - 1 /\ target.depth \in Nat
      BY <1>1, <1>6, <1>9 DEF RlTypeOK, Books
    <2>3. /\ book.at < cursor \/ book.at = None
          /\ cursor = None => book.at = None
          /\ \A i \in 0 .. Snapshots - 1 :
               /\ sold_at[i] <= Depth[i]
               /\ i >= cursor => sold_at[i] = 0
               /\ book.at = i => book.depth <= Depth[i]
               /\ book.at = i /\ remaining > 0 => sold_at[i] + book.depth <= Depth[i]
      BY <1>4, <2>2 DEF RlIInv, DepthLeft, NoReplay
    <2>4. book'.at < cursor' \/ book'.at = None
      BY <1>1, <1>6 DEF NoBook, None
    <2>5. ASSUME NEW i \in 0 .. Snapshots - 1
          PROVE  /\ sold_at'[i] <= Depth[i]
                 /\ i >= cursor' => sold_at'[i] = 0
                 /\ book'.at = i => book'.depth <= Depth[i]
                 /\ book'.at = i /\ remaining' > 0 =>
                      sold_at'[i] + book'.depth <= Depth[i]
      <3>1. /\ sold_at[i] \in Nat /\ Depth[i] \in Nat /\ sold_at[i] <= Depth[i]
            /\ i >= cursor => sold_at[i] = 0
            /\ book.at = i /\ remaining > 0 => sold_at[i] + book.depth <= Depth[i]
            /\ sold_at'[i] = sold_at[i] + (IF i = book.at THEN filled ELSE 0)
                                        + (IF i = target.at THEN took ELSE 0)
        BY <2>1, <2>2, <2>3
      <3>2. i >= cursor => i # book.at
        BY <1>1, <2>2, <2>3 DEF None
      (* What the order has left bounds what this step can sell. *)
      <3>3. filled \in Nat /\ took \in Nat /\ took <= remaining - filled
        BY <1>1, <1>2, <1>14, <2>1
      <3>4. book.at = i => sold_at[i] + filled <= Depth[i]
        <4>1. CASE remaining > 0
          BY <1>2, <2>2, <3>1, <3>3, <4>1
        <4>2. CASE remaining = 0
          BY <1>2, <3>1, <3>3, <4>2
        <4> QED
          BY <1>1, <4>1, <4>2
      <3>5. CASE cursor \in 0 .. Snapshots - 1
        <4>1. /\ book'.at = cursor /\ book'.depth = Depth[cursor]
              /\ target.at = cursor /\ target.depth = Depth[cursor]
              /\ cursor' = cursor + 1
          BY <1>6, <3>5
        <4>2. CASE i = cursor
          <5>1. sold_at'[i] = took /\ took <= Depth[i]
            BY <2>1, <3>1, <3>2, <3>3, <3>5, <4>1, <4>2
          <5>2. remaining' > 0 => took = 0
            <6>1. remaining - filled \in Nat
              BY <1>1, <1>2
            <6>2. dumped = 0 \/ dumped = remaining - filled
              BY <1>1, <1>5, <6>1, DumpedFacts DEF dumped
            <6> QED
              BY <1>1, <1>2, <1>14, <2>1, <3>3, <6>2
          <5> QED
            BY <3>1, <3>5, <4>1, <4>2, <5>1, <5>2
        <4>3. CASE i # cursor
          <5>1. sold_at'[i] = sold_at[i] + (IF i = book.at THEN filled ELSE 0)
            BY <3>1, <3>3, <4>1, <4>3
          <5>2. i >= cursor' => i >= cursor
            BY <3>5, <4>1
          <5> QED
            BY <3>1, <3>2, <3>4, <4>1, <4>3, <5>1, <5>2
        <4> QED
          BY <4>2, <4>3
      <3>6. CASE cursor \notin 0 .. Snapshots - 1
        <4>1. book'.at = None /\ cursor' = cursor
          BY <1>6, <3>6 DEF NoBook
        <4>2. CASE i = book.at
          <5>1. cursor = Snapshots
            BY <1>1, <2>3, <3>6, <4>2 DEF None
          <5>2. target.at = i /\ target.depth = book.depth - filled
            BY <1>3, <1>7, <4>2, <5>1
          <5>3. sold_at'[i] = sold_at[i] + filled + took
            BY <3>1, <3>3, <4>2, <5>2
          <5>4. sold_at[i] + filled + took <= Depth[i]
            <6>1. CASE remaining > 0
              <7>1. sold_at[i] + book.depth <= Depth[i] /\ took <= book.depth - filled
                BY <2>1, <3>1, <4>2, <5>2, <6>1
              <7> QED
                BY <2>2, <3>1, <3>3, <7>1
            <6>2. CASE remaining = 0
              BY <1>2, <3>1, <3>3, <6>2
            <6> QED
              BY <1>1, <6>1, <6>2
          <5> QED
            BY <3>2, <4>1, <4>2, <5>3, <5>4 DEF None
        <4>3. CASE i # book.at
          <5>1. i # target.at
            <6>1. CASE cursor = Snapshots
              BY <1>3, <1>7, <4>3, <6>1
            <6>2. CASE cursor = None
              BY <1>8, <6>2 DEF NoBook, None
            <6> QED
              BY <1>1, <3>6, <6>1, <6>2 DEF None
          <5>2. sold_at'[i] = sold_at[i]
            BY <3>1, <4>3, <5>1
          <5> QED
            BY <3>1, <4>1, <5>2 DEF None
        <4> QED
          BY <4>2, <4>3
      <3> QED
        BY <3>5, <3>6
    <2> QED
      BY <1>4, <1>10, <2>1, <2>4, <2>5 DEF DepthLeft, Counterfactual
  <1> QED
    BY <1>11, <1>12, <1>13, <1>15, <1>16 DEF RlIInv

-----------------------------------------------------------------------------
(* RlIInv holds in every reachable state. *)
THEOREM RlInvariance ==
  RlSpec => []RlIInv
  <1>1. RlIInv /\ [RlNext]_rlVars => RlIInv'
    <2> SUFFICES ASSUME RlIInv, [RlNext]_rlVars PROVE RlIInv'
      OBVIOUS
    <2>1. CASE RlNext
      BY <2>1, ResetSyntheticPreserves, ResetReplayPreserves, ResetFailsPreserves,
         StepPreserves, StepCounterfactualPreserves DEF RlNext
    <2>2. CASE UNCHANGED rlVars
      BY <2>2 DEF rlVars, RlIInv, RlTypeOK, DoneIffSold, DepthLeft, FixedHorizon,
         InStep, NoReplay, BaselineChargedOnce, Replaying, Counterfactual, InvDone
    <2> QED
      BY <2>1, <2>2
  <1> QED
    BY InitEstablishes, <1>1, PTL DEF RlSpec

(* Every variable keeps its type: no fill takes a book or the order below  *)
(* zero.                                                                   *)
THEOREM RlTypeCorrect ==
  RlSpec => []RlTypeOK
  <1>1. RlIInv => RlTypeOK
    BY DEF RlIInv
  <1> QED
    BY <1>1, RlInvariance, PTL

(* done tells the truth about the order. *)
THEOREM DoneTellsTheTruth ==
  RlSpec => []DoneIffSold
  <1>1. RlIInv => DoneIffSold
    BY DEF RlIInv
  <1> QED
    BY <1>1, RlInvariance, PTL

(* No episode sells more into a snapshot than its book held. *)
THEOREM DepthNeverSoldTwice ==
  RlSpec => []DepthSoldOnce
  <1>1. RlIInv => DepthSoldOnce
    BY DEF RlIInv, DepthLeft, DepthSoldOnce
  <1> QED
    BY <1>1, RlInvariance, PTL

(* The book of a step is the snapshot its order flow is read from, to the  *)
(* end of every episode with --episode-steps.                              *)
THEOREM AlwaysOnRealData ==
  RlSpec => []OnRealData
  <1>1. RlIInv => OnRealData
    <2> SUFFICES ASSUME RlIInv, Replaying, ready,
                        \/ episode_steps # 0 /\ step_idx <= total_steps
                        \/ Counterfactual /\ ~done
                 PROVE  book.at = ofi_start + step_idx
      BY DEF OnRealData
    <2>1. ofi_start \in Nat /\ step_idx \in Nat /\ total_steps \in Nat
      BY RlAssumption DEF RlIInv, RlTypeOK
    <2>2. ofi_start + step_idx < Snapshots
      <3>1. CASE episode_steps # 0 /\ step_idx <= total_steps
        <4>1. ofi_start + total_steps < Snapshots
          BY <3>1 DEF RlIInv, InStep
        <4> QED
          BY <2>1, <3>1, <4>1, RlAssumption
      <3>2. CASE Counterfactual /\ ~done
        BY <3>2 DEF RlIInv, InStep
      <3> QED
        BY <3>1, <3>2
    <2> QED
      BY <2>2 DEF RlIInv, InStep
  <1> QED
    BY <1>1, RlInvariance, PTL

(* The TWAP baseline is charged once an episode. *)
THEOREM BaselineAlwaysChargedOnce ==
  RlSpec => []BaselineChargedOnce
  <1>1. RlIInv => BaselineChargedOnce
    BY DEF RlIInv
  <1> QED
    BY <1>1, RlInvariance, PTL

-----------------------------------------------------------------------------
(* A step sells some of what is left; once all is sold it changes nothing  *)
(* the client's order shows.                                               *)
LEMMA StepSells ==
  ASSUME RlIInv, NEW intended \in 0 .. remaining,
         Step(intended) \/ StepCounterfactual(intended)
  PROVE  /\ remaining' \in 0 .. remaining
         /\ total_filled' = total_filled + remaining - remaining'
         /\ done' \in BOOLEAN
         /\ done' <=> remaining' = 0
  <1>1. RlTypeOK /\ book \in Books /\ remaining \in Nat /\ intended \in Nat
        /\ cursor \in None .. Snapshots
    BY DEF RlIInv, RlTypeOK
  <1> DEFINE filled == Fillable(book, intended)
  <1>2. filled \in 0 .. remaining /\ filled \in Nat
    <2>1. filled \in 0 .. remaining
      BY <1>1, FillFacts
    <2> QED
      BY <1>1, <2>1
  <1>3. After(book, filled) \in Books /\ NextBook(cursor) \in Books
    <2> HIDE DEF filled
    <2> QED
      BY <1>1, <1>2, FillFacts, NextFacts
  <1>4. TimeDone \in BOOLEAN
    BY DEF TimeDone
  <1>5. CASE Step(intended)
    <2> DEFINE next == Advanced(After(book, filled))
    <2>1. Settle(filled, next, TimeDone)
      BY <1>5 DEF Step
    <2>2. next \in Books
      <3>1. [at |-> None, depth |-> SyntheticDepth] \in Books
        BY RlAssumption DEF Books, None
      <3> QED
        BY <1>3, <3>1 DEF Advanced
    <2> HIDE DEF filled, next
    <2> QED
      BY <1>1, <1>2, <1>4, <2>1, <2>2, SettleOrder
  <1>6. CASE StepCounterfactual(intended)
    <2> DEFINE exhausted == cursor # None /\ NextBook(cursor) = NoBook
               ended == TimeDone \/ exhausted
               target == IF exhausted THEN After(book, filled) ELSE NextBook(cursor)
    <2>1. Settle(filled, target, ended)
      BY <1>6 DEF StepCounterfactual
    <2>2. target \in Books
      BY <1>3
    <2>3. ended \in BOOLEAN /\ (TimeDone => ended)
      BY <1>4
    <2> HIDE DEF filled, ended, target
    <2> QED
      BY <1>1, <1>2, <2>1, <2>2, <2>3, SettleOrder
  <1> QED
    BY <1>5, <1>6

(* An RlEnv implements the liquidation its client relies on. *)
THEOREM RlImplementsLiquidation ==
  RlSpec => ImplementsLiquidation
  <1> DEFINE over == done /\ remaining = 0
  <1>1. RlInit => Order!LiquidationInit
    BY DEF RlInit, Order!LiquidationInit
  <1>2. RlIInv /\ [RlNext]_rlVars
          => [Order!Begin \/ Order!SellSome]_<<remaining, total_filled, over>>
    <2> SUFFICES ASSUME RlIInv, [RlNext]_rlVars
                 PROVE  [Order!Begin \/ Order!SellSome]_<<remaining, total_filled, over>>
      OBVIOUS
    <2>1. RlTypeOK /\ remaining \in Nat /\ total_filled \in Nat
      BY DEF RlIInv, RlTypeOK
    <2>2. ASSUME StartOver PROVE Order!Begin
      <3>1. remaining' \in Nat \ {0} /\ total_filled' = 0
        BY <2>1, <2>2, NewOrderFacts
      <3>2. over' = FALSE
        BY <3>1
      <3> QED
        BY <3>1, <3>2 DEF Order!Begin
    <2>3. ASSUME NEW intended \in 0 .. remaining,
                 Step(intended) \/ StepCounterfactual(intended)
          PROVE  [Order!SellSome]_<<remaining, total_filled, over>>
      <3>1. /\ remaining' \in 0 .. remaining
            /\ total_filled' = total_filled + remaining - remaining'
            /\ done' <=> remaining' = 0
        BY <2>3, StepSells
      <3>2. CASE over
        <4>1. remaining' = remaining /\ total_filled' = total_filled
          BY <2>1, <3>1, <3>2
        <4>2. over' = over
          BY <3>1, <3>2, <4>1
        <4> QED
          BY <4>1, <4>2
      <3>3. CASE ~over
        <4>1. over' \in BOOLEAN /\ (over' => remaining' = 0)
          OBVIOUS
        <4>2. Order!SellSome
          BY <3>1, <3>3, <4>1, Zenon DEF Order!SellSome
        <4> QED
          BY <4>2
      <3> QED
        BY <3>2, <3>3
    <2>4. CASE UNCHANGED rlVars
      BY <2>4 DEF rlVars
    <2>5. CASE ResetSynthetic \/ (\E start \in Starts : ResetReplay(start)) \/ ResetFails
      BY <2>2, <2>5 DEF ResetSynthetic, ResetReplay, ResetFails
    <2>6. CASE \E intended \in 0 .. remaining :
                 Step(intended) \/ StepCounterfactual(intended)
      BY <2>3, <2>6
    <2> QED
      BY <2>4, <2>5, <2>6 DEF RlNext
  <1> QED
    BY <1>1, <1>2, RlInvariance, PTL DEF RlSpec, ImplementsLiquidation, Order!LiquidationSpec
=============================================================================
