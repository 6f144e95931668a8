------------------------------- MODULE Vpin --------------------------------
(***************************************************************************)
(* The volume-synchronised probability of informed trading, market/vpin.rs. *)
(* Traded volume fills buckets of one size; a full bucket is sealed with   *)
(* the imbalance between the volume bought and sold in it, and the         *)
(* estimate is the mean over the last window of sealed buckets.  Volumes   *)
(* are whole units and an imbalance is a whole percentage.                 *)
(***************************************************************************)
EXTENDS Integers, SequencesExt

CONSTANT None      \* the Rust None

(* What a VpinCalculator may be. *)
Calculators ==
  [bucket_size : Nat, window_buckets : Nat, buckets : Seq(Int),
   buy : Nat, sell : Nat, last_direction : Int]

ASSUME VpinAssumption == None \notin Int \cup Calculators

Smaller(a, b) == IF a <= b THEN a ELSE b
Larger(a, b) == IF a >= b THEN a ELSE b
Distance(a, b) == Larger(a, b) - Smaller(a, b)
SumOf(s) == FoldLeft(LAMBDA a, b : a + b, 0, s)

NewCalculator(size, window) ==
  [bucket_size |-> size, window_buckets |-> window, buckets |-> <<>>,
   buy |-> 0, sell |-> 0, last_direction |-> 0]

(* The tick rule: up is bought, down is sold, and an unchanged price goes  *)
(* the way of the trade before, or up when there was none.                 *)
Direction(calc, price, prev_price) ==
  CASE price > prev_price -> 1
    [] price < prev_price -> -1
    [] OTHER -> IF calc.last_direction = 0 THEN 1 ELSE calc.last_direction

Imbalance(calc) == (100 * Distance(calc.buy, calc.sell)) \div calc.bucket_size

(* A full bucket joins the window, which forgets its oldest. *)
Seal(calc) ==
  LET sealed == Append(calc.buckets, Imbalance(calc)) IN
    IF calc.buy + calc.sell < calc.bucket_size THEN calc
    ELSE [calc EXCEPT !.buckets = IF Len(sealed) > calc.window_buckets THEN Tail(sealed)
                                  ELSE sealed,
                      !.buy = 0, !.sell = 0]

FillUnit(calc) ==
  Seal(IF calc.last_direction = 1 THEN [calc EXCEPT !.buy = @ + 1]
       ELSE [calc EXCEPT !.sell = @ + 1])

(* add_trade: the volume spills from bucket to bucket until none is left.  *)
AddTrade(calc, price, volume, prev_price) ==
  FoldLeft(LAMBDA c, unit : FillUnit(c),
           [calc EXCEPT !.last_direction = Direction(calc, price, prev_price)],
           [unit \in 1 .. volume |-> unit])

(* With buckets of size zero the loop of add_trade fills nothing and never *)
(* ends, whatever there is to fill.                                        *)
Endless(calc, volume) == calc.bucket_size = 0 /\ volume > 0

CurrentVpin(calc) ==
  IF calc.buckets = <<>> THEN None ELSE SumOf(calc.buckets) \div Len(calc.buckets)

(* current_vpin().unwrap_or(0.0), what every caller takes. *)
VpinOrZero(calc) == IF calc.buckets = <<>> THEN 0 ELSE CurrentVpin(calc)

CalibrateBucketSize(total_volume, target_buckets) == total_volume \div target_buckets
=============================================================================
