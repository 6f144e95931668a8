----------------------------- MODULE OrderBook -----------------------------
(***************************************************************************)
(* The limit order book of market/order_book.rs and the synthetic book of  *)
(* market/lob_generator.rs.  A book is [asks, bids, timestamp], a side a   *)
(* sequence of levels, the best one first; new() trusts its caller for     *)
(* that order.  Prices and quantities are whole numbers: a price is in     *)
(* ticks, and an average or a rescaled price rounds down to a tick.  A     *)
(* fraction of a price is in percent.                                      *)
(***************************************************************************)
EXTENDS Vpin

CONSTANTS
  NumLevels,       \* LobGeneratorParams: num_levels
  BaseQuantity     \* LobGeneratorParams: base_quantity

ASSUME OrderBookAssumption ==
  /\ NumLevels \in Nat \ {0}
  /\ BaseQuantity \in Nat \ {0}

Quantities(ladder) == [i \in DOMAIN ladder |-> ladder[i].quantity]
Notionals(ladder) == [i \in DOMAIN ladder |-> ladder[i].price * ladder[i].quantity]

NewBook(asks, bids, timestamp) ==
  [asks |-> asks, bids |-> bids, timestamp |-> timestamp]

TwoSided(book) == book.asks # <<>> /\ book.bids # <<>>

(* mid_price and half_spread: None when a side is empty. *)
MidPrice(book) ==
  IF TwoSided(book) THEN (book.asks[1].price + book.bids[1].price) \div 2 ELSE None

HalfSpread(book) ==
  IF TwoSided(book) THEN (book.asks[1].price - book.bids[1].price) \div 2 ELSE None

ScaleLevels(ladder, to, from) ==
  [i \in DOMAIN ladder |-> [ladder[i] EXCEPT !.price = (@ * to) \div from]]

(* rescale by to/from: prices only, quantities and order stay. *)
Rescale(book, to, from) ==
  [book EXCEPT !.asks = ScaleLevels(@, to, from), !.bids = ScaleLevels(@, to, from)]

(* bid_depth_up_to: what is offered at the price or better. *)
DepthUpTo(ladder, price) ==
  FoldLeft(LAMBDA acc, l :
             IF acc.open /\ l.price >= price
             THEN [acc EXCEPT !.depth = @ + l.quantity]
             ELSE [acc EXCEPT !.open = FALSE],
           [open |-> TRUE, depth |-> 0], ladder).depth

-----------------------------------------------------------------------------
(* Bug shape: a level is only used up when something is left to sell. *)
FillLevelKeepsEmptied(walk, level) ==
  LET taken == Smaller(level.quantity, walk.remaining) IN
    [ladder    |-> IF walk.remaining > level.quantity THEN walk.ladder
                   ELSE Append(walk.ladder, level),
     remaining |-> walk.remaining - taken,
     filled    |-> walk.filled + taken,
     notional  |-> walk.notional + taken * level.price,
     consumed  |-> walk.consumed + (IF walk.remaining > 0 THEN 1 ELSE 0)]

(* One turn of the loop of fill_side, which ends when nothing remains: a   *)
(* level that the order reaches in full is removed, the last one shrinks.  *)
FillLevel(walk, level) ==
  LET taken == Smaller(level.quantity, walk.remaining) IN
    [ladder    |-> IF walk.remaining > 0 /\ taken = level.quantity THEN walk.ladder
                   ELSE Append(walk.ladder, [level EXCEPT !.quantity = @ - taken]),
     remaining |-> walk.remaining - taken,
     filled    |-> walk.filled + taken,
     notional  |-> walk.notional + taken * level.price,
     consumed  |-> walk.consumed + (IF walk.remaining > 0 THEN 1 ELSE 0)]

FillSide(ladder, quantity) ==
  FoldLeft(FillLevel,
           [ladder |-> <<>>, remaining |-> quantity, filled |-> 0,
            notional |-> 0, consumed |-> 0],
           ladder)

(* fill_market_sell.  What the bids cannot take stays unfilled, and the    *)
(* average price is over what was filled.                                  *)
FillMarketSell(book, quantity) ==
  LET walk == FillSide(book.bids, quantity)
      mid == MidPrice(book)
      average == IF walk.filled > 0 THEN walk.notional \div walk.filled ELSE 0 IN
    [filled_qty        |-> walk.filled,
     avg_fill_price    |-> average,
     levels_consumed   |-> walk.consumed,
     residual_qty      |-> walk.remaining,
     real_spread_cost  |-> IF mid = None THEN 0 ELSE HalfSpread(book) * walk.filled,
     slippage_from_mid |-> IF mid = None THEN 0 ELSE mid - average,
     book              |-> [book EXCEPT !.bids = walk.ladder]]

(* generate_lob: a book around the mid whose spread widens with the        *)
(* volatility and whose levels, a percent apart, hold less and less.       *)
GenerateLob(mid, volatility) ==
  LET half == (mid * (2 + volatility)) \div 200
      quantity(k) == Larger(1, BaseQuantity \div (2 ^ (k - 1)))
      offset(k) == half + ((k - 1) * mid) \div 100 IN
    NewBook([k \in 1 .. NumLevels |-> [price |-> mid + offset(k), quantity |-> quantity(k)]],
            [k \in 1 .. NumLevels |-> [price |-> mid - offset(k), quantity |-> quantity(k)]],
            0)

-----------------------------------------------------------------------------
(* What a market sell of a quantity must do to a ladder: nothing is made   *)
(* or lost, the best levels go first and the rest is left untouched.       *)
SellsFromTheTop(ladder, quantity) ==
  LET walk == FillSide(ladder, quantity)
      gone == Len(ladder) - Len(walk.ladder) IN
    /\ walk.filled = Smaller(quantity, SumOf(Quantities(ladder)))
    /\ walk.filled + walk.remaining = quantity
    /\ SumOf(Quantities(walk.ladder)) + walk.filled = SumOf(Quantities(ladder))
    /\ SumOf(Notionals(walk.ladder)) + walk.notional = SumOf(Notionals(ladder))
    /\ \A i \in 2 .. Len(walk.ladder) : walk.ladder[i] = ladder[gone + i]
    /\ \A i \in 1 .. gone :
         DepthUpTo(ladder, ladder[i].price) <= DepthUpTo(ladder, ladder[gone].price)
=============================================================================
