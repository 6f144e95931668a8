----------------------------- MODULE AggTrades -----------------------------
(***************************************************************************)
(* market/agg_trades.rs: a day of public trades read from a CSV file, and  *)
(* the series a run aligns with the snapshots of the book.  A file is      *)
(* [columns, rows], a row [ts, price, quantity, sell] with None for a      *)
(* field that is absent or does not parse; a file that cannot be opened is *)
(* None.  The files list their trades in the order of their time.          *)
(***************************************************************************)
EXTENDS Vpin, FiniteSets, FiniteSetsExt

TradeColumns == {"transact_time", "price", "quantity", "is_buyer_maker"}

Positive(field) == field # None /\ field > 0

(* A day of trades as the reader makes it. *)
Days ==
  [trades : Seq([ts : Int, price : Nat \ {0}, quantity : Nat \ {0}, sell : BOOLEAN]),
   skipped_rows : Nat]

IsTrade(row) ==
  /\ row.ts # None
  /\ Positive(row.price)
  /\ Positive(row.quantity)
  /\ row.sell # None

(* from_csv: a row that is no trade is counted and skipped, a column that  *)
(* is missing is an error.                                                 *)
TradesFromCsv(file) ==
  LET good == SelectSeq(file.rows, IsTrade) IN
    IF file = None \/ ~(TradeColumns \subseteq file.columns) THEN None
    ELSE [trades |-> good, skipped_rows |-> Len(file.rows) - Len(good)]

Volumes(trades) == [i \in DOMAIN trades |-> trades[i].quantity]
TotalVolume(day) == SumOf(Volumes(day.trades))
CalibratedBucketSize(day, target_buckets) ==
  CalibrateBucketSize(TotalVolume(day), target_buckets)

SoldIn(trades) == SumOf(Volumes(SelectSeq(trades, LAMBDA t : t.sell)))
BoughtIn(trades) == SumOf(Volumes(SelectSeq(trades, LAMBDA t : ~t.sell)))

(* volume_in_window: the trades of [start, end). *)
VolumeInWindow(day, start, end) ==
  LET within == SelectSeq(day.trades, LAMBDA t : start <= t.ts /\ t.ts < end) IN
    <<BoughtIn(within), SoldIn(within)>>

-----------------------------------------------------------------------------
(* The first trade from position i on that is not before the time, or the  *)
(* end of the list; a time of None never comes.                            *)
NextFrom(trades, i, time) ==
  Min({Len(trades) + 1} \cup
      {j \in i .. Len(trades) : time # None /\ trades[j].ts >= time})

(* Both sides of a window are fed as trades of a known direction. *)
FeedWindow(calc, bought, sold) ==
  LET b == IF bought > 0 THEN AddTrade(calc, 101, bought, 100) ELSE calc IN
    IF sold > 0 THEN AddTrade(b, 99, sold, 101) ELSE b

(* Bug shape: each window is looked for from behind the trade the last one *)
(* stopped at.                                                             *)
VpinWindowSkipsOne(trades, stamps, acc, k) ==
  LET end == IF k = Len(stamps) THEN None ELSE stamps[k + 1]
      first == NextFrom(trades, acc.cursor, stamps[k])
      next == NextFrom(trades, first, end) IN
    [cursor |-> next + 1, window |-> SubSeq(trades, first, next - 1)]

(* The trades from snapshot k to the next one, the last window open ended. *)
(* The cursor only moves forward.                                          *)
VpinWindow(trades, stamps, acc, k) ==
  LET end == IF k = Len(stamps) THEN None ELSE stamps[k + 1]
      first == NextFrom(trades, acc.cursor, stamps[k])
      next == NextFrom(trades, first, end) IN
    [cursor |-> next, window |-> SubSeq(trades, first, next - 1)]

VpinWindows(trades, stamps) ==
  FoldLeft(LAMBDA acc, k :
             LET w == VpinWindow(trades, stamps, acc, k) IN
               [cursor |-> w.cursor, windows |-> Append(acc.windows, w.window)],
           [cursor |-> 1, windows |-> <<>>],
           [k \in DOMAIN stamps |-> k]).windows

(* build_vpin_series: the estimate for snapshot k has seen the trades up   *)
(* to the next snapshot.                                                   *)
BuildVpinSeries(day, stamps, bucket_size, window_buckets) ==
  FoldLeft(LAMBDA acc, trades :
             LET calc == FeedWindow(acc.calc, BoughtIn(trades), SoldIn(trades)) IN
               [calc |-> calc, series |-> Append(acc.series, VpinOrZero(calc))],
           [calc |-> NewCalculator(bucket_size, window_buckets), series |-> <<>>],
           VpinWindows(day.trades, stamps)).series

-----------------------------------------------------------------------------
(* partition_point on the sorted trades: those of [start, end). *)
SortedWindow(trades, start, end) ==
  LET before(time) == Cardinality({i \in DOMAIN trades : trades[i].ts < time}) IN
    SubSeq(trades, before(start) + 1, before(end))

(* build_ofi_series, in percent: who was the aggressor before a snapshot. *)
BuildOfiSeries(day, stamps, window) ==
  LET imbalance(trades) ==
        IF trades = <<>> THEN 0
        ELSE LET d == BoughtIn(trades) - SoldIn(trades) IN
               (IF d < 0 THEN -1 ELSE 1)
                 * ((100 * Distance(d, 0)) \div (BoughtIn(trades) + SoldIn(trades))) IN
    [k \in DOMAIN stamps |->
       imbalance(SortedWindow(day.trades, Larger(0, stamps[k] - window), stamps[k]))]

(* build_volume_series: the volume between the snapshot before and this    *)
(* one; the first looks one bar back.                                      *)
BuildVolumeSeries(day, stamps) ==
  LET bar == IF Len(stamps) > 1 THEN Larger(0, stamps[2] - stamps[1]) ELSE 0
      start(k) == IF k = 1 THEN Larger(0, stamps[1] - bar) ELSE stamps[k - 1] IN
    [k \in DOMAIN stamps |-> SumOf(Volumes(SortedWindow(day.trades, start(k), stamps[k])))]

-----------------------------------------------------------------------------
Ordered(stamps) == \A k \in 2 .. Len(stamps) : stamps[k - 1] <= stamps[k]

(* What the series owe the trades when the snapshots are in order of time: *)
(* the windows of the VPIN series count each trade from the first snapshot *)
(* on exactly once, the volume series tells the volume of the same windows *)
(* one snapshot later, and the window query agrees with both.              *)
SeriesCountTheTrades(day, stamps) ==
  LET windows == VpinWindows(day.trades, stamps)
      volumes == BuildVolumeSeries(day, stamps)
      ofi == BuildOfiSeries(day, stamps, stamps[Len(stamps)])
      counted(k) == BoughtIn(windows[k]) + SoldIn(windows[k]) IN
    Ordered(stamps) =>
      /\ FoldLeft(LAMBDA a, w : a \o w, <<>>, windows)
           = SelectSeq(day.trades, LAMBDA t : t.ts >= stamps[1])
      /\ \A k \in 1 .. Len(stamps) - 1 :
           /\ counted(k) = volumes[k + 1]
           /\ VolumeInWindow(day, stamps[k], stamps[k + 1])
                = <<BoughtIn(windows[k]), SoldIn(windows[k])>>
      /\ \A k \in DOMAIN stamps :
           LET volume == VolumeInWindow(day, 0, stamps[k]) IN
             (ofi[k] > 0 => volume[1] > volume[2]) /\ (ofi[k] < 0 => volume[1] < volume[2])
=============================================================================
