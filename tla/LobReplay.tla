----------------------------- MODULE LobReplay -----------------------------
(***************************************************************************)
(* market/lob_replay.rs: a day of historical snapshots of the book, read   *)
(* from a CSV file in one of two layouts and replayed one per step.        *)
(*                                                                         *)
(* A file is [columns, levels, rows]: the columns known by name, and the   *)
(* level columns of the wide layout as <<side, number, "p" or "q">>.  A    *)
(* row of the tall layout is [ts, pct, depth, notional], one of the wide   *)
(* layout [readable, ts, cells] with a cell per level column.  None stands *)
(* for a field that is absent or does not parse as its number; a time      *)
(* stamp of the tall layout is text, and Unreadable is one that no format  *)
(* accepts.  A file that cannot be opened is None.                         *)
(***************************************************************************)
EXTENDS OrderBook, FiniteSets, FiniteSetsExt

(* What the reader makes of a row group: levels with a price and a         *)
(* quantity, on both sides.                                                *)
Levels == [price : Nat \ {0}, quantity : Nat \ {0}]
Ladders == Seq(Levels) \ {<<>>}
Snapshots == [asks : Ladders, bids : Ladders, timestamp : Int]

CONSTANTS
  LobBucket,       \* with_historical_lob: the bucket of the depth-change series
  LobWindow        \* and its window

Unreadable == -1

IsBinanceTall(file) == {"percentage", "depth", "notional"} \subseteq file.columns

-----------------------------------------------------------------------------
(* The tall layout: a row per level, cumulative from the mid outward. *)

Usable(row) ==
  /\ None \notin {row.ts, row.pct, row.depth, row.notional}
  /\ row.pct # 0
  /\ row.depth >= 0

(* The time stamps in the order in which they are first met. *)
Stamps(rows) ==
  FoldLeft(LAMBDA acc, row : IF Contains(acc, row.ts) THEN acc ELSE Append(acc, row.ts),
           <<>>, SelectSeq(rows, Usable))

(* Bug shape: the rows are taken in the order of the file. *)
SideRowsAsListed(rows, ts, sign) ==
  SelectSeq(rows, LAMBDA row : Usable(row) /\ row.ts = ts /\ row.pct * sign > 0)

(* The rows of one side of one snapshot, from the best level outward; rows *)
(* of the same percentage keep their order.                                *)
SideRows(rows, ts, sign) ==
  LET mine == {i \in DOMAIN rows : Usable(rows[i]) /\ rows[i].ts = ts /\ rows[i].pct * sign > 0}
      nearer(i, j) == \/ rows[i].pct * sign < rows[j].pct * sign
                      \/ rows[i].pct = rows[j].pct /\ i < j
      order == SetToSortSeq(mine, nearer) IN
    [k \in DOMAIN order |-> rows[order[k]]]

IsLevel(level) == level.quantity > 0 /\ level.price > 0

LevelBetween(depth, notional) ==
  [price    |-> IF depth > 0 THEN notional \div depth ELSE 0,
   quantity |-> depth]

(* diff_levels: each row less the one before it, kept when it is a level.  *)
DiffLevels(ladder) ==
  LET before(k) == IF k = 1 THEN [depth |-> 0, notional |-> 0] ELSE ladder[k - 1] IN
    SelectSeq([k \in DOMAIN ladder |->
                 LevelBetween(ladder[k].depth - before(k).depth,
                              ladder[k].notional - before(k).notional)],
              IsLevel)

TallSnapshot(rows, ts) ==
  NewBook(DiffLevels(SideRows(rows, ts, 1)), DiffLevels(SideRows(rows, ts, -1)), ts)

(* parse_binance_tall.  A snapshot without both sides is left out; one     *)
(* whose time stamp cannot be read fails the whole file.                   *)
ParseBinanceTall(file) ==
  LET books == [k \in DOMAIN Stamps(file.rows) |->
                  TallSnapshot(file.rows, Stamps(file.rows)[k])]
      kept == SelectSeq(books, TwoSided) IN
    IF \/ "timestamp" \notin file.columns
       \/ \E k \in DOMAIN kept : kept[k].timestamp = Unreadable
    THEN None ELSE kept

-----------------------------------------------------------------------------
(* The wide layout: a row per snapshot. *)

(* The (price, quantity) columns of a side in the order of their numbers.  *)
LevelPairs(levels, side) ==
  LET pairs == {pq \in (DOMAIN levels) \X (DOMAIN levels) :
                  /\ levels[pq[1]] = <<side, levels[pq[1]][2], "p">>
                  /\ levels[pq[2]] = <<side, levels[pq[1]][2], "q">>} IN
    SetToSortSeq(pairs, LAMBDA a, b : levels[a[1]][2] < levels[b[1]][2])

WideLevels(cells, pairs) ==
  LET cell(i) == IF cells[i] = None THEN 0 ELSE cells[i] IN
    SelectSeq([k \in DOMAIN pairs |-> [price    |-> cell(pairs[k][1]),
                                       quantity |-> cell(pairs[k][2])]],
              IsLevel)

(* parse_wide.  The number of the row, unreadable ones included, stands in *)
(* for a missing time stamp.                                               *)
ParseWide(file) ==
  LET book(k) ==
        IF ~file.rows[k].readable THEN NewBook(<<>>, <<>>, k - 1)
        ELSE NewBook(WideLevels(file.rows[k].cells, LevelPairs(file.levels, "a")),
                     WideLevels(file.rows[k].cells, LevelPairs(file.levels, "b")),
                     IF "timestamp" \notin file.columns \/ file.rows[k].ts = None THEN k - 1
                     ELSE file.rows[k].ts) IN
    SelectSeq([k \in DOMAIN file.rows |-> book(k)], TwoSided)

-----------------------------------------------------------------------------
(* from_csv: the snapshots of the file, or None for an error. *)
LobFromCsv(file) ==
  LET parsed == CASE file = None -> None
                  [] file # None /\ IsBinanceTall(file) -> ParseBinanceTall(file)
                  [] OTHER -> ParseWide(file) IN
    IF parsed = <<>> THEN None ELSE parsed

SnapshotTimestamps(snapshots) == [k \in DOMAIN snapshots |-> snapshots[k].timestamp]

TotalDepth(book) == SumOf(Quantities(book.bids)) + SumOf(Quantities(book.asks))

(* compute_vpin_series: the change of the total depth stands in for traded *)
(* volume.  One entry per change that seals a bucket, not per snapshot.    *)
ComputeVpinSeries(snapshots) ==
  FoldLeft(LAMBDA acc, k :
             LET prev == snapshots[k - 1]
                 curr == snapshots[k]
                 volume == Distance(TotalDepth(curr), TotalDepth(prev))
                 calc == AddTrade(acc.calc, MidPrice(curr), volume, MidPrice(prev))
                 seals == acc.calc.buy + acc.calc.sell + volume >= LobBucket IN
               IF volume = 0 THEN acc
               ELSE [calc |-> calc,
                     series |-> IF seals THEN Append(acc.series, CurrentVpin(calc))
                                ELSE acc.series],
           [calc |-> NewCalculator(LobBucket, LobWindow), series |-> <<>>],
           [k \in 1 .. Len(snapshots) - 1 |-> k + 1]).series

-----------------------------------------------------------------------------
(* The rows of one side of a group, wherever they are in the file, and     *)
(* whether they are what the layout promises: more depth and more notional *)
(* the further from the mid.                                               *)
RowsOf(rows, ts, sign) ==
  {k \in DOMAIN rows : Usable(rows[k]) /\ rows[k].ts = ts /\ rows[k].pct * sign > 0}

Cumulative(rows, mine) ==
  /\ mine # {}
  /\ \A i \in mine : rows[i].depth > 0 /\ rows[i].notional > 0
  /\ \A i, j \in mine : i # j =>
       /\ rows[i].pct # rows[j].pct
       /\ Distance(rows[i].pct, 0) < Distance(rows[j].pct, 0) =>
            rows[i].depth < rows[j].depth /\ rows[i].notional < rows[j].notional

(* What a reading of a tall file owes the file: two-sided snapshots, never *)
(* two for one time, one for each group whose sides are cumulative, and    *)
(* the levels of such a side add up to its deepest row, whatever the order *)
(* of the rows.                                                            *)
ReadsTheTallFile(file) ==
  LET snapshots == LobFromCsv(file)
      adds_up(ladder, mine) ==
        Cumulative(file.rows, mine) =>
          /\ SumOf(Quantities(ladder)) = Max({file.rows[k].depth : k \in mine})
          /\ SumOf(Notionals(ladder)) = Max({file.rows[k].notional : k \in mine}) IN
    /\ \A i, j \in DOMAIN snapshots :
         snapshots[i].timestamp = snapshots[j].timestamp => i = j
    /\ \A i \in DOMAIN snapshots :
         LET ts == snapshots[i].timestamp IN
           /\ TwoSided(snapshots[i])
           /\ adds_up(snapshots[i].bids, RowsOf(file.rows, ts, -1))
           /\ adds_up(snapshots[i].asks, RowsOf(file.rows, ts, 1))
    /\ \A k \in DOMAIN file.rows :
         LET ts == file.rows[k].ts IN
           /\ Cumulative(file.rows, RowsOf(file.rows, ts, -1))
           /\ Cumulative(file.rows, RowsOf(file.rows, ts, 1))
           => \E i \in DOMAIN snapshots : snapshots[i].timestamp = ts
=============================================================================
