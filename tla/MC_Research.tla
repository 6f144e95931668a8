---------------------------- MODULE MC_Research ----------------------------
(***************************************************************************)
(* Five units of inventory, two prices, two volatilities and files of a    *)
(* few rows.  The command lines cover each way to fill an order, each way  *)
(* to get a VPIN, each way to fail, and what is told of it all.            *)
(***************************************************************************)
EXTENDS ResearchSim

Tall(ts, pct, depth, notional) == [ts |-> ts, pct |-> pct, depth |-> depth, notional |-> notional]
TallFile(rows) ==
  [columns |-> {"timestamp", "percentage", "depth", "notional"}, levels |-> <<>>, rows |-> rows]

Ask == Tall(1, 1, 1, 102)
BidRows == {Tall(1, -1, 1, 100), Tall(1, -2, 2, 198), Tall(1, -3, 3, 294), Tall(1, -2, 1, 100),
            Tall(2, -1, 1, 100), Tall(2, 1, 1, 102), Tall(1, -1, None, 100)}
SmallFiles == {TallFile(Append(<<r1, r2, r3>>, Ask)) : r1 \in BidRows, r2 \in BidRows, r3 \in BidRows}

(* Three snapshots, one group without asks, and one row that adds nothing. *)
Day == TallFile(<<Tall(10, -2, 3, 294), Tall(10, -1, 1, 100), Tall(10, 2, 3, 308), Tall(10, 1, 1, 102),
                  Tall(20, -1, 2, 200), Tall(20, 1, 1, 104), Tall(30, -1, 1, 100),
                  Tall(40, 1, 2, 204), Tall(40, -1, 4, 392), Tall(40, -2, 4, 392)>>)
BadStamp == TallFile(<<Tall(Unreadable, -1, 1, 100), Tall(Unreadable, 1, 1, 102)>>)
NoStamp == [Day EXCEPT !.columns = @ \ {"timestamp"}]

Wide(ts, cells) == [readable |-> TRUE, ts |-> ts, cells |-> cells]
WideDay ==
  [columns |-> {"timestamp"},
   levels |-> <<<<"b", 2, "p">>, <<"b", 2, "q">>, <<"a", 1, "q">>, <<"a", 1, "p">>,
                <<"b", 1, "p">>, <<"b", 1, "q">>>>,
   rows |-> <<Wide(10, <<98, 4, 2, 102, 100, 1>>), Wide(15, <<98, 4, None, 102, 100, 1>>),
              [readable |-> FALSE, ts |-> None, cells |-> <<>>], Wide(None, <<97, 1, 1, 103, None, 1>>)>>]

Trade(ts, quantity, sell) == [ts |-> ts, price |-> 100, quantity |-> quantity, sell |-> sell]
TradeFile(rows) == [columns |-> TradeColumns, rows |-> rows]
Trades == TradeFile(<<Trade(5, 1, TRUE), Trade(10, 2, FALSE), Trade(15, 1, None), Trade(15, 1, TRUE),
                      Trade(20, 1, TRUE), Trade(35, 3, FALSE), Trade(40, 1, TRUE), Trade(50, 1, FALSE)>>)
NoTrades == TradeFile(<<Trade(5, 0, TRUE)>>)
Stamped == {5, 10, 15, 20, 45}
TradeFiles == {TradeFile(<<Trade(t1, 2, TRUE), Trade(t2, 1, FALSE), Trade(t3, 1, sell)>>) :
                 t1 \in Stamped, t2 \in Stamped, t3 \in Stamped, sell \in BOOLEAN}
SortedTradeFiles == {f \in TradeFiles : f.rows[1].ts <= f.rows[2].ts /\ f.rows[2].ts <= f.rows[3].ts}

Fit(before, after, size) == [price_before |-> before, price_after |-> after, trade_size |-> size]

MCLines ==
  {(* formula, each with and without RegimeAC and GARCH *)
   [horizon |-> 2], [horizon |-> 0, bucket_size |-> None, paths |-> 0],
   [horizon |-> 2, include_regime_ac |-> TRUE, model |-> "garch", bucket_size |-> 1],
   [horizon |-> 3, model |-> "other"],
   (* books *)
   [lob_data |-> Day, agg_trades |-> Trades],
   [lob_data |-> Day, model |-> "garch"], [lob_data |-> Day, include_regime_ac |-> TRUE],
   [lob_data |-> WideDay, include_regime_ac |-> TRUE],
   [lob |-> TRUE, debug |-> TRUE, progress |-> TRUE, horizon |-> 2],
   (* paths, and the log of the first of them *)
   [paths |-> 2, debug_paths |-> 1, progress |-> TRUE],
   [paths |-> 2, debug_paths |-> None],
   [experiments |-> TRUE, progress |-> TRUE], [experiments |-> TRUE, paths |-> 2],
   (* calibration *)
   [calibrate |-> <<Fit(100, 104, 4), Fit(100, 98, 1), Fit(0, 1, 1)>>],
   [calibrate |-> <<Fit(100, 104, 0)>>], [calibrate |-> <<Fit(100, None, 1)>>],
   (* what goes wrong *)
   [calibrate |-> None], [lob_data |-> None], [lob_data |-> BadStamp], [lob_data |-> NoStamp],
   [agg_trades |-> None, debug |-> TRUE], [agg_trades |-> NoTrades, horizon |-> 2],
   [eta |-> 0, debug |-> TRUE], [results_dir |-> None]}
  \cup {[lob_data |-> file, agg_trades |-> None] : file \in SmallFiles}
  \cup {[lob_data |-> Day, agg_trades |-> file, eta |-> 0] : file \in SortedTradeFiles}

(* A formula run with RegimeAC. *)
MCRegimeLines == {[horizon |-> 3, include_regime_ac |-> TRUE]}

MCLineup == <<"twap", "optimal">>
MCHorizonGrid == <<1>>
MCSliceGrid == <<4>>
MCVolatilityGrid == <<4>>
MCImpactGrid == <<3>>
=============================================================================
