----------------------------- MODULE MC_DesLoop -----------------------------
(* Ticks twenty units apart.  The last price before a tick is the latest   *)
(* that lets an order finish: its fill arrives one unit before the tick.   *)
(* Further prices and cancels at a tick, at an order and between an order  *)
(* and its fill.                                                           *)
EXTENDS DesLoop

MCTicks == {0, 20, 40, 60, 80}
MCPrices == {18, 38, 58, 78, 98}
MCMorePrices == {4, 20, 24}
MCCancels == {5, 24, 25, 40}
=============================================================================
