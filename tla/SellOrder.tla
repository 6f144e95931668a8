----------------------------- MODULE SellOrder -----------------------------
(***************************************************************************)
(* What a scheduler promises the owner of a sell order, whichever of its   *)
(* strategies runs: it never sells more than is left, the slippage it has  *)
(* booked never exceeds the agreed rate on what it has sold, and the order *)
(* is done at the very step that sells the last of it.                     *)
(***************************************************************************)
EXTENDS Integers

CONSTANTS Total, Rate

VARIABLES left, spent, done

OrderInit ==
  /\ left = Total
  /\ spent = 0
  /\ done = FALSE

(* One block: some quantity, perhaps none, for some slippage. *)
Sell ==
  /\ ~done
  /\ left' \in 0 .. left
  /\ spent' >= spent
  /\ spent' <= Rate * (Total - left')
  /\ done' = (left' = 0)

OrderSpec == OrderInit /\ [][Sell]_<<left, spent, done>>
=============================================================================
