---------------------------- MODULE Liquidation ----------------------------
(***************************************************************************)
(* What a liquidation environment promises whoever drives it: an episode   *)
(* starts with a quantity to sell, every step moves part of it from left   *)
(* to sold, the episode is over only once all of it is sold, and then      *)
(* nothing more is sold until the next one begins.                         *)
(***************************************************************************)
EXTENDS Integers

VARIABLES left, sold, over

LiquidationInit ==
  /\ left = 0
  /\ sold = 0
  /\ over = FALSE

Begin ==
  /\ left' \in Nat \ {0}
  /\ sold' = 0
  /\ over' = FALSE

SellSome ==
  /\ ~over
  /\ left' \in 0 .. left
  /\ sold' = sold + left - left'
  /\ over' \in BOOLEAN
  /\ over' => left' = 0

LiquidationSpec ==
  LiquidationInit /\ [][Begin \/ SellSome]_<<left, sold, over>>
=============================================================================
