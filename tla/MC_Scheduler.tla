---------------------------- MODULE MC_Scheduler ----------------------------
(* A small order: seven lots, three steps, blocks from harmless to hostile. *)
EXTENDS Scheduler

MCConditions ==
  { [impact |-> i, timing |-> t] : i \in {0, 1, 2, 4}, t \in {0, 1, 3} }
=============================================================================
