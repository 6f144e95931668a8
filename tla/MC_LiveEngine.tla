--------------------------- MODULE MC_LiveEngine ---------------------------
(* A two-step order of three lots, four blocks, two attempts per RPC call. *)
EXTENDS LiveEngine

MCConditions ==
  { [impact |-> 0, timing |-> 0], [impact |-> 2, timing |-> 1],
    [impact |-> 4, timing |-> 3] }
=============================================================================
