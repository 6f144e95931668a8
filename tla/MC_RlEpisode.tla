---------------------------- MODULE MC_RlEpisode ----------------------------
(* A day of six snapshots, deep, shallow and empty ones.                   *)
EXTENDS RlEpisode

MCDepth == [i \in 0 .. 5 |-> <<2, 0, 1, 3, 1, 2>>[i + 1]]
=============================================================================
