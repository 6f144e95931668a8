---------------------------- MODULE MC_JobStream ----------------------------
(* Two paths or dates, two deliveries, one cancel request, one page. *)
EXTENDS JobStream
=============================================================================
