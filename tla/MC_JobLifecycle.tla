-------------------------- MODULE MC_JobLifecycle --------------------------
(* Two paths or dates, two deliveries, two cancel requests. *)
EXTENDS JobLifecycle
=============================================================================
