---------------------------- MODULE JobLifecycle ----------------------------
(***************************************************************************)
(* One background job of the web backend: the row start_simulation writes  *)
(* (web/routes/simulate.py), the task that runs it (run_simulation_job,    *)
(* run_evaluation_job and run_sweep_job of web/workers/tasks.py), the      *)
(* registry that can abort it (web/services/job_registry.py), the abort    *)
(* listener (web/arq_worker.py), POST /cancel (web/routes/progress.py) and *)
(* the progress snapshot kept in Redis.  Jobs share no state with one      *)
(* another, so one job stands for all.                                     *)
(*                                                                         *)
(*   deployment     "arq": a worker process behind a Redis queue;          *)
(*                  "local": an asyncio task of the API, without Redis     *)
(*   kind           which of the three job functions runs                  *)
(*   row, error, result_saved    the job's database row                    *)
(*   queue, tries   waiting delivery, deliveries so far (external: arq)    *)
(*   pc, seen, why  the running attempt, the status its _update_status     *)
(*                  read, how the attempt is ending or ended               *)
(*   left           paths or dates the attempt still waits for             *)
(*   strays         paths gather() no longer waits for, still running      *)
(*   cancel_requested, timer     task.cancel() not yet delivered; the      *)
(*                  job_timeout not yet fired                              *)
(*   snapshot       status in job:progress:{id}, "absent" if no such key   *)
(*   c_pc, c_seen, cancels       the cancel handler, requests so far       *)
(*   aborts         abort messages on their way to the listener            *)
(*   listening, inbox   is a stream subscribed to job:{id}; the terminal   *)
(*                  messages it was sent                                   *)
(*                                                                         *)
(* publish_progress is two steps for a terminal message, the PUBLISH and   *)
(* the SETEX; of the others only the SETEX is seen.  Its writers replace   *)
(* the whole status, so the last SETEX decides whatever was read before.   *)
(***************************************************************************)
EXTENDS Integers

CONSTANTS
  Units,        \* n_paths, or the dates of an evaluation
  MaxTries,     \* deliveries arq makes of one job
  MaxCancels    \* bound on the cancel requests, for TLC

ASSUME JobAssumption ==
  /\ Units \in Nat \ {0}
  /\ MaxTries \in Nat \ {0}
  /\ MaxCancels \in Nat

VARIABLES deployment, kind, row, error, result_saved, queue, tries, pc, seen,
          why, left, strays, cancel_requested, timer, snapshot, c_pc, c_seen,
          cancels, aborts, listening, inbox

config == <<deployment, kind>>
rowVars == <<row, error, result_saved>>
queueVars == <<queue, tries>>
attempt == <<pc, seen, why, left, timer>>
cancelVars == <<c_pc, c_seen, cancels>>
channel == <<listening, inbox>>
jobVars == <<config, rowVars, queueVars, attempt, strays, cancel_requested,
             snapshot, cancelVars, aborts, channel>>

Terminal == {"complete", "failed"}
Status == {"queued", "running"} \cup Terminal

(* The awaits inside the try block, and those inside its except clauses. *)
Body == {"begin", "set_running", "store_running", "prepare", "gather", "end",
         "set_complete", "say_complete", "store_complete"}
Handler == {"fail", "set_failed", "say_failed", "store_failed"}

JobTypeOK ==
  /\ deployment \in {"arq", "local"} /\ kind \in {"simulation", "evaluation", "sweep"}
  /\ row \in Status /\ error \in {"", "Cancelled by user", "failure"}
  /\ result_saved \in BOOLEAN
  /\ queue \in {"ready", "empty"} /\ tries \in 0 .. MaxTries
  /\ pc \in {"idle", "finally"} \cup Body \cup Handler /\ seen \in Status
  /\ why \in {"none", "done", "error", "cancelled", "interrupted", "crashed"}
  /\ left \in 0 .. Units /\ strays \in 0 .. Units * MaxTries
  /\ cancel_requested \in BOOLEAN /\ timer \in BOOLEAN
  /\ snapshot \in Status \cup {"absent"}
  /\ c_pc \in {"idle", "commit", "abort", "publish", "tell"} /\ c_seen \in Status
  /\ cancels \in 0 .. MaxCancels /\ aborts \in 0 .. MaxCancels
  /\ listening \in BOOLEAN /\ inbox \subseteq {"complete", "error"}

(* start_simulation has committed the row and enqueued the job. *)
JobInit ==
  /\ deployment \in {"arq", "local"} /\ kind \in {"simulation", "evaluation", "sweep"}
  /\ row = "queued" /\ error = "" /\ result_saved = FALSE
  /\ queue = "ready" /\ tries = 0
  /\ pc = "idle" /\ seen = "queued" /\ why = "none" /\ left = 0 /\ timer = FALSE
  /\ strays = 0 /\ cancel_requested = FALSE
  /\ snapshot = "absent"
  /\ c_pc = "idle" /\ c_seen = "queued" /\ cancels = 0 /\ aborts = 0
  /\ listening = FALSE /\ inbox = {}

-----------------------------------------------------------------------------
(* Redis pub/sub: only those who listen now get the message.  Without      *)
(* Redis nobody can.                                                       *)
Publish(message) == inbox' = IF listening THEN inbox \cup {message} ELSE inbox

(* publish_progress writes nothing when the worker has no Redis. *)
Snapshot(status) == snapshot' = IF deployment = "arq" THEN status ELSE snapshot

(* The attempt moves on unless a cancellation is waiting for its next await. *)
At(here, next) == pc = here /\ ~cancel_requested /\ pc' = next

(* _update_status, first half: SELECT. *)
ReadRow ==
  /\ \/ At("begin", "set_running")
     \/ At("end", "set_complete")
     \/ At("fail", "set_failed")
  /\ seen' = row
  /\ UNCHANGED <<config, rowVars, queueVars, why, left, timer, strays,
                 cancel_requested, snapshot, cancelVars, aborts, channel>>

(* _update_status, second half: COMMIT.  The session writes the status     *)
(* only where it differs from what was read.                               *)
SetStatus(status) == row' = IF seen = status THEN row ELSE status

Commit ==
  /\ \/ At("set_running", "store_running") /\ SetStatus("running")
        /\ UNCHANGED <<error, result_saved>>
     \/ At("set_complete", "say_complete") /\ SetStatus("complete")
        /\ result_saved' = TRUE /\ UNCHANGED error
     \/ At("set_failed", "say_failed") /\ SetStatus("failed")
        /\ error' = (IF why = "error" THEN "failure" ELSE "Cancelled by user")
        /\ UNCHANGED result_saved
  /\ UNCHANGED <<config, queueVars, seen, why, left, timer, strays,
                 cancel_requested, snapshot, cancelVars, aborts, channel>>

(* Bug shape: publish_progress lets an error of Redis out of the try block. *)
SayRaising ==
  /\ \/ At("say_complete", "fail") /\ why' = "error" /\ UNCHANGED inbox
     \/ At("say_failed", "store_failed") /\ Publish("error") /\ UNCHANGED why
  /\ UNCHANGED <<config, rowVars, queueVars, seen, left, timer, strays,
                 cancel_requested, snapshot, cancelVars, aborts, listening>>

(* publish_progress of the two terminal messages: PUBLISH, ... *)
Say ==
  /\ \/ At("say_complete", "store_complete") /\ Publish("complete")
     \/ At("say_failed", "store_failed") /\ Publish("error")
  /\ UNCHANGED <<config, rowVars, queueVars, seen, why, left, timer, strays,
                 cancel_requested, snapshot, cancelVars, aborts, listening>>

(* ... and SETEX of a status message. *)
Store ==
  /\ \/ At("store_running", "prepare") /\ Snapshot("running") /\ UNCHANGED why
     \/ At("store_complete", "finally") /\ Snapshot("complete") /\ why' = "done"
     \/ At("store_failed", "finally") /\ Snapshot("failed") /\ UNCHANGED why
  /\ UNCHANGED <<config, rowVars, queueVars, seen, left, timer, strays,
                 cancel_requested, cancelVars, aborts, channel>>

-----------------------------------------------------------------------------
(* A delivery: the task is registered and enters the try block.            *)
Deliver ==
  /\ pc = "idle" /\ queue = "ready"
  /\ queue' = "empty"
  /\ tries' = tries + 1
  /\ pc' = "begin"
  /\ why' = "none"
  /\ timer' = (deployment = "arq")
  /\ UNCHANGED <<config, rowVars, seen, left, strays, cancel_requested,
                 snapshot, cancelVars, aborts, channel>>

(* Request parsing and the model; then the paths or dates are started.     *)
Prepare ==
  /\ \/ At("prepare", "gather") /\ left' = Units /\ UNCHANGED why
     \/ At("prepare", "fail") /\ why' = "error" /\ UNCHANGED left
  /\ UNCHANGED <<config, rowVars, queueVars, seen, timer, strays,
                 cancel_requested, snapshot, cancelVars, aborts, channel>>

(* Bug shape: the wait ends one path too late. *)
UnitDoneOneMore ==
  /\ At("gather", IF left = 0 THEN "end" ELSE "gather")
  /\ left' = left - 1
  /\ IF kind = "sweep" THEN UNCHANGED snapshot ELSE Snapshot("running")
  /\ UNCHANGED <<config, rowVars, queueVars, seen, why, timer, strays,
                 cancel_requested, cancelVars, aborts, channel>>

(* A path or date is done and its update published; a sweep, one           *)
(* subprocess, publishes none.                                             *)
UnitDone ==
  /\ left > 0 /\ At("gather", IF left = 1 THEN "end" ELSE "gather")
  /\ left' = left - 1
  /\ IF kind = "sweep" THEN UNCHANGED snapshot ELSE Snapshot("running")
  /\ UNCHANGED <<config, rowVars, queueVars, seen, why, timer, strays,
                 cancel_requested, cancelVars, aborts, channel>>

(* Bug shape: a failed path is counted off, but nobody looks whether it was *)
(* the last.                                                               *)
UnitFailsUnnoticed ==
  /\ left > 0 /\ At("gather", "gather")
  /\ left' = left - 1
  /\ UNCHANGED <<config, rowVars, queueVars, seen, why, timer, strays,
                 cancel_requested, snapshot, cancelVars, aborts, channel>>

(* A path or date raises: gather() passes the first error on at once and   *)
(* leaves the other paths of a simulation running.                         *)
UnitFails ==
  /\ left > 0 /\ At("gather", "fail")
  /\ why' = "error"
  /\ left' = 0
  /\ strays' = IF kind = "simulation" THEN strays + left - 1 ELSE strays
  /\ UNCHANGED <<config, rowVars, queueVars, seen, timer, cancel_requested,
                 snapshot, cancelVars, aborts, channel>>

(* A path left behind ends: with an update of its own, or with an error    *)
(* nobody sees.                                                            *)
StrayDone ==
  /\ strays > 0
  /\ strays' = strays - 1
  /\ Snapshot("running") \/ UNCHANGED snapshot
  /\ UNCHANGED <<config, rowVars, queueVars, attempt, cancel_requested,
                 cancelVars, aborts, channel>>

(* Bug shape: CancelledError is not caught, the attempt just unwinds. *)
RaiseUncaught ==
  /\ cancel_requested /\ pc \in Body \cup Handler
  /\ pc' = "finally" /\ why' = "cancelled"
  /\ cancel_requested' = FALSE
  /\ left' = 0
  /\ UNCHANGED <<config, rowVars, queueVars, seen, timer, strays, snapshot,
                 cancelVars, aborts, channel>>

(* CancelledError is thrown at the next await: in the body it takes the    *)
(* cancelled handler and ends the paths gather() waits for, in a handler   *)
(* it cuts the handler short.                                              *)
Raise ==
  /\ cancel_requested
  /\ \/ pc \in Body /\ pc' = "fail" /\ why' = "cancelled"
     \/ pc \in Handler /\ pc' = "finally" /\ why' = "interrupted"
  /\ cancel_requested' = FALSE
  /\ left' = 0
  /\ UNCHANGED <<config, rowVars, queueVars, seen, timer, strays, snapshot,
                 cancelVars, aborts, channel>>

(* arq may run a job again whose task was cancelled or whose worker died   *)
(* (external).                                                             *)
Requeue(again) ==
  queue' \in IF again /\ deployment = "arq" /\ tries < MaxTries
             THEN {"ready", "empty"} ELSE {"empty"}

(* unregister_task, and the end of the task. *)
Finally ==
  /\ pc = "finally"
  /\ pc' = "idle"
  /\ cancel_requested' = FALSE
  /\ timer' = FALSE
  /\ Requeue(why \in {"cancelled", "interrupted"})
  /\ UNCHANGED <<config, rowVars, tries, seen, why, left, strays, snapshot,
                 cancelVars, aborts, channel>>

(* job_timeout: arq cancels the task. *)
Timeout ==
  /\ timer /\ pc \in Body \cup Handler
  /\ timer' = FALSE
  /\ cancel_requested' = TRUE
  /\ UNCHANGED <<config, rowVars, queueVars, pc, seen, why, left, strays,
                 snapshot, cancelVars, aborts, channel>>

(* The worker process dies, at its CPU limit for one. *)
Crash ==
  /\ deployment = "arq" /\ (pc # "idle" \/ strays > 0)
  /\ IF pc # "idle" THEN why' = "crashed" /\ Requeue(TRUE)
     ELSE UNCHANGED <<why, queue>>
  /\ pc' = "idle" /\ left' = 0 /\ timer' = FALSE /\ strays' = 0
  /\ cancel_requested' = FALSE /\ aborts' = 0
  /\ UNCHANGED <<config, rowVars, tries, seen, snapshot, cancelVars, channel>>

(* The key expires an hour after its last SETEX; no attempt lasts so long. *)
Expire ==
  /\ snapshot # "absent" /\ pc = "idle" /\ queue = "empty" /\ strays = 0
  /\ snapshot' = "absent"
  /\ UNCHANGED <<config, rowVars, queueVars, attempt, strays, cancel_requested,
                 cancelVars, aborts, channel>>

-----------------------------------------------------------------------------
(* abort_job_local: terminate the subprocesses the job has registered,     *)
(* those of strays too, and cancel the task if one is registered.          *)
AbortJobLocal ==
  /\ cancel_requested' = (cancel_requested \/ pc # "idle")
  /\ strays' \in 0 .. strays

(* cancel_job, one step per await. *)
CancelSelect ==
  /\ c_pc = "idle" /\ cancels < MaxCancels
  /\ cancels' = cancels + 1
  /\ c_seen' = row
  /\ c_pc' = "commit"
  /\ UNCHANGED <<config, rowVars, queueVars, attempt, strays, cancel_requested,
                 snapshot, aborts, channel>>

CancelCommit ==
  /\ c_pc = "commit"
  /\ IF c_seen \in Terminal THEN UNCHANGED <<row, error>>
     ELSE row' = "failed" /\ error' = "Cancelled by user"
  /\ c_pc' = "abort"
  /\ UNCHANGED <<config, result_saved, queueVars, attempt, strays,
                 cancel_requested, snapshot, c_seen, cancels, aborts, channel>>

(* The API's own registry has the task only in the local deployment. *)
CancelAbort ==
  /\ c_pc = "abort"
  /\ IF deployment = "local" THEN AbortJobLocal
     ELSE UNCHANGED <<strays, cancel_requested>>
  /\ c_pc' = "publish"
  /\ UNCHANGED <<config, rowVars, queueVars, attempt, snapshot, c_seen, cancels,
                 aborts, channel>>

(* The two messages; without Redis the exception is swallowed. *)
CancelPublish ==
  /\ \/ /\ c_pc = "publish"
        /\ IF deployment = "arq" THEN c_pc' = "tell" /\ aborts' = aborts + 1
           ELSE c_pc' = "idle" /\ UNCHANGED aborts
        /\ UNCHANGED inbox
     \/ c_pc = "tell" /\ c_pc' = "idle" /\ Publish("error") /\ UNCHANGED aborts
  /\ UNCHANGED <<config, rowVars, queueVars, attempt, strays, cancel_requested,
                 snapshot, c_seen, cancels, listening>>

(* abort_listener: a message that comes while no task is registered is     *)
(* lost.                                                                   *)
AbortListener ==
  /\ aborts > 0
  /\ aborts' = aborts - 1
  /\ AbortJobLocal
  /\ UNCHANGED <<config, rowVars, queueVars, attempt, snapshot, cancelVars,
                 channel>>

Work == ReadRow \/ Commit \/ Say \/ Store \/ Prepare \/ UnitDone \/ UnitFails \/ Raise \/ Finally

CancelStep == CancelCommit \/ CancelAbort \/ CancelPublish

JobNext ==
  \/ Deliver \/ Work \/ StrayDone \/ Timeout \/ Crash \/ Expire
  \/ CancelSelect \/ CancelStep \/ AbortListener

JobSpec == JobInit /\ [][JobNext]_jobVars

(* The queue delivers, the event loops run every task, a path ends, the    *)
(* listener drains its subscription and Redis expires keys.  Nothing makes *)
(* the user cancel, a timer fire or a worker die.                          *)
JobFairness ==
  /\ WF_jobVars(Deliver)
  /\ WF_jobVars(Work)
  /\ WF_jobVars(StrayDone)
  /\ WF_jobVars(CancelStep)
  /\ WF_jobVars(AbortListener)
  /\ WF_jobVars(Expire)

JobFairSpec == JobSpec /\ JobFairness

-----------------------------------------------------------------------------
(* Nothing of the job is running, waiting or on its way. *)
AtRest ==
  /\ pc = "idle" /\ queue = "empty" /\ strays = 0
  /\ c_pc = "idle" /\ aborts = 0

(* However an attempt ends, the row says so: failed after an error, a      *)
(* timeout or an abort, complete after a result unless a cancel request    *)
(* that had read the row earlier overwrote it.  Only a second cancellation *)
(* inside the handler or the death of the worker leaves it unsettled.      *)
EndRecorded ==
  /\ pc = "idle" /\ why \in {"error", "cancelled"} => row = "failed"
  /\ pc = "idle" /\ why = "done"
       => row = "complete" \/ (row = "failed" /\ error = "Cancelled by user")
  /\ AtRest => row \in Terminal \/ why \in {"interrupted", "crashed"}

(* A row in a terminal state is only left by a further delivery, or by a   *)
(* job whose cancellation came before its task did; a completed one may    *)
(* still be turned into a cancelled one, and never into a failed one.      *)
TerminalLeft ==
  [][(row \in Terminal /\ row' # row) =>
       \/ tries > 1
       \/ row' = "failed" /\ error' = "Cancelled by user"
       \/ row' \in {"running", "complete"} /\ error = "Cancelled by user"]_jobVars

(* A started job comes to rest, whatever is cancelled, times out or dies.  *)
JobEnds == <>[]AtRest

(* "1. Mark job as failed/cancelled in the database." of cancel_job: a row *)
(* that carries the user's cancellation is never that of a completed job.  *)
CancelledNotComplete == error = "Cancelled by user" => row # "complete"

=============================================================================
