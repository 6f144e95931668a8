------------------------- MODULE JobLifecycleProofs -------------------------
(***************************************************************************)
(* What one background job guarantees for every number of paths, every     *)
(* number of deliveries and any cancellations, timeouts and crashes.       *)
(*                                                                         *)
(* EndRecorded speaks of attempts that have ended; to be inductive it has  *)
(* to follow an attempt from the moment it reads the row to its end        *)
(* (Control, RowFollowsAttempt), against the cancel handler's writes in    *)
(* between.  FirstAttempt is what TerminalLeft needs: until a second       *)
(* delivery only a cancellation can have made the row terminal early.      *)
(* Evidence says what stands behind a terminal row or message; the streams *)
(* of JobStream rest on it.                                                *)
(***************************************************************************)
EXTENDS JobLifecycle, TLAPS

ByUser == "Cancelled by user"

(* How an attempt is going, place by place; the queue holds a delivery     *)
(* only while nothing runs and one is left.                                *)
Control ==
  /\ pc \in Body => why = "none"
  /\ pc \in Handler => why \in {"error", "cancelled"}
  /\ pc = "finally" => why \in {"done", "error", "cancelled", "interrupted"}
  /\ pc = "idle" /\ why = "none" => queue = "ready"
  /\ tries = 0 => pc = "idle" /\ why = "none"
  /\ queue = "ready" => pc = "idle" /\ tries < MaxTries

(* What is left of the row after a result: it stands, or the user's        *)
(* cancellation does.                                                      *)
CompleteOrCancelled == row = "complete" \/ (row = "failed" /\ error = ByUser)

(* From its last read of the row on, an attempt that fails leaves it       *)
(* failed, and one that succeeds leaves it complete or cancelled.          *)
RowFollowsAttempt ==
  /\ pc = "set_failed" /\ seen = "failed" => row = "failed"
  /\ pc \in {"say_failed", "store_failed"} => row = "failed"
  /\ pc \in {"finally", "idle"} /\ why \in {"error", "cancelled"} => row = "failed"
  /\ pc = "set_complete" /\ seen = "complete" => CompleteOrCancelled
  /\ pc \in {"say_complete", "store_complete"} => CompleteOrCancelled
  /\ pc \in {"finally", "idle"} /\ why = "done" => CompleteOrCancelled

(* Where the first attempt has not written its own end yet, a terminal row *)
(* is the user's cancellation.                                             *)
FirstAttempt ==
  tries <= 1 /\ row \in Terminal =>
    \/ error = ByUser /\ row = "failed"
    \/ why = "cancelled" \/ why = "interrupted" \/ why = "crashed" \/ why = "done"
    \/ pc \in {"say_complete", "store_complete", "say_failed", "store_failed"}
    \/ pc \in {"finally", "idle"} /\ why = "error"

(* The paths an attempt waits for, and those earlier ones left behind.     *)
StraysWithin(quota) ==
  /\ pc # "gather" => left = 0
  /\ strays + left <= quota
  /\ pc \in {"begin", "set_running", "store_running", "prepare"} => strays + Units <= quota

StraysCounted == StraysWithin(Units * tries)

(* Every cancel request sends at most one abort message. *)
AbortsCounted ==
  /\ aborts <= cancels
  /\ c_pc \in {"commit", "abort", "publish"} => aborts < cancels
  /\ c_pc # "idle" => cancels > 0

(* A complete row or snapshot has its result, a failed one its reason.     *)
Evidence ==
  /\ row = "complete" \/ snapshot = "complete" \/ pc \in {"say_complete", "store_complete"}
       => result_saved
  /\ row = "failed" \/ snapshot = "failed" \/ pc \in {"say_failed", "store_failed"}
       => error # ""

(* The type invariant in the three parts the provers take one at a time.   *)
Words ==
  /\ deployment \in {"arq", "local"} /\ kind \in {"simulation", "evaluation", "sweep"}
  /\ row \in Status /\ error \in {"", ByUser, "failure"}
  /\ queue \in {"ready", "empty"}
  /\ pc \in {"idle", "finally"} \cup Body \cup Handler /\ seen \in Status
  /\ why \in {"none", "done", "error", "cancelled", "interrupted", "crashed"}
  /\ snapshot \in Status \cup {"absent"}
  /\ c_pc \in {"idle", "commit", "abort", "publish", "tell"} /\ c_seen \in Status
  /\ inbox \subseteq {"complete", "error"}

Flags ==
  /\ result_saved \in BOOLEAN /\ cancel_requested \in BOOLEAN /\ timer \in BOOLEAN
  /\ listening \in BOOLEAN

Numbers ==
  /\ tries \in 0 .. MaxTries
  /\ left \in 0 .. Units /\ strays \in Nat
  /\ cancels \in 0 .. MaxCancels /\ aborts \in 0 .. MaxCancels

JobInv ==
  /\ JobTypeOK
  /\ Control
  /\ RowFollowsAttempt
  /\ FirstAttempt
  /\ StraysCounted
  /\ AbortsCounted
  /\ Evidence

-----------------------------------------------------------------------------
(* The words stay in their sets: one leaf per variable, since few actions  *)
(* write it.                                                               *)
LEMMA WordsPreserved ==
  ASSUME Words, Control, JobNext
  PROVE  Words'
  <1> USE DEF Words, Control, Status, Terminal, Body, Handler, ByUser, config, rowVars, queueVars, attempt, cancelVars, channel,
              At, Snapshot, Publish, SetStatus, Requeue, AbortJobLocal, JobNext, Work,
              CancelStep, ReadRow, Commit, Say, Store, Deliver, Prepare, UnitDone, UnitFails,
              StrayDone, Raise, Finally, Timeout, Crash, Expire, CancelSelect, CancelCommit,
              CancelAbort, CancelPublish, AbortListener
  <1>1. (deployment \in {"arq", "local"} /\ kind \in {"simulation", "evaluation", "sweep"})'
    OBVIOUS
  <1>2. (row \in Status)'
    OBVIOUS
  <1>3. (error \in {"", ByUser, "failure"})'
    OBVIOUS
  <1>4. (queue \in {"ready", "empty"})'
    OBVIOUS
  <1>5. (pc \in {"idle", "finally"} \cup Body \cup Handler)'
    OBVIOUS
  <1>6. (seen \in Status)'
    OBVIOUS
  <1>7. (why \in {"none", "done", "error", "cancelled", "interrupted", "crashed"})'
    OBVIOUS
  <1>8. (snapshot \in Status \cup {"absent"})'
    OBVIOUS
  <1>9. (c_pc \in {"idle", "commit", "abort", "publish", "tell"})'
    OBVIOUS
  <1>10. (c_seen \in Status)'
    OBVIOUS
  <1>11. (inbox \subseteq {"complete", "error"})'
    OBVIOUS
  <1> QED
    BY <1>1, <1>2, <1>3, <1>4, <1>5, <1>6, <1>7, <1>8, <1>9, <1>10, <1>11

(* The flags stay flags. *)
LEMMA FlagsPreserved ==
  ASSUME Flags, JobNext
  PROVE  Flags'
  <1> USE DEF Flags, AbortJobLocal, config, rowVars, queueVars, attempt, cancelVars, channel
  <1>1. CASE Deliver
    BY <1>1, Zenon DEF Deliver
  <1>2. CASE ReadRow
    BY <1>2, Zenon DEF ReadRow
  <1>3. CASE Commit
    BY <1>3, Zenon DEF Commit
  <1>4. CASE Say
    BY <1>4, Zenon DEF Say
  <1>5. CASE Store
    BY <1>5, Zenon DEF Store
  <1>6. CASE Prepare
    BY <1>6, Zenon DEF Prepare
  <1>7. CASE UnitDone
    BY <1>7, Zenon DEF UnitDone
  <1>8. CASE UnitFails
    BY <1>8, Zenon DEF UnitFails
  <1>9. CASE Raise
    BY <1>9, Zenon DEF Raise
  <1>10. CASE Finally
    BY <1>10, Zenon DEF Finally
  <1>11. CASE StrayDone \/ Timeout \/ Expire
    BY <1>11, Zenon DEF StrayDone, Timeout, Expire
  <1>12. CASE Crash
    BY <1>12, Zenon DEF Crash
  <1>13. CASE CancelCommit
    BY <1>13, Zenon DEF CancelCommit
  <1>14. CASE CancelSelect \/ CancelAbort \/ CancelPublish \/ AbortListener
    BY <1>14, Zenon DEF CancelSelect, CancelAbort, CancelPublish, AbortListener
  <1> QED
    BY <1>1, <1>2, <1>3, <1>4, <1>5, <1>6, <1>7, <1>8, <1>9,
       <1>10, <1>11, <1>12, <1>13, <1>14
       DEF JobNext, Work, CancelStep

(* The counters stay within their bounds. *)
LEMMA NumbersPreserved ==
  ASSUME Numbers, Control, AbortsCounted, JobNext
  PROVE  Numbers'
  <1> USE JobAssumption DEF Numbers, Control, AbortsCounted, Body, Handler, At, AbortJobLocal,
              config, rowVars, queueVars, attempt, cancelVars, channel
  <1>1. CASE Deliver
    BY <1>1 DEF Deliver
  <1>2. CASE ReadRow
    BY <1>2 DEF ReadRow
  <1>3. CASE Commit
    BY <1>3 DEF Commit
  <1>4. CASE Say
    BY <1>4 DEF Say
  <1>5. CASE Store
    BY <1>5 DEF Store
  <1>6. CASE Prepare
    BY <1>6 DEF Prepare
  <1>7. CASE UnitDone
    BY <1>7 DEF UnitDone
  <1>8. CASE UnitFails
    BY <1>8 DEF UnitFails
  <1>9. CASE Raise
    BY <1>9 DEF Raise
  <1>10. CASE Finally
    BY <1>10 DEF Finally
  <1>11. CASE StrayDone \/ Timeout \/ Expire
    BY <1>11 DEF StrayDone, Timeout, Expire
  <1>12. CASE Crash
    BY <1>12 DEF Crash
  <1>13. CASE CancelCommit
    BY <1>13 DEF CancelCommit
  <1>14. CASE CancelSelect \/ CancelAbort \/ CancelPublish \/ AbortListener
    BY <1>14 DEF CancelSelect, CancelAbort, CancelPublish, AbortListener
  <1> QED
    BY <1>1, <1>2, <1>3, <1>4, <1>5, <1>6, <1>7, <1>8, <1>9,
       <1>10, <1>11, <1>12, <1>13, <1>14
       DEF JobNext, Work, CancelStep

(* An attempt goes from place to place as Control says. *)
LEMMA ControlPreserved ==
  ASSUME Words, Numbers, Control, JobNext
  PROVE  Control'
  <1>1. CASE Deliver
    <2>1. tries \in Nat
      BY JobAssumption DEF Numbers
    <2>2. tries' # 0
      BY <1>1, <2>1 DEF Deliver
    <2>3. pc' = "begin" /\ why' = "none" /\ queue' = "empty"
      BY <1>1 DEF Deliver
    <2> QED
      BY <2>2, <2>3 DEF Control, Body, Handler
  <1> USE JobAssumption DEF Words, Numbers, Control, Body, Handler, Status, Terminal, ByUser,
              At, Requeue, AbortJobLocal, config, rowVars, queueVars, attempt, cancelVars, channel
  <1>2. CASE ReadRow
    BY <1>2 DEF ReadRow
  <1>3. CASE Commit
    BY <1>3 DEF Commit
  <1>4. CASE Say
    BY <1>4 DEF Say
  <1>5. CASE Store
    BY <1>5 DEF Store
  <1>6. CASE Prepare
    BY <1>6 DEF Prepare
  <1>7. CASE UnitDone
    BY <1>7 DEF UnitDone
  <1>8. CASE UnitFails
    BY <1>8 DEF UnitFails
  <1>9. CASE Raise
    BY <1>9 DEF Raise
  <1>10. CASE Finally
    BY <1>10 DEF Finally
  <1>11. CASE StrayDone \/ Timeout \/ Expire
    BY <1>11 DEF StrayDone, Timeout, Expire
  <1>12. CASE Crash
    BY <1>12 DEF Crash
  <1>13. CASE CancelCommit
    BY <1>13 DEF CancelCommit
  <1>14. CASE CancelSelect \/ CancelAbort \/ CancelPublish \/ AbortListener
    BY <1>14 DEF CancelSelect, CancelAbort, CancelPublish, AbortListener
  <1> QED
    BY <1>1, <1>2, <1>3, <1>4, <1>5, <1>6, <1>7, <1>8, <1>9,
       <1>10, <1>11, <1>12, <1>13, <1>14
       DEF JobNext, Work, CancelStep

(* The row follows the attempt, whatever the cancel handler writes. *)
LEMMA RowPreserved ==
  ASSUME Words, Numbers, Control, RowFollowsAttempt, JobNext
  PROVE  RowFollowsAttempt'
  <1> USE JobAssumption DEF Words, Numbers, Control, Body, Handler, Status, Terminal, ByUser,
              At, RowFollowsAttempt, CompleteOrCancelled, SetStatus,
              config, rowVars, queueVars, attempt, cancelVars, channel
  <1>1. CASE Deliver
    BY <1>1 DEF Deliver
  <1>2. CASE ReadRow
    BY <1>2 DEF ReadRow
  <1>3. CASE Commit
    BY <1>3 DEF Commit
  <1>4. CASE Say
    BY <1>4 DEF Say
  <1>5. CASE Store
    BY <1>5 DEF Store
  <1>6. CASE Prepare
    BY <1>6 DEF Prepare
  <1>7. CASE UnitDone
    BY <1>7 DEF UnitDone
  <1>8. CASE UnitFails
    BY <1>8 DEF UnitFails
  <1>9. CASE Raise
    BY <1>9 DEF Raise
  <1>10. CASE Finally
    BY <1>10 DEF Finally
  <1>11. CASE StrayDone \/ Timeout \/ Expire
    BY <1>11 DEF StrayDone, Timeout, Expire
  <1>12. CASE Crash
    BY <1>12 DEF Crash
  <1>13. CASE CancelCommit
    BY <1>13 DEF CancelCommit
  <1>14. CASE CancelSelect \/ CancelAbort \/ CancelPublish \/ AbortListener
    BY <1>14 DEF CancelSelect, CancelAbort, CancelPublish, AbortListener
  <1> QED
    BY <1>1, <1>2, <1>3, <1>4, <1>5, <1>6, <1>7, <1>8, <1>9,
       <1>10, <1>11, <1>12, <1>13, <1>14
       DEF JobNext, Work, CancelStep

(* Up to the second delivery a terminal row is explained. *)
LEMMA FirstPreserved ==
  ASSUME Words, Numbers, Control, FirstAttempt, JobNext
  PROVE  FirstAttempt'
  <1>1. CASE Deliver
    <2>1. tries \in Nat
      BY JobAssumption DEF Numbers
    <2>2. tries' <= 1 => tries = 0
      BY <1>1, <2>1 DEF Deliver
    <2>3. tries = 0 => (row \in Terminal => error = ByUser /\ row = "failed")
      BY DEF FirstAttempt, Control
    <2>4. UNCHANGED <<row, error>>
      BY <1>1 DEF Deliver, rowVars
    <2> QED
      BY <2>2, <2>3, <2>4 DEF FirstAttempt
  <1> USE JobAssumption DEF Words, Numbers, Control, Body, Handler, Status, Terminal, ByUser,
              At, FirstAttempt, SetStatus, config, rowVars, queueVars, attempt, cancelVars, channel
  <1>2. CASE ReadRow
    BY <1>2 DEF ReadRow
  <1>3. CASE Commit
    BY <1>3 DEF Commit
  <1>4. CASE Say
    BY <1>4 DEF Say
  <1>5. CASE Store
    BY <1>5 DEF Store
  <1>6. CASE Prepare
    BY <1>6 DEF Prepare
  <1>7. CASE UnitDone
    BY <1>7 DEF UnitDone
  <1>8. CASE UnitFails
    BY <1>8 DEF UnitFails
  <1>9. CASE Raise
    BY <1>9 DEF Raise
  <1>10. CASE Finally
    BY <1>10 DEF Finally
  <1>11. CASE StrayDone \/ Timeout \/ Expire
    BY <1>11 DEF StrayDone, Timeout, Expire
  <1>12. CASE Crash
    BY <1>12 DEF Crash
  <1>13. CASE CancelCommit
    BY <1>13 DEF CancelCommit
  <1>14. CASE CancelSelect \/ CancelAbort \/ CancelPublish \/ AbortListener
    BY <1>14 DEF CancelSelect, CancelAbort, CancelPublish, AbortListener
  <1> QED
    BY <1>1, <1>2, <1>3, <1>4, <1>5, <1>6, <1>7, <1>8, <1>9,
       <1>10, <1>11, <1>12, <1>13, <1>14
       DEF JobNext, Work, CancelStep

(* A terminal row or snapshot keeps its evidence. *)
LEMMA EvidencePreserved ==
  ASSUME Words, Numbers, Control, Evidence, JobNext
  PROVE  Evidence'
  <1> USE JobAssumption DEF Words, Numbers, Control, Body, Handler, Status, Terminal, ByUser,
              At, Evidence, SetStatus, Snapshot,
              config, rowVars, queueVars, attempt, cancelVars, channel
  <1>1. CASE Deliver
    BY <1>1 DEF Deliver
  <1>2. CASE ReadRow
    BY <1>2 DEF ReadRow
  <1>3. CASE Commit
    BY <1>3 DEF Commit
  <1>4. CASE Say
    BY <1>4 DEF Say
  <1>5. CASE Store
    BY <1>5 DEF Store
  <1>6. CASE Prepare
    BY <1>6 DEF Prepare
  <1>7. CASE UnitDone
    BY <1>7 DEF UnitDone
  <1>8. CASE UnitFails
    BY <1>8 DEF UnitFails
  <1>9. CASE Raise
    BY <1>9 DEF Raise
  <1>10. CASE Finally
    BY <1>10 DEF Finally
  <1>11. CASE StrayDone \/ Timeout \/ Expire
    BY <1>11 DEF StrayDone, Timeout, Expire
  <1>12. CASE Crash
    BY <1>12 DEF Crash
  <1>13. CASE CancelCommit
    BY <1>13 DEF CancelCommit
  <1>14. CASE CancelSelect \/ CancelAbort \/ CancelPublish \/ AbortListener
    BY <1>14 DEF CancelSelect, CancelAbort, CancelPublish, AbortListener
  <1> QED
    BY <1>1, <1>2, <1>3, <1>4, <1>5, <1>6, <1>7, <1>8, <1>9,
       <1>10, <1>11, <1>12, <1>13, <1>14
       DEF JobNext, Work, CancelStep

(* No abort message without a cancel request. *)
LEMMA AbortsPreserved ==
  ASSUME Numbers, AbortsCounted, JobNext
  PROVE  AbortsCounted'
  <1> USE JobAssumption DEF Numbers, AbortsCounted, AbortJobLocal,
              config, rowVars, queueVars, attempt, cancelVars, channel
  <1>1. CASE Deliver
    BY <1>1 DEF Deliver
  <1>2. CASE ReadRow
    BY <1>2 DEF ReadRow
  <1>3. CASE Commit
    BY <1>3 DEF Commit
  <1>4. CASE Say
    BY <1>4 DEF Say
  <1>5. CASE Store
    BY <1>5 DEF Store
  <1>6. CASE Prepare
    BY <1>6 DEF Prepare
  <1>7. CASE UnitDone
    BY <1>7 DEF UnitDone
  <1>8. CASE UnitFails
    BY <1>8 DEF UnitFails
  <1>9. CASE Raise
    BY <1>9 DEF Raise
  <1>10. CASE Finally
    BY <1>10 DEF Finally
  <1>11. CASE StrayDone \/ Timeout \/ Expire
    BY <1>11 DEF StrayDone, Timeout, Expire
  <1>12. CASE Crash
    BY <1>12 DEF Crash
  <1>13. CASE CancelCommit
    BY <1>13 DEF CancelCommit
  <1>14. CASE CancelSelect \/ CancelAbort \/ CancelPublish \/ AbortListener
    BY <1>14 DEF CancelSelect, CancelAbort, CancelPublish, AbortListener
  <1> QED
    BY <1>1, <1>2, <1>3, <1>4, <1>5, <1>6, <1>7, <1>8, <1>9,
       <1>10, <1>11, <1>12, <1>13, <1>14
       DEF JobNext, Work, CancelStep

(* A delivery brings Units more paths; otherwise they only move from       *)
(* waited for to left behind, and end.                                     *)
LEMMA StraysWithinPreserved ==
  ASSUME NEW CONSTANT quota \in Nat, Numbers, StraysWithin(quota), JobNext
  PROVE  \/ tries' = tries /\ StraysWithin(quota)'
         \/ tries' = tries + 1 /\ StraysWithin(quota + Units)'
  <1> USE JobAssumption DEF Numbers, StraysWithin, At, AbortJobLocal, Body, Handler,
              config, rowVars, queueVars, attempt, cancelVars, channel
  <1>1. CASE Deliver
    BY <1>1 DEF Deliver
  <1>2. CASE ReadRow
    BY <1>2 DEF ReadRow
  <1>3. CASE Commit
    BY <1>3 DEF Commit
  <1>4. CASE Say
    BY <1>4 DEF Say
  <1>5. CASE Store
    BY <1>5 DEF Store
  <1>6. CASE Prepare
    BY <1>6 DEF Prepare
  <1>7. CASE UnitDone
    BY <1>7 DEF UnitDone
  <1>8. CASE UnitFails
    BY <1>8 DEF UnitFails
  <1>9. CASE Raise
    BY <1>9 DEF Raise
  <1>10. CASE Finally
    BY <1>10 DEF Finally
  <1>11. CASE StrayDone \/ Timeout \/ Expire
    BY <1>11 DEF StrayDone, Timeout, Expire
  <1>12. CASE Crash
    BY <1>12 DEF Crash
  <1>13. CASE CancelCommit
    BY <1>13 DEF CancelCommit
  <1>14. CASE CancelSelect \/ CancelAbort \/ CancelPublish \/ AbortListener
    BY <1>14 DEF CancelSelect, CancelAbort, CancelPublish, AbortListener
  <1> QED
    BY <1>1, <1>2, <1>3, <1>4, <1>5, <1>6, <1>7, <1>8, <1>9,
       <1>10, <1>11, <1>12, <1>13, <1>14
       DEF JobNext, Work, CancelStep

(* The paths of all deliveries, as products of linear arithmetic.          *)
LEMMA Quotas ==
  ASSUME NEW n \in Nat
  PROVE  /\ Units * n \in Nat
         /\ Units * (n + 1) = Units * n + Units
         /\ \A m \in Nat : n <= m => Units * n <= Units * m
  <1> USE JobAssumption
  <1>1. Units * n \in Nat /\ Units * (n + 1) = Units * n + Units
    OBVIOUS
  <1>2. ASSUME NEW m \in Nat, n <= m PROVE Units * n <= Units * m
    <2>1. m - n \in Nat /\ m = n + (m - n)
      BY <1>2
    <2>2. Units * (m - n) \in Nat
      BY <2>1
    <2>3. Units * m = Units * n + Units * (m - n)
      BY <2>1
    <2> QED
      BY <1>1, <2>2, <2>3
  <1> QED
    BY <1>1, <1>2

(* So the strays stay within the paths of the deliveries made.             *)
LEMMA StraysPreserved ==
  ASSUME Numbers, StraysCounted, JobNext
  PROVE  StraysCounted'
  <1>1. tries \in Nat
    BY JobAssumption DEF Numbers
  <1>2. Units * tries \in Nat /\ Units * (tries + 1) = Units * tries + Units
    BY <1>1, Quotas
  <1>3. ASSUME NEW CONSTANT quota \in Nat, quota = Units * tries
        PROVE  StraysCounted'
    <2>1. StraysWithin(quota)
      BY <1>3 DEF StraysCounted
    <2>2. CASE tries' = tries /\ StraysWithin(quota)'
      BY <1>3, <2>2 DEF StraysCounted, StraysWithin
    <2>3. CASE tries' = tries + 1 /\ StraysWithin(quota + Units)'
      BY <1>2, <1>3, <2>3 DEF StraysCounted, StraysWithin
    <2> QED
      BY <2>1, <2>2, <2>3, StraysWithinPreserved
  <1> QED
    BY <1>2, <1>3

(* Words, flags, numbers and the count of the strays are the types.        *)
LEMMA TypesInParts ==
  ASSUME StraysCounted, Control
  PROVE  JobTypeOK <=> Words /\ Flags /\ Numbers
  <1>1. ASSUME Words, Flags, Numbers PROVE JobTypeOK
    <2>1. /\ strays \in Nat /\ left \in Nat /\ tries \in Nat /\ MaxTries \in Nat
          /\ tries <= MaxTries
      BY <1>1, JobAssumption DEF Numbers
    <2>2. /\ Units * tries \in Nat /\ Units * MaxTries \in Nat
          /\ Units * tries <= Units * MaxTries
      BY <2>1, Quotas
    <2>3. strays + left <= Units * tries
      BY DEF StraysCounted, StraysWithin
    <2>4. strays \in 0 .. Units * MaxTries
      BY <2>1, <2>2, <2>3
    <2> QED
      BY <1>1, <2>4 DEF JobTypeOK, Words, Flags, Numbers, ByUser
  <1>2. ASSUME JobTypeOK PROVE Words /\ Flags /\ Numbers
    <2>1. Units * MaxTries \in Nat
      BY Quotas, JobAssumption
    <2>2. strays \in 0 .. Units * MaxTries
      BY <1>2, Zenon DEF JobTypeOK
    <2>3. strays \in Nat
      BY <2>1, <2>2
    <2> QED
      BY <1>2, <2>3, Zenon DEF JobTypeOK, Words, Flags, Numbers, ByUser
  <1> QED
    BY <1>1, <1>2

-----------------------------------------------------------------------------
(* A job that has just been enqueued. *)
LEMMA JobInitEstablishes ==
  JobInit => JobInv
  <1> USE JobAssumption
  <1> SUFFICES ASSUME JobInit PROVE JobInv
    OBVIOUS
  <1>1. Words
    BY DEF JobInit, Words, Status, Terminal, ByUser
  <1>2. Flags
    BY Zenon DEF JobInit, Flags
  <1>3. /\ tries = 0 /\ left = 0 /\ strays = 0 /\ cancels = 0 /\ aborts = 0
        /\ pc = "idle" /\ why = "none" /\ queue = "ready" /\ c_pc = "idle"
        /\ row = "queued" /\ snapshot = "absent"
    BY Zenon DEF JobInit
  <1>4. Numbers
    BY <1>3 DEF Numbers
  <1>5. Control
    BY <1>3 DEF Control, Body, Handler
  <1>6. StraysCounted
    <2>1. Units * tries \in Nat
      BY <1>3, Quotas
    <2> QED
      BY <1>3, <2>1 DEF StraysCounted, StraysWithin
  <1>7. /\ RowFollowsAttempt /\ FirstAttempt /\ AbortsCounted /\ Evidence
    BY <1>3 DEF RowFollowsAttempt, FirstAttempt, AbortsCounted, Evidence, Terminal
  <1> QED
    BY <1>1, <1>2, <1>4, <1>5, <1>6, <1>7, TypesInParts DEF JobInv

(* Every step of the job keeps the invariant. *)
LEMMA JobNextPreserves ==
  JobInv /\ JobNext => JobInv'
  <1> SUFFICES ASSUME JobInv, JobNext PROVE JobInv'
    OBVIOUS
  <1>1. Words /\ Flags /\ Numbers
    BY TypesInParts DEF JobInv
  <1>2. Words' /\ Flags' /\ Numbers'
    BY <1>1, WordsPreserved, FlagsPreserved, NumbersPreserved DEF JobInv
  <1>3. /\ Control' /\ RowFollowsAttempt' /\ FirstAttempt' /\ StraysCounted'
        /\ AbortsCounted' /\ Evidence'
    BY <1>1, ControlPreserved, RowPreserved, FirstPreserved, StraysPreserved,
       AbortsPreserved, EvidencePreserved DEF JobInv
  <1>4. JobTypeOK'
    <2>1. (Words /\ Flags /\ Numbers => JobTypeOK)'
      BY <1>3, TypesInParts, PTL
    <2> QED
      BY <1>2, <2>1
  <1> QED
    BY <1>3, <1>4 DEF JobInv

(* The inductive invariant of a job. *)
THEOREM JobInvariance ==
  JobSpec => []JobInv
  <1>1. ASSUME JobInv, UNCHANGED jobVars PROVE JobInv'
    <2> USE <1>1 DEF jobVars, config, rowVars, queueVars, attempt, cancelVars, channel
    <2>1. StraysCounted' /\ AbortsCounted' /\ Control'
      BY DEF JobInv, StraysCounted, StraysWithin, AbortsCounted, Control
    <2>2. JobTypeOK'
      <3>1. Words /\ Flags /\ Numbers
        BY TypesInParts DEF JobInv
      <3>2. Words'
        <4>1. /\ UNCHANGED <<deployment, kind, row, error, queue, pc, seen, why>>
              /\ UNCHANGED <<snapshot, c_pc, c_seen, inbox>>
          BY Zenon
        <4> QED
          BY <3>1, <4>1, Zenon DEF Words, Status, Terminal, Body, Handler
      <3>3. Flags'
        BY <3>1, Zenon DEF Flags
      <3>4. Numbers'
        BY <3>1 DEF Numbers
      <3>5. (Words /\ Flags /\ Numbers => JobTypeOK)'
        BY <2>1, TypesInParts, PTL
      <3> QED
        BY <3>2, <3>3, <3>4, <3>5
    <2>3. RowFollowsAttempt' /\ Evidence'
      BY DEF JobInv, RowFollowsAttempt, CompleteOrCancelled, Evidence
    <2>4. FirstAttempt'
      BY DEF JobInv, FirstAttempt
    <2> QED
      BY <2>1, <2>2, <2>3, <2>4 DEF JobInv
  <1> QED
    BY <1>1, JobInitEstablishes, JobNextPreserves, PTL DEF JobSpec

(* Every variable keeps its type: deliveries and strays stay within their  *)
(* bounds, whatever crashes or times out.                                  *)
THEOREM JobTypeCorrect ==
  JobSpec => []JobTypeOK
  <1>1. JobInv => JobTypeOK
    BY DEF JobInv
  <1> QED
    BY <1>1, JobInvariance, PTL

(* However an attempt ends, the row says so. *)
THEOREM EndAlwaysRecorded ==
  JobSpec => []EndRecorded
  <1>1. JobInv => EndRecorded
    BY DEF JobInv, JobTypeOK, Control, RowFollowsAttempt, CompleteOrCancelled, EndRecorded,
           AtRest, Terminal, ByUser, Status
  <1> QED
    BY <1>1, JobInvariance, PTL

(* Until a second delivery a terminal row is only left for, or by, the     *)
(* user's cancellation.                                                    *)
THEOREM TerminalLeftOnlyByUser ==
  JobSpec => TerminalLeft
  <1> DEFINE Left == (row \in Terminal /\ row' # row) =>
               \/ tries > 1
               \/ row' = "failed" /\ error' = ByUser
               \/ row' \in {"running", "complete"} /\ error = ByUser
  <1>1. ASSUME JobInv, JobNext PROVE Left
    <2>1. row' # row => Commit \/ CancelCommit
      BY <1>1 DEF JobNext, Work, CancelStep, Deliver, ReadRow, Say, Store, Prepare, UnitDone,
             UnitFails, Raise, Finally, StrayDone, Timeout, Crash, Expire, CancelSelect,
             CancelAbort, CancelPublish, AbortListener, rowVars
    <2>2. CASE Commit
      <3>1. tries \in Nat
        BY <1>1, TypesInParts, JobAssumption DEF JobInv, Numbers
      <3>2. tries > 1 \/ tries <= 1
        BY <3>1
      <3> QED
        BY <1>1, <2>2, <3>2 DEF JobInv, Control, FirstAttempt, Commit, SetStatus, At, Terminal,
                         ByUser, Body, Handler
    <2>3. CASE CancelCommit
      BY <2>3 DEF CancelCommit, ByUser
    <2> QED
      BY <2>1, <2>2, <2>3
  <1>2. JobInv /\ [JobNext]_jobVars => [Left]_jobVars
    BY <1>1
  <1> QED
    BY <1>2, JobInvariance, PTL DEF JobSpec, TerminalLeft, ByUser
=============================================================================
