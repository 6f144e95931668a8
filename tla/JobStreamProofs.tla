-------------------------- MODULE JobStreamProofs --------------------------
(***************************************************************************)
(* What a watching page may believe, for every number of paths and         *)
(* deliveries and any interleaving of the job, the cancel handler, the     *)
(* event stream and the poll.                                              *)
(*                                                                         *)
(* A page learns the end of a job from three places: the row, the snapshot *)
(* and a message.  Evidence of JobLifecycleProofs vouches for the first    *)
(* two at every moment; MessagesTrue does for messages that were sent and  *)
(* not yet read, which is safe because what they report is never taken     *)
(* back (ReasonsStay).                                                     *)
(***************************************************************************)
EXTENDS JobStream, JobLifecycleProofs

(* A message under way has its result or its reason behind it. *)
MessagesTrue ==
  /\ "complete" \in inbox => result_saved
  /\ "error" \in inbox => error # "" \/ cancels > 0

(* The two ends of the page's connection. *)
Connection ==
  /\ shown \in Status
  /\ stream \in {"closed", "read", "subscribed", "polling"}
  /\ listening <=> stream = "subscribed"

StreamInv ==
  /\ JobInv
  /\ Connection
  /\ MessagesTrue
  /\ ToldTheTruth

-----------------------------------------------------------------------------
(* A saved result stays saved, a recorded reason is only replaced by       *)
(* another one, and no cancel request is forgotten.                        *)
LEMMA ReasonsStay ==
  ASSUME JobInv, JobNext
  PROVE  /\ result_saved => result_saved'
         /\ error # "" => error' # ""
         /\ cancels > 0 => cancels' > 0
  <1>1. cancels \in Nat
    <2>1. cancels \in 0 .. MaxCancels
      BY Zenon DEF JobInv, JobTypeOK
    <2> QED
      BY <2>1, JobAssumption
  <1> USE DEF config, rowVars, queueVars, attempt, cancelVars, channel, JobNext, Work,
              CancelStep, ReadRow, Commit, Say, Store, Deliver, Prepare, UnitDone, UnitFails,
              StrayDone, Raise, Finally, Timeout, Crash, Expire, CancelSelect, CancelCommit,
              CancelAbort, CancelPublish, AbortListener
  <1>2. result_saved => result_saved'
    BY Zenon
  <1>3. error # "" => error' # ""
    OBVIOUS
  <1>4. cancels' = cancels \/ cancels' = cancels + 1
    OBVIOUS
  <1> QED
    <2>1. cancels > 0 => cancels' > 0
      <3> HIDE DEF JobNext
      <3> QED
        BY <1>1, <1>4
    <2> QED
      BY <1>2, <1>3, <2>1

(* The only messages a job step sends are the attempt's own, after the     *)
(* commit, and the cancel handler's.                                       *)
LEMMA JobSends ==
  ASSUME JobNext
  PROVE  /\ \/ inbox' = inbox
            \/ pc = "say_complete" /\ inbox' = inbox \cup {"complete"}
            \/ (pc = "say_failed" \/ c_pc = "tell") /\ inbox' = inbox \cup {"error"}
         /\ listening' = listening
  BY DEF config, rowVars, queueVars, attempt, cancelVars, channel, JobNext, Work,
         CancelStep, ReadRow, Commit, Say, Store, Deliver, Prepare, UnitDone, UnitFails,
         StrayDone, Raise, Finally, Timeout, Crash, Expire, CancelSelect, CancelCommit,
         CancelAbort, CancelPublish, AbortListener, Publish, At

(* A step of the stream touches nothing of the job but its subscription.   *)
LEMMA StreamLeavesJob ==
  ASSUME JobInv, UNCHANGED jobOnly,
         listening' \in BOOLEAN, inbox' = {} \/ inbox' = inbox
  PROVE  JobInv'
  <1>1. /\ UNCHANGED <<deployment, kind>> /\ UNCHANGED <<row, error, result_saved>>
        /\ UNCHANGED <<queue, tries>> /\ UNCHANGED <<pc, seen, why, left, timer>>
        /\ UNCHANGED <<strays, cancel_requested, snapshot>>
        /\ UNCHANGED <<c_pc, c_seen, cancels>> /\ UNCHANGED aborts
    BY DEF jobOnly, config, rowVars, queueVars, attempt, cancelVars
  <1>2. inbox' \subseteq {"complete", "error"}
    BY DEF JobInv, JobTypeOK
  <1>3. Control' /\ RowFollowsAttempt' /\ FirstAttempt'
    BY <1>1, Zenon DEF JobInv, Control, RowFollowsAttempt, FirstAttempt, CompleteOrCancelled
  <1>4. StraysCounted' /\ AbortsCounted' /\ Evidence'
    BY <1>1, Zenon DEF JobInv, StraysCounted, StraysWithin, AbortsCounted, Evidence
  <1>5. JobTypeOK'
    <2>1. Words /\ Flags /\ Numbers
      BY TypesInParts DEF JobInv
    <2>2. Words'
      <3>1. (deployment \in {"arq", "local"} /\ kind \in {"simulation", "evaluation", "sweep"}
              /\ row \in Status /\ error \in {"", ByUser, "failure"}
              /\ queue \in {"ready", "empty"})'
        BY <1>1, <2>1, Zenon DEF Words, Status, Terminal
      <3>2. (pc \in {"idle", "finally"} \cup Body \cup Handler /\ seen \in Status
              /\ why \in {"none", "done", "error", "cancelled", "interrupted", "crashed"})'
        BY <1>1, <2>1, Zenon DEF Words, Status, Terminal, Body, Handler
      <3>3. (snapshot \in Status \cup {"absent"}
              /\ c_pc \in {"idle", "commit", "abort", "publish", "tell"} /\ c_seen \in Status)'
        BY <1>1, <2>1, Zenon DEF Words, Status, Terminal
      <3> QED
        BY <1>2, <3>1, <3>2, <3>3 DEF Words
    <2>3. Flags'
      BY <1>1, <2>1, Zenon DEF Flags
    <2>4. Numbers'
      BY <1>1, <2>1 DEF Numbers
    <2>5. (Words /\ Flags /\ Numbers => JobTypeOK)'
      BY <1>3, <1>4, TypesInParts, PTL
    <2> QED
      BY <2>2, <2>3, <2>4, <2>5
  <1> QED
    BY <1>3, <1>4, <1>5 DEF JobInv

(* Whatever status is shown on good grounds, showing it keeps the page     *)
(* truthful.                                                               *)
LEMMA ShowKeepsTruth ==
  ASSUME StreamInv, UNCHANGED jobOnly,
         NEW status \in Status, Show(status),
         status = "complete" => result_saved,
         status = "failed" => error # "" \/ cancels > 0
  PROVE  StreamInv'
  <1>1. UNCHANGED <<row, error, result_saved, cancels>>
    BY DEF jobOnly, rowVars, cancelVars
  <1>2. inbox' = {} \/ inbox' = inbox
    BY DEF Show, channel
  <1>3. listening' \in BOOLEAN
    BY Zenon DEF Show, channel, StreamInv, JobInv, JobTypeOK
  <1>4. JobInv'
    BY <1>2, <1>3, StreamLeavesJob DEF StreamInv
  <1>5. Connection'
    <2>1. (shown \in Status)'
      BY DEF Show
    <2>2. (stream \in {"closed", "read", "subscribed", "polling"})'
      BY DEF Show, StreamInv, Connection
    <2>3. (listening <=> stream = "subscribed")'
      <3>1. CASE status \in Terminal
        BY <3>1 DEF Show
      <3>2. CASE status \notin Terminal
        BY <3>2, Zenon DEF Show, channel, StreamInv, Connection
      <3> QED
        BY <3>1, <3>2
    <2> QED
      BY <2>1, <2>2, <2>3 DEF Connection
  <1>6. MessagesTrue'
    BY <1>1, <1>2 DEF StreamInv, MessagesTrue
  <1>7. ToldTheTruth'
    BY <1>1 DEF Show, ToldTheTruth
  <1> QED
    BY <1>4, <1>5, <1>6, <1>7 DEF StreamInv

-----------------------------------------------------------------------------
LEMMA StreamInitial ==
  ASSUME StreamInit
  PROVE  StreamInv
  <1>1. JobInv
    BY JobInitEstablishes DEF StreamInit
  <1>2. shown = "queued" /\ stream = "closed" /\ listening = FALSE /\ inbox = {}
    BY Zenon DEF StreamInit, JobInit
  <1>3. Connection
    BY <1>2 DEF Connection, Status
  <1>4. MessagesTrue /\ ToldTheTruth
    BY <1>2 DEF MessagesTrue, ToldTheTruth
  <1> QED
    BY <1>1, <1>3, <1>4 DEF StreamInv

LEMMA StreamPreserved ==
  ASSUME StreamInv, [StreamNext]_streamVars
  PROVE  StreamInv'
  <1>1. JobInv
    BY DEF StreamInv
  <1>2. CASE JobMoves
    <2>1. JobNext /\ shown' = shown /\ stream' = stream
      BY <1>2 DEF JobMoves
    <2>2. JobInv'
      BY <1>1, <2>1, JobNextPreserves
    <2>3. Connection'
      <3>1. listening' = listening
        BY <2>1, JobSends
      <3> QED
        BY <2>1, <3>1, Zenon DEF StreamInv, Connection
    <2>4. /\ result_saved => result_saved'
          /\ error # "" \/ cancels > 0 => (error # "" \/ cancels > 0)'
      BY <1>1, <2>1, ReasonsStay
    <2>5. MessagesTrue'
      <3>1. pc = "say_complete" => result_saved
        BY <1>1, Zenon DEF JobInv, Evidence
      <3>2. pc = "say_failed" \/ c_pc = "tell" => error # "" \/ cancels > 0
        BY <1>1 DEF JobInv, Evidence, AbortsCounted
      <3> QED
        BY <2>1, <2>4, <3>1, <3>2, JobSends DEF StreamInv, MessagesTrue
    <2>6. ToldTheTruth'
      BY <2>1, <2>4 DEF StreamInv, ToldTheTruth
    <2> QED
      BY <2>2, <2>3, <2>5, <2>6 DEF StreamInv
  <1>3. /\ row \in Status /\ snapshot \in Status \cup {"absent"}
        /\ row = "complete" \/ snapshot = "complete" => result_saved
        /\ row = "failed" \/ snapshot = "failed" => error # "" \/ cancels > 0
    BY <1>1 DEF JobInv, JobTypeOK, Evidence
  <1>4. CASE OpenStream
    <2>1. CASE row \in Terminal
      BY <1>3, <1>4, <2>1, ShowKeepsTruth DEF OpenStream
    <2>2. CASE row \notin Terminal
      <3>1. /\ stream = "closed" /\ stream' = "read" /\ shown' = shown
            /\ listening' = listening /\ inbox' = inbox /\ UNCHANGED jobOnly
        BY <1>4, <2>2 DEF OpenStream, channel
      <3>2. JobInv'
        BY <1>1, <3>1, StreamLeavesJob, Zenon DEF JobInv, JobTypeOK
      <3>3. Connection'
        BY <3>1 DEF StreamInv, Connection
      <3>4. MessagesTrue' /\ ToldTheTruth'
        BY <3>1 DEF StreamInv, MessagesTrue, ToldTheTruth, jobOnly, rowVars, cancelVars
      <3> QED
        BY <3>2, <3>3, <3>4 DEF StreamInv
    <2> QED
      BY <2>1, <2>2
  <1>5. CASE Subscribe
    <2>1. /\ inbox' = inbox /\ shown' = shown /\ UNCHANGED jobOnly /\ stream = "read"
          /\ \/ stream' = "subscribed" /\ listening' = TRUE
             \/ stream' = "polling" /\ listening' = listening
      BY <1>5 DEF Subscribe
    <2>2. listening' \in BOOLEAN
      BY <1>1, <2>1, Zenon DEF JobInv, JobTypeOK
    <2>3. JobInv'
      BY <1>1, <2>1, <2>2, StreamLeavesJob
    <2>4. Connection'
      BY <2>1 DEF StreamInv, Connection
    <2>5. MessagesTrue' /\ ToldTheTruth'
      BY <2>1 DEF StreamInv, MessagesTrue, ToldTheTruth, jobOnly, rowVars, cancelVars
    <2> QED
      BY <2>3, <2>4, <2>5 DEF StreamInv
  <1>6. CASE StreamMessage
    <2>1. PICK message \in inbox : Show(StatusOf(message))
      BY <1>6 DEF StreamMessage
    <2>2. message \in {"complete", "error"}
      BY <1>1, <2>1 DEF JobInv, JobTypeOK
    <2>3. /\ StatusOf(message) \in Status
          /\ StatusOf(message) = "complete" => result_saved
          /\ StatusOf(message) = "failed" => error # "" \/ cancels > 0
      BY <2>1, <2>2 DEF StatusOf, Status, Terminal, StreamInv, MessagesTrue
    <2> QED
      BY <1>6, <2>1, <2>3, ShowKeepsTruth DEF StreamMessage
  <1>7. CASE StreamPoll
    BY <1>3, <1>7, ShowKeepsTruth DEF StreamPoll
  <1>8. CASE Disconnect
    <2>1. /\ stream' = "closed" /\ listening' = FALSE /\ inbox' = {}
          /\ shown' = shown /\ UNCHANGED jobOnly
      BY <1>8 DEF Disconnect
    <2>2. JobInv'
      BY <1>1, <2>1, StreamLeavesJob
    <2>3. Connection'
      BY <2>1 DEF StreamInv, Connection
    <2>4. MessagesTrue' /\ ToldTheTruth'
      BY <2>1 DEF StreamInv, MessagesTrue, ToldTheTruth, jobOnly, rowVars, cancelVars
    <2> QED
      BY <2>2, <2>3, <2>4 DEF StreamInv
  <1>9. CASE PollState
    <2>1. CASE snapshot # "absent"
      BY <1>3, <1>9, <2>1, ShowKeepsTruth DEF PollState
    <2>2. CASE snapshot = "absent"
      BY <1>3, <1>9, <2>2, ShowKeepsTruth DEF PollState
    <2> QED
      BY <2>1, <2>2
  <1>10. CASE UNCHANGED streamVars
    <2>1. /\ UNCHANGED jobOnly /\ UNCHANGED <<shown, stream>>
          /\ listening' = listening /\ inbox' = inbox
      BY <1>10 DEF streamVars, jobVars, jobOnly, channel
    <2>2. JobInv'
      BY <1>1, <2>1, StreamLeavesJob, Zenon DEF JobInv, JobTypeOK
    <2>3. Connection'
      BY <2>1, Zenon DEF StreamInv, Connection
    <2>4. MessagesTrue' /\ ToldTheTruth'
      BY <2>1 DEF StreamInv, MessagesTrue, ToldTheTruth, jobOnly, rowVars, cancelVars
    <2> QED
      BY <2>2, <2>3, <2>4 DEF StreamInv
  <1> QED
    BY <1>2, <1>4, <1>5, <1>6, <1>7, <1>8, <1>9, <1>10 DEF StreamNext

(* The inductive invariant: the job's own, the connection, the messages    *)
(* under way and the page.                                                 *)
THEOREM StreamInvariance == StreamSpec => []StreamInv
  BY StreamInitial, StreamPreserved, PTL DEF StreamSpec

(* The page and its stream keep their types, and a generator is subscribed *)
(* exactly while the channel has a listener: none outlives its page.       *)
THEOREM StreamTypeCorrect == StreamSpec => []StreamTypeOK
  <1>1. StreamInv => StreamTypeOK
    BY Zenon DEF StreamInv, JobInv, Connection, StreamTypeOK
  <1> QED
    BY <1>1, StreamInvariance, PTL

(* A page says "complete" only when the result is saved, and "failed" only *)
(* after an error was recorded or a cancellation asked for (Show of        *)
(* useWebSocket, whichever of event_generator, the poll and the snapshot   *)
(* told it).                                                               *)
THEOREM PageAlwaysTruthful == StreamSpec => []ToldTheTruth
  <1>1. StreamInv => ToldTheTruth
    BY DEF StreamInv
  <1> QED
    BY <1>1, StreamInvariance, PTL
=============================================================================
