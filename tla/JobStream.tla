----------------------------- MODULE JobStream -----------------------------
(***************************************************************************)
(* One browser tab watching one job: the hook useWebSocket of the frontend *)
(* (frontend/src/hooks/useWebSocket.ts), the SSE endpoint stream_progress  *)
(* and GET /state of web/routes/progress.py, around JobLifecycle.          *)
(*                                                                         *)
(*   shown    the status the page shows; once it is terminal the page      *)
(*            disables the hook                                            *)
(*   stream   the server's event_generator: "closed"; "read", after        *)
(*            _get_job_status and before the subscription; "subscribed";   *)
(*            "polling" the database because there is no Redis             *)
(*                                                                         *)
(* listening and inbox of JobLifecycle are the subscription's two ends.    *)
(***************************************************************************)
EXTENDS JobLifecycle

VARIABLES shown, stream

streamVars == <<jobVars, shown, stream>>

(* All of the job but the channel, which the stream shares with it. *)
jobOnly == <<config, rowVars, queueVars, attempt, strays, cancel_requested,
             snapshot, cancelVars, aborts>>

Watching == shown \notin Terminal

StreamTypeOK ==
  /\ JobTypeOK
  /\ shown \in Status
  /\ stream \in {"closed", "read", "subscribed", "polling"}
  /\ listening <=> stream = "subscribed"

StreamInit ==
  /\ JobInit
  /\ shown = "queued"
  /\ stream = "closed"

-----------------------------------------------------------------------------
(* Bug shape: the generator is left subscribed. *)
ShowStillListening(status) ==
  /\ shown' = status
  /\ IF status \in Terminal THEN stream' = "closed" ELSE UNCHANGED stream
  /\ UNCHANGED channel

(* A terminal status ends the hook: the EventSource is closed and with it  *)
(* the generator; another one is shown and changes nothing else.           *)
Show(status) ==
  /\ shown' = status
  /\ IF status \in Terminal
     THEN stream' = "closed" /\ listening' = FALSE /\ inbox' = {}
     ELSE UNCHANGED <<stream, channel>>

(* connect: stream_progress reads the row before anything else, and ends   *)
(* at once if the job is over.                                             *)
OpenStream ==
  /\ Watching /\ stream = "closed"
  /\ IF row \in Terminal
     THEN Show(row)
     ELSE stream' = "read" /\ UNCHANGED <<shown, channel>>
  /\ UNCHANGED jobOnly

(* The subscription; messages published before it are gone.  Without Redis *)
(* the exception starts the polling loop.                                  *)
Subscribe ==
  /\ stream = "read"
  /\ IF deployment = "arq"
     THEN stream' = "subscribed" /\ listening' = TRUE
     ELSE stream' = "polling" /\ UNCHANGED listening
  /\ UNCHANGED <<jobOnly, inbox, shown>>

(* Bug shape: whatever ends the stream counts as success. *)
StatusAlwaysComplete(message) == "complete"

StatusOf(message) == IF message = "complete" THEN "complete" ELSE "failed"

(* A terminal message reaches the page. *)
StreamMessage ==
  /\ \E message \in inbox : Show(StatusOf(message))
  /\ UNCHANGED jobOnly

(* One turn of the database polling loop. *)
StreamPoll ==
  /\ stream = "polling"
  /\ Show(row)
  /\ UNCHANGED jobOnly

(* The connection is lost; the hook connects again later. *)
Disconnect ==
  /\ stream # "closed"
  /\ stream' = "closed" /\ listening' = FALSE /\ inbox' = {}
  /\ UNCHANGED <<jobOnly, shown>>

(* Bug shape: /state has no fallback to the row. *)
PollStateRedisOnly ==
  /\ Watching
  /\ snapshot # "absent"
  /\ Show(snapshot)
  /\ UNCHANGED jobOnly

(* checkStateAndRestore: GET /state answers from Redis, or from the row.   *)
PollState ==
  /\ Watching
  /\ Show(IF snapshot # "absent" THEN snapshot ELSE row)
  /\ UNCHANGED jobOnly

JobMoves == JobNext /\ UNCHANGED <<shown, stream>>

StreamNext ==
  \/ JobMoves
  \/ OpenStream \/ Subscribe \/ StreamMessage \/ StreamPoll \/ Disconnect
  \/ PollState

StreamSpec == StreamInit /\ [][StreamNext]_streamVars

(* The 3 s interval of the hook keeps polling; nothing is assumed of the   *)
(* event stream, so the poll must do on its own.                           *)
StreamFairSpec == StreamSpec /\ JobFairness /\ WF_streamVars(PollState)

-----------------------------------------------------------------------------
(* "Fallback poll interval to ensure status updates occur even if SSE      *)
(* connection is buffered, closed or disconnected": once a job is settled  *)
(* for good its page is told, even after a terminal message was published  *)
(* between the stream's look at the row and its subscription, and even     *)
(* when the snapshot still says running.                                   *)
PageSettles == <>[](row \in Terminal) => <>(shown \in Terminal)

(* A page is told "complete" only when there is a result to fetch, and     *)
(* "failed" only after the job failed or somebody asked to cancel it,      *)
(* whichever of the stream, the poll and the snapshot told it.             *)
ToldTheTruth ==
  /\ shown = "complete" => result_saved
  /\ shown = "failed" => error # "" \/ cancels > 0
=============================================================================
