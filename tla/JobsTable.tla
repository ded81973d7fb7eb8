----------------------------- MODULE JobsTable -----------------------------
(***************************************************************************)
(* The tables of the metadata database that the job lifecycle lives in:    *)
(* jobs, job_attempts, the writer column of physical_tables, the workers'  *)
(* heartbeats, and the job notification channel (NOTIFY/LISTEN).           *)
(*                                                                         *)
(* Every operator below is one SQL statement (or one transaction) of       *)
(* crates/core/metadata-db, hence one atomic step.  A status is changed    *)
(* only by the conditional UPDATE of update_status_if_any_state, except by *)
(* reschedule, which has no condition on the status.                       *)
(***************************************************************************)
EXTENDS Integers, Sequences, FiniteSets, FiniteSetsExt

CONSTANTS
  Jobs,       \* job ids; each is used for at most one row, as BIGSERIAL does
  Nodes,      \* worker node ids
  Datasets,   \* dataset manifests; the tables of one dataset share a writer
  Null        \* SQL NULL

ASSUME NullAssumption == Null \notin Jobs \cup Nodes \cup Datasets

VARIABLES
  status,     \* jobs.status; "Absent" before INSERT, "Deleted" after DELETE
  node,       \* jobs.node_id
  dataset,    \* the manifest in jobs.descriptor
  attempts,   \* the retry_index of each job_attempts row of a job
  completed,  \* the attempts with a completed_at
  writer,     \* physical_tables.writer of the dataset's active tables
  alive,      \* workers with a heartbeat within DEAD_WORKER_INTERVAL
  listening,  \* workers with a session that LISTENs on the job channel
  notif       \* notifications sent to a worker and not handled yet

jobVars == <<status, node, dataset, attempts, completed, writer>>
tableVars == <<jobVars, alive, listening, notif>>

-----------------------------------------------------------------------------
(* Statuses *)

Terminal == {"Completed", "Stopped", "Failed"}

JobStatus == {"Scheduled", "Running", "StopRequested", "Stopping"} \cup Terminal

\* A row that is not in the table: never inserted, or deleted.
NoRow == {"Absent", "Deleted"}

\* The statuses from which each conditional update is accepted.
RequestStopFrom == {"Running", "Scheduled"}
\* Variant: a failed job may be started without a retry.
MarkRunningFromAnyEnd == {"Scheduled", "Failed"}
MarkRunningFrom == {"Scheduled"}
MarkStoppingFrom == {"StopRequested"}
MarkStoppedFrom == {"Stopping"}
\* Variant: a job that is being stopped may complete.
MarkCompletedFromStopping == {"Running", "Stopping"}
MarkCompletedFrom == {"Running"}
MarkFailedFrom == {"Scheduled", "Running"}

\* request_stop reports success for these too, and changes nothing.
AlreadyStopping == {"StopRequested", "Stopping"}

SetStatus(j, new) == status' = [status EXCEPT ![j] = new]

-----------------------------------------------------------------------------
(* Queries *)

GetByNodeIdAndStatuses(n, S) == {j \in Jobs : node[j] = n /\ status[j] \in S}

GetScheduled(n) == GetByNodeIdAndStatuses(n, {"Scheduled", "Running"})

\* Variant: scheduled jobs are not fetched.
GetActiveRunning(n) == GetByNodeIdAndStatuses(n, {"Running", "StopRequested"})

\* Variant: jobs with a stop request are not fetched.
GetActiveNotStopping(n) == GetByNodeIdAndStatuses(n, {"Scheduled", "Running"})

GetActive(n) == GetByNodeIdAndStatuses(n, {"Scheduled", "Running", "StopRequested"})

\* jobs INNER JOIN physical_tables ON jobs.id = physical_tables.writer
GetByDataset(d) == {writer[d]} \cap Jobs

\* COALESCE(MAX(retry_index), -1) + 1
NextRetryIndex(j) == IF attempts[j] = {} THEN 0 ELSE Max(attempts[j]) + 1

\* Variant: no default for a job without attempts.
CurrentRetryIndexNoDefault(j) == IF attempts[j] = {} THEN Null ELSE Max(attempts[j])

\* The largest retry_index, or 0 without attempts.
CurrentRetryIndex(j) == IF attempts[j] = {} THEN 0 ELSE Max(attempts[j])

\* The failed jobs with the retry index each is to be given.  Whether the
\* backoff of a job has elapsed is the caller's choice.
FailedJobs == {[job |-> j, retry |-> NextRetryIndex(j)] : j \in {k \in Jobs : status[k] = "Failed"}}

-----------------------------------------------------------------------------
(* Updates *)

Insert(j, n, d) ==
  /\ status[j] = "Absent"
  /\ SetStatus(j, "Scheduled")
  /\ node' = [node EXCEPT ![j] = n]
  /\ dataset' = [dataset EXCEPT ![j] = d]

\* Variant: a second row for an attempt is accepted.
CanRescheduleTwice(j, k) == status[j] \notin NoRow

\* The transaction of jobs::reschedule: the UPDATE has no condition on the
\* status; the INSERT of the attempt fails, and rolls it back, when the row of
\* the job is gone (foreign key) or the attempt exists (primary key).
CanReschedule(j, k) == status[j] \notin NoRow /\ k \notin attempts[j]

\* Variant: the attempt is not inserted.
RescheduleNoAttempt(j, k) ==
  /\ CanReschedule(j, k)
  /\ SetStatus(j, "Scheduled")
  /\ UNCHANGED attempts

Reschedule(j, k) ==
  /\ CanReschedule(j, k)
  /\ SetStatus(j, "Scheduled")
  /\ attempts' = [attempts EXCEPT ![j] = @ \cup {k}]

\* No row is updated when the attempt does not exist.
MarkAttemptCompleted(j, k) ==
  completed' = [completed EXCEPT ![j] = @ \cup ({k} \cap attempts[j])]

AssignJobWriter(j) == writer' = [writer EXCEPT ![dataset[j]] = j]

\* DELETE of a set of rows; attempts follow (ON DELETE CASCADE), and the tables
\* they write are released (ON DELETE SET NULL).
DeleteRows(S) ==
  /\ status' = [j \in Jobs |-> IF j \in S THEN "Deleted" ELSE status[j]]
  /\ attempts' = [j \in Jobs |-> IF j \in S THEN {} ELSE attempts[j]]
  /\ completed' = [j \in Jobs |-> IF j \in S THEN {} ELSE completed[j]]
  /\ writer' = [d \in Datasets |-> IF writer[d] \in S THEN Null ELSE writer[d]]

\* pg_notify on the job channel: only a connected listener gets it.
SendJobNotif(n, j, action) ==
  notif' = IF n \in listening THEN [notif EXCEPT ![n] = Append(@, [job |-> j, action |-> action])]
           ELSE notif

TableInit ==
  /\ status = [j \in Jobs |-> "Absent"]
  /\ node = [j \in Jobs |-> Null]
  /\ dataset = [j \in Jobs |-> Null]
  /\ attempts = [j \in Jobs |-> {}]
  /\ completed = [j \in Jobs |-> {}]
  /\ writer = [d \in Datasets |-> Null]
  /\ alive = {}
  /\ listening = {}
  /\ notif = [n \in Nodes |-> <<>>]

-----------------------------------------------------------------------------
JobsTypeOK ==
  /\ status \in [Jobs -> JobStatus \cup NoRow]
  /\ node \in [Jobs -> Nodes \cup {Null}]
  /\ dataset \in [Jobs -> Datasets \cup {Null}]
  /\ attempts \in [Jobs -> SUBSET Nat]
  /\ completed \in [Jobs -> SUBSET Nat]
  /\ writer \in [Datasets -> Jobs \cup {Null}]

Notification == [job : Jobs, action : {"Start", "Stop"}]

ChannelTypeOK ==
  /\ alive \subseteq Nodes /\ listening \subseteq Nodes
  /\ notif \in [Nodes -> Seq(Notification)]
=============================================================================
