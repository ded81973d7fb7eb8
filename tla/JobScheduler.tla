---------------------------- MODULE JobScheduler ----------------------------
(***************************************************************************)
(* The controller: the scheduler behind the Admin API and the periodic     *)
(* task that retries failed jobs (crates/services/controller).             *)
(*                                                                         *)
(* A controller task c runs one call of the scheduler at a time; several   *)
(* tasks model concurrent requests, the retry task beside them, and a      *)
(* second controller.  A call is cut into steps at its database            *)
(* statements: what it read is kept in its locals and may be stale.        *)
(***************************************************************************)
EXTENDS JobsTable

CONSTANTS
  Controllers,  \* tasks that run calls of the scheduler
  MaxStops,     \* bound: calls of stop_job
  MaxRetries    \* bound: no job is retried with this retry index

ASSUME BoundsAssumption == MaxStops \in Nat /\ MaxRetries \in Nat

VARIABLES
  cpc,      \* where the call of a controller task stands
  target,   \* its dataset, once checked, or its job, once scheduled
  retries,  \* the failed jobs its retry pass has read and not handled yet
  stops     \* stop_job calls so far

schedulerVars == <<cpc, target, retries, stops>>

Idle(c) == cpc[c] = "idle" /\ retries[c] = {}

Goto(c, label, t) ==
  /\ cpc' = [cpc EXCEPT ![c] = label]
  /\ target' = [target EXCEPT ![c] = t]

SchedulerInit ==
  /\ cpc = [c \in Controllers |-> "idle"]
  /\ target = [c \in Controllers |-> Null]
  /\ retries = [c \in Controllers |-> {}]
  /\ stops = 0

-----------------------------------------------------------------------------
(* schedule_dataset_sync_job: check, register, notify; three statements *)

\* A job of the dataset that is scheduled or running is returned as it is.
ScheduleCheck(c, d) ==
  /\ Idle(c)
  /\ \A j \in GetByDataset(d) : status[j] \notin {"Scheduled", "Running"}
  /\ Goto(c, "checked", d)
  /\ UNCHANGED <<tableVars, retries, stops>>

\* The job is given to some worker with a recent heartbeat; without one, or
\* when the requested worker is not among them, the call fails.
RegisterJob(c) ==
  /\ cpc[c] = "checked"
  /\ \/ \E n \in alive, j \in Jobs :
          /\ Insert(j, n, target[c])
          /\ Goto(c, "notify", j)
          /\ UNCHANGED <<attempts, completed, writer>>
     \/ Goto(c, "idle", Null) /\ UNCHANGED jobVars
  /\ UNCHANGED <<alive, listening, notif, retries, stops>>

NotifyStart(c) ==
  /\ cpc[c] = "notify"
  /\ SendJobNotif(node[target[c]], target[c], "Start")
  /\ Goto(c, "idle", Null)
  /\ UNCHANGED <<jobVars, alive, listening, retries, stops>>

-----------------------------------------------------------------------------
(* stop_job: one transaction; the notification is sent when it commits.  It *)
(* is sent for a job that is already stopping too.                          *)

StopJob(j) ==
  /\ stops < MaxStops
  /\ status[j] \in RequestStopFrom \cup AlreadyStopping
  /\ IF status[j] \in RequestStopFrom THEN SetStatus(j, "StopRequested") ELSE UNCHANGED status
  /\ SendJobNotif(node[j], j, "Stop")
  /\ stops' = stops + 1
  /\ UNCHANGED <<node, dataset, attempts, completed, writer, alive, listening, cpc, target, retries>>

-----------------------------------------------------------------------------
(* reconcile_failed_jobs: read the failed jobs whose backoff has elapsed,   *)
(* then reschedule and notify each.                                         *)

FetchFailedJobs(c) ==
  /\ Idle(c)
  /\ \E ready \in SUBSET {f \in FailedJobs : f.retry < MaxRetries} :
       retries' = [retries EXCEPT ![c] = ready]
  /\ UNCHANGED <<tableVars, cpc, target, stops>>

\* A job that cannot be rescheduled is skipped.
RetryJob(c) ==
  /\ cpc[c] = "idle"
  /\ \E f \in retries[c] :
       /\ retries' = [retries EXCEPT ![c] = @ \ {f}]
       /\ \/ /\ Reschedule(f.job, f.retry)
             /\ Goto(c, "notify", f.job)
          \/ /\ ~CanReschedule(f.job, f.retry)
             /\ UNCHANGED <<status, attempts, cpc, target>>
  /\ UNCHANGED <<node, dataset, completed, writer, alive, listening, notif, stops>>

-----------------------------------------------------------------------------
(* delete_job, delete_jobs_in_terminal_state, delete_{completed,stopped,failed}_jobs *)

DeleteJob(j) ==
  /\ status[j] \in Terminal
  /\ DeleteRows({j})
  /\ UNCHANGED <<node, dataset, alive, listening, notif, schedulerVars>>

DeleteJobsByStatus(S) ==
  /\ \E j \in Jobs : status[j] \in S
  /\ DeleteRows({j \in Jobs : status[j] \in S})
  /\ UNCHANGED <<node, dataset, alive, listening, notif, schedulerVars>>

\* The controller stops, or a statement of the call fails: the rest of the
\* call is not done.
AbandonCall(c) ==
  /\ ~Idle(c)
  /\ Goto(c, "idle", Null)
  /\ retries' = [retries EXCEPT ![c] = {}]
  /\ UNCHANGED <<tableVars, stops>>

SchedulerNext ==
  \/ \E c \in Controllers :
       \/ \E d \in Datasets : ScheduleCheck(c, d)
       \/ RegisterJob(c)
       \/ NotifyStart(c)
       \/ FetchFailedJobs(c)
       \/ RetryJob(c)
       \/ AbandonCall(c)
  \/ \E j \in Jobs : StopJob(j) \/ DeleteJob(j)
  \/ \E S \in {Terminal, {"Completed"}, {"Stopped"}, {"Failed"}} : DeleteJobsByStatus(S)

-----------------------------------------------------------------------------
SchedulerTypeOK ==
  /\ cpc \in [Controllers -> {"idle", "checked", "notify"}]
  /\ target \in [Controllers -> Jobs \cup Datasets \cup {Null}]
  /\ retries \in [Controllers -> SUBSET [job : Jobs, retry : 0 .. MaxRetries - 1]]
  /\ stops \in 0 .. MaxStops
=============================================================================
