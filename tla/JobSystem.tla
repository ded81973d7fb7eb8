----------------------------- MODULE JobSystem -----------------------------
(***************************************************************************)
(* The job lifecycle as a whole: controllers and workers that only share   *)
(* the tables of the metadata database and its notification channel.       *)
(***************************************************************************)
EXTENDS JobScheduler, JobWorker

vars == <<tableVars, schedulerVars, workerVars>>

Init == TableInit /\ SchedulerInit /\ WorkerInit

SchedulerStep == SchedulerNext /\ UNCHANGED workerVars

WorkerStep == WorkerNext /\ UNCHANGED schedulerVars

Next == SchedulerStep \/ WorkerStep

Spec == Init /\ [][Next]_vars

-----------------------------------------------------------------------------
\* The statuses of a job between its spawn and its result.
InProgress == {"Running", "StopRequested", "Stopping"}

\* Every table, channel and local of the system keeps its type.
TypeOK == JobsTypeOK /\ ChannelTypeOK /\ SchedulerTypeOK /\ WorkerTypeOK

\* A job that runs on a worker is a job of that worker, and the table says
\* that it is in progress: neither a retry by the controller, nor a stop, nor a
\* crash and restart of the worker leaves a task behind whose row could be
\* rescheduled or deleted.
LiveTaskIsActive ==
  \A n \in Nodes, j \in Jobs : HasTask(n, j) => node[j] = n /\ status[j] \in InProgress

\* Whatever the order of stop requests, notifications and results, a job is
\* aborted only once its row is STOPPING, so that an aborted job can always be
\* marked STOPPED (abort_job: "to avoid job state update races").
AbortMeansStopping ==
  /\ \A n \in Nodes, j \in Jobs : tasks[n][j] \in {"aborting", "aborted"} => status[j] = "Stopping"
  /\ \A n \in Nodes : pc[n] = "update" /\ res[n] = "aborted" => status[cur[n]] = "Stopping"

\* reschedule has no condition on the status, and retry passes of concurrent
\* controllers work from stale lists of failed jobs; still a job only becomes
\* SCHEDULED when it is registered, or from FAILED.
RetryFromFailedOnly ==
  [][\A j \in Jobs : status'[j] = "Scheduled" /\ status[j] # "Scheduled" => status[j] \in {"Absent", "Failed"}]_vars

\* A stop that was accepted is never undone: no worker, retry or late start
\* notification takes the job back to SCHEDULED or RUNNING, and it does not
\* end as COMPLETED or FAILED.
StopSticks ==
  [][\A j \in Jobs : status[j] \in AlreadyStopping => status'[j] \in AlreadyStopping \cup {"Stopped"}]_vars

\* The controllers and workers together implement the lifecycle of a job:
\* JobStatus changes along its edges only, however their statements interleave.
Lifecycle == INSTANCE JobLifecycle

ImplementsLifecycle == Lifecycle!Spec

-----------------------------------------------------------------------------
(* The inductive invariant behind these properties *)

\* A retry that some controller has read and not done yet is for a job that is
\* still FAILED with this index next; or the retry was done, by this controller
\* or another one, and its index is taken; or the job is deleted.  With the
\* primary key of job_attempts this keeps a stale retry from restarting a job.
RetryListsAreSafe ==
  \A c \in Controllers : \A f \in retries[c] :
    \/ f.retry \in attempts[f.job]
    \/ status[f.job] = "Failed" /\ f.retry = NextRetryIndex(f.job)
    \/ status[f.job] = "Deleted"

\* The attempts of a job are numbered from 0 without gaps.
AttemptsInOrder ==
  \A j \in Jobs : \E k \in 0 .. MaxRetries : attempts[j] = 0 .. (k - 1)

\* The job a handler is in the middle of is a job of the worker in progress.
CurIsActive ==
  \A n \in Nodes :
    /\ pc[n] \in {"init", "update", "attempt"} => cur[n] \in Jobs
    /\ pc[n] \in {"init", "update"} => node[cur[n]] = n /\ status[cur[n]] \in InProgress
    /\ pc[n] = "update" => res[n] \in Results /\ ~HasTask(n, cur[n])
    /\ pc[n] \in {"update", "attempt"} => todo[n] = {}

\* What a worker read, or was notified of, is about its own jobs; and a job
\* that it read as running is still in progress.
TodoIsOwn ==
  \A n \in Nodes : \A e \in todo[n] :
    node[e.job] = n /\ (e.seen = "Running" => status[e.job] \in InProgress)

NotifIsOwn ==
  \A n \in Nodes : \A i \in 1 .. Len(notif[n]) : node[notif[n][i].job] = n

TargetIsKnown ==
  \A c \in Controllers :
    /\ cpc[c] = "checked" => target[c] \in Datasets
    /\ cpc[c] = "notify" => target[c] \in Jobs

AbsentHasNoNode == \A j \in Jobs : status[j] = "Absent" => node[j] = Null

\* The safety properties above with what makes them inductive: this is what
\* the statements of controllers and workers preserve one by one.
IInv ==
  /\ TypeOK
  /\ LiveTaskIsActive
  /\ AbortMeansStopping
  /\ RetryListsAreSafe
  /\ AttemptsInOrder
  /\ CurIsActive
  /\ TodoIsOwn
  /\ NotifIsOwn
  /\ TargetIsKnown
  /\ AbsentHasNoNode

-----------------------------------------------------------------------------
(* Fairness.  A worker that is down is started again.  A handler that has   *)
(* begun goes on.  The main loop polls notifications and results before the *)
(* reconcile tick, so neither waits for it forever, and there are finitely  *)
(* many of them between two ticks.  An aborted task is dropped at its next  *)
(* await; a job that is not aborted need not end.  Controllers owe nothing. *)

Does(A) == A /\ UNCHANGED schedulerVars

WorkerFairness(n) ==
  /\ WF_vars(Does(RegisterWorker(n) \/ ListenForJobs(n) \/ Bootstrap(n)))
  /\ WF_vars(Does(InitJob(n) \/ UpdateStatus(n) \/ CompleteAttempt(n)))
  /\ WF_vars(Does(\E e \in todo[n] : SpawnJob(n, e) \/ AbortJob(n, e)))
  /\ SF_vars(Does(HandleStart(n) \/ HandleStop(n)))
  /\ SF_vars(Does(\E j \in Jobs : JoinNext(n, j)))
  /\ SF_vars(Does(Reconcile(n)))
  /\ WF_vars(Does(\E j \in Jobs : tasks[n][j] = "aborting" /\ TaskEnds(n, j)))

FairSpec == Spec /\ \A n \in Nodes : WorkerFairness(n)

\* A scheduled job is started, or stopped before it is, although its start
\* notification may be lost and its worker may crash.
ScheduledIsPickedUp ==
  \A j \in Jobs : status[j] = "Scheduled" ~> status[j] # "Scheduled"

\* A stop request is acknowledged, although its notification may be lost, its
\* job may end first, and its worker may crash.
StopIsAcknowledged ==
  \A j \in Jobs : status[j] = "StopRequested" ~> status[j] # "StopRequested"

-----------------------------------------------------------------------------
(* What a comment of the code says, and the code does not do *)

\* job_status.rs, of Stopping: the worker "will stop the job as soon as
\* possible".
StoppingEnds ==
  \A j \in Jobs : status[j] = "Stopping" ~> status[j] # "Stopping"
=============================================================================
