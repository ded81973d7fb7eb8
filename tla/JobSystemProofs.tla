-------------------------- MODULE JobSystemProofs --------------------------
(***************************************************************************)
(* The theorems about JobSystem: IInv holds in every reachable state, for  *)
(* any number of jobs, workers, controllers, retries, stops and crashes;   *)
(* its safety properties and the refinement of JobLifecycle follow.        *)
(***************************************************************************)
EXTENDS JobTaskProofs

\* IInv holds in every reachable state of the controllers and workers.
THEOREM InvariantHolds == Spec => []IInv
<1>1. IInv /\ [Next]_vars => IInv'
  <2> SUFFICES ASSUME IInv, [Next]_vars PROVE IInv' OBVIOUS
  <2>1. CASE Next
    BY <2>1, SchedulerStepInv, WorkerStepInv, SMTT(30) DEF Next
  <2>2. CASE UNCHANGED vars
    BY <2>2
    DEF vars, tableVars, jobVars, schedulerVars, workerVars, IInv, TypeOK, JobsTypeOK, ChannelTypeOK,
        SchedulerTypeOK, WorkerTypeOK, LiveTaskIsActive, AbortMeansStopping, RetryListsAreSafe,
        AttemptsInOrder, CurIsActive, TodoIsOwn, NotifIsOwn, TargetIsKnown, AbsentHasNoNode, HasTask,
        NextRetryIndex
  <2> QED BY <2>1, <2>2
<1> QED BY <1>1, InitInv, PTL DEF Spec

\* The tables, the channel and the locals of the tasks keep their types.
THEOREM TypeCorrect == Spec => []TypeOK
<1>1. IInv => TypeOK
  BY DEF IInv
<1> QED BY <1>1, InvariantHolds, PTL

\* The job sets of the workers agree with the jobs table: a live task belongs
\* to its worker and its row is in progress (spawn_job, handle_job_result).
THEOREM LiveTasksAreActive == Spec => []LiveTaskIsActive
<1>1. IInv => LiveTaskIsActive
  BY DEF IInv
<1> QED BY <1>1, InvariantHolds, PTL

\* abort_job marks a job STOPPING before its task is aborted, so that every
\* aborted task finds its row STOPPING (mark_stopped cannot conflict).
THEOREM AbortsAreMarked == Spec => []AbortMeansStopping
<1>1. IInv => AbortMeansStopping
  BY DEF IInv
<1> QED BY <1>1, InvariantHolds, PTL

\* Stale retry lists are harmless for any number of controllers.
THEOREM RetryListsSafe == Spec => []RetryListsAreSafe
<1>1. IInv => RetryListsAreSafe
  BY DEF IInv
<1> QED BY <1>1, InvariantHolds, PTL

-----------------------------------------------------------------------------
(* The refinement: every step moves statuses along the edges of the lifecycle *)

LEMMA AdvanceOneJob ==
  ASSUME NEW j \in Jobs, NEW s \in Lifecycle!Successors(status[j]), SetStatus(j, s)
  PROVE  Lifecycle!Next
BY Zenon DEF SetStatus, Lifecycle!Next, Lifecycle!Advance

LEMMA DeleteIsLifecycleStep ==
  ASSUME NEW S, S \subseteq {j \in Jobs : status[j] \in Terminal}, DeleteRows(S)
  PROVE  Lifecycle!Next
<1>1. S \in SUBSET Jobs /\ \A j \in S : status[j] \in {"Completed", "Stopped", "Failed"}
  BY DEF Terminal
<1>2. Lifecycle!Delete(S)
  BY <1>1 DEF DeleteRows, Lifecycle!Delete
<1> QED BY <1>1, <1>2 DEF Lifecycle!Next

LEMMA SchedulerLifecycleStep == IInv /\ SchedulerStep => Lifecycle!Next \/ UNCHANGED status
<1> SUFFICES ASSUME IInv, SchedulerNext PROVE Lifecycle!Next \/ UNCHANGED status
  BY DEF SchedulerStep
<1>1. ASSUME NEW c \in Controllers, NEW d \in Datasets, ScheduleCheck(c, d) PROVE UNCHANGED status
  BY <1>1 DEF ScheduleCheck, tableVars, jobVars
<1>2. ASSUME NEW c \in Controllers, RegisterJob(c) PROVE Lifecycle!Next \/ UNCHANGED status
  <2>1. ASSUME NEW n \in alive, NEW j \in Jobs, Insert(j, n, target[c]) PROVE Lifecycle!Next
    <3>1. status[j] = "Absent" /\ SetStatus(j, "Scheduled")
      BY <2>1 DEF Insert
    <3>2. "Scheduled" \in Lifecycle!Successors(status[j])
      BY <3>1 DEF Lifecycle!Successors
    <3> QED BY <3>1, <3>2, AdvanceOneJob
  <2> QED BY <1>2, <2>1 DEF RegisterJob, jobVars
<1>3. ASSUME NEW c \in Controllers, NotifyStart(c) \/ FetchFailedJobs(c) \/ AbandonCall(c) PROVE UNCHANGED status
  BY <1>3 DEF NotifyStart, FetchFailedJobs, AbandonCall, tableVars, jobVars
<1>4. ASSUME NEW c \in Controllers, RetryJob(c) PROVE Lifecycle!Next \/ UNCHANGED status
  <2>1. ASSUME NEW f \in retries[c], Reschedule(f.job, f.retry) PROVE Lifecycle!Next
    <3>1. f.job \in Jobs
      BY DEF IInv, TypeOK, SchedulerTypeOK
    <3>2. status[f.job] = "Failed" /\ SetStatus(f.job, "Scheduled")
      BY <2>1 DEF Reschedule, CanReschedule, NoRow, IInv, RetryListsAreSafe
    <3>3. "Scheduled" \in Lifecycle!Successors(status[f.job])
      BY <3>2 DEF Lifecycle!Successors
    <3> QED BY <3>1, <3>2, <3>3, AdvanceOneJob
  <2> QED BY <1>4, <2>1 DEF RetryJob
<1>5. ASSUME NEW j \in Jobs, StopJob(j) PROVE Lifecycle!Next \/ UNCHANGED status
  <2>1. CASE status[j] \in RequestStopFrom
    <3>1. "StopRequested" \in Lifecycle!Successors(status[j])
      BY <2>1 DEF RequestStopFrom, Lifecycle!Successors
    <3> QED BY <1>5, <2>1, <3>1, AdvanceOneJob DEF StopJob
  <2>2. CASE status[j] \notin RequestStopFrom
    BY <1>5, <2>2 DEF StopJob
  <2> QED BY <2>1, <2>2
<1>6. ASSUME NEW j \in Jobs, DeleteJob(j) PROVE Lifecycle!Next
  <2>1. {j} \subseteq {i \in Jobs : status[i] \in Terminal}
    BY <1>6 DEF DeleteJob
  <2> QED BY <1>6, <2>1, DeleteIsLifecycleStep DEF DeleteJob
<1>7. ASSUME NEW S \in {Terminal, {"Completed"}, {"Stopped"}, {"Failed"}}, DeleteJobsByStatus(S) PROVE Lifecycle!Next
  <2>1. {j \in Jobs : status[j] \in S} \subseteq {i \in Jobs : status[i] \in Terminal}
    BY <1>7 DEF Terminal
  <2> QED BY <1>7, <2>1, DeleteIsLifecycleStep DEF DeleteJobsByStatus
<1> QED BY <1>1, <1>2, <1>3, <1>4, <1>5, <1>6, <1>7 DEF SchedulerNext

LEMMA WorkerLifecycleStep == IInv /\ WorkerStep => Lifecycle!Next \/ UNCHANGED status
<1> SUFFICES ASSUME IInv, WorkerNext PROVE Lifecycle!Next \/ UNCHANGED status
  BY DEF WorkerStep
<1>0. ASSUME NEW n \in Nodes, ConflictExit(n) PROVE UNCHANGED status
  BY <1>0 DEF ConflictExit, jobVars
<1>1. ASSUME NEW n \in Nodes, NEW j \in Jobs, StopTask(n, j) PROVE Lifecycle!Next
  <2>1. "Stopping" \in Lifecycle!Successors(status[j])
    BY <1>1 DEF StopTask, MarkStoppingFrom, Lifecycle!Successors
  <2> QED BY <1>1, <2>1, AdvanceOneJob DEF StopTask
<1>2. ASSUME NEW n \in Nodes, NEW e \in todo[n], SpawnJob(n, e) PROVE Lifecycle!Next \/ UNCHANGED status
  <2>1. e.job \in Jobs
    BY DEF IInv, TypeOK, WorkerTypeOK
  <2>2. ASSUME status[e.job] \in MarkRunningFrom, SetStatus(e.job, "Running") PROVE Lifecycle!Next
    <3>1. "Running" \in Lifecycle!Successors(status[e.job])
      BY <2>2 DEF MarkRunningFrom, Lifecycle!Successors
    <3> QED BY <2>1, <2>2, <3>1, AdvanceOneJob
  <2> QED BY <1>0, <1>2, <2>2 DEF SpawnJob, tableVars, jobVars
<1>3. ASSUME NEW n \in Nodes, NEW e \in todo[n], AbortJob(n, e) PROVE Lifecycle!Next \/ UNCHANGED status
  <2>1. e.job \in Jobs
    BY DEF IInv, TypeOK, WorkerTypeOK
  <2> QED BY <1>0, <1>1, <1>3, <2>1 DEF AbortJob
<1>4. ASSUME NEW n \in Nodes, HandleStop(n) PROVE Lifecycle!Next \/ UNCHANGED status
  <2>1. Head(notif[n]).job \in Jobs
    <3>1. notif[n] \in Seq(Notification) /\ notif[n] # <<>>
      BY <1>4 DEF IInv, TypeOK, ChannelTypeOK, HandleStop
    <3>2. 1 \in 1 .. Len(notif[n]) /\ Head(notif[n]) = notif[n][1]
      BY <3>1
    <3> QED BY <3>2, NotifiedJobs DEF IInv, TypeOK
  <2> QED BY <1>0, <1>1, <1>4, <2>1 DEF HandleStop
<1>5. ASSUME NEW n \in Nodes, UpdateStatus(n) PROVE Lifecycle!Next \/ UNCHANGED status
  <2> DEFINE j == cur[n]
             u == ResultUpdate(res[n])
  <2>1. j \in Jobs /\ status[j] \in InProgress /\ res[n] \in Results
    BY <1>5 DEF IInv, CurIsActive, UpdateStatus
  <2>2. ASSUME status[j] \in u.from, SetStatus(j, u.to) PROVE Lifecycle!Next
    <3>1. u.to \in Lifecycle!Successors(status[j])
      <4>1. CASE res[n] = "ok"
        BY <4>1, <2>2 DEF ResultUpdate, MarkCompletedFrom, Lifecycle!Successors
      <4>2. CASE res[n] = "failed"
        BY <4>2, <2>1, <2>2 DEF ResultUpdate, MarkFailedFrom, InProgress, Lifecycle!Successors
      <4>3. CASE res[n] = "aborted"
        BY <4>3, <2>2, SMTT(30) DEF ResultUpdate, MarkStoppedFrom, Lifecycle!Successors
      <4> QED BY <2>1, <4>1, <4>2, <4>3 DEF Results
    <3> QED BY <2>1, <2>2, <3>1, AdvanceOneJob
  <2> QED BY <1>0, <1>5, <2>2 DEF UpdateStatus
<1>6. ASSUME NEW n \in Nodes,
             \/ RegisterWorker(n) \/ ListenForJobs(n) \/ Bootstrap(n) \/ InitJob(n) \/ InitJobFails(n)
             \/ HandleStart(n) \/ Reconcile(n) \/ CompleteAttempt(n)
             \/ Crash(n) \/ HeartbeatExpires(n) \/ LoseNotification(n)
             \/ \E j \in Jobs : JoinNext(n, j) \/ TaskEnds(n, j)
      PROVE  UNCHANGED status
  BY <1>6
  DEF RegisterWorker, ListenForJobs, Bootstrap, InitJob, InitJobFails, HandleStart, Reconcile, CompleteAttempt,
      Crash, HeartbeatExpires, LoseNotification, JoinNext, TaskEnds, tableVars, jobVars
<1> QED BY <1>2, <1>3, <1>4, <1>5, <1>6 DEF WorkerNext

LEMMA LifecycleStep == IInv /\ [Next]_vars => [Lifecycle!Next]_status
BY SchedulerLifecycleStep, WorkerLifecycleStep DEF Next, vars, tableVars, jobVars

\* Controllers and workers implement the lifecycle of a job (JobStatus), for
\* any number of each and whatever they have read before.
THEOREM LifecycleImplemented == Spec => ImplementsLifecycle
<1>1. Init => Lifecycle!Init
  BY DEF Init, TableInit, Lifecycle!Init
<1> QED BY <1>1, LifecycleStep, InvariantHolds, PTL DEF Spec, ImplementsLifecycle, Lifecycle!Spec

\* The edges of the lifecycle, as a relation between a status and the next.
LEMMA LifecycleEdges ==
  ASSUME JobsTypeOK, [Lifecycle!Next]_status, NEW j \in Jobs
  PROVE  \/ status'[j] = status[j]
         \/ status'[j] \in Lifecycle!Successors(status[j])
         \/ status[j] \in Terminal /\ status'[j] = "Deleted"
<1>1. CASE UNCHANGED status
  BY <1>1
<1>2. ASSUME NEW i \in Jobs, Lifecycle!Advance(i)
      PROVE  status'[j] = status[j] \/ status'[j] \in Lifecycle!Successors(status[j])
  BY <1>2 DEF Lifecycle!Advance, JobsTypeOK
<1>3. ASSUME NEW S \in SUBSET Jobs, Lifecycle!Delete(S)
      PROVE  status'[j] = status[j] \/ (status[j] \in Terminal /\ status'[j] = "Deleted")
  BY <1>3 DEF Lifecycle!Delete, Terminal
<1> QED BY <1>1, <1>2, <1>3 DEF Lifecycle!Next

\* reschedule restarts failed jobs only, although it does not look at the
\* status and its callers work from stale lists.
THEOREM RetriesFromFailedOnly == Spec => RetryFromFailedOnly
<1>1. IInv /\ [Next]_vars =>
        [\A j \in Jobs : status'[j] = "Scheduled" /\ status[j] # "Scheduled" => status[j] \in {"Absent", "Failed"}]_vars
  <2> SUFFICES ASSUME IInv, [Next]_vars, NEW j \in Jobs, status'[j] = "Scheduled", status[j] # "Scheduled"
               PROVE  status[j] \in {"Absent", "Failed"}
    OBVIOUS
  <2>1. \/ status'[j] = status[j]
        \/ status'[j] \in Lifecycle!Successors(status[j])
        \/ status[j] \in Terminal /\ status'[j] = "Deleted"
    BY LifecycleStep, LifecycleEdges DEF IInv, TypeOK
  <2> QED BY <2>1 DEF Lifecycle!Successors
<1> QED BY <1>1, InvariantHolds, PTL DEF Spec, RetryFromFailedOnly

\* A stop that request_stop accepted is never undone.
THEOREM StopsStick == Spec => StopSticks
<1>1. IInv /\ [Next]_vars =>
        [\A j \in Jobs : status[j] \in AlreadyStopping => status'[j] \in AlreadyStopping \cup {"Stopped"}]_vars
  <2> SUFFICES ASSUME IInv, [Next]_vars, NEW j \in Jobs, status[j] \in AlreadyStopping
               PROVE  status'[j] \in AlreadyStopping \cup {"Stopped"}
    OBVIOUS
  <2>1. \/ status'[j] = status[j]
        \/ status'[j] \in Lifecycle!Successors(status[j])
        \/ status[j] \in Terminal /\ status'[j] = "Deleted"
    BY LifecycleStep, LifecycleEdges DEF IInv, TypeOK
  <2> QED BY <2>1 DEF Lifecycle!Successors, AlreadyStopping, Terminal
<1> QED BY <1>1, InvariantHolds, PTL DEF Spec, StopSticks
=============================================================================
