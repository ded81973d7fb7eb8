--------------------------- MODULE JobTaskProofs ---------------------------
(***************************************************************************)
(* Every step of a worker about one of its jobs keeps IInv, and with the   *)
(* steps of JobWorkerProofs every step of a worker does.                   *)
(***************************************************************************)
EXTENDS JobWorkerProofs

LEMMA SpawnJobInv ==
  ASSUME IInv, NEW n \in Nodes, NEW e \in todo[n], UNCHANGED schedulerVars, SpawnJob(n, e)
  PROVE  IInv'
<1>0. JobsTypeOK /\ ChannelTypeOK /\ WorkerTypeOK
  BY DEF IInv, TypeOK
<1> DEFINE j == e.job
<1>1. /\ j \in Jobs /\ node[j] = n /\ pc[n] = "loop"
      /\ e.seen = "Running" => status[j] \in InProgress
  BY <1>0 DEF WorkerTypeOK, IInv, TodoIsOwn, SpawnJob
<1>2. CASE status[j] \notin MarkRunningFrom /\ ConflictExit(n)
  BY <1>2, ConflictExitInv
<1>3. CASE /\ \/ UNCHANGED <<status, pc, cur>>
              \/ /\ \/ e.seen = "Running" /\ UNCHANGED status
                    \/ status[j] \in MarkRunningFrom /\ SetStatus(j, "Running")
                 /\ SetPc(n, "init") /\ cur' = [cur EXCEPT ![n] = j]
           /\ todo' = [todo EXCEPT ![n] = @ \ {e}]
           /\ UNCHANGED <<node, dataset, attempts, completed, writer, alive, listening, notif, res, retry, tasks, crashes>>
  <2>1. /\ \A i \in Jobs : i # j => status'[i] = status[i]
        /\ status'[j] = status[j] \/ (status[j] = "Scheduled" /\ status'[j] = "Running")
        /\ JobsTypeOK'
    BY <1>0, <1>1, <1>3 DEF JobsTypeOK, SetStatus, JobStatus, MarkRunningFrom
  <2>2. /\ \A m \in Nodes : m # n => pc'[m] = pc[m] /\ cur'[m] = cur[m]
        /\ \A m \in Nodes : todo'[m] \subseteq todo[m]
        /\ \/ pc'[n] = "loop"
           \/ pc'[n] = "init" /\ cur'[n] = j /\ status'[j] \in InProgress
    BY <1>0, <1>1, <1>3 DEF WorkerTypeOK, JobsTypeOK, SetPc, SetStatus, InProgress
  <2>3. WorkerTypeOK' /\ ChannelTypeOK'
    BY <1>0, <1>1, <1>3, ZenonT(40) DEF WorkerTypeOK, WorkerState, ChannelTypeOK, SetPc
  <2>4. SchedulerTypeOK' /\ RetryListsAreSafe' /\ AttemptsInOrder' /\ TargetIsKnown' /\ AbsentHasNoNode'
    BY <1>3, <2>1, WorkerFrame
  <2>5. LiveTaskIsActive' /\ NotifIsOwn'
    BY <1>3, <2>1, SMTT(30) DEF IInv, LiveTaskIsActive, NotifIsOwn, HasTask, InProgress
  <2>6. AbortMeansStopping'
    <3>1. /\ UNCHANGED <<tasks, res>>
          /\ \A i \in Jobs : status[i] = "Stopping" => status'[i] = "Stopping"
          /\ \A m \in Nodes : pc'[m] = "update" => pc[m] = "update" /\ cur'[m] = cur[m]
      BY <1>1, <1>3, <2>1, <2>2, SMTT(30)
    <3>2. AbortMeansStopping /\ \A m \in Nodes : pc[m] = "update" => cur[m] \in Jobs
      BY SMTT(30) DEF IInv, CurIsActive
    <3> QED BY <3>1, <3>2, SMTT(30) DEF AbortMeansStopping
  <2>7. CurIsActive'
    BY <1>1, <1>3, <2>1, <2>2, SMTT(30) DEF IInv, CurIsActive, HasTask, InProgress
  <2>8. TodoIsOwn'
    <3>1. \A m \in Nodes : \A x \in todo[m] : x.job \in Jobs
      BY <1>0 DEF WorkerTypeOK
    <3>2. /\ UNCHANGED node
          /\ \A i \in Jobs : status[i] \in InProgress => status'[i] \in InProgress
      BY <1>3, <2>1, <2>2 DEF InProgress
    <3> QED BY <2>2, <3>1, <3>2, Zenon DEF IInv, TodoIsOwn
  <2> QED BY <2>1, <2>3, <2>4, <2>5, <2>6, <2>7, <2>8 DEF IInv, TypeOK
<1> QED BY <1>2, <1>3 DEF SpawnJob, tableVars, jobVars

LEMMA UpdateStatusInv ==
  ASSUME IInv, NEW n \in Nodes, UNCHANGED schedulerVars, UpdateStatus(n)
  PROVE  IInv'
<1>0. JobsTypeOK /\ ChannelTypeOK /\ WorkerTypeOK
  BY DEF IInv, TypeOK
<1> DEFINE j == cur[n]
           u == ResultUpdate(res[n])
<1>1. /\ j \in Jobs /\ node[j] = n /\ status[j] \in InProgress /\ ~HasTask(n, j) /\ todo[n] = {}
      /\ pc[n] = "update" /\ res[n] \in Results
  BY Zenon DEF IInv, CurIsActive, UpdateStatus
<1>2. CASE ConflictExit(n)
  BY <1>2, ConflictExitInv
<1>3. CASE /\ SetStatus(j, u.to) /\ SetPc(n, "attempt")
           /\ UNCHANGED <<node, dataset, attempts, completed, writer, alive, listening, notif, todo, cur, res, retry, tasks, crashes>>
  <2>1. u.to \in Terminal
    BY <1>1, SMTT(30) DEF ResultUpdate, Results, Terminal
  <2>2. /\ \A i \in Jobs : i # j => status'[i] = status[i]
        /\ status'[j] \in Terminal
        /\ JobsTypeOK'
    BY <1>0, <1>1, <1>3, <2>1 DEF JobsTypeOK, SetStatus, JobStatus
  <2>3. /\ \A m \in Nodes : m # n => pc'[m] = pc[m]
        /\ pc'[n] = "attempt"
        /\ WorkerTypeOK' /\ ChannelTypeOK'
    BY <1>0, <1>3 DEF WorkerTypeOK, WorkerState, ChannelTypeOK, SetPc
  <2>4. SchedulerTypeOK' /\ RetryListsAreSafe' /\ AttemptsInOrder' /\ TargetIsKnown' /\ AbsentHasNoNode'
    BY <1>1, <1>3, <2>2, WorkerFrame, SMTT(30) DEF InProgress, Terminal
  <2>5. LiveTaskIsActive' /\ NotifIsOwn'
    BY <1>1, <1>3, <2>2, SMTT(30) DEF IInv, LiveTaskIsActive, NotifIsOwn, HasTask
  <2>6. AbortMeansStopping'
    BY <1>1, <1>3, <2>2, <2>3, SMTT(30) DEF IInv, AbortMeansStopping, LiveTaskIsActive, CurIsActive, HasTask
  <2>7. CurIsActive'
    BY <1>1, <1>3, <2>2, <2>3, SMTT(30) DEF IInv, CurIsActive, HasTask
  <2>8. TodoIsOwn'
    <3>1. \A m \in Nodes : \A x \in todo[m] : x.job \in Jobs
      BY <1>0, SMTT(30) DEF WorkerTypeOK
    <3> QED BY <1>1, <1>3, <2>2, <3>1 DEF IInv, TodoIsOwn
  <2> QED BY <2>2, <2>3, <2>4, <2>5, <2>6, <2>7, <2>8, Zenon DEF IInv, TypeOK
<1> QED BY <1>2, <1>3, Zenon DEF UpdateStatus

LEMMA InitJobInv ==
  ASSUME IInv, NEW n \in Nodes, UNCHANGED schedulerVars, InitJob(n)
  PROVE  IInv'
<1> USE DEF InitJob, AssignJobWriter, SetTask, SetPc
<1>0. JobsTypeOK /\ ChannelTypeOK /\ WorkerTypeOK
  BY DEF IInv, TypeOK
<1> DEFINE j == cur[n]
<1>1. j \in Jobs /\ node[j] = n /\ status[j] \in InProgress
  BY DEF IInv, CurIsActive
<1>2. JobsTypeOK' /\ ChannelTypeOK'
  BY <1>0, <1>1, Zenon DEF JobsTypeOK, ChannelTypeOK
<1>3. WorkerTypeOK'
  BY <1>0, <1>1 DEF WorkerTypeOK, WorkerState, TaskState
<1>4. SchedulerTypeOK' /\ RetryListsAreSafe' /\ AttemptsInOrder' /\ TargetIsKnown' /\ AbsentHasNoNode'
  BY WorkerFrame
<1>5. /\ \A m \in Nodes : m # n => pc'[m] = pc[m] /\ cur'[m] = cur[m] /\ tasks'[m] = tasks[m]
      /\ pc'[n] = "loop"
      /\ \A i \in Jobs : tasks'[n][i] = IF i = j THEN "running" ELSE tasks[n][i]
  BY <1>0, <1>1 DEF WorkerTypeOK
<1>6. LiveTaskIsActive' /\ AbortMeansStopping'
  BY <1>1, <1>5 DEF IInv, LiveTaskIsActive, AbortMeansStopping, HasTask
<1>7. CurIsActive' /\ TodoIsOwn' /\ NotifIsOwn'
  BY <1>5 DEF IInv, CurIsActive, TodoIsOwn, NotifIsOwn, HasTask
<1> QED BY <1>2, <1>3, <1>4, <1>6, <1>7 DEF IInv, TypeOK

\* A stop that is acknowledged: by a notification, or by the reconcile pass.
LEMMA StopTaskInv ==
  ASSUME IInv, NEW n \in Nodes, NEW j \in Jobs, UNCHANGED schedulerVars, StopTask(n, j),
         ChannelTypeOK', NotifIsOwn', todo' \in [Nodes -> SUBSET [job : Jobs, seen : JobStatus, op : {"spawn", "abort"}]],
         \A m \in Nodes : todo'[m] \subseteq todo[m]
  PROVE  IInv'
<1> USE DEF StopTask, MarkStoppingFrom, SetStatus
<1>0. JobsTypeOK /\ WorkerTypeOK
  BY DEF IInv, TypeOK
<1>1. /\ \A i \in Jobs : i # j => status'[i] = status[i]
      /\ status[j] = "StopRequested" /\ status'[j] = "Stopping"
      /\ JobsTypeOK'
  BY <1>0 DEF JobsTypeOK, JobStatus
<1>2. /\ \A m \in Nodes, i \in Jobs : (m # n \/ i # j) => tasks'[m][i] = tasks[m][i]
      /\ tasks'[n][j] = "none" <=> tasks[n][j] = "none"
  BY <1>0 DEF WorkerTypeOK
<1>3. WorkerTypeOK'
  BY <1>0 DEF WorkerTypeOK, TaskState
<1>4. SchedulerTypeOK' /\ RetryListsAreSafe' /\ AttemptsInOrder' /\ TargetIsKnown' /\ AbsentHasNoNode'
  BY <1>1, WorkerFrame
<1>5. LiveTaskIsActive'
  BY <1>1, <1>2 DEF IInv, LiveTaskIsActive, HasTask, InProgress
<1>6. AbortMeansStopping'
  BY <1>1, <1>2 DEF IInv, AbortMeansStopping, CurIsActive
<1>7. CurIsActive'
  BY <1>1, <1>2 DEF IInv, CurIsActive, HasTask, InProgress
<1>8. TodoIsOwn'
  <2>1. \A m \in Nodes : \A x \in todo[m] : x.job \in Jobs
    BY <1>0 DEF WorkerTypeOK
  <2> QED BY <1>1, <2>1 DEF IInv, TodoIsOwn, InProgress
<1> QED BY <1>1, <1>3, <1>4, <1>5, <1>6, <1>7, <1>8 DEF IInv, TypeOK

LEMMA AbortJobInv ==
  ASSUME IInv, NEW n \in Nodes, NEW e \in todo[n], UNCHANGED schedulerVars, AbortJob(n, e)
  PROVE  IInv'
<1>1. CASE ConflictExit(n)
  BY <1>1, ConflictExitInv
<1>2. CASE StopTask(n, e.job) /\ todo' = [todo EXCEPT ![n] = @ \ {e}] /\ UNCHANGED notif
  <2>1. WorkerTypeOK /\ ChannelTypeOK /\ NotifIsOwn
    BY DEF IInv, TypeOK
  <2>2. ChannelTypeOK' /\ NotifIsOwn'
    BY <1>2, <2>1 DEF StopTask, ChannelTypeOK, NotifIsOwn
  <2>3. /\ e.job \in Jobs
        /\ todo' \in [Nodes -> SUBSET [job : Jobs, seen : JobStatus, op : {"spawn", "abort"}]]
        /\ \A m \in Nodes : todo'[m] \subseteq todo[m]
    BY <1>2, <2>1, SMTT(30) DEF WorkerTypeOK
  <2> QED BY <1>2, <2>2, <2>3, StopTaskInv
<1> QED BY <1>1, <1>2 DEF AbortJob

LEMMA HandleStopInv ==
  ASSUME IInv, NEW n \in Nodes, UNCHANGED schedulerVars, HandleStop(n)
  PROVE  IInv'
<1> DEFINE j == Head(notif[n]).job
<1>1. CASE ConflictExit(n)
  BY <1>1, ConflictExitInv
<1>2. CASE StopTask(n, j) /\ notif' = [notif EXCEPT ![n] = Tail(@)] /\ UNCHANGED todo
  <2>1. WorkerTypeOK /\ ChannelTypeOK /\ NotifIsOwn /\ notif[n] # <<>>
    BY DEF IInv, TypeOK, HandleStop
  <2>2. ChannelTypeOK' /\ NotifIsOwn' /\ j \in Jobs
    BY <1>2, <2>1, ReceiveNotifOwn, Zenon DEF StopTask
  <2> QED BY <1>2, <2>1, <2>2, StopTaskInv DEF WorkerTypeOK
<1> QED BY <1>1, <1>2 DEF HandleStop

LEMMA JoinNextInv ==
  ASSUME IInv, NEW n \in Nodes, NEW j \in Jobs, UNCHANGED schedulerVars, JoinNext(n, j)
  PROVE  IInv'
<1> USE DEF JoinNext, SetTask, SetPc, tableVars, jobVars
<1>0. JobsTypeOK /\ ChannelTypeOK /\ WorkerTypeOK
  BY DEF IInv, TypeOK
<1>1. /\ tasks[n][j] \in Results /\ node[j] = n /\ status[j] \in InProgress
      /\ tasks[n][j] = "aborted" => status[j] = "Stopping"
  BY DEF IInv, LiveTaskIsActive, AbortMeansStopping, HasTask, Results
<1>2. CurrentRetryIndex(j) \in Nat
  BY RetryIndexType DEF IInv
<1>3. WorkerTypeOK'
  BY <1>0, <1>1, <1>2 DEF WorkerTypeOK, WorkerState, TaskState
<1>4. JobsTypeOK' /\ ChannelTypeOK' /\ NotifIsOwn' /\ TodoIsOwn'
  BY <1>0 DEF JobsTypeOK, ChannelTypeOK, NotifIsOwn, TodoIsOwn, IInv
<1>5. SchedulerTypeOK' /\ RetryListsAreSafe' /\ AttemptsInOrder' /\ TargetIsKnown' /\ AbsentHasNoNode'
  BY WorkerFrame
<1>6. /\ \A m \in Nodes : m # n => UNCHANGED <<pc[m], cur[m], res[m], tasks[m]>>
      /\ pc'[n] = "update" /\ cur'[n] = j /\ res'[n] = tasks[n][j] /\ todo[n] = {}
      /\ \A i \in Jobs : tasks'[n][i] = IF i = j THEN "none" ELSE tasks[n][i]
  BY <1>0 DEF WorkerTypeOK, InLoop
<1>7. LiveTaskIsActive'
  BY <1>6 DEF IInv, LiveTaskIsActive, HasTask
<1>8. AbortMeansStopping'
  BY <1>1, <1>6, SMTT(30) DEF IInv, AbortMeansStopping
<1>9. CurIsActive'
  BY <1>1, <1>6 DEF IInv, CurIsActive, HasTask
<1> QED BY <1>3, <1>4, <1>5, <1>7, <1>8, <1>9 DEF IInv, TypeOK

LEMMA CompleteAttemptInv ==
  ASSUME IInv, NEW n \in Nodes, UNCHANGED schedulerVars, CompleteAttempt(n)
  PROVE  IInv'
<1> USE DEF CompleteAttempt, MarkAttemptCompleted, SetPc
<1>0. JobsTypeOK /\ ChannelTypeOK /\ WorkerTypeOK
  BY DEF IInv, TypeOK
<1>1. cur[n] \in Jobs
  BY DEF IInv, CurIsActive
<1>2. JobsTypeOK' /\ ChannelTypeOK' /\ WorkerTypeOK'
  BY <1>0, <1>1 DEF JobsTypeOK, ChannelTypeOK, WorkerTypeOK, WorkerState
<1>3. SchedulerTypeOK' /\ RetryListsAreSafe' /\ AttemptsInOrder' /\ TargetIsKnown' /\ AbsentHasNoNode'
  BY WorkerFrame, ZenonT(40)
<1>4. /\ UNCHANGED <<status, node, tasks, todo, notif>>
      /\ \A m \in Nodes : m # n => UNCHANGED <<pc[m], cur[m], res[m]>>
      /\ pc'[n] = "loop"
  BY <1>0, SMTT(30) DEF WorkerTypeOK
<1> HIDE DEF CompleteAttempt, MarkAttemptCompleted, SetPc
<1>5. LiveTaskIsActive' /\ TodoIsOwn' /\ NotifIsOwn'
  BY <1>4, SMTT(30) DEF IInv, LiveTaskIsActive, TodoIsOwn, NotifIsOwn, HasTask
<1>6. AbortMeansStopping' /\ CurIsActive'
  BY <1>4, SMTT(30) DEF IInv, AbortMeansStopping, CurIsActive, HasTask
<1> QED BY <1>2, <1>3, <1>5, <1>6, SMTT(30) DEF IInv, TypeOK

LEMMA TaskEndsInv ==
  ASSUME IInv, NEW n \in Nodes, NEW j \in Jobs, UNCHANGED schedulerVars, TaskEnds(n, j)
  PROVE  IInv'
<1> USE DEF TaskEnds, SetTask, tableVars, jobVars
<1>0. JobsTypeOK /\ ChannelTypeOK /\ WorkerTypeOK
  BY DEF IInv, TypeOK
<1>1. /\ tasks[n][j] \in {"running", "aborting"}
      /\ tasks'[n][j] \in Results /\ (tasks'[n][j] = "aborted" => tasks[n][j] = "aborting")
      /\ \A m \in Nodes, i \in Jobs : (m # n \/ i # j) => tasks'[m][i] = tasks[m][i]
      /\ WorkerTypeOK'
  BY <1>0, SMTT(30) DEF WorkerTypeOK, Results, TaskState
<1>2. JobsTypeOK' /\ ChannelTypeOK' /\ TodoIsOwn' /\ NotifIsOwn'
  BY <1>0 DEF JobsTypeOK, ChannelTypeOK, IInv, TodoIsOwn, NotifIsOwn
<1>3. SchedulerTypeOK' /\ RetryListsAreSafe' /\ AttemptsInOrder' /\ TargetIsKnown' /\ AbsentHasNoNode'
  BY WorkerFrame, SMTT(30)
<1>4. LiveTaskIsActive' /\ AbortMeansStopping'
  BY <1>1, SMTT(30) DEF IInv, LiveTaskIsActive, AbortMeansStopping, HasTask, Results
<1>5. CurIsActive'
  BY <1>1, SMTT(30) DEF IInv, CurIsActive, HasTask
<1> QED BY <1>1, <1>2, <1>3, <1>4, <1>5 DEF IInv, TypeOK

LEMMA LoseNotificationInv ==
  ASSUME IInv, NEW n \in Nodes, UNCHANGED schedulerVars, LoseNotification(n)
  PROVE  IInv'
<1> USE DEF LoseNotification, jobVars, workerVars
<1>1. ChannelTypeOK' /\ NotifIsOwn'
  BY ReceiveNotifOwn, Zenon DEF IInv, TypeOK
<1>2. SchedulerTypeOK' /\ RetryListsAreSafe' /\ AttemptsInOrder' /\ TargetIsKnown' /\ AbsentHasNoNode'
  BY WorkerFrame, SMTT(30)
<1> QED
  BY <1>1, <1>2
  DEF IInv, TypeOK, JobsTypeOK, WorkerTypeOK, LiveTaskIsActive, AbortMeansStopping, CurIsActive,
      TodoIsOwn, HasTask

LEMMA WorkerStepInv == IInv /\ WorkerStep => IInv'
<1> SUFFICES ASSUME IInv, UNCHANGED schedulerVars, WorkerNext PROVE IInv'
  BY DEF WorkerStep
<1>1. ASSUME NEW n \in Nodes, RegisterWorker(n) \/ ListenForJobs(n) \/ HeartbeatExpires(n) PROVE IInv'
  BY <1>1, StartInv
<1>2. ASSUME NEW n \in Nodes, Bootstrap(n) \/ Reconcile(n) \/ HandleStart(n) PROVE IInv'
  BY <1>2, ReadStepsInv
<1>3. ASSUME NEW n \in Nodes, NEW e \in todo[n], SpawnJob(n, e) \/ AbortJob(n, e) PROVE IInv'
  BY <1>3, SpawnJobInv, AbortJobInv
<1>4. ASSUME NEW n \in Nodes, InitJob(n) \/ HandleStop(n) PROVE IInv'
  BY <1>4, InitJobInv, HandleStopInv
<1>5. ASSUME NEW n \in Nodes, NEW j \in Jobs, JoinNext(n, j) \/ TaskEnds(n, j) PROVE IInv'
  BY <1>5, JoinNextInv, TaskEndsInv
<1>6. ASSUME NEW n \in Nodes, UpdateStatus(n) \/ CompleteAttempt(n) PROVE IInv'
  BY <1>6, UpdateStatusInv, CompleteAttemptInv
<1>7. ASSUME NEW n \in Nodes, InitJobFails(n) \/ Crash(n) \/ LoseNotification(n) PROVE IInv'
  BY <1>7, FailureInv, LoseNotificationInv
<1> QED BY <1>1, <1>2, <1>3, <1>4, <1>5, <1>6, <1>7, ZenonT(40) DEF WorkerNext
=============================================================================
