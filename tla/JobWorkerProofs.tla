-------------------------- MODULE JobWorkerProofs --------------------------
(***************************************************************************)
(* Every step in which a worker starts, ends or reads keeps IInv, for any  *)
(* number of jobs, workers and controllers.                                *)
(***************************************************************************)
EXTENDS JobSchedulerProofs

\* What the controllers rely on: no worker step takes a job out of FAILED.
LEMMA WorkerFrame ==
  ASSUME IInv, UNCHANGED <<node, attempts, schedulerVars>>,
         \A j \in Jobs : status[j] \in {"Failed", "Deleted"} => status'[j] = status[j],
         \A j \in Jobs : status'[j] = "Absent" => status[j] = "Absent"
  PROVE  SchedulerTypeOK' /\ RetryListsAreSafe' /\ AttemptsInOrder' /\ TargetIsKnown' /\ AbsentHasNoNode'
<1> USE DEF schedulerVars
<1>1. SchedulerTypeOK' /\ AttemptsInOrder' /\ TargetIsKnown' /\ AbsentHasNoNode'
  BY DEF IInv, TypeOK, SchedulerTypeOK, AttemptsInOrder, TargetIsKnown, AbsentHasNoNode
<1>2. \A c \in Controllers : \A f \in retries[c] : f.job \in Jobs
  BY DEF IInv, TypeOK, SchedulerTypeOK
<1>3. RetryListsAreSafe'
  BY <1>2 DEF IInv, RetryListsAreSafe, NextRetryIndex
<1> QED BY <1>1, <1>3

\* The end of a worker forgets its locals, and changes no job.
LEMMA ExitInv ==
  ASSUME IInv, NEW n \in Nodes, NEW why \in Stopped, Exit(n, why),
         UNCHANGED <<jobVars, alive, schedulerVars>>, crashes' \in 0 .. MaxCrashes
  PROVE  IInv'
<1> USE DEF Exit, SetPc, jobVars
<1>0. JobsTypeOK /\ ChannelTypeOK /\ WorkerTypeOK
  BY DEF IInv, TypeOK
<1>1. WorkerTypeOK'
  BY <1>0 DEF WorkerTypeOK, TaskState, WorkerState
<1>2. JobsTypeOK' /\ ChannelTypeOK'
  BY <1>0 DEF JobsTypeOK, ChannelTypeOK
<1>3. SchedulerTypeOK' /\ RetryListsAreSafe' /\ AttemptsInOrder' /\ TargetIsKnown' /\ AbsentHasNoNode'
  BY WorkerFrame
<1>4. /\ \A m \in Nodes : m # n => UNCHANGED <<pc[m], todo[m], cur[m], res[m], tasks[m], notif[m]>>
      /\ pc'[n] = why /\ todo'[n] = {} /\ notif'[n] = <<>> /\ \A j \in Jobs : tasks'[n][j] = "none"
  BY <1>0 DEF WorkerTypeOK, ChannelTypeOK
<1>5. LiveTaskIsActive'
  BY <1>4 DEF IInv, LiveTaskIsActive, HasTask
<1>6. AbortMeansStopping'
  BY <1>4 DEF IInv, AbortMeansStopping, Stopped
<1>7. CurIsActive'
  BY <1>4 DEF IInv, CurIsActive, HasTask, Stopped
<1>8. TodoIsOwn' /\ NotifIsOwn'
  BY <1>4 DEF IInv, TodoIsOwn, NotifIsOwn
<1> QED BY <1>1, <1>2, <1>3, <1>5, <1>6, <1>7, <1>8 DEF IInv, TypeOK

\* Steps that change where a worker stands before its loop, and the heartbeats.
LEMMA StartInv ==
  ASSUME IInv, NEW n \in Nodes, UNCHANGED schedulerVars,
         RegisterWorker(n) \/ ListenForJobs(n) \/ HeartbeatExpires(n)
  PROVE  IInv'
<1> USE DEF RegisterWorker, ListenForJobs, HeartbeatExpires, SetPc, jobVars, workerVars
<1>0. JobsTypeOK /\ ChannelTypeOK /\ WorkerTypeOK
  BY DEF IInv, TypeOK
<1>1. /\ UNCHANGED <<jobVars, notif, todo, cur, res, retry, tasks, crashes>>
      /\ alive' \subseteq Nodes /\ listening' \subseteq Nodes
      /\ UNCHANGED pc \/ \E l \in {"registered", "listening"} : pc' = [pc EXCEPT ![n] = l]
  BY <1>0 DEF ChannelTypeOK
<1> HIDE DEF RegisterWorker, ListenForJobs, HeartbeatExpires
<1>2. WorkerTypeOK' /\ JobsTypeOK' /\ ChannelTypeOK'
  BY <1>0, <1>1 DEF WorkerTypeOK, WorkerState, JobsTypeOK, ChannelTypeOK
<1>3. SchedulerTypeOK' /\ RetryListsAreSafe' /\ AttemptsInOrder' /\ TargetIsKnown' /\ AbsentHasNoNode'
  BY <1>1, WorkerFrame
<1>4. AbortMeansStopping' /\ CurIsActive'
  BY <1>0, <1>1 DEF IInv, AbortMeansStopping, CurIsActive, HasTask, WorkerTypeOK
<1>5. LiveTaskIsActive' /\ TodoIsOwn' /\ NotifIsOwn'
  BY <1>1 DEF IInv, LiveTaskIsActive, TodoIsOwn, NotifIsOwn, HasTask
<1> QED BY <1>2, <1>3, <1>4, <1>5 DEF IInv, TypeOK

LEMMA ReceiveNotifOwn ==
  ASSUME ChannelTypeOK, NotifIsOwn, NEW n \in Nodes, notif[n] # <<>>,
         notif' = [notif EXCEPT ![n] = Tail(@)], UNCHANGED <<node, alive, listening>>
  PROVE  /\ ChannelTypeOK' /\ NotifIsOwn'
         /\ Head(notif[n]).job \in Jobs /\ node[Head(notif[n]).job] = n
<1>1. notif[n] \in Seq(Notification)
  BY DEF ChannelTypeOK
<1>2. ChannelTypeOK'
  BY <1>1 DEF ChannelTypeOK
<1>3. Head(notif[n]).job \in Jobs /\ node[Head(notif[n]).job] = n
  <2>1. 1 \in 1 .. Len(notif[n]) /\ Head(notif[n]) = notif[n][1]
    BY <1>1
  <2>2. notif[n][1].job \in Jobs
    BY <2>1, NotifiedJobs
  <2> QED BY <2>1, <2>2 DEF NotifIsOwn
<1>4. \A m \in Nodes : \A i \in 1 .. Len(notif'[m]) : node[notif'[m][i].job] = m
  <2> TAKE m \in Nodes
  <2>1. CASE m = n
    <3>1. notif'[n] = Tail(notif[n])
      BY DEF ChannelTypeOK
    <3>2. \A i \in 1 .. Len(Tail(notif[n])) : i + 1 \in 1 .. Len(notif[n]) /\ Tail(notif[n])[i] = notif[n][i + 1]
      BY <1>1
    <3> QED BY <2>1, <3>1, <3>2 DEF NotifIsOwn
  <2>2. CASE m # n
    BY <2>2 DEF NotifIsOwn, ChannelTypeOK
  <2> QED BY <2>1, <2>2, Zenon
<1> QED BY <1>2, <1>3, <1>4 DEF NotifIsOwn

\* A worker in its loop, or about to enter it, reads jobs of its own.
LEMMA ReadInv ==
  ASSUME IInv, NEW n \in Nodes, NEW T, todo' = [todo EXCEPT ![n] = T],
         \A e \in T : /\ e \in [job : Jobs, seen : JobStatus, op : {"spawn", "abort"}]
                      /\ node[e.job] = n /\ e.seen = status[e.job],
         pc[n] \in {"listening", "loop"}, pc' = [pc EXCEPT ![n] = "loop"],
         UNCHANGED <<jobVars, schedulerVars, cur, res, retry, tasks, crashes>>,
         ChannelTypeOK', NotifIsOwn'
  PROVE  IInv'
<1> USE DEF jobVars
<1>0. JobsTypeOK /\ WorkerTypeOK
  BY DEF IInv, TypeOK
<1>1. WorkerTypeOK' /\ JobsTypeOK'
  BY <1>0 DEF WorkerTypeOK, WorkerState, JobsTypeOK
<1>2. SchedulerTypeOK' /\ RetryListsAreSafe' /\ AttemptsInOrder' /\ TargetIsKnown' /\ AbsentHasNoNode'
  BY WorkerFrame
<1>3. /\ \A m \in Nodes : m # n => pc'[m] = pc[m] /\ todo'[m] = todo[m]
      /\ pc'[n] = "loop" /\ todo'[n] = T
  BY <1>0 DEF WorkerTypeOK
<1>4. AbortMeansStopping' /\ LiveTaskIsActive'
  BY <1>3 DEF IInv, AbortMeansStopping, LiveTaskIsActive, HasTask
<1>5. CurIsActive'
  BY <1>3 DEF IInv, CurIsActive, HasTask
<1>6. TodoIsOwn'
  BY <1>3 DEF IInv, TodoIsOwn, InProgress
<1> QED BY <1>1, <1>2, <1>4, <1>5, <1>6 DEF IInv, TypeOK

LEMMA ReadStepsInv ==
  ASSUME IInv, NEW n \in Nodes, UNCHANGED schedulerVars, Bootstrap(n) \/ Reconcile(n) \/ HandleStart(n)
  PROVE  IInv'
<1>0. JobsTypeOK /\ ChannelTypeOK /\ WorkerTypeOK /\ NotifIsOwn
  BY DEF IInv, TypeOK
<1>1. pc[n] = "loop" => [pc EXCEPT ![n] = "loop"] = pc
  BY <1>0 DEF WorkerTypeOK
<1>2. CASE Bootstrap(n)
  <2>1. ChannelTypeOK' /\ NotifIsOwn'
    BY <1>0, <1>2 DEF Bootstrap, ChannelTypeOK, NotifIsOwn, tableVars, jobVars
  <2> DEFINE T == Fetched(GetScheduled(n), "spawn")
  <2>2. \A e \in T : /\ e \in [job : Jobs, seen : JobStatus, op : {"spawn", "abort"}]
                     /\ node[e.job] = n /\ e.seen = status[e.job]
    BY <1>0 DEF Fetched, GetScheduled, GetByNodeIdAndStatuses, JobStatus
  <2> QED BY <1>2, <2>1, <2>2, ReadInv, Zenon DEF Bootstrap, SetPc, tableVars
<1>3. CASE Reconcile(n)
  <2>1. ChannelTypeOK' /\ NotifIsOwn'
    BY <1>0, <1>3 DEF Reconcile, ChannelTypeOK, NotifIsOwn, tableVars, jobVars
  <2> DEFINE stop == {j \in GetActive(n) : status[j] = "StopRequested"}
             T == Fetched(stop, "abort") \cup Fetched(GetActive(n) \ stop, "spawn")
  <2>2. \A e \in T : /\ e \in [job : Jobs, seen : JobStatus, op : {"spawn", "abort"}]
                     /\ node[e.job] = n /\ e.seen = status[e.job]
    BY <1>0 DEF Fetched, GetActive, GetByNodeIdAndStatuses, JobStatus
  <2>3. todo' = [todo EXCEPT ![n] = T] /\ pc[n] = "loop" /\ UNCHANGED pc
    BY <1>3 DEF Reconcile, InLoop
  <2>4. pc' = [pc EXCEPT ![n] = "loop"] /\ UNCHANGED <<jobVars, cur, res, retry, tasks, crashes>>
    BY <1>1, <1>3, <2>3 DEF Reconcile, tableVars
  <2> HIDE DEF T
  <2> QED BY <2>1, <2>2, <2>3, <2>4, ReadInv, Zenon
<1>4. CASE HandleStart(n)
  <2> DEFINE h == Head(notif[n]).job
             T == Fetched({j \in Jobs : j = h /\ status[j] \notin NoRow}, "spawn")
  <2>1. ChannelTypeOK' /\ NotifIsOwn' /\ h \in Jobs /\ node[h] = n
    BY <1>0, <1>4, ReceiveNotifOwn, Zenon DEF HandleStart, jobVars
  <2>2. \A e \in T : /\ e \in [job : Jobs, seen : JobStatus, op : {"spawn", "abort"}]
                     /\ node[e.job] = n /\ e.seen = status[e.job]
    BY <1>0, <2>1 DEF Fetched, JobsTypeOK
  <2>3. todo' = [todo EXCEPT ![n] = T] /\ pc[n] = "loop" /\ UNCHANGED pc
    BY <1>4 DEF HandleStart, InLoop
  <2>4. pc' = [pc EXCEPT ![n] = "loop"] /\ UNCHANGED <<jobVars, cur, res, retry, tasks, crashes>>
    BY <1>1, <1>4, <2>3 DEF HandleStart
  <2> HIDE DEF T
  <2> QED BY <2>1, <2>2, <2>3, <2>4, ReadInv, Zenon
<1> QED BY <1>2, <1>3, <1>4

LEMMA ConflictExitInv ==
  ASSUME IInv, NEW n \in Nodes, UNCHANGED schedulerVars, ConflictExit(n)
  PROVE  IInv'
<1>1. crashes' \in 0 .. MaxCrashes
  BY DEF ConflictExit, IInv, TypeOK, WorkerTypeOK
<1> QED BY <1>1, ExitInv DEF ConflictExit, Stopped

LEMMA FailureInv ==
  ASSUME IInv, NEW n \in Nodes, UNCHANGED schedulerVars, InitJobFails(n) \/ Crash(n)
  PROVE  IInv'
<1>1. crashes' \in 0 .. MaxCrashes
  BY CrashesAssumption DEF InitJobFails, Crash, IInv, TypeOK, WorkerTypeOK
<1> QED BY <1>1, ExitInv DEF InitJobFails, Crash, Stopped
=============================================================================
