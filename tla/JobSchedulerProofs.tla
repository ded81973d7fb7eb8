------------------------- MODULE JobSchedulerProofs -------------------------
(***************************************************************************)
(* The initial states satisfy IInv, and every step of a controller keeps   *)
(* it, for any number of jobs, workers, controllers, retries and stops.    *)
(***************************************************************************)
EXTENDS JobSystem, TLAPS

\* Without gaps in the attempts, the next index is their number.
LEMMA NextRetryIndexOfInterval ==
  ASSUME NEW j \in Jobs, NEW k \in Nat, attempts[j] = 0 .. (k - 1)
  PROVE  NextRetryIndex(j) = k /\ CurrentRetryIndex(j) \in 0 .. k
<1>1. CASE k = 0
  BY <1>1 DEF NextRetryIndex, CurrentRetryIndex
<1>2. CASE k > 0
  <2>1. k - 1 \in attempts[j] /\ \A y \in attempts[j] : k - 1 >= y
    BY <1>2
  <2>2. Max(attempts[j]) = k - 1
    <3>1. \A x \in attempts[j] : (\A y \in attempts[j] : x >= y) => x = k - 1
      BY <2>1
    <3> QED BY <2>1, <3>1 DEF Max
  <2> QED BY <1>2, <2>1, <2>2 DEF NextRetryIndex, CurrentRetryIndex
<1> QED BY <1>1, <1>2

LEMMA RetryIndexType ==
  ASSUME AttemptsInOrder, NEW j \in Jobs
  PROVE  NextRetryIndex(j) \in Nat /\ CurrentRetryIndex(j) \in Nat
<1>1. PICK k \in 0 .. MaxRetries : attempts[j] = 0 .. (k - 1)
  BY DEF AttemptsInOrder
<1>2. k \in Nat
  BY <1>1, BoundsAssumption
<1>3. NextRetryIndex(j) = k /\ CurrentRetryIndex(j) \in 0 .. k
  BY <1>1, <1>2, NextRetryIndexOfInterval
<1> QED BY <1>2, <1>3

LEMMA InitInv == Init => IInv
<1> SUFFICES ASSUME Init PROVE IInv OBVIOUS
<1> USE DEF Init, TableInit, SchedulerInit, WorkerInit
<1>1. TypeOK
  BY BoundsAssumption, CrashesAssumption
  DEF TypeOK, JobsTypeOK, ChannelTypeOK, SchedulerTypeOK, WorkerTypeOK, NoRow, WorkerState, Stopped, TaskState
<1>2. AttemptsInOrder
  <2>1. 0 \in 0 .. MaxRetries /\ {} = 0 .. (0 - 1)
    BY BoundsAssumption
  <2> QED BY <2>1 DEF AttemptsInOrder
<1> QED
  BY <1>1, <1>2, NullAssumption
  DEF IInv, LiveTaskIsActive, AbortMeansStopping, RetryListsAreSafe, CurIsActive, TodoIsOwn,
      NotifIsOwn, TargetIsKnown, AbsentHasNoNode, HasTask

LEMMA NotifiedJobs ==
  ASSUME ChannelTypeOK, NEW n \in Nodes, NEW i \in 1 .. Len(notif[n])
  PROVE  notif[n][i] \in Notification /\ notif[n][i].job \in Jobs
<1>1. notif[n] \in Seq(Notification)
  BY DEF ChannelTypeOK
<1>2. notif[n][i] \in Notification
  BY <1>1, SMTT(30)
<1> QED BY <1>2 DEF Notification

\* A notification for a job of its addressee keeps the channel in order.
LEMMA SendJobNotifOwn ==
  ASSUME ChannelTypeOK, NotifIsOwn, NEW j \in Jobs, NEW a \in {"Start", "Stop"},
         SendJobNotif(node[j], j, a), UNCHANGED <<node, alive, listening>>
  PROVE  ChannelTypeOK' /\ NotifIsOwn'
<1> USE DEF ChannelTypeOK, NotifIsOwn, SendJobNotif
<1>1. CASE node[j] \notin listening
  BY <1>1
<1>2. CASE node[j] \in listening
  <2> DEFINE x == [job |-> j, action |-> a]
  <2>1. x \in Notification
    BY DEF Notification
  <2>2. notif' = [notif EXCEPT ![node[j]] = Append(@, x)]
    BY <1>2
  <2>3. ChannelTypeOK'
    BY <2>1, <2>2, <1>2, SMTT(30)
  <2>4. \A n \in Nodes : \A i \in 1 .. Len(notif'[n]) : node[notif'[n][i].job] = n
    <3> TAKE n \in Nodes
    <3> notif[n] \in Seq(Notification)
      OBVIOUS
    <3>1. CASE n = node[j]
      BY <3>1, <2>1, <2>2, <1>2
    <3>2. CASE n # node[j]
      BY <3>2, <2>2
    <3> QED BY <3>1, <3>2
  <2> QED BY <2>3, <2>4
<1> QED BY <1>1, <1>2, SMTT(30)

-----------------------------------------------------------------------------
(* The steps of the controllers *)

\* A step of a controller that leaves the jobs alone.
LEMMA JobsFrame ==
  ASSUME IInv, UNCHANGED <<jobVars, workerVars>>
  PROVE  /\ JobsTypeOK' /\ WorkerTypeOK' /\ LiveTaskIsActive' /\ AbortMeansStopping'
         /\ AttemptsInOrder' /\ CurIsActive' /\ TodoIsOwn' /\ AbsentHasNoNode'
<1> USE DEF jobVars, workerVars
<1>1. JobsTypeOK' /\ WorkerTypeOK'
  BY DEF IInv, TypeOK, JobsTypeOK, WorkerTypeOK
<1>2. LiveTaskIsActive' /\ AbortMeansStopping' /\ AttemptsInOrder'
  BY DEF IInv, LiveTaskIsActive, AbortMeansStopping, AttemptsInOrder, HasTask
<1>3. CurIsActive' /\ TodoIsOwn' /\ AbsentHasNoNode'
  BY DEF IInv, CurIsActive, TodoIsOwn, AbsentHasNoNode, HasTask
<1> QED BY <1>1, <1>2, <1>3

\* A step of a controller that leaves the channel alone as well.
LEMMA TablesFrame ==
  ASSUME IInv, UNCHANGED <<tableVars, workerVars>>
  PROVE  /\ JobsTypeOK' /\ ChannelTypeOK' /\ WorkerTypeOK' /\ LiveTaskIsActive' /\ AbortMeansStopping'
         /\ AttemptsInOrder' /\ CurIsActive' /\ TodoIsOwn' /\ NotifIsOwn' /\ AbsentHasNoNode'
<1>1. UNCHANGED <<jobVars, workerVars>>
  BY DEF tableVars
<1>2. ChannelTypeOK' /\ NotifIsOwn'
  BY DEF IInv, TypeOK, ChannelTypeOK, NotifIsOwn, tableVars, jobVars
<1> QED BY <1>1, <1>2, JobsFrame

\* What was safe to retry still is, if nothing is added and the tables stay.
LEMMA FewerRetries ==
  ASSUME RetryListsAreSafe, UNCHANGED <<status, attempts>>, \A d \in Controllers : retries'[d] \subseteq retries[d]
  PROVE  RetryListsAreSafe'
<1>1. \A j : NextRetryIndex(j)' = NextRetryIndex(j)
  BY DEF NextRetryIndex
<1> QED BY <1>1 DEF RetryListsAreSafe

LEMMA ScheduleCheckInv ==
  ASSUME IInv, NEW c \in Controllers, NEW d \in Datasets, ScheduleCheck(c, d), UNCHANGED workerVars
  PROVE  IInv'
<1>1. UNCHANGED <<tableVars, retries, stops>> /\ Goto(c, "checked", d)
  BY DEF ScheduleCheck
<1>2. SchedulerTypeOK' /\ TargetIsKnown'
  BY <1>1 DEF Goto, IInv, TypeOK, SchedulerTypeOK, TargetIsKnown, tableVars, jobVars
<1>3. RetryListsAreSafe'
  BY <1>1, FewerRetries DEF IInv, tableVars, jobVars
<1> QED BY <1>1, <1>2, <1>3, TablesFrame, Zenon DEF IInv, TypeOK

LEMMA RegisterJobInv ==
  ASSUME IInv, NEW c \in Controllers, RegisterJob(c), UNCHANGED workerVars
  PROVE  IInv'
<1> USE DEF workerVars, schedulerVars
<1>0. TypeOK /\ JobsTypeOK /\ SchedulerTypeOK /\ TargetIsKnown
  BY DEF IInv, TypeOK
<1>1. PICK t \in Jobs \cup {Null}, l \in {"idle", "notify"} :
        /\ cpc' = [cpc EXCEPT ![c] = l] /\ target' = [target EXCEPT ![c] = t]
        /\ l = "notify" => t \in Jobs
  BY DEF RegisterJob, Goto
<1>2. SchedulerTypeOK' /\ TargetIsKnown'
  BY <1>0, <1>1, SMTT(30) DEF SchedulerTypeOK, TargetIsKnown, RegisterJob
<1>3. CASE UNCHANGED jobVars
  <2>1. UNCHANGED <<tableVars, retries>>
    BY <1>3 DEF RegisterJob, tableVars
  <2>2. RetryListsAreSafe'
    BY <2>1, FewerRetries DEF IInv, tableVars, jobVars
  <2> QED BY <1>2, <2>1, <2>2, TablesFrame, Zenon DEF IInv, TypeOK
<1>4. ASSUME NEW n \in alive, NEW j \in Jobs, Insert(j, n, target[c]), cpc[c] = "checked",
             UNCHANGED <<attempts, completed, writer, alive, listening, notif, retries, stops>>
      PROVE  IInv'
  <2>0. n \in Nodes /\ target[c] \in Datasets
    BY <1>4, <1>0, SMTT(30) DEF IInv, TypeOK, ChannelTypeOK, TargetIsKnown
  <2>1. TypeOK'
    BY <1>0, <1>2, <1>4, <2>0
    DEF IInv, TypeOK, JobsTypeOK, ChannelTypeOK, WorkerTypeOK, Insert, SetStatus, JobStatus
  <2>2. \A i \in Jobs : i # j => status'[i] = status[i] /\ node'[i] = node[i]
    BY <1>0, <1>4 DEF JobsTypeOK, Insert, SetStatus
  <2>3. status[j] = "Absent" /\ node[j] = Null /\ status'[j] = "Scheduled"
    BY <1>0, <1>4 DEF JobsTypeOK, Insert, SetStatus, IInv, AbsentHasNoNode
  <2>4. LiveTaskIsActive' /\ AbortMeansStopping'
    BY <2>2, <2>3, NullAssumption
    DEF IInv, LiveTaskIsActive, AbortMeansStopping, CurIsActive, HasTask, InProgress
  <2>7. CurIsActive'
    BY <2>2, <2>3, NullAssumption DEF IInv, CurIsActive, HasTask, InProgress
  <2>8. TodoIsOwn'
    <3>1. \A m \in Nodes : \A e \in todo[m] : e.job \in Jobs
      BY SMTT(30) DEF IInv, TypeOK, WorkerTypeOK
    <3> QED BY <3>1, <2>2, <2>3, NullAssumption DEF IInv, TodoIsOwn, InProgress
  <2>5. RetryListsAreSafe' /\ AttemptsInOrder'
    <3>1. \A i : NextRetryIndex(i)' = NextRetryIndex(i)
      BY <1>4 DEF NextRetryIndex
    <3> QED BY <1>0, <1>4, <2>2, <2>3, <3>1 DEF IInv, RetryListsAreSafe, AttemptsInOrder, SchedulerTypeOK
  <2>6. NotifIsOwn' /\ AbsentHasNoNode'
    BY <1>4, <2>2, <2>3, NotifiedJobs, NullAssumption DEF IInv, NotifIsOwn, AbsentHasNoNode, TypeOK
  <2> QED BY <1>2, <2>1, <2>4, <2>5, <2>6, <2>7, <2>8 DEF IInv
<1> QED BY <1>3, <1>4 DEF RegisterJob

\* What the workers rely on: a controller takes no job in progress out of it,
\* and none that is stopping back.
LEMMA ControllerStatusStep ==
  ASSUME IInv, UNCHANGED <<node, workerVars>>,
         \A j \in Jobs : status[j] \in InProgress => status'[j] \in InProgress,
         \A j \in Jobs : status[j] = "Stopping" => status'[j] = "Stopping",
         \A j \in Jobs : status'[j] = "Absent" => status[j] = "Absent"
  PROVE  LiveTaskIsActive' /\ AbortMeansStopping' /\ CurIsActive' /\ TodoIsOwn' /\ AbsentHasNoNode'
<1> USE DEF IInv, workerVars
<1>1. \A m \in Nodes : \A e \in todo[m] : e.job \in Jobs
  BY SMTT(30) DEF TypeOK, WorkerTypeOK
<1>2. LiveTaskIsActive' /\ AbsentHasNoNode'
  BY DEF LiveTaskIsActive, HasTask, AbsentHasNoNode
<1>3. CurIsActive'
  BY DEF CurIsActive, HasTask
<1>4. AbortMeansStopping'
  BY DEF AbortMeansStopping, CurIsActive
<1>5. TodoIsOwn'
  BY <1>1, SMTT(30) DEF TodoIsOwn
<1> QED BY <1>2, <1>3, <1>4, <1>5, SMTT(30)

LEMMA NotifyStartInv ==
  ASSUME IInv, NEW c \in Controllers, NotifyStart(c), UNCHANGED workerVars
  PROVE  IInv'
<1>0. SchedulerTypeOK /\ TargetIsKnown /\ ChannelTypeOK /\ NotifIsOwn /\ RetryListsAreSafe
  BY Zenon DEF IInv, TypeOK
<1>1. /\ cpc[c] = "notify" /\ Goto(c, "idle", Null) /\ SendJobNotif(node[target[c]], target[c], "Start")
      /\ UNCHANGED <<jobVars, alive, listening, retries, stops>>
  BY DEF NotifyStart
<1>2. ChannelTypeOK' /\ NotifIsOwn'
  BY <1>0, <1>1, SendJobNotifOwn DEF TargetIsKnown, jobVars
<1>3. SchedulerTypeOK' /\ TargetIsKnown'
  BY <1>0, <1>1 DEF SchedulerTypeOK, TargetIsKnown, Goto, jobVars
<1>4. RetryListsAreSafe'
  BY <1>0, <1>1, FewerRetries DEF jobVars
<1> QED BY <1>1, <1>2, <1>3, <1>4, JobsFrame, Zenon DEF IInv, TypeOK

LEMMA StopJobInv ==
  ASSUME IInv, NEW j \in Jobs, StopJob(j), UNCHANGED workerVars
  PROVE  IInv'
<1>0. JobsTypeOK /\ ChannelTypeOK /\ NotifIsOwn /\ SchedulerTypeOK /\ TargetIsKnown /\ AttemptsInOrder /\ RetryListsAreSafe
  BY Zenon DEF IInv, TypeOK
<1>1. /\ \/ status[j] \in RequestStopFrom /\ SetStatus(j, "StopRequested")
         \/ UNCHANGED status
      /\ SendJobNotif(node[j], j, "Stop") /\ stops' = stops + 1 /\ stops < MaxStops
      /\ UNCHANGED <<node, dataset, attempts, completed, writer, alive, listening, cpc, target, retries>>
  BY DEF StopJob
<1>2. /\ \A i \in Jobs : i # j => status'[i] = status[i]
      /\ status'[j] = status[j] \/ (status[j] \in RequestStopFrom /\ status'[j] = "StopRequested")
      /\ JobsTypeOK'
  BY <1>0, <1>1 DEF JobsTypeOK, JobStatus, SetStatus
<1>3. ChannelTypeOK' /\ NotifIsOwn'
  BY <1>0, <1>1, SendJobNotifOwn
<1>4. SchedulerTypeOK' /\ TargetIsKnown'
  BY <1>0, <1>1, <1>2, BoundsAssumption DEF SchedulerTypeOK, TargetIsKnown, RequestStopFrom
<1>5. WorkerTypeOK'
  BY DEF IInv, TypeOK, WorkerTypeOK, workerVars
<1>6. LiveTaskIsActive' /\ AbortMeansStopping' /\ CurIsActive' /\ TodoIsOwn' /\ AbsentHasNoNode'
  BY <1>1, <1>2, ControllerStatusStep DEF InProgress, RequestStopFrom, workerVars
<1>7. RetryListsAreSafe' /\ AttemptsInOrder'
  <2>1. \A i : NextRetryIndex(i)' = NextRetryIndex(i)
    BY <1>1 DEF NextRetryIndex
  <2> QED BY <1>0, <1>1, <1>2, <2>1 DEF RetryListsAreSafe, AttemptsInOrder, SchedulerTypeOK, RequestStopFrom
<1> QED BY <1>2, <1>3, <1>4, <1>5, <1>6, <1>7, Zenon DEF IInv, TypeOK

LEMMA FetchFailedJobsInv ==
  ASSUME IInv, NEW c \in Controllers, FetchFailedJobs(c), UNCHANGED workerVars
  PROVE  IInv'
<1>0. SchedulerTypeOK /\ TargetIsKnown /\ RetryListsAreSafe
  BY Zenon DEF IInv, TypeOK
<1>1. \A j \in Jobs : NextRetryIndex(j) \in Nat
  BY RetryIndexType, Zenon DEF IInv
<1>2. PICK ready \in SUBSET {f \in FailedJobs : f.retry < MaxRetries} : retries' = [retries EXCEPT ![c] = ready]
  BY Zenon DEF FetchFailedJobs
<1>3. UNCHANGED <<tableVars, cpc, target, stops>>
  BY DEF FetchFailedJobs
<1>4. \A f \in ready : /\ f \in [job : Jobs, retry : 0 .. MaxRetries - 1]
                       /\ status[f.job] = "Failed" /\ f.retry = NextRetryIndex(f.job)
  BY <1>1, BoundsAssumption DEF FailedJobs
<1>5. SchedulerTypeOK' /\ TargetIsKnown'
  <2>1. ready \in SUBSET [job : Jobs, retry : 0 .. MaxRetries - 1]
    BY <1>4
  <2> QED BY <1>0, <1>2, <1>3, <2>1 DEF SchedulerTypeOK, TargetIsKnown, tableVars, jobVars
<1>6. RetryListsAreSafe'
  <2>1. \A j : NextRetryIndex(j)' = NextRetryIndex(j) /\ status'[j] = status[j] /\ attempts'[j] = attempts[j]
    BY <1>3 DEF NextRetryIndex, tableVars, jobVars
  <2>2. \A d \in Controllers : retries'[d] = IF d = c THEN ready ELSE retries[d]
    BY <1>0, <1>2 DEF SchedulerTypeOK
  <2> QED BY <1>0, <1>4, <2>1, <2>2 DEF RetryListsAreSafe
<1> QED BY <1>3, <1>5, <1>6, TablesFrame, Zenon DEF IInv, TypeOK

LEMMA RetryJobInv ==
  ASSUME IInv, NEW c \in Controllers, RetryJob(c), UNCHANGED workerVars
  PROVE  IInv'
<1> USE DEF workerVars
<1>0. JobsTypeOK /\ ChannelTypeOK /\ SchedulerTypeOK /\ WorkerTypeOK
  BY DEF IInv, TypeOK
<1>1. PICK f \in retries[c] :
        /\ retries' = [retries EXCEPT ![c] = @ \ {f}]
        /\ \/ Reschedule(f.job, f.retry) /\ Goto(c, "notify", f.job)
           \/ UNCHANGED <<status, attempts, cpc, target>>
  BY Zenon DEF RetryJob
<1>2. f.job \in Jobs /\ f.retry \in 0 .. MaxRetries - 1 /\ f.retry \in Nat
  BY <1>0, BoundsAssumption DEF SchedulerTypeOK
<1>3. SchedulerTypeOK' /\ TargetIsKnown' /\ ChannelTypeOK' /\ NotifIsOwn' /\ WorkerTypeOK'
  BY <1>0, <1>1, <1>2, Zenon
  DEF RetryJob, Goto, IInv, SchedulerTypeOK, TargetIsKnown, ChannelTypeOK, NotifIsOwn, WorkerTypeOK
<1>4. \A d \in Controllers : retries'[d] \subseteq retries[d]
  BY <1>0, <1>1 DEF SchedulerTypeOK
<1>5. CASE UNCHANGED <<status, attempts, cpc, target>>
  <2>1. UNCHANGED tableVars
    BY <1>5 DEF RetryJob, tableVars, jobVars
  <2>2. RetryListsAreSafe'
    BY <1>4, <1>5, FewerRetries DEF IInv
  <2> QED BY <1>3, <2>1, <2>2, TablesFrame, Zenon DEF IInv, TypeOK
<1>6. CASE Reschedule(f.job, f.retry)
  <2> DEFINE j == f.job  k == f.retry
  \* The primary and the foreign key leave one case of RetryListsAreSafe.
  <2>1. status[j] = "Failed" /\ k = NextRetryIndex(j)
    BY <1>6, Zenon DEF Reschedule, CanReschedule, NoRow, IInv, RetryListsAreSafe
  <2>2. /\ status' = [status EXCEPT ![j] = "Scheduled"]
        /\ attempts' = [attempts EXCEPT ![j] = @ \cup {k}]
        /\ UNCHANGED <<node, dataset, completed, writer>>
    BY <1>6 DEF Reschedule, SetStatus, RetryJob
  <2>3. JobsTypeOK'
    BY <1>0, <1>2, <2>2 DEF JobsTypeOK, JobStatus
  <2>4. LiveTaskIsActive' /\ AbortMeansStopping' /\ CurIsActive' /\ TodoIsOwn' /\ AbsentHasNoNode'
    BY <1>0, <2>1, <2>2, ControllerStatusStep DEF JobsTypeOK, InProgress
  <2>5. AttemptsInOrder'
    <3> SUFFICES ASSUME NEW i \in Jobs PROVE \E l \in 0 .. MaxRetries : attempts'[i] = 0 .. (l - 1)
      BY DEF AttemptsInOrder
    <3>1. PICK l \in 0 .. MaxRetries : attempts[i] = 0 .. (l - 1)
      BY DEF IInv, AttemptsInOrder
    <3>2. CASE i # j
      BY <3>1, <3>2, <2>2, <1>0 DEF JobsTypeOK
    <3>3. CASE i = j
      <4>0. l \in Nat
        BY <3>1, BoundsAssumption
      <4>1. NextRetryIndex(i) = l
        BY <4>0, <3>1, NextRetryIndexOfInterval
      <4>2. k = l /\ l < MaxRetries
        BY <4>0, <4>1, <3>3, <2>1, <1>2, BoundsAssumption
      <4>3. attempts'[i] = 0 .. ((l + 1) - 1)
        <5>1. attempts'[i] = (0 .. (l - 1)) \cup {l}
          BY <3>1, <3>3, <4>2, <2>2, <1>0 DEF JobsTypeOK
        <5>2. (0 .. (l - 1)) \cup {l} = 0 .. ((l + 1) - 1)
          BY <4>0
        <5> QED BY <5>1, <5>2
      <4> QED BY <4>0, <4>2, <4>3, BoundsAssumption
    <3> QED BY <3>2, <3>3
  <2>6. RetryListsAreSafe'
    <3> SUFFICES ASSUME NEW d \in Controllers, NEW g \in retries'[d]
                 PROVE  \/ g.retry \in attempts'[g.job]
                        \/ status'[g.job] = "Failed" /\ g.retry = NextRetryIndex(g.job)'
                        \/ status'[g.job] = "Deleted"
      BY DEF RetryListsAreSafe
    <3>1. g \in retries[d] /\ g.job \in Jobs
      BY <1>0, <1>4 DEF SchedulerTypeOK
    <3>2. CASE g.job = j
      BY <3>1, <3>2, <1>0, <1>2, <2>1, <2>2, SMTT(30) DEF IInv, RetryListsAreSafe, JobsTypeOK
    <3>3. CASE g.job # j
      BY <3>1, <3>3, <1>0, <2>2 DEF IInv, RetryListsAreSafe, JobsTypeOK, NextRetryIndex
    <3> QED BY <3>2, <3>3
  <2> QED BY <1>3, <2>3, <2>4, <2>5, <2>6, Zenon DEF IInv, TypeOK
<1> QED BY <1>1, <1>5, <1>6

\* delete_job and the deletions by status alike.
LEMMA DeleteInv ==
  ASSUME IInv, NEW S, S \subseteq {j \in Jobs : status[j] \in Terminal}, DeleteRows(S),
         UNCHANGED <<node, dataset, alive, listening, notif, schedulerVars, workerVars>>
  PROVE  IInv'
<1>0. JobsTypeOK /\ SchedulerTypeOK /\ AttemptsInOrder /\ RetryListsAreSafe
  BY Zenon DEF IInv, TypeOK
<1>1. \A j \in Jobs : IF j \in S THEN status'[j] = "Deleted" /\ attempts'[j] = {}
                                 ELSE status'[j] = status[j] /\ attempts'[j] = attempts[j]
  BY Zenon DEF DeleteRows
<1>2. JobsTypeOK'
  BY <1>0 DEF DeleteRows, JobsTypeOK, NoRow
<1>3. TypeOK'
  BY <1>2 DEF IInv, TypeOK, ChannelTypeOK, SchedulerTypeOK, WorkerTypeOK, schedulerVars, workerVars
<1>4. LiveTaskIsActive' /\ AbortMeansStopping' /\ CurIsActive' /\ TodoIsOwn' /\ AbsentHasNoNode'
  BY <1>1, ControllerStatusStep DEF InProgress, Terminal
<1>5. AttemptsInOrder'
  <2>1. 0 \in 0 .. MaxRetries /\ {} = 0 .. (0 - 1)
    BY BoundsAssumption
  <2> QED BY <1>0, <1>1, <2>1, Zenon DEF AttemptsInOrder
<1>6. RetryListsAreSafe'
  <2>1. \A c \in Controllers : \A f \in retries[c] : f.job \in Jobs
    BY <1>0 DEF SchedulerTypeOK
  <2>2. \A j \in Jobs : attempts'[j] = attempts[j] => NextRetryIndex(j)' = NextRetryIndex(j)
    BY DEF NextRetryIndex
  <2>3. UNCHANGED retries
    BY DEF schedulerVars
  <2> QED BY <1>0, <1>1, <2>1, <2>2, <2>3 DEF RetryListsAreSafe
<1>7. NotifIsOwn' /\ TargetIsKnown'
  BY Zenon DEF IInv, NotifIsOwn, TargetIsKnown, schedulerVars
<1> QED BY <1>3, <1>4, <1>5, <1>6, <1>7, Zenon DEF IInv

LEMMA AbandonCallInv ==
  ASSUME IInv, NEW c \in Controllers, AbandonCall(c), UNCHANGED workerVars
  PROVE  IInv'
<1>0. SchedulerTypeOK /\ TargetIsKnown /\ RetryListsAreSafe
  BY Zenon DEF IInv, TypeOK
<1>1. UNCHANGED <<tableVars, stops>> /\ Goto(c, "idle", Null) /\ retries' = [retries EXCEPT ![c] = {}]
  BY DEF AbandonCall
<1>2. SchedulerTypeOK' /\ TargetIsKnown'
  BY <1>0, <1>1 DEF Goto, SchedulerTypeOK, TargetIsKnown, tableVars, jobVars
<1>3. RetryListsAreSafe'
  BY <1>0, <1>1, FewerRetries DEF SchedulerTypeOK, tableVars, jobVars
<1> QED BY <1>1, <1>2, <1>3, TablesFrame, Zenon DEF IInv, TypeOK

LEMMA SchedulerStepInv == IInv /\ SchedulerStep => IInv'
<1> SUFFICES ASSUME IInv, SchedulerNext, UNCHANGED workerVars PROVE IInv'
  BY DEF SchedulerStep
<1>1. ASSUME NEW c \in Controllers, NEW d \in Datasets, ScheduleCheck(c, d) PROVE IInv'
  BY <1>1, ScheduleCheckInv
<1>2. ASSUME NEW c \in Controllers, RegisterJob(c) PROVE IInv'
  BY <1>2, RegisterJobInv
<1>3. ASSUME NEW c \in Controllers, NotifyStart(c) PROVE IInv'
  BY <1>3, NotifyStartInv
<1>4. ASSUME NEW c \in Controllers, FetchFailedJobs(c) PROVE IInv'
  BY <1>4, FetchFailedJobsInv
<1>5. ASSUME NEW c \in Controllers, RetryJob(c) PROVE IInv'
  BY <1>5, RetryJobInv
<1>6. ASSUME NEW c \in Controllers, AbandonCall(c) PROVE IInv'
  BY <1>6, AbandonCallInv
<1>7. ASSUME NEW j \in Jobs, StopJob(j) PROVE IInv'
  BY <1>7, StopJobInv
<1>8. ASSUME NEW j \in Jobs, DeleteJob(j) PROVE IInv'
  <2>1. {j} \subseteq {i \in Jobs : status[i] \in Terminal}
    BY <1>8 DEF DeleteJob
  <2> QED BY <1>8, <2>1, DeleteInv DEF DeleteJob
<1>9. ASSUME NEW S \in {Terminal, {"Completed"}, {"Stopped"}, {"Failed"}}, DeleteJobsByStatus(S) PROVE IInv'
  <2>1. {j \in Jobs : status[j] \in S} \subseteq {i \in Jobs : status[i] \in Terminal}
    BY <1>9 DEF Terminal
  <2> QED BY <1>9, <2>1, DeleteInv DEF DeleteJobsByStatus
<1> QED
  BY <1>1, <1>2, <1>3, <1>4, <1>5, <1>6, <1>7, <1>8, <1>9 DEF SchedulerNext
=============================================================================
