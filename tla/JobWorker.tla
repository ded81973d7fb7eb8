----------------------------- MODULE JobWorker -----------------------------
(***************************************************************************)
(* The worker service (crates/services/worker): one task per node runs the *)
(* bootstrap and then the main loop; the jobs it spawns run concurrently   *)
(* with it.  The advisory lock on the node id allows one worker per node.  *)
(*                                                                         *)
(* The handlers of the loop are cut at their database statements: between  *)
(* two of them the controller and the jobs make progress, and what the     *)
(* handler has read may be stale.  An error of any handler ends the worker *)
(* and, with it, every job of its set.                                     *)
(***************************************************************************)
EXTENDS JobsTable

CONSTANT MaxCrashes  \* bound: crashes and failed job initialisations

ASSUME CrashesAssumption == MaxCrashes \in Nat

VARIABLES
  pc,      \* where the worker stands
  todo,    \* jobs read from the queue that the current handler goes through
  cur,     \* the job the current handler is in the middle of
  res,     \* the result of cur, once joined
  retry,   \* the retry index read for cur
  tasks,   \* the job set: the state of the task of each job, or "none"
  crashes  \* crashes and failed initialisations so far

workerVars == <<pc, todo, cur, res, retry, tasks, crashes>>

\* "exited": the worker returned an error because of a refused status update.
Stopped == {"down", "exited"}

InLoop(n) == pc[n] = "loop" /\ todo[n] = {}

HasTask(n, j) == tasks[n][j] # "none"

SetPc(n, label) == pc' = [pc EXCEPT ![n] = label]

SetTask(n, j, s) == tasks' = [tasks EXCEPT ![n][j] = s]

WorkerInit ==
  /\ pc = [n \in Nodes |-> "down"]
  /\ todo = [n \in Nodes |-> {}]
  /\ cur = [n \in Nodes |-> Null]
  /\ res = [n \in Nodes |-> Null]
  /\ retry = [n \in Nodes |-> 0]
  /\ tasks = [n \in Nodes |-> [j \in Jobs |-> "none"]]
  /\ crashes = 0

\* The process is gone: its jobs, its session and what was sent to it are lost.
Exit(n, why) ==
  /\ SetPc(n, why)
  /\ todo' = [todo EXCEPT ![n] = {}]
  /\ cur' = [cur EXCEPT ![n] = Null]
  /\ res' = [res EXCEPT ![n] = Null]
  /\ retry' = [retry EXCEPT ![n] = 0]
  /\ tasks' = [tasks EXCEPT ![n] = [j \in Jobs |-> "none"]]
  /\ listening' = listening \ {n}
  /\ notif' = [notif EXCEPT ![n] = <<>>]

\* A conditional status update was refused: its error ends the worker.
ConflictExit(n) == Exit(n, "exited") /\ UNCHANGED <<jobVars, alive, crashes>>

-----------------------------------------------------------------------------
(* Start: register and heartbeat, LISTEN, fetch the jobs to resume *)

RegisterWorker(n) ==
  /\ pc[n] \in Stopped
  /\ SetPc(n, "registered")
  /\ alive' = alive \cup {n}
  /\ UNCHANGED <<jobVars, listening, notif, todo, cur, res, retry, tasks, crashes>>

ListenForJobs(n) ==
  /\ pc[n] = "registered"
  /\ SetPc(n, "listening")
  /\ listening' = listening \cup {n}
  /\ UNCHANGED <<jobVars, alive, notif, todo, cur, res, retry, tasks, crashes>>

\* A job of todo, with the status it was read with and what is to be done.
Fetched(S, op) == {[job |-> j, seen |-> status[j], op |-> op] : j \in S}

Bootstrap(n) ==
  /\ pc[n] = "listening"
  /\ SetPc(n, "loop")
  /\ todo' = [todo EXCEPT ![n] = Fetched(GetScheduled(n), "spawn")]
  /\ UNCHANGED <<tableVars, cur, res, retry, tasks, crashes>>

-----------------------------------------------------------------------------
(* spawn_job and abort_job *)

\* A job that is in the set is skipped, whatever its status; otherwise it is
\* marked running, unless it was read as running.
SpawnJob(n, e) ==
  /\ pc[n] = "loop" /\ e.op = "spawn"
  /\ \/ /\ HasTask(n, e.job)
        /\ todo' = [todo EXCEPT ![n] = @ \ {e}]
        /\ UNCHANGED <<tableVars, pc, cur, res, retry, tasks, crashes>>
     \/ /\ ~HasTask(n, e.job)
        /\ \/ e.seen = "Running" /\ UNCHANGED status
           \/ e.seen # "Running" /\ status[e.job] \in MarkRunningFrom /\ SetStatus(e.job, "Running")
        /\ SetPc(n, "init")
        /\ cur' = [cur EXCEPT ![n] = e.job]
        /\ todo' = [todo EXCEPT ![n] = @ \ {e}]
        /\ UNCHANGED <<node, dataset, attempts, completed, writer, alive, listening, notif, res, retry, tasks, crashes>>
     \/ /\ ~HasTask(n, e.job) /\ e.seen # "Running" /\ status[e.job] \notin MarkRunningFrom
        /\ ConflictExit(n)

\* The rest of spawn_job: job_impl::new becomes the writer of the dataset's
\* tables, and the job joins the set; an error of it ends the worker.
InitJob(n) ==
  /\ pc[n] = "init"
  /\ AssignJobWriter(cur[n])
  /\ SetTask(n, cur[n], "running")
  /\ SetPc(n, "loop")
  /\ cur' = [cur EXCEPT ![n] = Null]
  /\ UNCHANGED <<status, node, dataset, attempts, completed, alive, listening, notif, todo, res, retry, crashes>>

InitJobFails(n) ==
  /\ pc[n] = "init" /\ crashes < MaxCrashes
  /\ Exit(n, "down")
  /\ crashes' = crashes + 1
  /\ UNCHANGED <<jobVars, alive>>

\* Variant: the job is marked stopped before its task has ended.
StopTaskAtOnce(n, j) ==
  /\ status[j] \in MarkStoppingFrom
  /\ SetStatus(j, "Stopped")
  /\ tasks' = [tasks EXCEPT ![n][j] = IF @ = "running" THEN "aborting" ELSE @]
  /\ UNCHANGED <<node, dataset, attempts, completed, writer, alive, listening, pc, cur, res, retry, crashes>>

\* Variant: the task is aborted and the job not marked.
StopTaskUnmarked(n, j) ==
  /\ status[j] \in MarkStoppingFrom
  /\ tasks' = [tasks EXCEPT ![n][j] = IF @ = "running" THEN "aborting" ELSE @]
  /\ UNCHANGED <<jobVars, alive, listening, pc, cur, res, retry, crashes>>

\* mark_job_stopping, then abort: no effect on a job that is not in the set,
\* or that has ended.
StopTask(n, j) ==
  /\ status[j] \in MarkStoppingFrom
  /\ SetStatus(j, "Stopping")
  /\ tasks' = [tasks EXCEPT ![n][j] = IF @ = "running" THEN "aborting" ELSE @]
  /\ UNCHANGED <<node, dataset, attempts, completed, writer, alive, listening, pc, cur, res, retry, crashes>>

AbortJob(n, e) ==
  /\ pc[n] = "loop" /\ e.op = "abort"
  /\ \/ StopTask(n, e.job) /\ todo' = [todo EXCEPT ![n] = @ \ {e}] /\ UNCHANGED notif
     \/ status[e.job] \notin MarkStoppingFrom /\ ConflictExit(n)

-----------------------------------------------------------------------------
(* The arms of the main loop.  The select is biased towards notifications,  *)
(* but when one arrives is not the worker's choice: any arm may be next.    *)

\* Start: load the job; a job that is gone is ignored.
HandleStart(n) ==
  /\ InLoop(n) /\ notif[n] # <<>> /\ Head(notif[n]).action = "Start"
  /\ notif' = [notif EXCEPT ![n] = Tail(@)]
  /\ todo' = [todo EXCEPT ![n] = Fetched({j \in Jobs : j = Head(notif[n]).job /\ status[j] \notin NoRow}, "spawn")]
  /\ UNCHANGED <<jobVars, alive, listening, pc, cur, res, retry, tasks, crashes>>

HandleStop(n) ==
  /\ InLoop(n) /\ notif[n] # <<>> /\ Head(notif[n]).action = "Stop"
  /\ LET j == Head(notif[n]).job IN
     \/ StopTask(n, j) /\ notif' = [notif EXCEPT ![n] = Tail(@)] /\ UNCHANGED todo
     \/ status[j] \notin MarkStoppingFrom /\ ConflictExit(n)

Reconcile(n) ==
  /\ InLoop(n)
  /\ todo' = [todo EXCEPT ![n] =
                  LET stop == {j \in GetActive(n) : status[j] = "StopRequested"} IN
                  Fetched(stop, "abort") \cup Fetched(GetActive(n) \ stop, "spawn")]
  /\ UNCHANGED <<tableVars, pc, cur, res, retry, tasks, crashes>>

\* Variant: the job stays in the set.
JoinNextKeepsTask(n, j) ==
  /\ InLoop(n) /\ tasks[n][j] \in {"ok", "failed", "aborted"}
  /\ cur' = [cur EXCEPT ![n] = j]
  /\ res' = [res EXCEPT ![n] = tasks[n][j]]
  /\ retry' = [retry EXCEPT ![n] = CurrentRetryIndex(j)]
  /\ SetPc(n, "update")
  /\ UNCHANGED <<tableVars, todo, tasks, crashes>>

\* A job has ended: it leaves the set, and its retry index is read.
JoinNext(n, j) ==
  /\ InLoop(n) /\ tasks[n][j] \in {"ok", "failed", "aborted"}
  /\ SetTask(n, j, "none")
  /\ cur' = [cur EXCEPT ![n] = j]
  /\ res' = [res EXCEPT ![n] = tasks[n][j]]
  /\ retry' = [retry EXCEPT ![n] = CurrentRetryIndex(j)]
  /\ SetPc(n, "update")
  /\ UNCHANGED <<tableVars, todo, crashes>>

\* The conditional update that each result calls for.
ResultUpdate(r) ==
  CASE r = "ok"      -> [from |-> MarkCompletedFrom, to |-> "Completed"]
    [] r = "failed"  -> [from |-> MarkFailedFrom, to |-> "Failed"]
    [] r = "aborted" -> [from |-> MarkStoppedFrom, to |-> "Stopped"]

UpdateStatus(n) ==
  /\ pc[n] = "update"
  /\ LET u == ResultUpdate(res[n]) IN
     \/ /\ status[cur[n]] \in u.from
        /\ SetStatus(cur[n], u.to)
        /\ SetPc(n, "attempt")
        /\ UNCHANGED <<node, dataset, attempts, completed, writer, alive, listening, notif, todo, cur, res, retry, tasks, crashes>>
     \/ status[cur[n]] \notin u.from /\ ConflictExit(n)

CompleteAttempt(n) ==
  /\ pc[n] = "attempt"
  /\ MarkAttemptCompleted(cur[n], retry[n])
  /\ SetPc(n, "loop")
  /\ cur' = [cur EXCEPT ![n] = Null]
  /\ res' = [res EXCEPT ![n] = Null]
  /\ retry' = [retry EXCEPT ![n] = 0]
  /\ UNCHANGED <<status, node, dataset, attempts, writer, alive, listening, notif, todo, tasks, crashes>>

-----------------------------------------------------------------------------
(* The jobs, and failures *)

\* A task ends by itself, with an error or a panic, or by its abort.
TaskEnds(n, j) ==
  /\ tasks[n][j] \in {"running", "aborting"}
  /\ \E r \in {"ok", "failed", "aborted"} :
       /\ r = "aborted" => tasks[n][j] = "aborting"
       /\ SetTask(n, j, r)
  /\ UNCHANGED <<tableVars, pc, todo, cur, res, retry, crashes>>

\* The process dies, its heartbeat fails, or a statement fails for good.
Crash(n) ==
  /\ pc[n] \notin Stopped /\ crashes < MaxCrashes
  /\ Exit(n, "down")
  /\ crashes' = crashes + 1
  /\ UNCHANGED <<jobVars, alive>>

HeartbeatExpires(n) ==
  /\ pc[n] \in Stopped /\ n \in alive
  /\ alive' = alive \ {n}
  /\ UNCHANGED <<jobVars, listening, notif, workerVars>>

\* The listener's connection is replaced: what it had not received is lost.
LoseNotification(n) ==
  /\ notif[n] # <<>>
  /\ notif' = [notif EXCEPT ![n] = Tail(@)]
  /\ UNCHANGED <<jobVars, alive, listening, workerVars>>

WorkerNext ==
  \E n \in Nodes :
    \/ RegisterWorker(n) \/ ListenForJobs(n) \/ Bootstrap(n)
    \/ \E e \in todo[n] : SpawnJob(n, e) \/ AbortJob(n, e)
    \/ InitJob(n) \/ InitJobFails(n)
    \/ HandleStart(n) \/ HandleStop(n) \/ Reconcile(n)
    \/ \E j \in Jobs : JoinNext(n, j) \/ TaskEnds(n, j)
    \/ UpdateStatus(n) \/ CompleteAttempt(n)
    \/ Crash(n) \/ HeartbeatExpires(n) \/ LoseNotification(n)

-----------------------------------------------------------------------------
TaskState == {"none", "running", "aborting", "ok", "failed", "aborted"}

Results == {"ok", "failed", "aborted"}

WorkerState == Stopped \cup {"registered", "listening", "loop", "init", "update", "attempt"}

WorkerTypeOK ==
  /\ pc \in [Nodes -> WorkerState]
  /\ todo \in [Nodes -> SUBSET [job : Jobs, seen : JobStatus, op : {"spawn", "abort"}]]
  /\ cur \in [Nodes -> Jobs \cup {Null}]
  /\ res \in [Nodes -> Results \cup {Null}]
  /\ retry \in [Nodes -> Nat]
  /\ tasks \in [Nodes -> [Jobs -> TaskState]]
  /\ crashes \in 0 .. MaxCrashes
=============================================================================
