---------------------------- MODULE TableStorage ----------------------------
(***************************************************************************)
(* The files of one raw table: objects in the store, rows of file_metadata *)
(* and of gc_manifest in the metadata database, and those who change them: *)
(*   - the dump job (raw_dataset.rs): consistency check, then rounds that  *)
(*     extract the missing ranges;                                         *)
(*   - the background task of its AmpCompactor (compaction.rs): compaction *)
(*     of groups of canonical segments, then garbage collection;           *)
(*   - queries, which read the objects of a snapshot.                      *)
(* Store and database are two systems, so that every operation on one of   *)
(* them is a step of its own.  A file's id is its place in `files`: the    *)
(* order in which the objects were written.                                *)
(***************************************************************************)
EXTENDS Network, Segments

CONSTANTS
  Tasks,         \* background tasks that may run at one time
  MaxWriters,    \* max_writers: partitions of a round that write in parallel
  MaxFiles,      \* bound: files ever written
  MaxCrashes,    \* bound: crashes of the process
  MaxAborts      \* bound: jobs that end while their process goes on

ASSUME StorageConstants == {MaxWriters, MaxFiles, MaxCrashes, MaxAborts} \subseteq Nat

VARIABLES
  files,     \* every file ever written, as a segment
  objects,   \* ids of the files in the object store
  rows,      \* ids of the files in file_metadata
  locked,    \* ids in gc_manifest before their expiration
  expired,   \* ids in gc_manifest after it
  job,       \* the dump job
  task,      \* the background tasks
  query,     \* a query: the files of its snapshot, and those scheduled since
  faults     \* crashes and aborts so far

fileVars == <<files, objects, rows, locked, expired>>
vars == <<networkVars, fileVars, job, task, query, faults>>

NoJob == [pc |-> "off", registered |-> {}, stored |-> {}, todo |-> {}, pending |-> {}, task |-> "none"]
NoTask == [pc |-> "done", groups |-> {}, ids |-> {}]
NoQuery == [on |-> FALSE, snap |-> {}, since |-> {}]

Init ==
  /\ NetworkInit
  /\ files = <<>> /\ objects = {} /\ rows = {} /\ locked = {} /\ expired = {}
  /\ job = NoJob /\ task = [t \in Tasks |-> NoTask] /\ query = NoQuery
  /\ faults = [crash |-> 0, abort |-> 0]

-----------------------------------------------------------------------------
(* What the metadata database says of the table *)

segments(ids) == SelectSeq(files, LAMBDA s : s.id \in ids)

\* The canonical chain, none while its start is after the dataset's.
canonical(ids) ==
  LET c == canonical_chain(segments(ids))
  IN  IF c # <<>> /\ ChainStart(c) > 0 THEN <<>> ELSE c

Ids(c) == {s.id : s \in Range(c)}

\* The hash of the last canonical block, and so the table's content.
Tip(ids) == LET c == canonical(ids) IN IF c = <<>> THEN None ELSE Last(c).hash

WriteFile(start, hash) ==
  /\ Len(files) < MaxFiles
  /\ files' = Append(files, Segment(Len(files) + 1, start, hash, Len(files) + 1))
  /\ objects' = objects \cup {Len(files) + 1}

\* Entries of gc_manifest for those of the files that still have a row.  What
\* a query has open at that time, the duration of the lock protects.
Lock(ids) ==
  /\ locked' = locked \cup ids
  /\ query' = IF query.on THEN [query EXCEPT !.since = @ \cup ids] ELSE query


\* ON CONFLICT DO UPDATE: an entry gets a new expiration.
upsert_gc_manifest(ids) ==
  Lock(ids \cap rows) /\ expired' = expired \ ids

\* ON CONFLICT DO NOTHING: an entry keeps its expiration.
schedule_gc_manifest(ids) ==
  Lock((ids \cap rows) \ (locked \cup expired)) /\ UNCHANGED expired

-----------------------------------------------------------------------------
(* The dump job *)

\* A job begins, with a background task of its own.  Its consistency check first
\* reads the registered files ...
StartJob ==
  /\ job.pc = "off"
  /\ \E t \in Tasks :
       /\ task[t].pc \in {"done", "failed"}
       /\ task' = [task EXCEPT ![t] = NoTask]
       /\ job' = [NoJob EXCEPT !.pc = "list", !.registered = rows, !.task = t]
  /\ UNCHANGED <<networkVars, fileVars, query, faults>>

\* ... then lists the store ...
ListStore ==
  /\ job.pc = "list"
  /\ job' = [job EXCEPT !.pc = "check", !.stored = objects]
  /\ UNCHANGED <<networkVars, fileVars, task, query, faults>>

\* Variant: nothing is deleted.
OrphansNone == {}

\* Files in the listing that were not registered.
Orphans == job.stored \ job.registered

\* ... deletes the orphans, and fails if a registered file was not listed.
DeleteOrphans ==
  /\ job.pc = "check"
  /\ objects' = objects \ Orphans
  /\ job' = IF job.registered \subseteq job.stored
            THEN [NoJob EXCEPT !.pc = "plan", !.task = job.task]
            ELSE NoJob
  /\ UNCHANGED <<networkVars, files, rows, locked, expired, task, query, faults>>

\* A round of the dump loop: the ranges missing up to the latest block.
PlanRound ==
  /\ job.pc = "plan" /\ chain # <<>>
  /\ LET missing == missing_ranges(segments(rows), <<0, Len(chain) - 1>>)
     IN  /\ missing # <<>>
         /\ job' = [job EXCEPT !.pc = "write", !.todo = Range(missing)]
  /\ UNCHANGED <<networkVars, fileVars, task, query, faults>>

\* Closing a file starts the background task again if it has finished, and
\* fails if that task had failed.
SpawnTask(t) ==
  task' = [task EXCEPT ![t] = IF @.pc = "done" THEN [NoTask EXCEPT !.pc = "compact"] ELSE @]

\* A writer streams blocks of a range and closes a file: at the end of the
\* range, at the size limit, or where the network's chain turned to another
\* fork.  The rest of the range follows when the file is registered.
WriteSegment(r, end) ==
  /\ job.pc = "write" /\ r \in job.todo /\ end \in r[1] .. r[2] /\ end < Len(chain)
  /\ Cardinality(job.pending) < MaxWriters
  /\ WriteFile(r[1], SubSeq(chain, 1, end + 1))
  /\ IF task[job.task].pc = "failed"
     THEN job' = NoJob /\ UNCHANGED task
     ELSE /\ job' = [job EXCEPT !.todo = @ \ {r},
                                !.pending = @ \cup {[file |-> Len(files) + 1, rest |-> <<end + 1, r[2]>>]}]
          /\ SpawnTask(job.task)
  /\ UNCHANGED <<networkVars, rows, locked, expired, query, faults>>

\* Registers a closed file.
CommitMetadata(p) ==
  /\ job.pc = "write" /\ p \in job.pending
  /\ rows' = rows \cup {p.file}
  /\ job' = [job EXCEPT !.pending = @ \ {p},
                        !.todo = @ \cup IF p.rest[1] <= p.rest[2] THEN {p.rest} ELSE {}]
  /\ UNCHANGED <<networkVars, files, objects, locked, expired, task, query, faults>>

EndRound ==
  /\ job.pc = "write" /\ job.todo = {} /\ job.pending = {}
  /\ job' = [job EXCEPT !.pc = "plan"]
  /\ UNCHANGED <<networkVars, fileVars, task, query, faults>>

-----------------------------------------------------------------------------
(* Compaction *)

At(t, pc) == task[t].pc = pc
Goto(t, pc) == task' = [task EXCEPT ![t].pc = pc]

\* The files <<i, j>> of a chain merge into one.
Group(c, i, j) ==
  [parents |-> {c[k].id : k \in i .. j}, start |-> c[i].start, hash |-> c[j].hash, out |-> 0,
   committed |-> FALSE]

\* A plan: disjoint groups of at least two consecutive canonical segments.
\* Which ones, if any, the sizes, ages and generations of the files decide.
Plans(c) ==
  {P \in SUBSET {<<i, j>> \in (1 .. Len(c)) \X (1 .. Len(c)) : i < j} :
     \A p, q \in P : p = q \/ p[2] < q[1] \/ q[2] < p[1]}

PlanCompaction(t) ==
  /\ At(t, "compact")
  /\ LET c == canonical(rows)
     IN  \E P \in Plans(c) :
           task' = [task EXCEPT ![t].pc = "groups", ![t].groups = {Group(c, p[1], p[2]) : p \in P}]
  /\ UNCHANGED <<networkVars, fileVars, job, query, faults>>

Update(t, g, h) == task' = [task EXCEPT ![t].groups = (@ \ {g}) \cup {h}]
Drop(t, g) == task' = [task EXCEPT ![t].groups = @ \ {g}]

\* Reads the parents and writes the merged file ...
WriteGroup(t, g) ==
  /\ At(t, "groups") /\ g.out = 0
  /\ IF g.parents \subseteq objects
     THEN WriteFile(g.start, g.hash) /\ Update(t, g, [g EXCEPT !.out = Len(files) + 1])
     ELSE Drop(t, g) /\ UNCHANGED <<files, objects>>
  /\ UNCHANGED <<networkVars, rows, locked, expired, job, query, faults>>

\* ... registers it ...
CommitGroup(t, g) ==
  /\ At(t, "groups") /\ g.out # 0 /\ ~g.committed
  /\ rows' = rows \cup {g.out}
  /\ Update(t, g, [g EXCEPT !.committed = TRUE])
  /\ UNCHANGED <<networkVars, files, objects, locked, expired, job, query, faults>>

\* ... and schedules the parents for collection.
ScheduleParents(t, g) ==
  /\ At(t, "groups") /\ g.committed
  /\ upsert_gc_manifest(g.parents)
  /\ Drop(t, g)
  /\ UNCHANGED <<networkVars, files, objects, rows, job, faults>>

FinishCompaction(t) ==
  /\ At(t, "groups") /\ task[t].groups = {}
  /\ \E pc \in {"collect", "done"} : Goto(t, pc)
  /\ UNCHANGED <<networkVars, fileVars, job, query, faults>>

-----------------------------------------------------------------------------
(* Garbage collection *)

FindSuperseded(t) ==
  /\ At(t, "collect")
  /\ task' = [task EXCEPT ![t].pc = "schedule",
                          ![t].ids = {s.id : s \in IF rows = {} THEN {} ELSE reclaimable_segments(segments(rows))}]
  /\ UNCHANGED <<networkVars, fileVars, job, query, faults>>

ScheduleSuperseded(t) ==
  /\ At(t, "schedule")
  /\ schedule_gc_manifest(task[t].ids)
  /\ Goto(t, "expired")
  /\ UNCHANGED <<networkVars, files, objects, rows, job, faults>>

FindExpired(t) ==
  /\ At(t, "expired")
  /\ task' = [task EXCEPT ![t] = IF expired = {} THEN NoTask ELSE [@ EXCEPT !.pc = "rows", !.ids = expired]]
  /\ UNCHANGED <<networkVars, fileVars, job, query, faults>>

\* Variant: the entries of gc_manifest stay.
DeleteRowsOnly(t) ==
  /\ At(t, "rows")
  /\ rows' = rows \ task[t].ids
  /\ task' = [task EXCEPT ![t].pc = "objects", ![t].ids = @ \cap rows]
  /\ UNCHANGED <<networkVars, files, objects, locked, expired, job, query, faults>>

\* Variant: the objects are deleted while the rows are still there.
DeleteObjectsFirst(t) ==
  /\ At(t, "rows")
  /\ objects' = objects \ task[t].ids
  /\ Goto(t, "objects")
  /\ UNCHANGED <<networkVars, files, rows, locked, expired, job, query, faults>>

\* Deleting a row deletes its entry in gc_manifest.
DeleteRows(t) ==
  /\ At(t, "rows")
  /\ rows' = rows \ task[t].ids
  /\ locked' = locked \ task[t].ids /\ expired' = expired \ task[t].ids
  /\ task' = [task EXCEPT ![t].pc = "objects", ![t].ids = @ \cap rows]
  /\ UNCHANGED <<networkVars, files, objects, job, query, faults>>

DeleteObjects(t) ==
  /\ At(t, "objects")
  /\ objects' = objects \ task[t].ids
  /\ task' = [task EXCEPT ![t] = NoTask]
  /\ UNCHANGED <<networkVars, files, rows, locked, expired, job, query, faults>>

\* The store fails: the job will fail when it next closes a file.
CollectionFails(t) ==
  /\ At(t, "objects") /\ faults.abort < MaxAborts
  /\ \E gone \in SUBSET task[t].ids : objects' = objects \ gone
  /\ task' = [task EXCEPT ![t] = [NoTask EXCEPT !.pc = "failed"]]
  /\ faults' = [faults EXCEPT !.abort = @ + 1]
  /\ UNCHANGED <<networkVars, files, rows, locked, expired, job, query>>

\* The lock of a file ends; queries are taken to end before the locks of the
\* files that were scheduled after they began.
Expire(f) ==
  /\ f \in locked /\ ~(query.on /\ f \in query.since)
  /\ locked' = locked \ {f} /\ expired' = expired \cup {f}
  /\ UNCHANGED <<networkVars, files, objects, rows, job, task, query, faults>>

-----------------------------------------------------------------------------
(* Queries and faults *)

OpenQuery ==
  /\ ~query.on /\ canonical(rows) # <<>>
  /\ query' = [on |-> TRUE, snap |-> Ids(canonical(rows)), since |-> {}]
  /\ UNCHANGED <<networkVars, fileVars, job, task, faults>>

CloseQuery ==
  /\ query.on /\ query' = NoQuery
  /\ UNCHANGED <<networkVars, fileVars, job, task, faults>>

\* The process of the job dies, and its tasks with it.
Crash ==
  /\ faults.crash < MaxCrashes
  /\ job' = NoJob /\ task' = [t \in Tasks |-> NoTask]
  /\ faults' = [faults EXCEPT !.crash = @ + 1]
  /\ UNCHANGED <<networkVars, fileVars, query>>

\* The job is stopped or fails.  Its background task was spawned on its own:
\* dropping its handle does not stop it.
AbortJob ==
  /\ job.pc # "off" /\ faults.abort < MaxAborts
  /\ job' = NoJob
  /\ faults' = [faults EXCEPT !.abort = @ + 1]
  /\ UNCHANGED <<networkVars, fileVars, task, query>>

-----------------------------------------------------------------------------
ChainNext == NetworkNext /\ UNCHANGED <<fileVars, job, task, query, faults>>

JobNext ==
  \/ StartJob \/ ListStore \/ DeleteOrphans \/ PlanRound \/ EndRound
  \/ \E r \in job.todo : \E end \in r[1] .. r[2] : WriteSegment(r, end)
  \/ \E p \in job.pending : CommitMetadata(p)

TaskNext(t) ==
  \/ PlanCompaction(t) \/ FinishCompaction(t)
  \/ \E g \in task[t].groups : WriteGroup(t, g) \/ CommitGroup(t, g) \/ ScheduleParents(t, g)
  \/ FindSuperseded(t) \/ ScheduleSuperseded(t) \/ FindExpired(t) \/ DeleteRows(t) \/ DeleteObjects(t)

Next ==
  \/ ChainNext \/ JobNext
  \/ \E t \in Tasks : TaskNext(t) \/ CollectionFails(t)
  \/ \E f \in locked : Expire(f)
  \/ OpenQuery \/ CloseQuery \/ Crash \/ AbortJob

Spec == Init /\ [][Next]_vars

-----------------------------------------------------------------------------
AllIds == 1 .. MaxFiles

\* Every set of files, program counter and group has its type, and the manifest
\* only lists files that are registered.
TypeOK ==
  /\ NetworkTypeOK
  /\ \A i \in DOMAIN files : files[i].id = i /\ files[i].hash \in Hashes /\ files[i].start \in 0 .. EndOf(files[i])
  /\ objects \subseteq DOMAIN files /\ rows \subseteq DOMAIN files
  /\ locked \subseteq rows /\ expired \subseteq rows /\ locked \cap expired = {}
  /\ job.pc \in {"off", "list", "check", "plan", "write"} /\ job.task \in Tasks \cup {"none"}
  /\ \A t \in Tasks :
       /\ task[t].pc \in {"done", "failed", "compact", "groups", "collect", "schedule", "expired", "rows", "objects"}
       /\ task[t].ids \subseteq AllIds
       /\ \A g \in task[t].groups : g.parents \subseteq AllIds /\ g.out \in AllIds \cup {0}
  /\ query.snap \subseteq AllIds /\ query.since \subseteq AllIds

\* "Verifies all metadata DB entries have corresponding files in object store":
\* every registered file is in the store.
RegisteredFilesExist == rows \subseteq objects


\* The collector deletes no file that the table's content depends on: a file
\* that it collects "can be deleted without data loss".
CollectionIsLossless == [][rows' \subseteq rows => Tip(rows') = Tip(rows)]_vars


\* The dump loop only waits for new blocks when the table is as high as the
\* network's chain: no gap and no unresolved reorg makes it sleep.
SleepsOnlyWhenCaughtUp ==
  job.pc = "plan" /\ chain # <<>> /\ missing_ranges(segments(rows), <<0, Len(chain) - 1>>) = <<>>
    => Len(Tip(rows)) >= Len(chain)

\* The check at the start of a job leaves neither orphans nor rows without a
\* file behind, whatever a crash interrupted before.
CheckRestoresConsistency ==
  [][job.pc = "check" /\ job'.pc = "plan" => objects' = rows']_vars

=============================================================================
