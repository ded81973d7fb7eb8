------------------------ MODULE TransactionalStream -------------------------
(***************************************************************************)
(* The client's end of a streaming query: ProtocolStream (client.rs,       *)
(* validation.rs) tells data, watermarks and reorgs apart; the state actor *)
(* of TransactionalStream (transactional.rs) numbers them, keeps the       *)
(* buffer of watermarks and persists it through the StateStore, so that a  *)
(* new stream can resume after a crash.  One network, as a streaming query *)
(* of the server has one.                                                  *)
(*                                                                         *)
(* An action is what happens between two operations of the store, each of  *)
(* which is atomic; the process may crash, or the stream break, in between.*)
(***************************************************************************)
EXTENDS StreamingQuery

CONSTANTS
  Retention,   \* retention window in blocks
  MaxFaults,   \* bound: crashes and failed commits
  MaxId        \* bound: transaction ids

ASSUME ClientConstants == {Retention, MaxFaults, MaxId} \subseteq Nat

VARIABLES
  disk,       \* the StateStore: next, buffer
  mem,        \* StateContainer: next, buffer, uncommitted
  previous,   \* the ranges of the last response
  todo,       \* actions that the stream still executes for this response
  pc,         \* "down", "idle", or "advanced" between advance and the rest
  out,        \* the event that the consumer handles
  failed,     \* how the last stream ended
  applied,    \* the last event of this stream that the consumer handled
  faults

actorVars == <<disk, mem, previous, todo, pc, out, failed>>
clientVars == <<actorVars, applied, faults>>

NoId == -1
NoRange == [start |-> 0, prev_hash |-> None, hash |-> None]
NoEvent == [kind |-> "none"]
NoFailure == [kind |-> "none"]
Blank == [next |-> 0, buffer |-> <<>>, uncommitted |-> <<>>]

ClientInit ==
  /\ disk = [next |-> 0, buffer |-> <<>>]
  /\ mem = Blank /\ previous = NoRange /\ todo = <<>>
  /\ pc = "down" /\ out = NoEvent /\ failed = NoFailure
  /\ applied = NoId /\ faults = 0

\* The stream and its state in memory are gone, the server drops the query.
StreamEnds(failure) ==
  /\ StopQuery
  /\ mem' = Blank /\ previous' = NoRange /\ todo' = <<>>
  /\ pc' = "down" /\ out' = NoEvent /\ applied' = NoId
  /\ failed' = failure

-----------------------------------------------------------------------------
(* Creating a stream *)

LastRange(buffer) == IF buffer = <<>> THEN NoRange ELSE Last(buffer).range
LastId(buffer) == IF buffer = <<>> THEN NoId ELSE Last(buffer).id


NeedsRewind == disk.next > LastId(disk.buffer) + 1

Connect ==
  /\ pc = "down"
  /\ mem' = [Blank EXCEPT !.next = disk.next, !.buffer = disk.buffer]
  /\ previous' = LastRange(disk.buffer)
  /\ todo' = IF NeedsRewind THEN <<[kind |-> "rewind"]>> ELSE <<>>
  /\ StartQuery(LastRange(disk.buffer).hash)
  /\ pc' = "idle" /\ failed' = NoFailure
  /\ UNCHANGED <<disk, out, applied, faults>>

-----------------------------------------------------------------------------
(* Interpreting a response *)

validate_prev_hash(range) == (range.start = 0) <=> (range.prev_hash = None)

validate_consecutiveness(prev, range) ==
  \/ prev = NoRange
  \/ range = prev
  \/ range.start = End(prev) + 1 /\ range.prev_hash = prev.hash
  \/ range.start < End(prev) + 1 /\ range.prev_hash # prev.hash

\* A backwards jump is a reorg.
IsReorg(prev, range) == prev # NoRange /\ range # prev /\ range.start < End(prev) + 1

Interpret(prev, m) ==
  (IF IsReorg(prev, m.range) THEN <<[kind |-> "reorg", point |-> m.range.start]>> ELSE <<>>)
  \o <<[kind |-> IF m.complete THEN "watermark" ELSE "data", range |-> m.range, row |-> m.row]>>

Receive ==
  /\ pc = "idle" /\ todo = <<>> /\ out = NoEvent /\ wire # <<>>
  /\ LET m == Head(wire)
     IN  IF validate_prev_hash(m.range) /\ validate_consecutiveness(previous, m.range)
         THEN /\ todo' = Interpret(previous, m)
              /\ previous' = m.range
              /\ wire' = Tail(wire)
              /\ UNCHANGED <<chainVars, dirty, query, disk, mem, pc, out, failed, applied>>
         ELSE StreamEnds([kind |-> "validation"]) /\ UNCHANGED disk
  /\ UNCHANGED faults

-----------------------------------------------------------------------------
(* Executing an action *)

\* The last watermark, from the newest back, that a reorg at `point` leaves.
find_recovery_point(buffer, point) ==
  Max({0} \cup {i \in 1 .. Len(buffer) : buffer[i].range.start < point})

\* The id of the last of the oldest watermarks outside the retention window.
find_pruning_point(buffer) ==
  LET cutoff == Last(buffer).range.start - Retention
      outside == {i \in 1 .. Len(buffer) - 1 : \A j \in 1 .. i : End(buffer[j].range) < cutoff}
  IN  IF outside = {} THEN NoId ELSE buffer[Max(outside)].id

\* Variant: the next id stays in memory.
AdvanceInMemory ==
  /\ pc = "idle" /\ todo # <<>> /\ out = NoEvent /\ mem.next < MaxId
  /\ mem' = [mem EXCEPT !.next = @ + 1]
  /\ pc' = "advanced"
  /\ UNCHANGED <<serverVars, disk, previous, todo, out, failed, applied, faults>>

\* The next id is persisted first.
Advance ==
  /\ pc = "idle" /\ todo # <<>> /\ out = NoEvent /\ mem.next < MaxId
  /\ mem' = [mem EXCEPT !.next = @ + 1]
  /\ disk' = [disk EXCEPT !.next = mem.next + 1]
  /\ pc' = "advanced"
  /\ UNCHANGED <<serverVars, previous, todo, out, failed, applied, faults>>

\* What execute does with the id it allocated, up to handing out the event.
Emit(event) ==
  /\ out' = event /\ todo' = Tail(todo) /\ pc' = "idle"
  /\ UNCHANGED <<serverVars, previous, failed, applied>>

Undo(id, last) == [kind |-> "undo", id |-> id, from |-> last + 1, to |-> id - 1]

Rewind(id) ==
  /\ Head(todo).kind = "rewind"
  /\ Emit(Undo(id, LastId(mem.buffer)))
  /\ UNCHANGED <<mem, disk>>

Data(id) ==
  /\ Head(todo).kind = "data"
  /\ Emit([kind |-> "data", id |-> id, row |-> Head(todo).row])
  /\ UNCHANGED <<mem, disk>>

Watermark(id) ==
  /\ Head(todo).kind = "watermark"
  /\ LET buffer == Append(mem.buffer, [id |-> id, range |-> Head(todo).range])
         prune == find_pruning_point(buffer)
     IN  /\ mem' = [mem EXCEPT !.buffer = buffer,
                     !.uncommitted = Append(@, [id |-> id, range |-> Head(todo).range, prune |-> prune])]
         /\ Emit([kind |-> "watermark", id |-> id, hash |-> Head(todo).range.hash, prune |-> prune])
  /\ UNCHANGED disk


\* Watermarks up to an id; the store is truncated in the same way.
UpTo(seq, id) == SelectSeq(seq, LAMBDA w : w.id <= id)

ReorgUndo(id) ==
  /\ Head(todo).kind = "reorg"
  /\ LET point == Head(todo).point
         i == find_recovery_point(mem.buffer, point)
     IN  IF i = 0 /\ mem.buffer # <<>>
         THEN StreamEnds([kind |-> "unrecoverable"]) /\ UNCHANGED disk
         ELSE IF i > 0 /\ point <= End(mem.buffer[i].range)
         THEN StreamEnds([kind |-> "partial", point |-> point]) /\ UNCHANGED disk
         ELSE LET last == IF i = 0 THEN 0 ELSE mem.buffer[i].id
              IN  /\ mem' = [mem EXCEPT !.buffer = UpTo(@, last), !.uncommitted = UpTo(@, last)]
                  /\ disk' = [disk EXCEPT !.buffer = UpTo(@, last)]
                  /\ Emit(Undo(id, IF i = 0 THEN NoId ELSE last))

Execute ==
  /\ pc = "advanced"
  /\ LET id == mem.next - 1
     IN  Rewind(id) \/ Data(id) \/ Watermark(id) \/ ReorgUndo(id)
  /\ UNCHANGED faults

-----------------------------------------------------------------------------
(* Committing *)

\* The watermarks after an id.
After(seq, id) == SelectSeq(seq, LAMBDA w : w.id > id)

Entry(w) == [id |-> w.id, range |-> w.range]

\* The largest pruning point among the first n pending commits.
PruneOf(n) == Max({mem.uncommitted[i].prune : i \in 1 .. n})

\* A handle of an event that the consumer has handled, at or after the n-th
\* uncommitted watermark and before the next one.
MayCommit(n) == pc # "down" /\ mem.uncommitted[n].id <= applied

Commit(n) ==
  /\ MayCommit(n)
  /\ LET inserts == [i \in 1 .. n |-> Entry(mem.uncommitted[i])]
     IN  disk' = [disk EXCEPT !.buffer = After(@ \o inserts, PruneOf(n))]
  /\ mem' = [mem EXCEPT !.buffer = After(@, PruneOf(n)),
                        !.uncommitted = SubSeq(@, n + 1, Len(@))]
  /\ UNCHANGED <<serverVars, previous, todo, pc, out, failed, applied, faults>>

\* The store returns an error after the buffer in memory is pruned; the pending
\* commits stay and the consumer may commit again.
CommitFails(n) ==
  /\ MayCommit(n) /\ faults < MaxFaults
  /\ mem' = [mem EXCEPT !.buffer = After(@, PruneOf(n))]
  /\ faults' = faults + 1
  /\ UNCHANGED <<serverVars, disk, previous, todo, pc, out, failed, applied>>

\* The process crashes, the connection breaks or the store fails: whatever was
\* in memory is gone and the consumer creates a new stream from the store.
Crash ==
  /\ pc # "down" /\ faults < MaxFaults
  /\ StreamEnds([kind |-> "crash"])
  /\ faults' = faults + 1
  /\ UNCHANGED disk

StreamStep == Connect \/ Receive \/ Advance \/ Execute

CommitStep == \E n \in 1 .. Len(mem.uncommitted) : Commit(n) \/ CommitFails(n)

-----------------------------------------------------------------------------
Ids(seq) == {seq[i].id : i \in 1 .. Len(seq)}

BufferOK(seq) ==
  \A i \in 1 .. Len(seq) : seq[i].id \in Nat /\ seq[i].range \in Ranges

ClientTypeOK ==
  /\ disk.next \in Nat /\ BufferOK(disk.buffer)
  /\ mem.next \in Nat /\ BufferOK(mem.buffer) /\ BufferOK(mem.uncommitted)
  /\ \A i \in 1 .. Len(mem.uncommitted) : mem.uncommitted[i].prune \in Nat \cup {NoId}
  /\ previous \in Ranges \cup {NoRange}
  /\ pc \in {"down", "idle", "advanced"}
  /\ out.kind \in {"none", "undo", "data", "watermark"}
  /\ out # NoEvent => out.id \in Nat
  /\ failed.kind \in {"none", "crash", "validation", "unrecoverable", "partial"}
  /\ applied \in Nat \cup {NoId} /\ faults \in 0 .. MaxFaults
=============================================================================
