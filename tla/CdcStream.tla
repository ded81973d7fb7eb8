----------------------------- MODULE CdcStream ------------------------------
(***************************************************************************)
(* The CDC stream (client/src/cdc.rs): a transactional stream whose Data   *)
(* events are stored in a BatchStore and forwarded as Insert events, and   *)
(* whose Undo events become Delete events with the stored batches.  It     *)
(* handles watermarks itself, so that the consumer gets no commit handle   *)
(* for them and commits a watermark with the next Insert or Delete.        *)
(***************************************************************************)
EXTENDS TransactionalStream, FiniteSets

VARIABLES
  batches,   \* the BatchStore: [id, row]
  cdc,       \* the CdcEvent that the consumer handles
  rows       \* the rows of the downstream system: [id, row]

cdcVars == <<batches, cdc, rows>>
vars == <<serverVars, clientVars, cdcVars>>

Init == ServerInit /\ ClientInit /\ batches = {} /\ cdc = NoEvent /\ rows = {}

Batch(id, row) == [id |-> id, row |-> row]


\* BatchStore::seek
Stored(from, to) == {b.id : b \in batches} \cap (from .. to)

Taken == out' = NoEvent /\ UNCHANGED <<serverVars, disk, mem, previous, todo, pc, failed, applied, faults>>


\* A batch is stored before its Insert event is emitted.
HandleData ==
  /\ out.kind = "data"
  /\ batches' = batches \cup {Batch(out.id, out.row)}
  /\ cdc' = [kind |-> "insert", id |-> out.id, row |-> out.row]
  /\ Taken /\ UNCHANGED rows

\* Variant: the emptiness of the result is not checked.
HandleUndoAlways ==
  /\ out.kind = "undo"
  /\ LET ids == Stored(out.from, out.to)
     IN  cdc' = [kind |-> "delete", id |-> out.id, ids |-> ids]
  /\ Taken /\ UNCHANGED <<batches, rows>>

\* An Undo that finds no stored batch is not forwarded.
HandleUndo ==
  /\ out.kind = "undo"
  /\ LET ids == Stored(out.from, out.to)
     IN  cdc' = IF ids = {} THEN NoEvent ELSE [kind |-> "delete", id |-> out.id, ids |-> ids]
  /\ Taken /\ UNCHANGED <<batches, rows>>

\* Batches up to the pruning point are dropped; a failure is only logged.
HandleWatermark ==
  /\ out.kind = "watermark"
  /\ batches' \in {batches, {b \in batches : b.id > out.prune}}
  /\ Taken /\ UNCHANGED <<cdc, rows>>

Handled == applied' = cdc.id /\ cdc' = NoEvent

ConsumeInsert ==
  /\ cdc.kind = "insert"
  /\ rows' = rows \cup {Batch(cdc.id, cdc.row)}
  /\ Handled
  /\ UNCHANGED <<serverVars, actorVars, faults, batches>>

\* DeleteBatchIterator loads one batch after the other.
ConsumeDelete ==
  /\ cdc.kind = "delete"
  /\ LET id == Min(cdc.ids)
     IN  /\ rows' = {r \in rows : r.id # id}
         /\ IF cdc.ids = {id} THEN Handled
            ELSE cdc' = [cdc EXCEPT !.ids = @ \ {id}] /\ UNCHANGED applied
  /\ UNCHANGED <<serverVars, actorVars, faults, batches>>

\* The stream is polled when the consumer is done with the last event and has
\* awaited its commit handle.
Poll ==
  /\ cdc = NoEvent
  /\ \A i \in 1 .. Len(mem.uncommitted) : mem.uncommitted[i].id > applied
  /\ StreamStep
  /\ UNCHANGED cdcVars

Cdc == HandleData \/ HandleUndo \/ HandleWatermark \/ ConsumeInsert \/ ConsumeDelete

Environment == (ChainNext \/ TablesNext \/ QueryNext) /\ UNCHANGED <<clientVars, cdcVars>>

CrashCdc == Crash /\ cdc' = NoEvent /\ UNCHANGED <<batches, rows>>

Next == Environment \/ Poll \/ (CommitStep /\ UNCHANGED cdcVars) \/ CrashCdc \/ Cdc

Spec == Init /\ [][Next]_vars

-----------------------------------------------------------------------------
\* Batches, events and rows have their types.
CdcTypeOK ==
  /\ ServerTypeOK /\ ClientTypeOK
  /\ \A b \in batches \cup rows : b.id \in Nat /\ b.row \in Hashes
  /\ cdc.kind \in {"none", "insert", "delete"}
  /\ cdc.kind = "delete" => cdc.ids # {} /\ \A i \in cdc.ids : i < cdc.id


=============================================================================
