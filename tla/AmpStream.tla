----------------------------- MODULE AmpStream ------------------------------
(***************************************************************************)
(* The stream end to end: the network's chain, the tables, the streaming   *)
(* query of the server, the transactional stream of the client and its     *)
(* consumer, which saves the rows of a Data event under its id, deletes    *)
(* the ids that an Undo event invalidates, and commits what it handled,    *)
(* when it likes and not necessarily event by event.                       *)
(***************************************************************************)
EXTENDS TransactionalStream, FiniteSets

VARIABLE rows   \* what the consumer has saved: [id, row]

vars == <<serverVars, clientVars, rows>>

Init == ServerInit /\ ClientInit /\ rows = {}

\* The consumer's database, changed in one transaction for each event.
Applied(event) ==
  CASE event.kind = "data" -> rows \cup {[id |-> event.id, row |-> event.row]}
    [] event.kind = "undo" -> {r \in rows : r.id < event.from \/ event.to < r.id}
    [] event.kind = "watermark" -> rows

Consume ==
  /\ out # NoEvent
  /\ rows' = Applied(out)
  /\ applied' = out.id
  /\ out' = NoEvent
  /\ UNCHANGED <<serverVars, disk, mem, previous, todo, pc, failed, faults>>

Network == ChainNext /\ UNCHANGED <<clientVars, rows>>
Tables == TablesNext /\ UNCHANGED <<clientVars, rows>>
Server == QueryNext /\ UNCHANGED <<clientVars, rows>>
Client == (StreamStep \/ CommitStep \/ Crash) /\ UNCHANGED rows

Next == Network \/ Tables \/ Server \/ Client \/ Consume

Spec == Init /\ [][Next]_vars

-----------------------------------------------------------------------------
\* Every table, message, buffer and event has its type.
TypeOK ==
  /\ ServerTypeOK /\ ClientTypeOK
  /\ \A r \in rows : r.id \in Nat /\ r.row \in Hashes

View == {r.row : r \in rows}

BlocksWithRows(hash) ==
  {h \in Prefixes(hash) : h # None /\ Last(h) \notin NoRows}

\* These rows are exactly those of the blocks of the chain up to `hash`.
Exactly(saved, hash) ==
  /\ {r.row : r \in saved} = BlocksWithRows(hash)
  /\ \A r, s \in saved : r.row = s.row => r = s



\* The responses of the server always pass the client's validation, also when
\* a reorg, a lagging table or a resumed cursor moved the server's start.
ServerIsValid == failed.kind # "validation"

\* No transaction id is handed out twice, even across crashes: an event that is
\* delivered has an id above those of all rows and of all watermarks kept.
IdsAreFresh ==
  [][out' # out /\ out' # NoEvent =>
       \A i \in {r.id : r \in rows} \cup Ids(disk.buffer) \cup Ids(mem.buffer) : i < out'.id]_vars

\* The stream implements the view of a chain that grows and shrinks at its tip.
ViewSpec == INSTANCE ChainView WITH view <- View


\* A restart after a partial reorg resumes from a watermark before the reorg,
\* as reorgs.md asks: "set to a watermark before the start of the incomming
\* ranges such that all record batches after the watermark can be invalidated".
PartialReorgRecovers ==
  [][pc = "down" /\ pc' = "idle" /\ failed.kind = "partial" => Len(query'.prev) <= failed.point]_vars

-----------------------------------------------------------------------------
(* Fairness: the writers follow the chain, the tasks of server and client  *)
(* run on, the consumer handles what it is handed and a stream that ended  *)
(* is created anew.  The network owes no block, and a consumer no commit.  *)

FairSpec ==
  /\ Spec
  /\ WF_vars(Tables) /\ WF_vars(Server) /\ WF_vars(StreamStep /\ UNCHANGED rows) /\ WF_vars(Consume)

=============================================================================
