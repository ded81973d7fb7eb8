--------------------------- MODULE StreamingQuery ---------------------------
(***************************************************************************)
(* A streaming query of the server (core/dump/src/streaming_query.rs) over *)
(* one source table, and the chain it reads: the network's chain, the      *)
(* `blocks` table and the source table, each written by a writer of its    *)
(* own, so that either may lag or be on an orphaned fork.                  *)
(*                                                                         *)
(* Segments hold one block, so that every block of a table is a watermark  *)
(* of one of its segments.                                                 *)
(***************************************************************************)
EXTENDS Network

CONSTANTS
  NoRows,        \* labels of the blocks in which the query finds no row
  SameTable,     \* the source table is the blocks table
  MaxInterval,   \* microbatch_max_interval
  MaxWire        \* bound: messages sent and not yet received

ASSUME StreamingConstants ==
  /\ NoRows \subseteq Labels
  /\ SameTable \in BOOLEAN
  /\ MaxInterval \in Nat \ {0}
  /\ MaxWire \in Nat

VARIABLES
  blocks,   \* canonical chain of the blocks table
  src,      \* canonical chain of the source table
  dirty,    \* a change of the source table that the query has not seen
  query,    \* the task of the query: on, ready, prev_watermark, its snapshot
  wire      \* messages from the query to the client

chainVars == <<networkVars, blocks, src>>
serverVars == <<chainVars, dirty, query, wire>>

NoSnapshot == <<"none">>
Idle == [on |-> FALSE, ready |-> FALSE, prev |-> None, snap |-> NoSnapshot]

ServerInit ==
  /\ NetworkInit /\ blocks = <<>> /\ src = <<>>
  /\ dirty = FALSE /\ query = Idle /\ wire = <<>>

-----------------------------------------------------------------------------
(* The writers of the tables *)

\* The canonical chain of a table when its writer has registered new segments:
\* it follows the network, and an orphaned fork stays canonical until its
\* replacement is at least as high.
Extensions(table) ==
  {SubSeq(chain, 1, k) : k \in Len(table) .. Len(chain)} \ {table}

WriteBlocks ==
  /\ blocks' \in Extensions(blocks)
  /\ IF SameTable THEN src' = blocks' /\ dirty' = TRUE ELSE UNCHANGED <<src, dirty>>
  /\ UNCHANGED <<chain, reorgs, query, wire>>

\* The registration of a file notifies the location of its table.
WriteSource ==
  /\ ~SameTable
  /\ src' \in Extensions(src)
  /\ dirty' = TRUE
  /\ UNCHANGED <<chain, reorgs, blocks, query, wire>>

-----------------------------------------------------------------------------
(* The ranges of the microbatches *)

\* A range of blocks: the hash of its end tells its end and every block in it.
RangeOf(start, prev_hash, hash) == [start |-> start, prev_hash |-> prev_hash, hash |-> hash]
End(r) == Len(r.hash) - 1

blocks_table_contains(hash) == IsPrefix(hash, blocks)


\* The newest watermark of the snapshot that is on the chain of `blocks`.
latest_src_watermark(snap) ==
  SubSeq(snap, 1, Max({k \in 0 .. Len(snap) : blocks_table_contains(SubSeq(snap, 1, k))}))

\* The lowest ancestor of the watermark that is not canonical any more.
reorg_base(prev) ==
  Min({k \in 1 .. Len(prev) : ~blocks_table_contains(SubSeq(prev, 1, k))}) - 1

\* Variant: the watermark is not looked up.
next_microbatch_start_blind ==
  IF query.prev = None THEN 0 ELSE Min({Len(query.prev), Len(blocks)})

next_microbatch_start ==
  IF query.prev = None THEN 0
  ELSE IF blocks_table_contains(query.prev) THEN Len(query.prev)
  ELSE reorg_base(query.prev)

\* The end of a microbatch is limited to MaxInterval blocks.
Limit == next_microbatch_start + MaxInterval - 1

next_microbatch_end(common) == Min({Len(common) - 1, Limit})

\* Variant: an end before the start goes unnoticed.
HasMicrobatchUnchecked(common) ==
  common # None /\ next_microbatch_start < Len(blocks)

HasMicrobatch(common) ==
  /\ common # None
  /\ next_microbatch_start < Len(blocks)
  /\ next_microbatch_start <= next_microbatch_end(common)


\* A microbatch that was limited goes on without waiting for the table.
Limited(common) == common # None /\ Len(common) - 1 > Limit

next_microbatch_range(common) ==
  RangeOf(next_microbatch_start, SubSeq(blocks, 1, next_microbatch_start),
          SubSeq(blocks, 1, next_microbatch_end(common) + 1))

\* The answer of the server to a microbatch: the rows of the snapshot in the
\* range, here at most one batch for a block and in block order, each with the
\* range of the microbatch; then an empty batch that completes the range.
Message(range, row) == [range |-> range, complete |-> row = None, row |-> row]


Answer(range, snap) ==
  LET rows == [i \in 1 .. End(range) - range.start + 1 |-> SubSeq(snap, 1, range.start + i)]
      found == SelectSeq(rows, LAMBDA h : Last(h) \notin NoRows)
  IN  [i \in 1 .. Len(found) |-> Message(range, found[i])] \o <<Message(range, None)>>

-----------------------------------------------------------------------------
(* The loop of the task *)

\* A change of the source table, or `ready`, starts a round of the loop with a
\* snapshot of the source table.
TakeSnapshot ==
  /\ query.on /\ query.snap = NoSnapshot
  /\ query.ready \/ dirty
  /\ Len(wire) < MaxWire
  /\ query' = [query EXCEPT !.ready = FALSE, !.snap = src]
  /\ dirty' = (dirty /\ query.ready)
  /\ UNCHANGED <<chainVars, wire>>

\* The rest of the round, against the blocks table as it is by then.
RunMicrobatch ==
  /\ query.on /\ query.snap # NoSnapshot
  /\ LET common == latest_src_watermark(query.snap)
     IN  IF HasMicrobatch(common)
         THEN LET range == next_microbatch_range(common)
              IN  /\ wire' = wire \o Answer(range, query.snap)
                  /\ query' = [query EXCEPT !.ready = Limited(common), !.prev = range.hash,
                                            !.snap = NoSnapshot]
         ELSE /\ query' = [query EXCEPT !.ready = Limited(common), !.snap = NoSnapshot]
              /\ UNCHANGED wire
  /\ UNCHANGED <<chainVars, dirty>>

\* A client connects and resumes after the watermark of its cursor.
StartQuery(cursor) ==
  /\ query' = [on |-> TRUE, ready |-> TRUE, prev |-> cursor, snap |-> NoSnapshot]
  /\ wire' = <<>> /\ dirty' = FALSE
  /\ UNCHANGED chainVars

\* The task is aborted when its receiver is dropped.
StopQuery ==
  /\ query' = Idle
  /\ wire' = <<>> /\ dirty' = FALSE
  /\ UNCHANGED chainVars

ChainNext == NetworkNext /\ UNCHANGED <<blocks, src, dirty, query, wire>>

TablesNext == WriteBlocks \/ WriteSource

QueryNext == TakeSnapshot \/ RunMicrobatch

-----------------------------------------------------------------------------
Ranges == {r \in [start : 0 .. MaxHeight, prev_hash : Chains, hash : Hashes] : r.start <= End(r)}

ServerTypeOK ==
  /\ NetworkTypeOK /\ blocks \in Chains /\ src \in Chains
  /\ dirty \in BOOLEAN
  /\ query.on \in BOOLEAN /\ query.ready \in BOOLEAN
  /\ query.prev \in Chains /\ query.snap \in Chains \cup {NoSnapshot}
  /\ \A i \in 1 .. Len(wire) :
       /\ wire[i].range \in Ranges /\ wire[i].complete \in BOOLEAN /\ wire[i].row \in Chains
=============================================================================
