----------------------------- MODULE ChainView ------------------------------
(***************************************************************************)
(* What a transactional stream promises to its consumer ("exactly-once     *)
(* semantics", client/src/transactional.rs): at every moment the rows it   *)
(* has are those of the blocks of one chain, from its start and without a  *)
(* gap; they grow block by block, and are taken back only from the tip.    *)
(* Blocks are named by their ancestry, as in StreamingQuery.               *)
(***************************************************************************)
EXTENDS Naturals, Sequences, SequencesExt

CONSTANTS Labels, NoRows, MaxHeight

VARIABLE view   \* the blocks of which the consumer has the rows

\* The ancestors of a block, the block included, in which there are rows.
BlocksWithRows(hash) ==
  {h \in Prefixes(hash) : h # <<>> /\ Last(h) \notin NoRows}

Init == view = {}

\* The rows of one more block, the next one above those of the view.
Insert(hash) == view' = view \cup {hash} /\ hash \notin view /\ view' = BlocksWithRows(hash)

\* The rows of the blocks from number n on are taken back.
Undo(n) == view' = {h \in view : Len(h) <= n}

Next ==
  \/ \E h \in UNION {[1 .. n -> Labels] : n \in 1 .. MaxHeight} : Insert(h)
  \/ \E n \in 0 .. MaxHeight : Undo(n)

Spec == Init /\ [][Next]_view
=============================================================================
