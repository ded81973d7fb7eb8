------------------------------ MODULE Network -------------------------------
(***************************************************************************)
(* The blockchain that the node extracts: the environment of the tables    *)
(* and of the streaming queries.                                           *)
(*                                                                         *)
(* A block is named by the labels of its ancestry: the hash of block n of  *)
(* chain c is SubSeq(c, 1, n + 1), its parent hash SubSeq(c, 1, n), and a  *)
(* hash fixes everything below it, as on a real chain.  The empty sequence *)
(* is "no hash".                                                           *)
(***************************************************************************)
EXTENDS Integers, Sequences, FiniteSetsExt, SequencesExt

CONSTANTS
  Labels,        \* what tells two blocks of one height apart
  MaxHeight,     \* bound: blocks of a chain
  MaxReorgs      \* bound: reorgs of the network

ASSUME NetworkConstants == {MaxHeight, MaxReorgs} \subseteq Nat

VARIABLES
  chain,    \* the network's chain
  reorgs    \* reorgs so far

networkVars == <<chain, reorgs>>

Chains == UNION {[1 .. n -> Labels] : n \in 0 .. MaxHeight}

None == <<>>
Hashes == Chains \ {None}

NetworkInit == chain = <<>> /\ reorgs = 0

Mine(l) ==
  /\ Len(chain) < MaxHeight
  /\ chain' = Append(chain, l)
  /\ UNCHANGED reorgs

\* The blocks from number n on are replaced by as many others, block 0 never.
Reorg(n) ==
  /\ reorgs < MaxReorgs /\ n \in 1 .. Len(chain) - 1
  /\ \E fork \in [1 .. Len(chain) - n -> Labels] :
       /\ fork[1] # chain[n + 1]
       /\ chain' = SubSeq(chain, 1, n) \o fork
  /\ reorgs' = reorgs + 1

NetworkNext == (\E l \in Labels : Mine(l)) \/ (\E n \in 1 .. MaxHeight : Reorg(n))

NetworkTypeOK == chain \in Chains /\ reorgs \in 0 .. MaxReorgs
=============================================================================
