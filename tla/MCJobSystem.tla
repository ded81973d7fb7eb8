---------------------------- MODULE MCJobSystem ----------------------------
(* JobSystem for TLC.  Job ids, nodes and controllers are interchangeable. *)
EXTENDS JobSystem, TLC

Symmetry == Permutations(Jobs) \cup Permutations(Nodes) \cup Permutations(Controllers)
=============================================================================
