--------------------------- MODULE MCTableStorage ---------------------------
(* Instances of TableStorage for TLC: two labels tell the forks apart. *)
EXTENDS TableStorage

CONSTANTS a, b, t1, t2
=============================================================================
