--------------------------- MODULE MCSegmentTable ---------------------------
(* Instances of SegmentTable for TLC: two labels tell the forks apart. *)
EXTENDS SegmentTable

CONSTANTS a, b
=============================================================================
