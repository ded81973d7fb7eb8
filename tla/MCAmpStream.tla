---------------------------- MODULE MCAmpStream -----------------------------
(* Instances of AmpStream for TLC: two labels tell the forks apart. *)
EXTENDS AmpStream

CONSTANTS a, b
=============================================================================
