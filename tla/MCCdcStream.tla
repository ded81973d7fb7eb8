---------------------------- MODULE MCCdcStream -----------------------------
(* Instances of CdcStream for TLC: two labels tell the forks apart. *)
EXTENDS CdcStream

CONSTANTS a, b
=============================================================================
