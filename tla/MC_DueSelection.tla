--------------------------- MODULE MC_DueSelection ---------------------------
(* Instances of DueSelection for TLC. *)
EXTENDS DueSelection

CONSTANTS m1, m2, m3
==============================================================================
