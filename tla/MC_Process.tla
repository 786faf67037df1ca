----------------------------- MODULE MC_Process -----------------------------
(* An instance of Process for TLC. *)
EXTENDS Process
==============================================================================
