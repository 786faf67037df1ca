-------------------------- MODULE MC_SchedulerLock --------------------------
(* Instances of SchedulerLock for TLC. *)
EXTENDS SchedulerLock

CONSTANTS n1, n2

\* n2's clock runs one unit ahead of n1's.
SkewTwo == [n \in Node |-> IF n = n2 THEN 1 ELSE 0]
==============================================================================
