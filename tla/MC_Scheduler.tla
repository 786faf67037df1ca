----------------------------- MODULE MC_Scheduler -----------------------------
(* Instances of Scheduler for TLC. *)
EXTENDS Scheduler, TLC

CONSTANTS n1, n2, m1, m2, m3

Symmetry == Permutations(Node) \union Permutations(Monitor)

NoSkew == [n \in Node |-> 0]
==============================================================================
