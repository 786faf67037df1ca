------------------------------ MODULE MC_Account ------------------------------
(* An instance of Account for TLC: two browsers; two addresses that both want *)
(* one name; a Google identity whose address changes, and for which the same  *)
(* name is tried.                                                             *)
EXTENDS Account, TLC

CONSTANTS b1, b2, p1, p2

Applications == {[email |-> "e1", username |-> "u1"], [email |-> "e2", username |-> "u1"]}
Identities == {[sub |-> "s1", email |-> "e1"], [sub |-> "s1", email |-> "e2"]}
Alike == Permutations({b1, b2}) \union Permutations({p1, p2})
==============================================================================
