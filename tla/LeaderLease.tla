----------------------------- MODULE LeaderLease -----------------------------
(***************************************************************************)
(* What the scheduler's leader election promises, with the mechanism taken *)
(* away: a lease that is either free or in force for exactly one instance. *)
(* A lease in force never passes directly from one instance to another; it *)
(* always lapses (expires, or is given up) first.                          *)
(***************************************************************************)
CONSTANTS Node,      \* scheduler instances (one per INSTANCE_ID)
          NoOwner    \* nobody

VARIABLE holder      \* the instance whose lease is in force, or NoOwner

Init == holder = NoOwner

\* A free lease is granted to one instance.
Grant(n) == holder = NoOwner /\ holder' = n

\* The lease in force lapses: its expiry passes or its holder gives it up.
Lapse == holder # NoOwner /\ holder' = NoOwner

Next == Lapse \/ \E n \in Node : Grant(n)

Spec == Init /\ [][Next]_holder
==============================================================================
