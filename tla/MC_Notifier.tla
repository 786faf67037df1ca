----------------------------- MODULE MC_Notifier -----------------------------
(* An instance of Notifier for TLC: two runners, a monitor that goes down and *)
(* comes back, and channels that share targets.                               *)
EXTENDS Notifier, TLC

CONSTANTS r1, r2, c1, c2

\* Runners are interchangeable, and so are channels of one type and target; nothing
\* checked here is a liveness property.
Alike == Permutations({r1, r2}) \union Permutations({c1, c2})

OneConfig == {[failN |-> 1, succN |-> 1, interval |-> 1, active |-> TRUE]}
SomeChannels == {[type |-> "Email", target |-> "owner", copy |-> 1],
                 [type |-> "Webhook", target |-> "hook", copy |-> c1],
                 [type |-> "Webhook", target |-> "hook", copy |-> c2]}

\* The exploration ends with the announcement of the recovery: what checks follow
\* is MonitorCheck's subject.
UntilRecovered ==
  \A i \in DOMAIN incidents :
    incidents[i].status = "RESOLVED" => \E r \in Runner : Announcing(r)
==============================================================================
