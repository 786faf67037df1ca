--------------------------- MODULE MC_MonitorCheck ---------------------------
(* Instances of MonitorCheck for TLC. *)
EXTENDS MonitorCheck

CONSTANTS r1, r2

Watch == [failN |-> 2, succN |-> 2, interval |-> 1, active |-> TRUE]

\* One configuration; the owner may pause it or change a threshold mid-check.
OneConfig == {Watch}
EditableConfigs == {Watch, [Watch EXCEPT !.active = FALSE],
                    [Watch EXCEPT !.failN = 1, !.succN = 1, !.interval = 3]}
==============================================================================
