------------------------------- MODULE Overview -------------------------------
(***************************************************************************)
(* What pages compute from lists they were given: the figures and the      *)
(* paged registry of Dashboard.jsx, the tiers of UptimeWindows.jsx and the *)
(* verdict of a public status page (statusPage.controller.js).  Monitors   *)
(* are records with a status; shares are in hundredths of a percent.       *)
(***************************************************************************)
EXTENDS Integers, Sequences, SequencesExt

CONSTANT ItemsPerPage   \* itemsPerPage

Least(a, b) == IF a <= b THEN a ELSE b
Count(monitors, Test(_)) == Len(SelectSeq(monitors, Test))

\* The two figures next to each other: what is up and what is down.
up(monitors) == Count(monitors, LAMBDA m : m.status \in {"UP", "HEALTHY"})
down(monitors) == Count(monitors, LAMBDA m : m.status \in {"DOWN", "FAILING"})

Share(part, whole) == (20000 * part + whole) \div (2 * whole)

\* Without a monitor everything is well.
stats(monitors) ==
  [total |-> Len(monitors), up |-> up(monitors), down |-> down(monitors),
   uptime |-> IF monitors = <<>> THEN 10000 ELSE Share(up(monitors), Len(monitors))]

\* The pie, which knows three statuses and shows nothing of the others.
Distribution(monitors) ==
  [up     |-> Count(monitors, LAMBDA m : m.status = "UP"),
   down   |-> Count(monitors, LAMBDA m : m.status = "DOWN"),
   paused |-> Count(monitors, LAMBDA m : m.status = "PAUSED")]

totalPages(monitors) ==
  IF monitors = <<>> THEN 1 ELSE (Len(monitors) + ItemsPerPage - 1) \div ItemsPerPage

\* The rows of the registry's current page: slice() goes no further than the list.
paginatedMonitors(monitors, currentPage) ==
  LET startIndex == (currentPage - 1) * ItemsPerPage
  IN  SubSeq(monitors, startIndex + 1, Least(startIndex + ItemsPerPage, Len(monitors)))

Previous(currentPage) == IF currentPage > 1 THEN currentPage - 1 ELSE 1
Following(monitors, currentPage) == Least(totalPages(monitors), currentPage + 1)

\* The journal shows the first three incidents.
RecentIncidents(incidents) == SubSeq(incidents, 1, Least(3, Len(incidents)))

\* The summary of the response times: failed checks have none and are left out.
Latencies(series) == SelectSeq(series, LAMBDA n : n > 0)

summary(series) ==
  LET seen == Latencies(series)
  IN  IF seen = <<>> THEN <<>>
      ELSE <<Len(seen),
             CHOOSE n \in ToSet(seen) : \A k \in ToSet(seen) : n <= k,
             CHOOSE n \in ToSet(seen) : \A k \in ToSet(seen) : n >= k,
             seen[Len(seen)]>>

\* tierFor(), of an uptime in hundredths of a percent or none.
tierFor(uptime) ==
  CASE uptime = {}                        -> "No data"
    [] \E p \in uptime : p >= 9990        -> "Healthy"
    [] \E p \in uptime : p \in 9900..9989 -> "Degraded"
    [] OTHER                              -> "Unhealthy"

\* A public page shows a paused monitor as such, and is degraded when one is down.
ServiceStatus(m) == IF m.active THEN m.status ELSE "PAUSED"
Overall(monitors) ==
  IF \E k \in DOMAIN monitors : ServiceStatus(monitors[k]) = "DOWN"
  THEN "DEGRADED" ELSE "OPERATIONAL"
===============================================================================
