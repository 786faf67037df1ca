-------------------------------- MODULE Uptime --------------------------------
(***************************************************************************)
(* getUptimeWindows() of services/uptime.service.js: what a monitor's log  *)
(* rows say over each window.  A row is an age, an outcome and a latency;  *)
(* the retention of the collection (models/logs.model.js) is no shorter    *)
(* than the widest window.                                                 *)
(***************************************************************************)
EXTENDS Integers, FiniteSets

CONSTANTS Windows,     \* WINDOWS: how far each reaches back, at least one window
          Retention    \* LOG_RETENTION_DAYS

\* A check in the logs: its id, its age, whether the target was up.
Up(rows) == {row \in rows : row.up}

\* The facet of one window: only rows no older than the window.
InWindow(rows, w) == {row \in rows : row.age <= w}

Widest == CHOOSE w \in Windows : \A v \in Windows : v <= w

\* The scan is bounded by the widest window before the facets filter it.
Bucket(rows, w) == InWindow(InWindow(rows, Widest), w)

\* Uptime in thousandths of a percent, rounded half up, or nothing at all when
\* nothing was checked: never checked is not the same as never down.
Percentage(up, total) == (200000 * up + total) \div (2 * total)

NoData == [uptime |-> {}, total |-> 0, up |-> 0, down |-> 0]

UptimeOf(rows, w) ==
  LET bucket == Bucket(rows, w)
      total == Cardinality(bucket)
      up == Cardinality(Up(bucket))
  IN  IF total = 0 THEN NoData
      ELSE [uptime |-> {Percentage(up, total)}, total |-> total, up |-> up,
            down |-> total - up]

\* What the TTL index may have removed by now.
Expired(rows) == {row \in rows : row.age > Retention}

\* The headline of the metrics endpoint, which flattens no data to zero.
Headline(rows) ==
  LET u == UptimeOf(rows, Widest).uptime
  IN  IF u = {} THEN 0 ELSE CHOOSE p \in u : TRUE
===============================================================================
