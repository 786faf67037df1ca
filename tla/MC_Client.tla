------------------------------ MODULE MC_Client ------------------------------
(* An instance of Client for TLC: two accounts on one tab; the first has two  *)
(* monitors, two channels, a status page, two preferences and an incident,    *)
(* the second has nothing yet.                                                *)
EXTENDS Client

CONSTANTS u1, u2, m1, m2, m3, c1, c2, p1, p2, f1, f2, i1

Kinds == [i \in Item |->
  CASE i \in {m1, m2, m3} -> "monitors" [] i \in {c1, c2} -> "channels"
    [] i \in {p1, p2} -> "pages" [] i \in {f1, f2} -> "prefs" [] i = i1 -> "incidents"]
Tabs == {<<u1, "dashboard">>, <<u1, "alerts">>, <<u1, "settings">>, <<u1, "status-pages">>,
         <<u2, "monitors">>, <<u1, "monitors">>, <<None, "login">>}
Owners == [i \in Item |-> IF i \in {p2} THEN u2 ELSE u1]

\* What the pages compute, on every list of up to four monitors: the pages of the
\* registry show every monitor exactly once, the figures count no monitor twice, and
\* a page of one that is down is degraded.
D == INSTANCE Overview WITH ItemsPerPage <- 2

Lists == UNION {[1..n -> [status : {"UP", "DOWN", "HEALTHY", "CHECKING"}, active : BOOLEAN]]
                  : n \in 0..4}

RegistryIsComplete(monitors) ==
  LET rows == [p \in 1..D!totalPages(monitors) |-> D!paginatedMonitors(monitors, p)]
  IN  /\ Len(monitors) = D!Following(monitors, 99) * 2 - (IF rows[Len(rows)] = <<>> THEN 2
                                                          ELSE 2 - Len(rows[Len(rows)]))
      /\ \A p \in DOMAIN rows, k \in 1..2 :
           2 * (p - 1) + k <= Len(monitors) => rows[p][k] = monitors[2 * (p - 1) + k]
      /\ D!paginatedMonitors(monitors, Len(rows) + 1) = <<>>
      /\ \A p \in DOMAIN rows : D!Previous(D!Following(monitors, p)) \in DOMAIN rows

FiguresAgree(monitors) ==
  LET stats == D!stats(monitors)
      pie   == D!Distribution(monitors)
  IN  /\ stats.up + stats.down <= stats.total
      /\ pie.up <= stats.up /\ pie.down <= stats.down
      /\ stats.uptime \in 0..10000
      /\ stats.uptime = 10000 <=> stats.up = stats.total
      /\ Len(D!RecentIncidents(monitors)) <= 3
      /\ D!Overall(monitors) = "OPERATIONAL" <=>
           \A k \in DOMAIN monitors : monitors[k].active => monitors[k].status # "DOWN"

SummaryIsInOrder(series) ==
  \/ D!summary(series) = <<>> /\ \A k \in DOMAIN series : series[k] = 0
  \/ LET s == D!summary(series)
     IN  s[2] <= s[4] /\ s[4] <= s[3] /\ s[2] > 0 /\ s[1] <= Len(series)

ASSUME OverviewChecked ==
  /\ \A monitors \in Lists : RegistryIsComplete(monitors) /\ FiguresAgree(monitors)
  /\ \A series \in UNION {[1..n -> 0..3] : n \in 0..3} : SummaryIsInOrder(series)
==============================================================================
