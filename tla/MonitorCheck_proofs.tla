-------------------------- MODULE MonitorCheck_proofs --------------------------
(***************************************************************************)
(* Checks, for any configurations, edits and faults.  With any number of   *)
(* runners: the incidents implement IncidentLedger and no check undoes an  *)
(* edit of the owner.  With one runner: a breaker opens only on a failing  *)
(* monitor, and a transition only follows a streak of checks.              *)
(*                                                                         *)
(* And about telling the owner, for any number of channels and failures:   *)
(* the fan-out keeps the promises of the checks it is part of, its audit   *)
(* trail is what was attempted, and the account's address is always tried. *)
(***************************************************************************)
EXTENDS Notifier, TLAPS

\* A check under way is a record, whatever its patch.
IsRun(c) ==
  c = [stage |-> c.stage, snap |-> c.snap, probe |-> c.probe, patch |-> c.patch,
       up |-> c.up, incident |-> c.incident]

RunsOK ==
  /\ run = [r \in Runner |-> run[r]]
  /\ \A r \in Runner : IsRun(run[r])

IncidentsOK ==
  /\ incidents \in Seq(Ledger!Incident)
  /\ \A i \in DOMAIN incidents :
       incidents[i].status = "ONGOING" => incidents[i].closeNotices = 0

\* What a runner is about to announce has happened, and is not announced yet.
Pending(c) ==
  /\ c.stage = "announceOpened" =>
       c.incident \in DOMAIN incidents /\ incidents[c.incident].openNotices = 0
  /\ c.stage = "saving" =>
       /\ c.incident \in DOMAIN incidents
       /\ incidents[c.incident].status = "RESOLVED"
       /\ incidents[c.incident].closeNotices = 0

\* Two runners are never about to announce the same thing.
SamePending(c, d) ==
  /\ c.stage = d.stage /\ c.incident = d.incident
  /\ c.stage \in {"announceOpened", "saving"}

AnnounceInv ==
  /\ RunsOK /\ IncidentsOK
  /\ \A r \in Runner : Pending(run[r])
  /\ \A q, r \in Runner : SamePending(run[q], run[r]) => q = r

-----------------------------------------------------------------------------
(* Helper steps *)

\* Goto touches one runner only, and only its stage.
LEMMA GotoRun ==
  ASSUME NEW r \in Runner, NEW stage \in Stages, AnnounceInv, Goto(r, stage)
  PROVE  /\ run' = [q \in Runner |-> run'[q]]
         /\ \A q \in Runner : IsRun(run'[q])
         /\ run'[r].stage = stage
         /\ \A q \in Runner \ {r} : run'[q] = run[q]
<1>1. /\ run' = [q \in Runner |-> run'[q]]
      /\ \A q \in Runner \ {r} : run'[q] = run[q]
      /\ run'[r] = IF stage = "idle" THEN NoRun ELSE [run[r] EXCEPT !.stage = stage]
  BY DEF AnnounceInv, RunsOK, IncidentsOK, Pending, SamePending, Goto
<1>2. CASE stage = "idle"
  BY <1>1, <1>2 DEF AnnounceInv, RunsOK, IncidentsOK, Pending, SamePending, IsRun, NoRun
<1>3. CASE stage # "idle"
  BY <1>1, <1>3 DEF AnnounceInv, RunsOK, IncidentsOK, Pending, SamePending, IsRun
<1> QED
  BY <1>2, <1>3, <1>1

\* A runner that moves to a stage with nothing to announce disturbs no other.
LEMMA OneMoves ==
  ASSUME NEW r \in Runner, AnnounceInv, UNCHANGED incidents,
         run' = [q \in Runner |-> run'[q]],
         \A q \in Runner \ {r} : run'[q] = run[q],
         IsRun(run'[r]), run'[r].stage \notin {"announceOpened", "saving"}
  PROVE  AnnounceInv'
<1>1. RunsOK' /\ IncidentsOK'
  BY DEF AnnounceInv, RunsOK, IncidentsOK
<1>2. \A q \in Runner : Pending(run[q])'
  BY DEF AnnounceInv, Pending
<1>3. \A p, q \in Runner : SamePending(run[p], run[q])' => p = q
  BY DEF AnnounceInv, SamePending
<1> QED
  BY <1>1, <1>2, <1>3 DEF AnnounceInv

\* A runner that moves to a stage without an announcement keeps the invariant, if
\* the incidents stay.
LEMMA GotoKeeps ==
  ASSUME NEW r \in Runner, NEW stage \in Stages \ {"announceOpened", "saving"},
         AnnounceInv, Goto(r, stage), UNCHANGED incidents
  PROVE  AnnounceInv'
<1>1. /\ run' = [q \in Runner |-> run'[q]]
      /\ \A q \in Runner : IsRun(run'[q])
      /\ run'[r].stage = stage
      /\ \A q \in Runner \ {r} : run'[q] = run[q]
  BY GotoRun
<1> QED
  BY <1>1, OneMoves

\* Neither the incidents nor what a runner is about to announce changes.
LEMMA ElsewhereKeeps ==
  ASSUME AnnounceInv, UNCHANGED incidents,
         run' = [q \in Runner |-> run'[q]],
         \A q \in Runner : IsRun(run'[q]) /\ run'[q].incident = run[q].incident
                           /\ run'[q].stage = run[q].stage
  PROVE  AnnounceInv'
BY DEF AnnounceInv, RunsOK, IncidentsOK, Pending, SamePending

-----------------------------------------------------------------------------
(* The steps that change incidents *)

\* createIncident() opens at most one incident in the ledger, and owes its notice.
LEMMA InsertStep ==
  ASSUME NEW r \in Runner, AnnounceInv, InsertIncident(r)
  PROVE  AnnounceInv' /\ [Ledger!Next]_incidents
<1>1. CASE ~InsertAllowed
  <2>1. Goto(r, "idle") /\ UNCHANGED incidents
    BY <1>1 DEF InsertIncident
  <2> QED
    BY <2>1, GotoKeeps DEF Stages
<1>2. CASE InsertAllowed
  <2> DEFINE new == Len(incidents) + 1
  <2>1. /\ incidents' = Append(incidents, Ledger!Fresh)
        /\ run' = [run EXCEPT ![r].stage = "announceOpened", ![r].incident = new]
    BY <1>2 DEF InsertIncident, Ledger!Fresh
  <2>2. /\ DOMAIN incidents' = DOMAIN incidents \union {new}
        /\ \A i \in DOMAIN incidents : incidents'[i] = incidents[i]
        /\ incidents'[new] = Ledger!Fresh
        /\ new \notin DOMAIN incidents
        /\ incidents' \in Seq(Ledger!Incident)
    BY <2>1 DEF AnnounceInv, RunsOK, IncidentsOK, Pending, SamePending, Ledger!Fresh, Ledger!Incident
  <2>3. /\ run' = [q \in Runner |-> run'[q]]
        /\ \A q \in Runner \ {r} : run'[q] = run[q]
        /\ run'[r] = [[run[r] EXCEPT !.stage = "announceOpened"] EXCEPT !.incident = new]
    BY <2>1 DEF AnnounceInv, RunsOK, IncidentsOK, Pending, SamePending
  <2>4. /\ IsRun(run'[r]) /\ run'[r].stage = "announceOpened" /\ run'[r].incident = new
    BY <2>3 DEF AnnounceInv, RunsOK, IncidentsOK, Pending, SamePending, IsRun
  <2>5. AnnounceInv'
    <3>1. RunsOK'
      BY <2>3, <2>4 DEF AnnounceInv, RunsOK
    <3>2. IncidentsOK'
      BY <2>2 DEF AnnounceInv, IncidentsOK, Ledger!Fresh
    <3>3. ASSUME NEW q \in Runner
          PROVE  Pending(run[q])'
      <4>1. CASE q = r
        BY <2>2, <2>4, <4>1 DEF Pending, Ledger!Fresh
      <4>2. CASE q # r
        BY <2>2, <2>3, <4>2 DEF AnnounceInv, Pending
      <4> QED
        BY <4>1, <4>2
    <3>4. ASSUME NEW q \in Runner, NEW p \in Runner, SamePending(run[q], run[p])'
          PROVE  q = p
      <4>1. ASSUME NEW o \in Runner \ {r}, run'[o].stage = "announceOpened"
            PROVE  run'[o].incident # new
        BY <2>2, <2>3, <4>1 DEF AnnounceInv, Pending
      <4> QED
        BY <2>3, <2>4, <3>4, <4>1 DEF AnnounceInv, SamePending
    <3> QED
      BY <3>1, <3>2, <3>3, <3>4 DEF AnnounceInv
  <2>6. Ledger!Open
    BY <1>2, <2>1 DEF InsertAllowed, Ongoing, Ledger!Open, Ledger!SomeOngoing
  <2> QED
    BY <2>5, <2>6 DEF Ledger!Next
<1> QED
  BY <1>1, <1>2

\* resolveIncident() closes the open incident it matched, if any, and owes its notice.
LEMMA ResolveStep ==
  ASSUME NEW r \in Runner, AnnounceInv, ResolveIncident(r)
  PROVE  AnnounceInv' /\ [Ledger!Next]_incidents
<1>1. CASE Closable = {}
  <2>1. Goto(r, "idle") /\ UNCHANGED incidents
    BY <1>1 DEF ResolveIncident
  <2> QED
    BY <2>1, GotoKeeps DEF Stages
<1>2. CASE Closable # {}
  <2>1. PICK i \in Closable :
          /\ incidents' = [incidents EXCEPT ![i].status = "RESOLVED"]
          /\ run' = [run EXCEPT ![r].stage = "saving", ![r].incident = i]
    BY <1>2 DEF ResolveIncident
  <2>2. i \in DOMAIN incidents /\ incidents[i].status = "ONGOING"
    BY DEF Closable, Ongoing
  <2>3. /\ DOMAIN incidents' = DOMAIN incidents
        /\ \A j \in DOMAIN incidents \ {i} : incidents'[j] = incidents[j]
        /\ incidents'[i] = [incidents[i] EXCEPT !.status = "RESOLVED"]
        /\ incidents[i] \in Ledger!Incident
    BY <2>1, <2>2 DEF AnnounceInv, RunsOK, IncidentsOK, Pending, SamePending
  <2>4. /\ incidents'[i].status = "RESOLVED"
        /\ incidents'[i].openNotices = incidents[i].openNotices
        /\ incidents'[i].closeNotices = 0
        /\ incidents'[i] \in Ledger!Incident
    BY <2>2, <2>3 DEF Ledger!Incident, AnnounceInv, RunsOK, IncidentsOK, Pending, SamePending
  <2>5. incidents' \in Seq(Ledger!Incident)
    BY <2>1, <2>2, <2>3, <2>4 DEF AnnounceInv, RunsOK, IncidentsOK, Pending, SamePending
  <2>6. /\ run' = [q \in Runner |-> run'[q]]
        /\ \A q \in Runner \ {r} : run'[q] = run[q]
        /\ run'[r] = [[run[r] EXCEPT !.stage = "saving"] EXCEPT !.incident = i]
    BY <2>1 DEF AnnounceInv, RunsOK, IncidentsOK, Pending, SamePending
  <2>7. IsRun(run'[r]) /\ run'[r].stage = "saving" /\ run'[r].incident = i
    BY <2>6 DEF AnnounceInv, RunsOK, IncidentsOK, Pending, SamePending, IsRun
  <2>8. AnnounceInv'
    <3>1. RunsOK'
      BY <2>6, <2>7 DEF AnnounceInv, RunsOK
    <3>2. IncidentsOK'
      BY <2>3, <2>4, <2>5 DEF AnnounceInv, IncidentsOK
    <3>3. ASSUME NEW q \in Runner
          PROVE  Pending(run[q])'
      <4>1. CASE q = r
        BY <2>2, <2>3, <2>4, <2>7, <4>1 DEF Pending
      <4>2. CASE q # r
        <5>1. run'[q] = run[q] /\ Pending(run[q])
          BY <2>6, <4>2 DEF AnnounceInv
        <5>2. CASE run[q].incident = i
          BY <2>2, <2>3, <2>4, <5>1, <5>2 DEF Pending
        <5>3. CASE run[q].incident # i
          BY <2>3, <5>1, <5>3 DEF Pending
        <5> QED
          BY <5>2, <5>3
      <4> QED
        BY <4>1, <4>2
    <3>4. ASSUME NEW q \in Runner, NEW p \in Runner, SamePending(run[q], run[p])'
          PROVE  q = p
      <4>1. ASSUME NEW o \in Runner \ {r}, run'[o].stage = "saving"
            PROVE  run'[o].incident # i
        BY <2>2, <2>6, <4>1 DEF AnnounceInv, Pending
      <4> QED
        BY <2>6, <2>7, <3>4, <4>1 DEF AnnounceInv, SamePending
    <3> QED
      BY <3>1, <3>2, <3>3, <3>4 DEF AnnounceInv
  <2>9. Ledger!Close(i)
    BY <2>1, <2>2 DEF Ledger!Close
  <2> QED
    BY <2>2, <2>8, <2>9 DEF Ledger!Next
<1> QED
  BY <1>1, <1>2

\* A notice marks its incident as told, which the ledger allows once.
LEMMA AnnounceStep ==
  ASSUME NEW r \in Runner, AnnounceInv, AnnounceOpened(r) \/ AnnounceClosed(r)
  PROVE  AnnounceInv' /\ [Ledger!Next]_incidents
<1> DEFINE i == run[r].incident
<1>1. /\ run' = [q \in Runner |-> run'[q]]
      /\ \A q \in Runner : IsRun(run'[q])
      /\ run'[r].stage = "idle"
      /\ \A q \in Runner \ {r} : run'[q] = run[q]
  BY GotoRun DEF AnnounceOpened, AnnounceClosed, Stages
<1>2. i \in DOMAIN incidents /\ incidents[i] \in Ledger!Incident
  BY DEF AnnounceInv, RunsOK, IncidentsOK, Pending, SamePending, AnnounceOpened, AnnounceClosed
<1>3. ASSUME DOMAIN incidents' = DOMAIN incidents,
             incidents' \in Seq(Ledger!Incident),
             \A j \in DOMAIN incidents \ {i} : incidents'[j] = incidents[j],
             incidents'[i].status = incidents[i].status,
             \/ /\ run[r].stage = "announceOpened"
                /\ incidents'[i].closeNotices = incidents[i].closeNotices
             \/ /\ run[r].stage = "saving" /\ incidents[i].status = "RESOLVED"
                /\ incidents'[i].openNotices = incidents[i].openNotices
      PROVE  AnnounceInv'
  <2>1. RunsOK'
    BY <1>1 DEF RunsOK
  <2>2. IncidentsOK'
    BY <1>2, <1>3 DEF AnnounceInv, IncidentsOK
  <2>3. ASSUME NEW q \in Runner
        PROVE  Pending(run[q])'
    <3>1. CASE q = r
      BY <1>1, <3>1 DEF Pending
    <3>2. CASE q # r
      <4>1. run'[q] = run[q] /\ Pending(run[q])
        BY <1>1, <3>2 DEF AnnounceInv
      <4>2. CASE run[q].incident # i
        BY <1>3, <4>1, <4>2 DEF Pending
      <4>3. CASE run[q].incident = i /\ run[q].stage # run[r].stage
        BY <1>3, <4>1, <4>3 DEF Pending
      <4>4. CASE run[q].incident = i /\ run[q].stage = run[r].stage
        BY <1>3, <3>2, <4>4 DEF AnnounceInv, SamePending
      <4> QED
        BY <4>2, <4>3, <4>4
    <3> QED
      BY <3>1, <3>2
  <2>4. ASSUME NEW q \in Runner, NEW p \in Runner, SamePending(run[q], run[p])'
        PROVE  q = p
    BY <1>1, <2>4 DEF AnnounceInv, SamePending
  <2> QED
    BY <2>1, <2>2, <2>3, <2>4 DEF AnnounceInv
<1>4. CASE AnnounceOpened(r)
  <2>1. /\ incidents' = [incidents EXCEPT ![i].openNotices = incidents[i].openNotices + 1]
        /\ run[r].stage = "announceOpened"
    BY <1>4, <1>2 DEF AnnounceOpened
  <2>2. incidents[i].openNotices = 0
    BY <2>1 DEF AnnounceInv, Pending
  <2>3. incidents' = [incidents EXCEPT ![i].openNotices = 1]
    BY <2>1, <2>2
  <2>4. /\ DOMAIN incidents' = DOMAIN incidents
        /\ \A j \in DOMAIN incidents \ {i} : incidents'[j] = incidents[j]
        /\ incidents'[i] = [incidents[i] EXCEPT !.openNotices = 1]
    BY <1>2, <2>3 DEF AnnounceInv, IncidentsOK
  <2>5. /\ incidents'[i].status = incidents[i].status
        /\ incidents'[i].closeNotices = incidents[i].closeNotices
        /\ incidents'[i] \in Ledger!Incident
    BY <1>2, <2>4 DEF Ledger!Incident
  <2>6. incidents' \in Seq(Ledger!Incident)
    BY <1>2, <2>3, <2>4, <2>5 DEF AnnounceInv, IncidentsOK
  <2>7. Ledger!AnnounceOpened(i)
    BY <2>2, <2>3 DEF Ledger!AnnounceOpened
  <2> QED
    BY <1>2, <1>3, <2>1, <2>4, <2>5, <2>6, <2>7 DEF Ledger!Next
<1>5. CASE AnnounceClosed(r)
  <2>1. /\ incidents' = [incidents EXCEPT ![i].closeNotices = incidents[i].closeNotices + 1]
        /\ run[r].stage = "saving"
    BY <1>5, <1>2 DEF AnnounceClosed
  <2>2. incidents[i].closeNotices = 0 /\ incidents[i].status = "RESOLVED"
    BY <2>1 DEF AnnounceInv, Pending
  <2>3. incidents' = [incidents EXCEPT ![i].closeNotices = 1]
    BY <2>1, <2>2
  <2>4. /\ DOMAIN incidents' = DOMAIN incidents
        /\ \A j \in DOMAIN incidents \ {i} : incidents'[j] = incidents[j]
        /\ incidents'[i] = [incidents[i] EXCEPT !.closeNotices = 1]
    BY <1>2, <2>3 DEF AnnounceInv, IncidentsOK
  <2>5. /\ incidents'[i].status = incidents[i].status
        /\ incidents'[i].openNotices = incidents[i].openNotices
        /\ incidents'[i] \in Ledger!Incident
    BY <1>2, <2>4 DEF Ledger!Incident
  <2>6. incidents' \in Seq(Ledger!Incident)
    BY <1>2, <2>3, <2>4, <2>5 DEF AnnounceInv, IncidentsOK
  <2>7. Ledger!AnnounceClosed(i)
    BY <2>2, <2>3 DEF Ledger!AnnounceClosed
  <2> QED
    BY <1>2, <1>3, <2>1, <2>2, <2>4, <2>5, <2>6, <2>7 DEF Ledger!Next
<1> QED
  BY <1>4, <1>5

-----------------------------------------------------------------------------
(* The steps that leave incidents alone *)

\* The other steps of a check leave the incidents alone.
LEMMA QuietStep ==
  ASSUME AnnounceInv,
         NEW r \in Runner,
         \/ StartCheck(r) \/ FinishProbe(r) \/ ApplyUpdate(r) \/ WriteLog(r)
         \/ MatchOngoing(r) \/ Abandon(r)
  PROVE  AnnounceInv' /\ UNCHANGED incidents
<1>1. CASE StartCheck(r)
  <2>1. /\ UNCHANGED incidents
        /\ run' = [q \in Runner |-> run'[q]]
        /\ \A q \in Runner \ {r} : run'[q] = run[q]
        /\ IsRun(run'[r]) /\ run'[r].stage = "probing"
    BY <1>1 DEF StartCheck, AnnounceInv, RunsOK, IsRun
  <2> QED
    BY <2>1, OneMoves
<1>2. CASE FinishProbe(r)
  <2> DEFINE t == target = "UP"
             c == [run[r] EXCEPT !.up = t]
             u == Update(c)
  <2>1. /\ UNCHANGED incidents
        /\ run' = [run EXCEPT ![r] = [c EXCEPT !.stage = "updating", !.patch = u]]
    BY <1>2 DEF FinishProbe
  <2> HIDE DEF t, u
  <2>2. /\ run' = [q \in Runner |-> run'[q]]
        /\ \A q \in Runner \ {r} : run'[q] = run[q]
        /\ run'[r] = [c EXCEPT !.stage = "updating", !.patch = u]
    BY <2>1 DEF AnnounceInv, RunsOK
  <2>3. run'[r] = [stage |-> "updating", snap |-> run[r].snap, probe |-> run[r].probe,
                   patch |-> u, up |-> t, incident |-> run[r].incident]
    BY <2>2 DEF AnnounceInv, RunsOK, IsRun
  <2>4. IsRun(run'[r]) /\ run'[r].stage = "updating"
    BY <2>3 DEF IsRun
  <2> QED
    BY <2>1, <2>2, <2>4, OneMoves
<1>3. CASE ApplyUpdate(r) \/ WriteLog(r) \/ MatchOngoing(r) \/ Abandon(r)
  <2>1. UNCHANGED incidents
    BY <1>3 DEF ApplyUpdate, WriteLog, MatchOngoing, Abandon
  <2>2. \E stage \in Stages \ {"announceOpened", "saving"} : Goto(r, stage)
    BY <1>3 DEF ApplyUpdate, WriteLog, MatchOngoing, Abandon, Stages
  <2> QED
    BY <2>1, <2>2, GotoKeeps
<1> QED
  BY <1>1, <1>2, <1>3

\* Neither time, nor the target, nor the owner touches an incident.
LEMMA EnvironmentStep ==
  ASSUME AnnounceInv, PassTime \/ FlipTarget \/ OwnerStep
  PROVE  AnnounceInv' /\ UNCHANGED incidents
<1>1. CASE PassTime
  <2>1. UNCHANGED incidents
    BY <1>1 DEF PassTime
  <2>2. run' = [q \in Runner |->
                 [run[q] EXCEPT !.patch = Age(run[q].patch),
                                !.snap = IF Idle(q) THEN run[q].snap
                                                    ELSE Age(run[q].snap)]]
    BY <1>1 DEF PassTime
  <2>3. run' = [q \in Runner |-> run'[q]]
    BY <2>2
  <2>4. ASSUME NEW q \in Runner
        PROVE  /\ IsRun(run'[q]) /\ run'[q].incident = run[q].incident
               /\ run'[q].stage = run[q].stage
    <3> DEFINE p == Age(run[q].patch)
               t == IF Idle(q) THEN run[q].snap ELSE Age(run[q].snap)
    <3>1. run'[q] = [run[q] EXCEPT !.patch = p, !.snap = t]
      BY <2>2
    <3> HIDE DEF p, t
    <3> QED
      BY <3>1 DEF AnnounceInv, RunsOK, IsRun
  <2> QED
    BY <2>1, <2>3, <2>4, ElsewhereKeeps
<1>2. CASE FlipTarget \/ OwnerStep
  BY <1>2 DEF FlipTarget, OwnerStep, EditMonitor, DeleteMonitor, AnnounceInv, RunsOK, IncidentsOK, Pending, SamePending
<1> QED
  BY <1>1, <1>2

\* Every step keeps what announcements owe, and is a step of the ledger or none.
LEMMA LedgerStep ==
  ASSUME AnnounceInv, [Next]_vars
  PROVE  AnnounceInv' /\ [Ledger!Next]_incidents
<1>1. ASSUME NEW r \in Runner, CheckStep(r) \/ Abandon(r)
      PROVE  AnnounceInv' /\ [Ledger!Next]_incidents
  BY <1>1, InsertStep, ResolveStep, AnnounceStep, QuietStep DEF CheckStep
<1>2. CASE PassTime \/ FlipTarget \/ OwnerStep
  BY <1>2, EnvironmentStep
<1>3. CASE UNCHANGED vars
  BY <1>3 DEF vars, AnnounceInv, RunsOK, IncidentsOK, Pending, SamePending
<1> QED
  BY <1>1, <1>2, <1>3 DEF Next

\* What the runners are about to announce matches the incidents in every run
\* (incident.service.js).
THEOREM AnnounceInvariant == Spec => []AnnounceInv
<1>1. ASSUME Init
      PROVE  AnnounceInv
  <2>1. IsRun(NoRun) /\ NoRun.stage = "idle"
    BY DEF IsRun, NoRun
  <2>2. run = [r \in Runner |-> NoRun] /\ incidents = <<>>
    BY <1>1 DEF Init
  <2> QED
    BY <2>1, <2>2 DEF AnnounceInv, RunsOK, IncidentsOK, Pending, SamePending
<1>2. AnnounceInv /\ [Next]_vars => AnnounceInv'
  BY LedgerStep
<1> QED
  BY <1>1, <1>2, PTL DEF Spec

\* For any number of leaders, whatever crashes, fails, is edited or deleted: one
\* incident at most is ongoing, a resolved one stays resolved, each is announced
\* at most once when it opens and once when it closes.
THEOREM IncidentsObeyTheLedger == Spec => LedgerSpec
<1>1. Init => Ledger!Init
  BY DEF Init, Ledger!Init
<1>2. AnnounceInv /\ [Next]_vars => [Ledger!Next]_incidents
  BY LedgerStep
<1> QED
  BY <1>1, <1>2, AnnounceInvariant, PTL DEF Spec, LedgerSpec, Ledger!Spec

-----------------------------------------------------------------------------
(* The owner's edits *)

ConfigFields == {"failN", "succN", "interval", "active"}
MonitorFields == ConfigFields \union {"status", "fails", "succs", "nextIn", "breaker",
                                     "retryIn", "opens"}

\* What a check is about to set is nothing the owner sets.
EditInv ==
  /\ DOMAIN mon = MonitorFields
  /\ \A r \in Runner : DOMAIN run[r].patch \intersect ConfigFields = {}
  /\ EditsSurvive

\* A configuration is a record of its four fields.
LEMMA ConfigIsRecord ==
  ASSUME NEW c \in Configs
  PROVE  DOMAIN c = ConfigFields /\ Config(c) = c
BY CheckAssumption DEF CheckAssumption, ConfigFields, Config

\* A document's configuration is that of its four fields.
LEMMA ConfigOf ==
  ASSUME NEW m, NEW d, \A f \in ConfigFields : m[f] = d[f]
  PROVE  Config(m) = Config(d)
BY DEF Config, ConfigFields

\* {...p, ...q} has the fields of both, the later value winning.
IsSpread(x, p, q) ==
  /\ DOMAIN x = DOMAIN p \union DOMAIN q
  /\ \A f \in DOMAIN x : x[f] = IF f \in DOMAIN q THEN q[f] ELSE p[f]

\* A spread has the fields of both records, the later one winning.
LEMMA SpreadFields ==
  ASSUME NEW p, NEW q
  PROVE  IsSpread(Spread(p, q), p, q)
BY DEF Spread, IsSpread

\* The parts of the terminal write: counters, what the breaker asked for when the check
\* began, what it asks for now, and the transition.
Counters(c) == [fails |-> Fails(c), succs |-> Succs(c),
                nextIn |-> AtLeast(MinInterval, c.snap.interval)]
BreakerPatch(c) == IF c.up THEN onCheckSuccess(c.snap) ELSE onCheckFailure(c.snap, Fails(c))

\* The terminal write is spread together from the counters, both patches of the breaker
\* and the transition, the later ones winning.
LEMMA UpdateParts ==
  ASSUME NEW c
  PROVE  \E x, y, t : /\ DOMAIN t \subseteq {"status"}
                      /\ IsSpread(x, Counters(c), c.patch)
                      /\ IsSpread(y, x, BreakerPatch(c))
                      /\ IsSpread(Update(c), y, t)
<1> DEFINE t == CASE shouldOpen(c)  -> [status |-> "DOWN"]
                  [] shouldClose(c) -> [status |-> "UP"]
                  [] OTHER          -> NoPatch
           x == Spread(Counters(c), c.patch)
           y == Spread(x, BreakerPatch(c))
<1>1. DOMAIN t \subseteq {"status"}
  BY DEF NoPatch
<1>2. Update(c) = Spread(y, t)
  BY DEF Update, Counters, BreakerPatch
<1>3. IsSpread(x, Counters(c), c.patch)
  BY SpreadFields
<1> HIDE DEF x, t
<1>4. IsSpread(y, x, BreakerPatch(c))
  BY SpreadFields
<1> HIDE DEF y
<1>5. IsSpread(Update(c), y, t)
  BY <1>2, SpreadFields
<1> QED
  BY <1>1, <1>3, <1>4, <1>5

\* A patch of the breaker sets all of its fields, or none.
LEMMA BreakerPatchFields ==
  ASSUME NEW c
  PROVE  DOMAIN BreakerPatch(c) \in {{}, {"breaker", "retryIn", "opens"}}
BY DEF BreakerPatch, onCheckSuccess, onCheckFailure, OpenPatch, NoPatch

\* The terminal write names no field that its owner edits.
LEMMA UpdateSparesConfig ==
  ASSUME NEW c, DOMAIN c.patch \intersect ConfigFields = {}
  PROVE  DOMAIN Update(c) \intersect ConfigFields = {}
<1>1. PICK x, y, t : /\ DOMAIN t \subseteq {"status"}
                     /\ IsSpread(x, Counters(c), c.patch)
                     /\ IsSpread(y, x, BreakerPatch(c))
                     /\ IsSpread(Update(c), y, t)
  BY UpdateParts
<1>2. DOMAIN Counters(c) = {"fails", "succs", "nextIn"}
  BY DEF Counters
<1> QED
  BY <1>1, <1>2, BreakerPatchFields DEF ConfigFields, IsSpread

\* A check's own moves leave the patches of the others, and its own or none.
LEMMA GotoPatch ==
  ASSUME AnnounceInv, NEW r \in Runner, NEW stage, Goto(r, stage)
  PROVE  \A q \in Runner : run'[q].patch = run[q].patch \/ run'[q].patch = NoPatch
<1>1. ASSUME NEW q \in Runner
      PROVE  run'[q] = IF q # r THEN run[q]
                       ELSE IF stage = "idle" THEN NoRun ELSE [run[r] EXCEPT !.stage = stage]
  BY DEF AnnounceInv, RunsOK, Goto
<1>2. [run[r] EXCEPT !.stage = stage].patch = run[r].patch
  BY DEF AnnounceInv, RunsOK, IsRun
<1>3. NoRun.patch = NoPatch
  BY DEF NoRun
<1> QED
  BY <1>1, <1>2, <1>3

\* Every step keeps what the owner last wrote.
LEMMA EditStep ==
  ASSUME AnnounceInv, EditInv, [Next]_vars
  PROVE  EditInv'
<1>0. DOMAIN NoPatch = {}
  BY DEF NoPatch
<1>1. ASSUME UNCHANGED <<mon, exists, chosen>>,
             \A q \in Runner : \/ run'[q].patch = run[q].patch
                              \/ DOMAIN run'[q].patch \intersect ConfigFields = {}
      PROVE  EditInv'
  BY <1>1 DEF EditInv, EditsSurvive
<1>2. ASSUME NEW r \in Runner, NEW stage, Goto(r, stage), UNCHANGED <<mon, exists, chosen>>
      PROVE  EditInv'
  BY <1>0, <1>1, <1>2, GotoPatch
<1>3. ASSUME NEW r \in Runner, StartCheck(r)
      PROVE  EditInv'
  <2> DEFINE patch == evaluateBreaker(mon).patch
  <2>1. DOMAIN patch \subseteq {"breaker"}
    BY <1>0 DEF evaluateBreaker
  <2>2. run' = [run EXCEPT ![r] = [stage |-> "probing", snap |-> mon,
                                   probe |-> evaluateBreaker(mon).probe,
                                   patch |-> patch, up |-> FALSE, incident |-> 0]]
    BY <1>3 DEF StartCheck
  <2> HIDE DEF patch
  <2>3. \A q \in Runner : run'[q].patch = IF q = r THEN patch ELSE run[q].patch
    BY <2>2 DEF AnnounceInv, RunsOK
  <2> QED
    BY <1>1, <1>3, <2>1, <2>3 DEF StartCheck, ConfigFields
<1>4. ASSUME NEW r \in Runner, FinishProbe(r)
      PROVE  EditInv'
  <2> DEFINE c == [run[r] EXCEPT !.up = (target = "UP")]
             u == Update(c)
  <2>1. run' = [run EXCEPT ![r] = [c EXCEPT !.stage = "updating", !.patch = u]]
    BY <1>4 DEF FinishProbe
  <2>2. DOMAIN c = {"stage", "snap", "probe", "patch", "up", "incident"} /\ c.patch = run[r].patch
    BY DEF AnnounceInv, RunsOK, IsRun
  <2>3. DOMAIN u \intersect ConfigFields = {}
    BY <2>2, UpdateSparesConfig DEF EditInv
  <2> HIDE DEF c, u
  <2>4. [c EXCEPT !.stage = "updating", !.patch = u].patch = u
    BY <2>2
  <2>5. \A q \in Runner : run'[q].patch = IF q = r THEN u ELSE run[q].patch
    BY <2>1, <2>4 DEF AnnounceInv, RunsOK
  <2> QED
    BY <1>1, <1>4, <2>3, <2>5 DEF FinishProbe
<1>5. ASSUME NEW r \in Runner, ApplyUpdate(r)
      PROVE  EditInv'
  <2>1. mon' = IF exists THEN Overlay(run[r].patch, mon) ELSE mon
    BY <1>5 DEF ApplyUpdate, Written
  <2>2. DOMAIN mon' = MonitorFields /\ \A f \in ConfigFields : mon'[f] = mon[f]
    BY <2>1 DEF Overlay, EditInv, MonitorFields
  <2>3. Config(mon') = Config(mon)
    BY <2>2, ConfigOf
  <2>4. \A q \in Runner : run'[q].patch = run[q].patch \/ run'[q].patch = NoPatch
    BY <1>5, GotoPatch DEF ApplyUpdate
  <2>5. UNCHANGED <<exists, chosen>>
    BY <1>5 DEF ApplyUpdate
  <2>6. EditsSurvive'
    BY <2>3, <2>5 DEF EditsSurvive, EditInv, Config
  <2> QED
    BY <1>0, <2>2, <2>4, <2>6 DEF EditInv
<1>6. ASSUME NEW r \in Runner,
             \/ WriteLog(r) \/ MatchOngoing(r) \/ AnnounceOpened(r) \/ AnnounceClosed(r)
             \/ Abandon(r)
      PROVE  EditInv'
  BY <1>2, <1>6 DEF WriteLog, MatchOngoing, AnnounceOpened, AnnounceClosed, Abandon
<1>7. ASSUME NEW r \in Runner, NEW stage, NEW i,
             run' = [run EXCEPT ![r].stage = stage, ![r].incident = i],
             UNCHANGED <<mon, exists, chosen>>
      PROVE  EditInv'
  <2>1. \A q \in Runner : run'[q].patch = run[q].patch
    BY <1>7 DEF AnnounceInv, RunsOK, IsRun
  <2> QED
    BY <1>1, <1>7, <2>1
<1>8. ASSUME NEW r \in Runner, InsertIncident(r) \/ ResolveIncident(r)
      PROVE  EditInv'
  BY <1>2, <1>7, <1>8 DEF InsertIncident, ResolveIncident
<1>9. CASE PassTime
  <2>1. DOMAIN mon' = MonitorFields /\ \A f \in ConfigFields : mon'[f] = mon[f]
    BY <1>9 DEF PassTime, Age, EditInv, MonitorFields, ConfigFields
  <2>2. Config(mon') = Config(mon)
    BY <2>1, ConfigOf
  <2>3. ASSUME NEW q \in Runner
        PROVE  DOMAIN run'[q].patch = DOMAIN run[q].patch
    <3> DEFINE p == Age(run[q].patch)
               t == IF Idle(q) THEN run[q].snap ELSE Age(run[q].snap)
    <3>1. run'[q] = [run[q] EXCEPT !.patch = p, !.snap = t]
      BY <1>9 DEF PassTime
    <3>2. DOMAIN p = DOMAIN run[q].patch
      BY DEF Age
    <3> HIDE DEF p, t
    <3> QED
      BY <3>1, <3>2 DEF AnnounceInv, RunsOK, IsRun
  <2>4. EditsSurvive'
    BY <1>9, <2>2 DEF PassTime, EditsSurvive, EditInv, Config
  <2> QED
    BY <2>1, <2>3, <2>4 DEF EditInv
<1>10. ASSUME NEW c \in Configs, EditMonitor(c)
       PROVE  EditInv'
  <2>1. mon' = Overlay(c, mon) /\ chosen' = c /\ run' = run
    BY <1>10 DEF EditMonitor
  <2>2. DOMAIN mon' = MonitorFields /\ \A f \in ConfigFields : mon'[f] = c[f]
    BY <2>1, ConfigIsRecord DEF Overlay, EditInv, MonitorFields
  <2>3. Config(mon') = c
    BY <2>2, ConfigOf, ConfigIsRecord
  <2> QED
    BY <2>1, <2>2, <2>3 DEF EditInv, EditsSurvive, Config
<1>11. CASE DeleteMonitor
  BY <1>11 DEF DeleteMonitor, EditInv, EditsSurvive
<1>12. CASE FlipTarget \/ UNCHANGED vars
  BY <1>1, <1>12 DEF FlipTarget, vars
<1> QED
  BY <1>3, <1>4, <1>5, <1>6, <1>8, <1>9, <1>10, <1>11, <1>12 DEF Next, CheckStep, OwnerStep

\* A new monitor has the configuration its owner chose, and no check writes yet.
LEMMA EditInit == Init => EditInv
<1> SUFFICES ASSUME Init PROVE EditInv
  OBVIOUS
<1>1. PICK c \in Configs : mon = NewMonitor(c) /\ chosen = c
  BY DEF Init
<1>2. DOMAIN mon = MonitorFields /\ \A f \in ConfigFields : mon[f] = c[f]
  BY <1>1 DEF NewMonitor, MonitorFields, ConfigFields
<1>3. Config(mon) = c
  BY <1>2, ConfigOf, ConfigIsRecord
<1>4. \A r \in Runner : DOMAIN run[r].patch = {}
  BY DEF Init, NoRun, NoPatch
<1> QED
  BY <1>1, <1>2, <1>3, <1>4 DEF EditInv, EditsSurvive

\* The owner's edits survive the checks under way, however many runners race on the
\* monitor: runCheck writes the fields of its $set, and none of them is the owner's.
THEOREM EditsAreKept == Spec => []EditsSurvive
<1>1. AnnounceInv /\ EditInv /\ [Next]_vars => EditInv'
  BY EditStep
<1>2. EditInv => EditsSurvive
  BY DEF EditInv
<1> QED
  BY <1>1, <1>2, EditInit, AnnounceInvariant, PTL DEF Spec

-----------------------------------------------------------------------------
(* The breaker, with one runner *)

OneRunner == \A q, r \in Runner : q = r

Failing(breaker, fails, opens) ==
  /\ fails \in Nat /\ opens \in Nat
  /\ breaker # "CLOSED" => fails >= BREAKER_FAILURE_THRESHOLD /\ opens > 0

\* What a field of the document will be once check c has written.
Will(c, f) == IF f \in DOMAIN c.patch THEN c.patch[f] ELSE mon[f]

\* A check sees the breaker as it is, and what it will write is sound.
SeesBreaker(c) ==
  /\ DOMAIN c.snap = MonitorFields
  /\ c.snap.breaker = mon.breaker /\ c.snap.fails = mon.fails /\ c.snap.opens = mon.opens
  /\ \/ DOMAIN c.patch = {}
     \/ DOMAIN c.patch = {"breaker"} /\ c.patch.breaker = "HALF_OPEN" /\ mon.breaker = "OPEN"

BreakerOK(c) ==
  /\ c.stage = "probing" => SeesBreaker(c)
  /\ c.stage = "updating" => Failing(Will(c, "breaker"), Will(c, "fails"), Will(c, "opens"))

BreakerInv ==
  /\ Failing(mon.breaker, mon.fails, mon.opens)
  /\ \A r \in Runner : BreakerOK(run[r])

\* The write of a check that sees the breaker as it is leaves it open on failures only.
LEMMA UpdateSound ==
  ASSUME NEW c, SeesBreaker(c), Failing(mon.breaker, mon.fails, mon.opens), NEW d,
         d.patch = Update(c)
  PROVE  Failing(Will(d, "breaker"), Will(d, "fails"), Will(d, "opens"))
<1>1. PICK x, y, t : /\ DOMAIN t \subseteq {"status"}
                     /\ IsSpread(x, Counters(c), c.patch)
                     /\ IsSpread(y, x, BreakerPatch(c))
                     /\ IsSpread(Update(c), y, t)
  BY UpdateParts
<1>2. DOMAIN Counters(c) = {"fails", "succs", "nextIn"} /\ Counters(c).fails = Fails(c)
  BY DEF Counters
<1>3. DOMAIN c.patch \subseteq {"breaker"}
  BY DEF SeesBreaker
<1>4. /\ DOMAIN x = {"fails", "succs", "nextIn"} \union DOMAIN c.patch
      /\ x["fails"] = Fails(c)
      /\ "breaker" \in DOMAIN c.patch => x["breaker"] = c.patch.breaker
  BY <1>1, <1>2, <1>3 DEF IsSpread
<1>5. /\ DOMAIN y = DOMAIN x \union DOMAIN BreakerPatch(c)
      /\ y["fails"] = Fails(c)
      /\ "breaker" \in DOMAIN BreakerPatch(c) => y["breaker"] = BreakerPatch(c)["breaker"]
      /\ "opens" \in DOMAIN BreakerPatch(c) => y["opens"] = BreakerPatch(c)["opens"]
      /\ BreakerPatch(c) = NoPatch /\ "breaker" \in DOMAIN c.patch => y["breaker"] = c.patch.breaker
  <2>1. "fails" \notin DOMAIN BreakerPatch(c)
    BY BreakerPatchFields
  <2>2. DOMAIN NoPatch = {}
    BY DEF NoPatch
  <2> QED
    BY <1>1, <1>4, <2>1, <2>2 DEF IsSpread
<1>6. /\ DOMAIN d.patch = DOMAIN y \union DOMAIN t
      /\ \A f \in DOMAIN y \ {"status"} : d.patch[f] = y[f]
  BY <1>1 DEF IsSpread
<1>7. /\ Will(d, "fails") = Fails(c)
      /\ Will(d, "breaker") = IF "breaker" \in DOMAIN y THEN y["breaker"] ELSE mon.breaker
      /\ Will(d, "opens") = IF "opens" \in DOMAIN y THEN y["opens"] ELSE mon.opens
  BY <1>1, <1>4, <1>5, <1>6 DEF Will
<1>8. mon.fails \in Nat /\ mon.opens \in Nat /\ CounterCap \in Nat /\ OpensCap \in Nat \ {0}
      /\ BREAKER_FAILURE_THRESHOLD \in Nat /\ BREAKER_FAILURE_THRESHOLD <= CounterCap
      /\ (mon.breaker # "CLOSED" => mon.fails >= BREAKER_FAILURE_THRESHOLD /\ mon.opens > 0)
      /\ c.snap.breaker = mon.breaker /\ c.snap.fails = mon.fails /\ c.snap.opens = mon.opens
  BY CheckAssumption, BreakerAssumption DEF CheckAssumption, BreakerAssumption, Failing, SeesBreaker
<1>9. CASE BreakerPatch(c) = NoPatch
  <2>1. /\ "breaker" \in DOMAIN y <=> "breaker" \in DOMAIN c.patch
        /\ "opens" \notin DOMAIN y
    BY <1>3, <1>4, <1>5, <1>9 DEF NoPatch
  <2>2. /\ Will(d, "opens") = mon.opens
        /\ \/ Will(d, "breaker") = mon.breaker
           \/ Will(d, "breaker") = "HALF_OPEN" /\ mon.breaker = "OPEN"
    BY <1>5, <1>7, <1>9, <2>1 DEF SeesBreaker
  <2>3. CASE c.up
    <3>1. mon.breaker = "CLOSED"
      <4>1. onCheckSuccess(c.snap) = NoPatch
        BY <1>9, <2>3 DEF BreakerPatch
      <4>2. DOMAIN [breaker |-> "CLOSED", retryIn |-> 0, opens |-> 0] # DOMAIN NoPatch
        BY DEF NoPatch
      <4> QED
        BY <1>8, <4>1, <4>2 DEF onCheckSuccess
    <3>2. Fails(c) = 0
      BY <2>3 DEF Fails
    <3> QED
      BY <1>7, <1>8, <2>2, <3>1, <3>2 DEF Failing
  <2>4. CASE ~c.up
    <3>1. Fails(c) \in Nat /\ (mon.fails >= BREAKER_FAILURE_THRESHOLD => Fails(c) >= BREAKER_FAILURE_THRESHOLD)
      BY <1>8, <2>4 DEF Fails, AtMost
    <3> QED
      BY <1>7, <1>8, <2>2, <3>1 DEF Failing
  <2> QED
    BY <2>3, <2>4
<1>10. CASE BreakerPatch(c) # NoPatch
  <2>1. /\ DOMAIN BreakerPatch(c) = {"breaker", "retryIn", "opens"}
        /\ \/ c.up /\ BreakerPatch(c)["breaker"] = "CLOSED" /\ BreakerPatch(c)["opens"] = 0
           \/ /\ ~c.up /\ BreakerPatch(c)["opens"] \in Nat \ {0}
              /\ mon.breaker = "HALF_OPEN" \/ Fails(c) >= BREAKER_FAILURE_THRESHOLD
    BY <1>8, <1>10 DEF BreakerPatch, onCheckSuccess, onCheckFailure, OpenPatch
  <2>2. /\ Will(d, "breaker") = BreakerPatch(c)["breaker"]
        /\ Will(d, "opens") = BreakerPatch(c)["opens"]
    BY <1>5, <1>7, <2>1
  <2>3. Fails(c) \in Nat /\ (~c.up /\ mon.fails >= BREAKER_FAILURE_THRESHOLD
                              => Fails(c) >= BREAKER_FAILURE_THRESHOLD)
    BY <1>8 DEF Fails, AtMost
  <2> QED
    BY <1>7, <1>8, <2>1, <2>2, <2>3 DEF Failing
<1> QED
  BY <1>9, <1>10

\* With one runner, every step keeps an open breaker on a failing monitor.
LEMMA BreakerStep ==
  ASSUME OneRunner, AnnounceInv, EditInv, BreakerInv, [Next]_vars
  PROVE  BreakerInv'
<1>0. /\ Failing(mon.breaker, mon.fails, mon.opens)
      /\ \A r \in Runner : BreakerOK(run[r])
      /\ DOMAIN mon = MonitorFields
      /\ \A r \in Runner : IsRun(run[r])
      /\ run = [r \in Runner |-> run[r]]
  BY DEF BreakerInv, EditInv, AnnounceInv, RunsOK
<1>1. ASSUME mon' = mon, NEW r \in Runner,
             run'[r].stage \notin {"probing", "updating"}
      PROVE  BreakerInv'
  <2>1. Failing(mon.breaker, mon.fails, mon.opens)'
    BY <1>0, <1>1 DEF Failing
  <2>2. ASSUME NEW q \in Runner
        PROVE  BreakerOK(run[q])'
    <3>1. q = r
      BY DEF OneRunner
    <3> QED
      BY <1>1, <3>1 DEF BreakerOK
  <2> QED
    BY <2>1, <2>2 DEF BreakerInv
<1>2. ASSUME NEW r \in Runner, NEW stage \in Stages \ {"probing", "updating"}, Goto(r, stage)
      PROVE  run'[r].stage \notin {"probing", "updating"}
  BY <1>2, GotoRun
<1>3. ASSUME NEW r \in Runner, StartCheck(r)
      PROVE  BreakerInv'
  <2>1. /\ mon' = mon
        /\ run' = [run EXCEPT ![r] = [stage |-> "probing", snap |-> mon,
                                     probe |-> evaluateBreaker(mon).probe,
                                     patch |-> evaluateBreaker(mon).patch,
                                     up |-> FALSE, incident |-> 0]]
    BY <1>3 DEF StartCheck
  <2>2. PICK patch : /\ patch = evaluateBreaker(mon).patch
                     /\ \/ DOMAIN patch = {}
                        \/ DOMAIN patch = {"breaker"} /\ patch.breaker = "HALF_OPEN"
                             /\ mon.breaker = "OPEN"
    <3>1. \/ evaluateBreaker(mon).patch = NoPatch
          \/ evaluateBreaker(mon).patch = [breaker |-> "HALF_OPEN"] /\ mon.breaker = "OPEN"
      BY DEF evaluateBreaker
    <3>2. DOMAIN NoPatch = {}
      BY DEF NoPatch
    <3>3. PICK q : q = evaluateBreaker(mon).patch
      OBVIOUS
    <3> QED
      BY <3>1, <3>2, <3>3
  <2>3. /\ run'[r].stage = "probing" /\ run'[r].snap = mon /\ run'[r].patch = patch
    BY <1>0, <2>1, <2>2
  <2>4. Failing(mon.breaker, mon.fails, mon.opens)'
    BY <1>0, <2>1 DEF Failing
  <2>5. SeesBreaker(run[r])'
    BY <1>0, <2>1, <2>2, <2>3 DEF SeesBreaker
  <2>6. ASSUME NEW q \in Runner
        PROVE  BreakerOK(run[q])'
    <3>1. q = r
      BY DEF OneRunner
    <3> QED
      BY <2>3, <2>5, <3>1 DEF BreakerOK
  <2> QED
    BY <2>4, <2>6 DEF BreakerInv
<1>4. ASSUME NEW r \in Runner, FinishProbe(r)
      PROVE  BreakerInv'
  <2> DEFINE t == target = "UP"
             c == [run[r] EXCEPT !.up = t]
             u == Update(c)
  <2>1. /\ mon' = mon /\ run[r].stage = "probing"
        /\ run' = [run EXCEPT ![r] = [c EXCEPT !.stage = "updating", !.patch = u]]
    BY <1>4 DEF FinishProbe
  <2> HIDE DEF t
  <2>2. c.snap = run[r].snap /\ c.patch = run[r].patch
    BY <1>0 DEF IsRun
  <2>3. DOMAIN c = {"stage", "snap", "probe", "patch", "up", "incident"}
    BY <1>0 DEF IsRun
  <2>4. SeesBreaker(c)
    BY <1>0, <2>1, <2>2 DEF BreakerOK, SeesBreaker
  <2> HIDE DEF c, u
  <2>5. [c EXCEPT !.stage = "updating", !.patch = u].patch = u
    BY <2>3
  <2>6. PICK d : d = run'[r]
    OBVIOUS
  <2>7. d.patch = u
    BY <1>0, <2>1, <2>5, <2>6
  <2>8. Failing(Will(d, "breaker"), Will(d, "fails"), Will(d, "opens"))
    BY <1>0, <2>4, <2>7, UpdateSound DEF u
  <2>9. Failing(mon.breaker, mon.fails, mon.opens)'
    BY <1>0, <2>1 DEF Failing
  <2>10. run'[r].stage = "updating"
    BY <1>0, <2>1, <2>3
  <2>11. ASSUME NEW q \in Runner
         PROVE  BreakerOK(run[q])'
    <3>1. q = r
      BY DEF OneRunner
    <3> QED
      BY <2>1, <2>6, <2>8, <2>10, <3>1 DEF BreakerOK, Will, Failing
  <2> QED
    BY <2>9, <2>11 DEF BreakerInv
<1>5. ASSUME NEW r \in Runner, ApplyUpdate(r)
      PROVE  BreakerInv'
  <2>1. /\ run[r].stage = "updating" /\ Goto(r, "logging")
        /\ mon' = IF exists THEN Overlay(run[r].patch, mon) ELSE mon
    BY <1>5 DEF ApplyUpdate, Written
  <2>2. Failing(mon.breaker, mon.fails, mon.opens)'
    <3>1. CASE exists
      <4>1. /\ mon'.breaker = Will(run[r], "breaker") /\ mon'.fails = Will(run[r], "fails")
            /\ mon'.opens = Will(run[r], "opens")
        BY <1>0, <2>1, <3>1 DEF Overlay, Will, MonitorFields
      <4>2. Failing(Will(run[r], "breaker"), Will(run[r], "fails"), Will(run[r], "opens"))
        BY <1>0, <2>1 DEF BreakerOK
      <4> QED
        BY <4>1, <4>2 DEF Failing
    <3>2. CASE ~exists
      BY <1>0, <2>1, <3>2 DEF Failing
    <3> QED
      BY <3>1, <3>2
  <2>3. run'[r].stage \notin {"probing", "updating"}
    BY <1>2, <2>1 DEF Stages
  <2>4. ASSUME NEW q \in Runner
        PROVE  BreakerOK(run[q])'
    <3>1. q = r
      BY DEF OneRunner
    <3> QED
      BY <2>3, <3>1 DEF BreakerOK
  <2> QED
    BY <2>2, <2>4 DEF BreakerInv
<1>6. ASSUME NEW r \in Runner,
             \/ WriteLog(r) \/ MatchOngoing(r) \/ AnnounceOpened(r) \/ AnnounceClosed(r)
             \/ Abandon(r)
      PROVE  BreakerInv'
  BY <1>1, <1>2, <1>6 DEF WriteLog, MatchOngoing, AnnounceOpened, AnnounceClosed, Abandon, Stages
<1>7. ASSUME NEW r \in Runner, InsertIncident(r) \/ ResolveIncident(r)
      PROVE  BreakerInv'
  <2>1. mon' = mon
    BY <1>7 DEF InsertIncident, ResolveIncident
  <2>2. ASSUME NEW stage, NEW i, run' = [run EXCEPT ![r].stage = stage, ![r].incident = i]
        PROVE  run'[r].stage = stage
    BY <1>0, <2>2 DEF IsRun
  <2>3. run'[r].stage \notin {"probing", "updating"}
    BY <1>2, <1>7, <2>2 DEF InsertIncident, ResolveIncident, Stages
  <2> QED
    BY <1>1, <2>1, <2>3
<1>8. ASSUME \A f \in {"breaker", "fails", "opens"} : mon'[f] = mon[f],
             \A q \in Runner :
               /\ run'[q].stage = run[q].stage
               /\ DOMAIN run'[q].patch = DOMAIN run[q].patch
               /\ \A f \in {"breaker", "fails", "opens"} \intersect DOMAIN run[q].patch :
                    run'[q].patch[f] = run[q].patch[f]
               /\ run[q].stage = "probing" =>
                    /\ DOMAIN run'[q].snap = DOMAIN run[q].snap
                    /\ DOMAIN run[q].snap = MonitorFields =>
                        \A f \in {"breaker", "fails", "opens"} : run'[q].snap[f] = run[q].snap[f]
      PROVE  BreakerInv'
  <2>1. Failing(mon.breaker, mon.fails, mon.opens)'
    BY <1>0, <1>8 DEF Failing
  <2>2. ASSUME NEW q \in Runner
        PROVE  BreakerOK(run[q])'
    <3>1. BreakerOK(run[q])
      BY <1>0
    <3>2. CASE run[q].stage = "probing"
      BY <1>8, <3>1, <3>2 DEF BreakerOK, SeesBreaker
    <3>3. CASE run[q].stage = "updating"
      BY <1>8, <3>1, <3>3 DEF BreakerOK, Will, Failing
    <3>4. CASE run[q].stage \notin {"probing", "updating"}
      BY <1>8, <3>4 DEF BreakerOK
    <3> QED
      BY <3>2, <3>3, <3>4
  <2> QED
    BY <2>1, <2>2 DEF BreakerInv
<1>9. CASE PassTime
  <2>1. \A f \in {"breaker", "fails", "opens"} : mon'[f] = mon[f]
    BY <1>0, <1>9 DEF PassTime, Age, MonitorFields
  <2>2. ASSUME NEW q \in Runner
        PROVE  /\ run'[q].stage = run[q].stage
               /\ run'[q].patch = Age(run[q].patch)
               /\ run[q].stage = "probing" => run'[q].snap = Age(run[q].snap)
    <3> DEFINE p == Age(run[q].patch)
               t == IF Idle(q) THEN run[q].snap ELSE Age(run[q].snap)
    <3>1. run'[q] = [run[q] EXCEPT !.patch = p, !.snap = t]
      BY <1>9 DEF PassTime
    <3>2. run[q].stage = "probing" => t = Age(run[q].snap)
      BY DEF Idle
    <3> HIDE DEF p, t
    <3>3. /\ run'[q].stage = run[q].stage /\ run'[q].patch = p /\ run'[q].snap = t
      BY <1>0, <3>1 DEF IsRun
    <3> QED
      BY <3>2, <3>3 DEF p
  <2>3. ASSUME NEW d
        PROVE  /\ DOMAIN Age(d) = DOMAIN d
               /\ \A f \in {"breaker", "fails", "opens"} \intersect DOMAIN d : Age(d)[f] = d[f]
    BY DEF Age
  <2> QED
    BY <1>8, <2>1, <2>2, <2>3 DEF MonitorFields
<1>10. ASSUME NEW c \in Configs, EditMonitor(c)
       PROVE  BreakerInv'
  <2>1. mon' = Overlay(c, mon) /\ run' = run
    BY <1>10 DEF EditMonitor
  <2>2. \A f \in {"breaker", "fails", "opens"} : mon'[f] = mon[f]
    BY <1>0, <2>1, ConfigIsRecord DEF Overlay, MonitorFields, ConfigFields
  <2> QED
    BY <1>8, <2>1, <2>2
<1>11. CASE DeleteMonitor \/ FlipTarget \/ UNCHANGED vars
  <2>1. mon' = mon /\ run' = run
    BY <1>11 DEF DeleteMonitor, FlipTarget, vars
  <2> QED
    BY <1>8, <2>1
<1> QED
  BY <1>3, <1>4, <1>5, <1>6, <1>7, <1>9, <1>10, <1>11 DEF Next, CheckStep, OwnerStep

\* With one runner - and it takes one: a second check decides on the document as it was
\* before the first wrote - a breaker is open or half open only while the monitor is at
\* its failure threshold, so circuitBreaker.js never skips a healthy target, whatever
\* crashes, fails or is edited between the reading of the document and the write.
THEOREM BreakerOpensOnFailure ==
  ASSUME OneRunner
  PROVE  Spec => []OpenBreakerMeansFailing
<1>1. ASSUME Init
      PROVE  BreakerInv
  <2>1. PICK c \in Configs : mon = NewMonitor(c)
    BY <1>1 DEF Init
  <2>2. \A r \in Runner : run[r].stage = "idle"
    BY <1>1 DEF Init, NoRun
  <2>3. Failing(mon.breaker, mon.fails, mon.opens)
    BY <2>1 DEF NewMonitor, Failing
  <2> QED
    BY <2>2, <2>3 DEF BreakerInv, BreakerOK
<1>2. AnnounceInv /\ EditInv /\ [Next]_vars => EditInv'
  BY EditStep
<1>3. AnnounceInv /\ EditInv /\ BreakerInv /\ [Next]_vars => BreakerInv'
  BY BreakerStep
<1>4. BreakerInv => OpenBreakerMeansFailing
  BY DEF BreakerInv, Failing, OpenBreakerMeansFailing
<1> QED
  BY <1>1, <1>2, <1>3, <1>4, EditInit, AnnounceInvariant, PTL DEF Spec

-----------------------------------------------------------------------------
(* Transitions follow streaks, with one runner *)

\* The failures in a row, and the successes, that the history counts.
Downs == IF streak.status = "DOWN" THEN streak.len ELSE 0
Ups   == IF streak.status = "UP" THEN streak.len ELSE 0

\* The outcome of check c is the last one of the history.
Counted(c) ==
  /\ streak.status = IF c.up THEN "UP" ELSE "DOWN"
  /\ streak.len = IF c.up THEN Succs(c) ELSE Fails(c)

StreakOK(c) ==
  /\ c.up \in BOOLEAN
  /\ c.stage # "idle" => DOMAIN c.snap = MonitorFields
  /\ c.stage = "probing" => DOMAIN c.patch \subseteq {"breaker"}
  /\ c.stage \in {"probing", "updating"} => c.snap.fails = Downs /\ c.snap.succs = Ups
  /\ c.stage = "updating" =>
       /\ {"fails", "succs"} \subseteq DOMAIN c.patch
       /\ c.patch["fails"] = Fails(c) /\ c.patch["succs"] = Succs(c)
  /\ c.stage \in {"logging", "matching", "inserting", "closing"} => Counted(c)
  /\ c.stage \in {"matching", "inserting"} => shouldOpen(c)
  /\ c.stage = "closing" => shouldClose(c)

StreakInv ==
  /\ streak.status \in {"UP", "DOWN"} /\ streak.len \in Nat
  /\ exists => mon.fails = Downs /\ mon.succs = Ups
  /\ \A r \in Runner : StreakOK(run[r])

\* What a check decides depends on its outcome and on what it read.
LEMMA SameDecision ==
  ASSUME NEW c, NEW d, c.up = d.up,
         \A f \in {"fails", "succs", "status", "failN", "succN"} : c.snap[f] = d.snap[f]
  PROVE  /\ Fails(c) = Fails(d) /\ Succs(c) = Succs(d)
         /\ shouldOpen(c) = shouldOpen(d) /\ shouldClose(c) = shouldClose(d)
BY DEF Fails, Succs, shouldOpen, shouldClose

\* The terminal write sets the counters to the ones of the check.
LEMMA UpdateCounts ==
  ASSUME NEW c, DOMAIN c.patch \subseteq {"breaker"}
  PROVE  /\ {"fails", "succs"} \subseteq DOMAIN Update(c)
         /\ Update(c)["fails"] = Fails(c) /\ Update(c)["succs"] = Succs(c)
<1>1. PICK x, y, t : /\ DOMAIN t \subseteq {"status"}
                     /\ IsSpread(x, Counters(c), c.patch)
                     /\ IsSpread(y, x, BreakerPatch(c))
                     /\ IsSpread(Update(c), y, t)
  BY UpdateParts
<1>2. /\ DOMAIN Counters(c) = {"fails", "succs", "nextIn"}
      /\ Counters(c)["fails"] = Fails(c) /\ Counters(c)["succs"] = Succs(c)
  BY DEF Counters
<1>3. /\ {"fails", "succs"} \subseteq DOMAIN x
      /\ x["fails"] = Fails(c) /\ x["succs"] = Succs(c)
  BY <1>1, <1>2 DEF IsSpread
<1>4. /\ {"fails", "succs"} \subseteq DOMAIN y
      /\ y["fails"] = Fails(c) /\ y["succs"] = Succs(c)
  BY <1>1, <1>3, BreakerPatchFields DEF IsSpread
<1> QED
  BY <1>1, <1>4 DEF IsSpread

\* The history counts the check as the document does.
LEMMA CountsAgree ==
  ASSUME NEW c, c.up \in BOOLEAN, c.snap.fails = Downs, c.snap.succs = Ups,
         streak.status \in {"UP", "DOWN"}, streak.len \in Nat, NEW status,
         status = IF c.up THEN "UP" ELSE "DOWN",
         streak' = [status |-> status,
                    len |-> IF streak.status = status
                            THEN AtMost(streak.len + 1, CounterCap) ELSE 1]
  PROVE  /\ streak'.status = status /\ streak'.len \in Nat
         /\ streak'.len = IF c.up THEN Succs(c) ELSE Fails(c)
         /\ Downs' = Fails(c) /\ Ups' = Succs(c)
<1>1. CounterCap \in Nat /\ CounterCap >= 1
  BY CheckAssumption, BreakerAssumption DEF CheckAssumption, BreakerAssumption
<1>2. /\ streak'.status = status
      /\ streak'.len = IF streak.status = status
                       THEN AtMost(streak.len + 1, CounterCap) ELSE 1
  OBVIOUS
<1>3. AtMost(0 + 1, CounterCap) = 1 /\ AtMost(streak.len + 1, CounterCap) \in Nat
  BY <1>1 DEF AtMost
<1>4. CASE c.up
  BY <1>2, <1>3, <1>4 DEF Fails, Succs, Downs, Ups
<1>5. CASE ~c.up
  BY <1>2, <1>3, <1>5 DEF Fails, Succs, Downs, Ups
<1> QED
  BY <1>4, <1>5

\* Goto keeps what a check knows, or ends it.
LEMMA GotoFields ==
  ASSUME AnnounceInv, NEW r \in Runner, NEW stage, Goto(r, stage)
  PROVE  \E d : /\ run'[r] = d /\ d.stage = stage
                /\ d.up \in BOOLEAN \/ stage # "idle"
                /\ stage # "idle" =>
                     d.snap = run[r].snap /\ d.up = run[r].up /\ d.patch = run[r].patch
<1>1. run'[r] = IF stage = "idle" THEN NoRun ELSE [run[r] EXCEPT !.stage = stage]
  BY DEF AnnounceInv, RunsOK, Goto
<1>2. NoRun.stage = "idle" /\ NoRun.up = FALSE
  BY DEF NoRun
<1>3. ASSUME NEW d, d = [run[r] EXCEPT !.stage = stage]
      PROVE  d.stage = stage /\ d.snap = run[r].snap /\ d.up = run[r].up /\ d.patch = run[r].patch
  BY <1>3 DEF AnnounceInv, RunsOK, IsRun
<1>4. CASE stage = "idle"
  BY <1>1, <1>2, <1>4
<1>5. CASE stage # "idle"
  BY <1>1, <1>3, <1>5
<1> QED
  BY <1>4, <1>5

\* One step of StreakInv: with one runner nothing moves the counters between the
\* reading of the document and the write.
LEMMA StreakStep ==
  ASSUME OneRunner, AnnounceInv, EditInv, StreakInv, [Next]_vars
  PROVE  StreakInv'
<1>0. /\ streak.status \in {"UP", "DOWN"} /\ streak.len \in Nat
      /\ exists => mon.fails = Downs /\ mon.succs = Ups
      /\ \A r \in Runner : StreakOK(run[r])
      /\ DOMAIN mon = MonitorFields
      /\ \A r \in Runner : IsRun(run[r])
      /\ run = [r \in Runner |-> run[r]]
  BY DEF StreakInv, EditInv, AnnounceInv, RunsOK
<1>1. ASSUME NEW r \in Runner, NEW d, run'[r] = d, StreakOK(d), mon' = mon, streak' = streak,
             exists' => exists
      PROVE  StreakInv'
  <2>1. Downs' = Downs /\ Ups' = Ups
    BY <1>1 DEF Downs, Ups
  <2>2. StreakOK(d)'
    BY <1>1, <2>1 DEF StreakOK, Counted
  <2>3. ASSUME NEW q \in Runner
        PROVE  StreakOK(run[q])'
    <3>1. q = r
      BY DEF OneRunner
    <3> QED
      BY <1>1, <2>2, <3>1 DEF StreakOK, Counted
  <2> QED
    BY <1>0, <1>1, <2>1, <2>3 DEF StreakInv
<1>2. ASSUME NEW d, d.stage \notin {"probing", "updating", "logging", "matching", "inserting", "closing"},
             d.up \in BOOLEAN, d.stage # "idle" => DOMAIN d.snap = MonitorFields
      PROVE  StreakOK(d)
  BY <1>2 DEF StreakOK
<1>3. ASSUME NEW r \in Runner, StartCheck(r)
      PROVE  StreakInv'
  <2>1. /\ mon' = mon /\ exists /\ exists' = exists /\ streak' = streak
        /\ run' = [run EXCEPT ![r] = [stage |-> "probing", snap |-> mon,
                                     probe |-> evaluateBreaker(mon).probe,
                                     patch |-> evaluateBreaker(mon).patch,
                                     up |-> FALSE, incident |-> 0]]
    BY <1>3 DEF StartCheck
  <2>2. PICK patch : patch = evaluateBreaker(mon).patch /\ DOMAIN patch \subseteq {"breaker"}
    <3>1. \/ evaluateBreaker(mon).patch = NoPatch
          \/ evaluateBreaker(mon).patch = [breaker |-> "HALF_OPEN"]
      BY DEF evaluateBreaker
    <3>2. DOMAIN NoPatch = {}
      BY DEF NoPatch
    <3>3. PICK q : q = evaluateBreaker(mon).patch
      OBVIOUS
    <3> QED
      BY <3>1, <3>2, <3>3
  <2>3. PICK d : d = run'[r]
    OBVIOUS
  <2>4. d.stage = "probing" /\ d.snap = mon /\ d.patch = patch /\ d.up = FALSE
    BY <1>0, <2>1, <2>2, <2>3
  <2>5. StreakOK(d)
    BY <1>0, <2>1, <2>2, <2>4 DEF StreakOK
  <2> QED
    BY <1>1, <2>1, <2>3, <2>5
<1>4. ASSUME NEW r \in Runner, FinishProbe(r)
      PROVE  StreakInv'
  <2> DEFINE t == target = "UP"
             c == [run[r] EXCEPT !.up = t]
             u == Update(c)
  <2>1. /\ mon' = mon /\ exists' = exists /\ streak' = streak /\ run[r].stage = "probing"
        /\ run' = [run EXCEPT ![r] = [c EXCEPT !.stage = "updating", !.patch = u]]
        /\ t \in BOOLEAN
    BY <1>4 DEF FinishProbe
  <2> HIDE DEF t
  <2>2. /\ c.snap = run[r].snap /\ c.patch = run[r].patch /\ c.up = t
        /\ DOMAIN c = {"stage", "snap", "probe", "patch", "up", "incident"}
    BY <1>0 DEF IsRun
  <2> HIDE DEF c, u
  <2>3. StreakOK(run[r])
    BY <1>0
  <2>4. DOMAIN c.patch \subseteq {"breaker"}
    BY <2>1, <2>2, <2>3 DEF StreakOK
  <2>5. /\ {"fails", "succs"} \subseteq DOMAIN u
        /\ u["fails"] = Fails(c) /\ u["succs"] = Succs(c)
    BY <2>4, UpdateCounts DEF u
  <2>6. PICK d : d = run'[r]
    OBVIOUS
  <2>7. d.stage = "updating" /\ d.patch = u /\ d.snap = c.snap /\ d.up = c.up
    BY <1>0, <2>1, <2>2, <2>6
  <2>8. Fails(d) = Fails(c) /\ Succs(d) = Succs(c)
    BY <2>7, SameDecision
  <2>9. StreakOK(d)
    BY <2>1, <2>2, <2>3, <2>5, <2>7, <2>8 DEF StreakOK
  <2> QED
    BY <1>1, <2>1, <2>6, <2>9
<1>5. ASSUME NEW r \in Runner, ApplyUpdate(r)
      PROVE  StreakInv'
  <2> DEFINE status == IF run[r].up THEN "UP" ELSE "DOWN"
  <2>1. /\ run[r].stage = "updating" /\ Goto(r, "logging") /\ exists' = exists
        /\ mon' = IF exists THEN Overlay(run[r].patch, mon) ELSE mon
        /\ streak' = [status |-> status,
                      len |-> IF streak.status = status
                              THEN AtMost(streak.len + 1, CounterCap) ELSE 1]
    BY <1>5 DEF ApplyUpdate, Written
  <2>2. StreakOK(run[r])
    BY <1>0
  <2>3. /\ streak'.status = status /\ streak'.len \in Nat
        /\ streak'.len = IF run[r].up THEN Succs(run[r]) ELSE Fails(run[r])
        /\ Downs' = Fails(run[r]) /\ Ups' = Succs(run[r])
    BY <1>0, <2>1, <2>2, CountsAgree DEF StreakOK
  <2>4. exists' => mon'.fails = Downs' /\ mon'.succs = Ups'
    BY <1>0, <2>1, <2>2, <2>3 DEF StreakOK, Overlay, MonitorFields
  <2>5. PICK d : /\ run'[r] = d /\ d.stage = "logging"
                 /\ d.snap = run[r].snap /\ d.up = run[r].up
    BY <2>1, GotoFields
  <2>6. Fails(d) = Fails(run[r]) /\ Succs(d) = Succs(run[r])
    BY <2>5, SameDecision
  <2>7. /\ d.up \in BOOLEAN /\ DOMAIN d.snap = MonitorFields
        /\ streak'.status = IF d.up THEN "UP" ELSE "DOWN"
        /\ streak'.len = IF d.up THEN Succs(d) ELSE Fails(d)
    BY <2>1, <2>2, <2>3, <2>5, <2>6 DEF StreakOK
  <2>8. ASSUME NEW q \in Runner
        PROVE  StreakOK(run[q])'
    <3>1. q = r
      BY DEF OneRunner
    <3> QED
      BY <2>5, <2>7, <3>1 DEF StreakOK, Counted
  <2>9. streak'.status \in {"UP", "DOWN"}
    BY <2>3
  <2> QED
    BY <2>3, <2>4, <2>8, <2>9 DEF StreakInv
<1>6. ASSUME NEW r \in Runner, NEW stage, Goto(r, stage), UNCHANGED <<mon, exists, streak>>,
             run[r].stage # "idle",
             \/ stage \in {"idle", "announceOpened", "saving"}
             \/ /\ run[r].stage \in {"logging", "matching"}
                /\ stage \in {"matching", "inserting"} /\ shouldOpen(run[r])
             \/ run[r].stage = "logging" /\ stage = "closing" /\ shouldClose(run[r])
      PROVE  StreakInv'
  <2>1. PICK d : /\ run'[r] = d /\ d.stage = stage /\ (d.up \in BOOLEAN \/ stage # "idle")
                 /\ stage # "idle" =>
                      d.snap = run[r].snap /\ d.up = run[r].up /\ d.patch = run[r].patch
    BY <1>6, GotoFields
  <2>2. StreakOK(run[r])
    BY <1>0
  <2>3. CASE stage \in {"idle", "announceOpened", "saving"}
    <3>1. d.up \in BOOLEAN /\ (d.stage # "idle" => DOMAIN d.snap = MonitorFields)
      BY <1>6, <2>1, <2>2 DEF StreakOK
    <3>2. StreakOK(d)
      BY <1>2, <2>1, <2>3, <3>1
    <3> QED
      BY <1>1, <1>6, <2>1, <3>2
  <2>4. CASE stage \notin {"idle", "announceOpened", "saving"}
    <3>1. /\ Fails(d) = Fails(run[r]) /\ Succs(d) = Succs(run[r])
          /\ shouldOpen(d) = shouldOpen(run[r]) /\ shouldClose(d) = shouldClose(run[r])
      BY <2>1, <2>4, SameDecision
    <3>2. Counted(d)
      BY <1>6, <2>1, <2>2, <2>4, <3>1 DEF StreakOK, Counted
    <3>3. StreakOK(d)
      BY <1>6, <2>1, <2>2, <2>4, <3>1, <3>2 DEF StreakOK
    <3> QED
      BY <1>1, <1>6, <2>1, <3>3
  <2> QED
    BY <2>3, <2>4
<1>7. ASSUME NEW r \in Runner, WriteLog(r)
      PROVE  StreakInv'
  BY <1>6, <1>7 DEF WriteLog
<1>8. ASSUME NEW r \in Runner, MatchOngoing(r)
      PROVE  StreakInv'
  <2>1. shouldOpen(run[r])
    BY <1>0, <1>8 DEF MatchOngoing, StreakOK
  <2> QED
    BY <1>6, <1>8, <2>1 DEF MatchOngoing
<1>9. ASSUME NEW r \in Runner, AnnounceOpened(r) \/ AnnounceClosed(r) \/ Abandon(r)
      PROVE  StreakInv'
  BY <1>6, <1>9 DEF AnnounceOpened, AnnounceClosed, Abandon, Idle
<1>10. ASSUME NEW r \in Runner, NEW stage \in {"announceOpened", "saving"}, NEW i,
              run' = [run EXCEPT ![r].stage = stage, ![r].incident = i],
              UNCHANGED <<mon, exists, streak>>, run[r].stage # "idle"
       PROVE  StreakInv'
  <2>1. PICK d : d = run'[r]
    OBVIOUS
  <2>2. d.stage = stage /\ d.up = run[r].up /\ d.snap = run[r].snap
    BY <1>0, <1>10, <2>1 DEF IsRun
  <2>3. StreakOK(run[r])
    BY <1>0
  <2>4. d.up \in BOOLEAN /\ DOMAIN d.snap = MonitorFields
    BY <1>10, <2>2, <2>3 DEF StreakOK
  <2>5. StreakOK(d)
    BY <1>2, <2>2, <2>4
  <2> QED
    BY <1>1, <1>10, <2>1, <2>5
<1>11. ASSUME NEW r \in Runner, InsertIncident(r) \/ ResolveIncident(r)
       PROVE  StreakInv'
  BY <1>6, <1>10, <1>11 DEF InsertIncident, ResolveIncident
<1>12. CASE PassTime
  <2>1. ASSUME NEW d
        PROVE  /\ DOMAIN Age(d) = DOMAIN d
               /\ \A f \in DOMAIN d \ {"nextIn", "retryIn"} : Age(d)[f] = d[f]
    BY DEF Age
  <2>2. /\ mon'.fails = mon.fails /\ mon'.succs = mon.succs
        /\ exists' = exists /\ streak' = streak
    BY <1>0, <1>12, <2>1 DEF PassTime, MonitorFields
  <2>3. Downs' = Downs /\ Ups' = Ups
    BY <2>2 DEF Downs, Ups
  <2>4. ASSUME NEW q \in Runner
        PROVE  StreakOK(run[q])'
    <3> DEFINE p == Age(run[q].patch)
               t == IF Idle(q) THEN run[q].snap ELSE Age(run[q].snap)
    <3>1. run'[q] = [run[q] EXCEPT !.patch = p, !.snap = t]
      BY <1>12 DEF PassTime
    <3>2. run[q].stage # "idle" => t = Age(run[q].snap)
      BY DEF Idle
    <3> HIDE DEF t
    <3>3. PICK d : d = run'[q]
      OBVIOUS
    <3>4. d.stage = run[q].stage /\ d.up = run[q].up /\ d.patch = p /\ d.snap = t
      <4> HIDE DEF p
      <4> QED
        BY <1>0, <3>1, <3>3 DEF IsRun
    <3>5. StreakOK(run[q])
      BY <1>0
    <3>6. CASE run[q].stage = "idle"
      BY <3>3, <3>4, <3>5, <3>6 DEF StreakOK
    <3>7. CASE run[q].stage # "idle"
      <4>1. DOMAIN d.snap = MonitorFields
        BY <2>1, <3>2, <3>4, <3>5, <3>7 DEF StreakOK
      <4>2. \A f \in {"fails", "succs", "status", "failN", "succN"} : d.snap[f] = run[q].snap[f]
        BY <2>1, <3>2, <3>4, <3>5, <3>7 DEF StreakOK, MonitorFields, ConfigFields
      <4>3. /\ Fails(d) = Fails(run[q]) /\ Succs(d) = Succs(run[q])
            /\ shouldOpen(d) = shouldOpen(run[q]) /\ shouldClose(d) = shouldClose(run[q])
        BY <3>4, <4>2, SameDecision
      <4>4. /\ DOMAIN d.patch = DOMAIN run[q].patch
            /\ \A f \in {"fails", "succs"} \intersect DOMAIN d.patch : d.patch[f] = run[q].patch[f]
        BY <2>1, <3>4
      <4>5. StreakOK(d)
        BY <3>4, <3>5, <3>7, <4>1, <4>2, <4>3, <4>4 DEF StreakOK, Counted
      <4> QED
        BY <2>2, <2>3, <3>3, <4>5 DEF StreakOK, Counted
    <3> QED
      BY <3>6, <3>7
  <2> QED
    BY <1>0, <2>2, <2>3, <2>4 DEF StreakInv
<1>13. ASSUME run' = run, streak' = streak, exists' => exists /\ mon'.fails = mon.fails /\ mon'.succs = mon.succs
       PROVE  StreakInv'
  <2>1. Downs' = Downs /\ Ups' = Ups
    BY <1>13 DEF Downs, Ups
  <2>2. ASSUME NEW q \in Runner
        PROVE  StreakOK(run[q])'
    <3>1. StreakOK(run[q])
      BY <1>0
    <3> QED
      BY <1>13, <2>1, <3>1 DEF StreakOK, Counted
  <2> QED
    BY <1>0, <1>13, <2>1, <2>2 DEF StreakInv
<1>14. ASSUME NEW c \in Configs, EditMonitor(c)
       PROVE  StreakInv'
  <2>1. mon' = Overlay(c, mon) /\ run' = run /\ exists' = exists /\ streak' = streak
    BY <1>14 DEF EditMonitor
  <2>2. mon'.fails = mon.fails /\ mon'.succs = mon.succs
    BY <1>0, <2>1, ConfigIsRecord DEF Overlay, MonitorFields, ConfigFields
  <2> QED
    BY <1>13, <2>1, <2>2
<1>15. CASE DeleteMonitor \/ FlipTarget \/ UNCHANGED vars
  BY <1>13, <1>15 DEF DeleteMonitor, FlipTarget, vars
<1> QED
  BY <1>3, <1>4, <1>5, <1>7, <1>8, <1>9, <1>11, <1>12, <1>14, <1>15
     DEF Next, CheckStep, OwnerStep

\* The first check finds nothing counted.
LEMMA StreakInit == Init => StreakInv
<1> SUFFICES ASSUME Init PROVE StreakInv
  OBVIOUS
<1>1. PICK c \in Configs : mon = NewMonitor(c)
  BY DEF Init
<1>2. mon.fails = 0 /\ mon.succs = 0
  BY <1>1 DEF NewMonitor
<1>3. streak.status = "UP" /\ streak.len = 0
  BY DEF Init
<1>4. Downs = 0 /\ Ups = 0
  BY <1>3 DEF Downs, Ups
<1>5. \A r \in Runner : run[r].stage = "idle" /\ run[r].up = FALSE
  BY DEF Init, NoRun
<1>6. \A r \in Runner : StreakOK(run[r])
  BY <1>5 DEF StreakOK
<1> QED
  BY <1>2, <1>3, <1>4, <1>6 DEF StreakInv

\* With one runner an incident opens only after failureThreshold failed checks in a row
\* and closes only after successThreshold successful ones (scheduler.js:302-305,
\* 357-386), whatever crashes, failed calls, edits and deletions happen between the
\* reading of the counters and the transition they decide.
THEOREM TransitionsFollowStreaks ==
  ASSUME OneRunner
  PROVE  Spec => TransitionOnStreak
<1>1. Init => EditInv
  BY EditInit
<1>2. AnnounceInv /\ EditInv /\ [Next]_vars => EditInv'
  BY EditStep
<1>3. AnnounceInv /\ EditInv /\ StreakInv /\ [Next]_vars => StreakInv'
  BY StreakStep
<1>4. StreakInv /\ [Next]_vars =>
        [\A r \in Runner :
           /\ InsertIncident(r) /\ incidents' # incidents
                => streak.status = "DOWN" /\ streak.len >= run[r].snap.failN
           /\ ResolveIncident(r) /\ incidents' # incidents
                => streak.status = "UP" /\ streak.len >= run[r].snap.succN]_vars
  <2> SUFFICES ASSUME StreakInv, NEW r \in Runner
               PROVE  /\ InsertIncident(r)
                           => streak.status = "DOWN" /\ streak.len >= run[r].snap.failN
                      /\ ResolveIncident(r)
                           => streak.status = "UP" /\ streak.len >= run[r].snap.succN
    OBVIOUS
  <2>1. StreakOK(run[r])
    BY DEF StreakInv
  <2>2. CASE InsertIncident(r)
    <3>1. run[r].stage = "inserting"
      BY <2>2 DEF InsertIncident
    <3>2. Counted(run[r]) /\ shouldOpen(run[r])
      BY <2>1, <3>1 DEF StreakOK
    <3> QED
      BY <3>1, <3>2 DEF Counted, shouldOpen, ResolveIncident
  <2>3. CASE ResolveIncident(r)
    <3>1. run[r].stage = "closing"
      BY <2>3 DEF ResolveIncident
    <3>2. Counted(run[r]) /\ shouldClose(run[r])
      BY <2>1, <3>1 DEF StreakOK
    <3> QED
      BY <3>1, <3>2 DEF Counted, shouldClose, InsertIncident
  <2> QED
    BY <2>2, <2>3
<1> QED
  BY <1>1, <1>2, <1>3, <1>4, StreakInit, AnnounceInvariant, PTL DEF Spec, TransitionOnStreak

-----------------------------------------------------------------------------
(* The fan-out inside the checks *)

\* Every step of the notifiers is a step of a check, or leaves the checks alone.
LEMMA NotifierStepIsCheckStep == NotifierNext => [Next]_vars
<1> SUFFICES ASSUME NotifierNext PROVE [Next]_vars
  OBVIOUS
<1>1. ASSUME NEW r \in Runner, DispatchStep(r) \/ AbandonCheck(r)
      PROVE  [Next]_vars
  <2>1. CASE EndDispatch(r)
    BY <2>1 DEF EndDispatch, Next, CheckStep
  <2>2. CASE AbandonCheck(r)
    BY <2>2 DEF AbandonCheck, Next
  <2>3. CASE Mail(r) \/ Post(r)
    BY <2>3 DEF Mail, Post, Deliver
  <2>4. CASE BeginDispatch(r) \/ Settle(r) \/ \E n \in Notifiers : LoadChannels(r, n) \/ Reject(r, n)
    BY <2>4 DEF BeginDispatch, Settle, LoadChannels, Reject
  <2> QED
    BY <1>1, <2>1, <2>2, <2>3, <2>4 DEF DispatchStep
<1>2. CASE ChangeChannels
  BY <1>2 DEF ChangeChannels
<1>3. CASE (\E r \in Runner : OtherStep(r)) \/ PassTime \/ FlipTarget \/ OwnerStep
  BY <1>3 DEF OtherStep, Next, CheckStep
<1> QED
  BY <1>1, <1>2, <1>3 DEF NotifierNext

\* With dispatch() (notifier.js) opened up inside them, checks are still the checks of
\* MonitorCheck: every theorem of their behaviours holds of these.
THEOREM DispatchIsPartOfTheCheck == NotifierSpec => CheckSpec
<1>1. NotifierInit => Init
  BY DEF NotifierInit
<1>2. [NotifierNext]_<<vars, notices>> => [Next]_vars
  BY NotifierStepIsCheckStep
<1> QED
  BY <1>1, <1>2, PTL DEF NotifierSpec, CheckSpec, Spec

\* So the incidents obey the ledger whatever is sent, refused, rejected or cut short.
THEOREM NoticesObeyTheLedger == NotifierSpec => LedgerSpec
BY DispatchIsPartOfTheCheck, IncidentsObeyTheLedger DEF CheckSpec

-----------------------------------------------------------------------------
(* Bags *)

\* The copies in a sum of bags add up.
LEMMA SumOfBags ==
  ASSUME NEW A, NEW B, IsABag(A), IsABag(B)
  PROVE  /\ IsABag(A (+) B)
         /\ BagToSet(A (+) B) = BagToSet(A) \union BagToSet(B)
         /\ \A e : Copies(e, A (+) B) = Copies(e, A) + Copies(e, B)
BY DEF \oplus, IsABag, BagToSet, Copies, BagIn

\* A bag of one thing.
LEMMA BagOfOne ==
  ASSUME NEW x
  PROVE  /\ IsABag(SetToBag({x})) /\ BagToSet(SetToBag({x})) = {x}
         /\ \A e : Copies(e, SetToBag({x})) = IF e = x THEN 1 ELSE 0
BY DEF SetToBag, IsABag, BagToSet, Copies, BagIn

\* A bag of nothing.
LEMMA BagOfNone ==
  /\ IsABag(EmptyBag) /\ BagToSet(EmptyBag) = {}
  /\ \A e : Copies(e, EmptyBag) = 0
BY DEF EmptyBag, SetToBag, IsABag, BagToSet, Copies, BagIn

\* What is left of a bag was in it.
LEMMA BagLess ==
  ASSUME NEW A, NEW B, IsABag(A), IsABag(B)
  PROVE  IsABag(A (-) B) /\ BagToSet(A (-) B) \subseteq BagToSet(A)
BY DEF \ominus, IsABag, BagToSet, Copies, BagIn

-----------------------------------------------------------------------------
(* The audit trail *)

\* What notice n tells of has happened.
Happened(n) ==
  /\ n.incident \in DOMAIN incidents
  /\ n.event = "CLOSED" => incidents[n.incident].status = "RESOLVED"

\* A row that stands for an attempt, and one for the account's address.
Counts(row) == row.status # "Skipped" /\ row.to # "none"
ForAccount(row) ==
  row.via = "Email" /\ (row.to = Account \/ (row.to = "none" /\ row.status = "Failed"))

\* A dispatch is a record.
IsDispatch(d) ==
  d = [phase |-> d.phase, load |-> d.load, rejected |-> d.rejected, todo |-> d.todo,
       results |-> d.results]

\* Two bags hold the same attempts for notice n.
SameAttempts(n, A, B) ==
  \A row \in BagToSet(A) \union BagToSet(B) :
    row.notice = n /\ Counts(row) => Copies(row, A) = Copies(row, B)

\* Before it is over, a dispatch has collected what was attempted for its notice, and
\* nothing of it is recorded or lost yet.
Collects(r) ==
  /\ Notice(r) \notin lost
  /\ \A row \in BagToSet(audit) : row.notice # Notice(r)
  /\ \A row \in BagToSet(dispatch[r].results) : row.notice = Notice(r)
  /\ SameAttempts(Notice(r), dispatch[r].results, attempts)

\* The account's address will be tried, or has been.
TriesAccount(d) ==
  \/ \E row \in BagToSet(d.results) : ForAccount(row)
  \/ /\ d.phase = "sending"
     /\ "Email" \in d.load \/ [via |-> "Email", to |-> Account, copy |-> 1] \in d.todo

DispatchOK(r) ==
  /\ IsDispatch(dispatch[r]) /\ IsABag(dispatch[r].results)
  /\ ~Announcing(r) => dispatch[r].phase = "off"
  /\ dispatch[r].phase = "off" => dispatch[r].results = EmptyBag
  /\ dispatch[r].phase # "sending" => dispatch[r].todo = {}
  /\ dispatch[r].phase # "off" => TriesAccount(dispatch[r])
  /\ Announcing(r) => Collects(r)

\* The rows of an announced notice are what was attempted for it.
AuditedOK(n) ==
  /\ \E row \in BagToSet(audit) : row.notice = n /\ ForAccount(row)
  /\ SameAttempts(n, audit, attempts)

AuditInv ==
  /\ IsABag(audit) /\ IsABag(attempts)
  /\ \A n \in lost : Happened(n)
  /\ \A row \in BagToSet(audit) \union BagToSet(attempts) : Happened(row.notice)
  /\ dispatch = [r \in Runner |-> dispatch[r]]
  /\ \A r \in Runner : DispatchOK(r)
  /\ \A n \in Announced \ lost : AuditedOK(n)

\* A step that leaves the checks alone leaves their notices alone.
LEMMA SameNotices ==
  ASSUME UNCHANGED vars
  PROVE  /\ Announced' = Announced
         /\ \A r : Notice(r)' = Notice(r) /\ (Announcing(r)' <=> Announcing(r))
         /\ \A n : Happened(n)' <=> Happened(n)
BY DEF vars, Announced, Notice, Announcing, Happened

\* No two runners tell of the same thing.
LEMMA NoticesApart ==
  ASSUME AnnounceInv, NEW q \in Runner, NEW r \in Runner, Announcing(q), Announcing(r),
         Notice(q) = Notice(r)
  PROVE  q = r
<1>1. run[q].incident = run[r].incident /\ run[q].stage = run[r].stage
  BY DEF Notice, Announcing
<1> QED
  BY <1>1 DEF AnnounceInv, SamePending, Announcing

\* What a runner is telling of has happened, and nobody has been told yet.
LEMMA NotToldYet ==
  ASSUME AnnounceInv, NEW r \in Runner, Announcing(r)
  PROVE  Happened(Notice(r)) /\ Notice(r) \notin Announced
<1>1. Pending(run[r])
  BY DEF AnnounceInv
<1>2. CASE run[r].stage = "announceOpened"
  BY <1>1, <1>2 DEF Pending, Notice, Happened, Announced
<1>3. CASE run[r].stage = "saving"
  BY <1>1, <1>3 DEF Pending, Notice, Happened, Announced
<1> QED
  BY <1>2, <1>3 DEF Announcing

\* A dispatch after some of its fields were set.
Sets(d, fields, e) ==
  \A f \in {"phase", "load", "rejected", "todo", "results"} :
    d[f] = IF f \in DOMAIN fields THEN fields[f] ELSE e[f]

\* Set() changes the fields it names, of one runner's dispatch.
LEMMA SetOne ==
  ASSUME AuditInv, NEW r \in Runner, NEW fields, Set(r, fields)
  PROVE  \E d : /\ dispatch' = [dispatch EXCEPT ![r] = d]
                /\ IsDispatch(d) /\ Sets(d, fields, dispatch[r])
<1> DEFINE d == Overlay(fields, dispatch[r])
<1>1. dispatch' = [dispatch EXCEPT ![r] = d]
  BY DEF Set
<1>2. IsDispatch(dispatch[r])
  BY DEF AuditInv, DispatchOK
<1>3. DOMAIN dispatch[r] = {"phase", "load", "rejected", "todo", "results"}
  BY <1>2 DEF IsDispatch
<1>4. /\ DOMAIN d = {"phase", "load", "rejected", "todo", "results"}
      /\ d = [f \in {"phase", "load", "rejected", "todo", "results"} |-> d[f]]
      /\ Sets(d, fields, dispatch[r])
  BY <1>3 DEF Overlay, Sets
<1> HIDE DEF d
<1>5. IsDispatch(d)
  BY <1>4 DEF IsDispatch
<1> QED
  BY <1>1, <1>4, <1>5

\* A dispatch goes on, and nothing is sent or recorded.
LEMMA DispatchGoesOn ==
  ASSUME AuditInv, NEW r \in Runner, NEW d, Announcing(r),
         UNCHANGED <<vars, audit, attempts, lost>>,
         dispatch' = [dispatch EXCEPT ![r] = d],
         IsDispatch(d), IsABag(d.results), d.phase # "off", TriesAccount(d),
         d.phase # "sending" => d.todo = {},
         \A row \in BagToSet(d.results) : row.notice = Notice(r),
         SameAttempts(Notice(r), d.results, attempts)
  PROVE  AuditInv'
<1>0. UNCHANGED vars
  OBVIOUS
<1>1. /\ Announced' = Announced
      /\ \A q : Notice(q)' = Notice(q) /\ (Announcing(q)' <=> Announcing(q))
      /\ \A n : Happened(n)' <=> Happened(n)
  BY <1>0, SameNotices
<1>2. /\ dispatch'[r] = d /\ \A q \in Runner \ {r} : dispatch'[q] = dispatch[q]
      /\ dispatch' = [q \in Runner |-> dispatch'[q]]
  BY DEF AuditInv
<1>3. Collects(r)'
  BY <1>1, <1>2 DEF AuditInv, DispatchOK, Collects, SameAttempts
<1>4. DispatchOK(r)'
  BY <1>1, <1>2, <1>3 DEF DispatchOK, TriesAccount
<1>5. ASSUME NEW q \in Runner \ {r}
      PROVE  DispatchOK(q)'
  <2>1. DispatchOK(q)
    BY DEF AuditInv
  <2>2. Collects(q) => Collects(q)'
    BY <1>1, <1>2 DEF Collects, SameAttempts
  <2> QED
    BY <1>1, <1>2, <2>1, <2>2 DEF DispatchOK, TriesAccount
<1>6. \A n \in Announced' \ lost' : AuditedOK(n)'
  BY <1>1 DEF AuditInv, AuditedOK, SameAttempts
<1> QED
  BY <1>1, <1>2, <1>4, <1>5, <1>6 DEF AuditInv

\* One row more, that stands for no attempt or for one that was made as well.
LEMMA OneRowMore ==
  ASSUME NEW n, NEW A, NEW B, IsABag(A), IsABag(B), SameAttempts(n, A, B), NEW row
  PROVE  /\ IsABag(Add(A, row)) /\ BagToSet(Add(A, row)) = BagToSet(A) \union {row}
         /\ ~Counts(row) => SameAttempts(n, Add(A, row), B)
         /\ SameAttempts(n, Add(A, row), Add(B, row))
<1>1. /\ IsABag(SetToBag({row})) /\ BagToSet(SetToBag({row})) = {row}
      /\ \A e : Copies(e, SetToBag({row})) = IF e = row THEN 1 ELSE 0
  BY BagOfOne
<1>2. ASSUME NEW X, IsABag(X)
      PROVE  /\ IsABag(Add(X, row)) /\ BagToSet(Add(X, row)) = BagToSet(X) \union {row}
             /\ \A e : Copies(e, Add(X, row)) = Copies(e, X) + IF e = row THEN 1 ELSE 0
  BY <1>1, <1>2, SumOfBags DEF Add
<1>3. ASSUME NEW X, IsABag(X), NEW e
      PROVE  Copies(e, X) \in Nat /\ (e \notin BagToSet(X) => Copies(e, X) = 0)
  BY <1>3 DEF Copies, IsABag, BagToSet, BagIn
<1>4. \A e : e.notice = n /\ Counts(e) => Copies(e, A) = Copies(e, B)
  BY <1>3 DEF SameAttempts
<1>5. \A e : e.notice = n /\ Counts(e) /\ e # row => Copies(e, Add(A, row)) = Copies(e, B)
  BY <1>2, <1>3, <1>4
<1>6. \A e : e.notice = n /\ Counts(e) => Copies(e, Add(A, row)) = Copies(e, Add(B, row))
  BY <1>2, <1>3, <1>4
<1> QED
  BY <1>2, <1>5, <1>6 DEF SameAttempts

\* The steps of a dispatch that send and record nothing.
LEMMA PreparingSteps ==
  ASSUME AnnounceInv, AuditInv, NEW r \in Runner,
         BeginDispatch(r) \/ Settle(r) \/ \E n \in Notifiers : LoadChannels(r, n) \/ Reject(r, n)
  PROVE  AuditInv'
<1> DEFINE e == dispatch[r]
<1>0. /\ UNCHANGED <<vars, audit, attempts, lost>>
      /\ Announcing(r) /\ DispatchOK(r) /\ Collects(r) /\ IsABag(attempts)
  <2>1. UNCHANGED <<vars, audit, attempts, lost>> /\ (Announcing(r) \/ e.phase = "sending")
    BY DEF BeginDispatch, Settle, LoadChannels, Reject
  <2> QED
    BY <2>1 DEF AuditInv, DispatchOK
<1>1. ASSUME NEW fields, Set(r, fields),
             NEW results, results = IF "results" \in DOMAIN fields THEN fields["results"] ELSE e.results,
             IsABag(results), \A row \in BagToSet(results) : row.notice = Notice(r),
             SameAttempts(Notice(r), results, attempts),
             NEW phase, phase = IF "phase" \in DOMAIN fields THEN fields["phase"] ELSE e.phase,
             phase # "off",
             phase # "sending" => "todo" \notin DOMAIN fields /\ e.todo = {},
             \/ \E row \in BagToSet(results) : ForAccount(row)
             \/ /\ phase = "sending"
                /\ \/ "Email" \in IF "load" \in DOMAIN fields THEN fields["load"] ELSE e.load
                   \/ [via |-> "Email", to |-> Account, copy |-> 1]
                        \in IF "todo" \in DOMAIN fields THEN fields["todo"] ELSE e.todo
      PROVE  AuditInv'
  <2>1. PICK d : /\ dispatch' = [dispatch EXCEPT ![r] = d]
                 /\ IsDispatch(d) /\ Sets(d, fields, dispatch[r])
    BY <1>1, SetOne
  <2>2. /\ d.results = results /\ d.phase = phase
        /\ d.load = IF "load" \in DOMAIN fields THEN fields["load"] ELSE e.load
        /\ d.todo = IF "todo" \in DOMAIN fields THEN fields["todo"] ELSE e.todo
    BY <1>1, <2>1 DEF Sets
  <2>3. TriesAccount(d)
    BY <1>1, <2>2 DEF TriesAccount
  <2> QED
    BY <1>0, <1>1, <2>1, <2>2, <2>3, DispatchGoesOn
<1>2. CASE BeginDispatch(r) /\ optedOut
  <2> DEFINE row == Row(r, "Email", Account, "Skipped")
  <2>1. /\ Set(r, [phase |-> "recording", results |-> SetToBag({row})])
        /\ e.results = EmptyBag /\ e.todo = {}
    BY <1>0, <1>2 DEF BeginDispatch, DispatchOK
  <2>2. row.notice = Notice(r) /\ ForAccount(row) /\ ~Counts(row)
    BY DEF Row, ForAccount, Counts
  <2> HIDE DEF row
  <2>3. /\ IsABag(SetToBag({row})) /\ BagToSet(SetToBag({row})) = {row}
        /\ \A x : Copies(x, SetToBag({row})) = IF x = row THEN 1 ELSE 0
    BY BagOfOne
  <2>4. SameAttempts(Notice(r), SetToBag({row}), attempts)
    BY <1>0, <2>1, <2>2, <2>3, BagOfNone DEF Collects, SameAttempts
  <2>5. PICK fields : fields = [phase |-> "recording", results |-> SetToBag({row})]
    OBVIOUS
  <2>6. /\ "results" \in DOMAIN fields /\ fields["results"] = SetToBag({row})
        /\ "phase" \in DOMAIN fields /\ fields["phase"] = "recording"
        /\ "todo" \notin DOMAIN fields
    BY <2>5
  <2> QED
    BY <1>1, <2>1, <2>2, <2>3, <2>4, <2>5, <2>6
<1>3. CASE BeginDispatch(r) /\ ~optedOut
  <2>1. Set(r, [phase |-> "sending", load |-> Notifiers]) /\ "Email" \in Notifiers
    BY <1>3 DEF BeginDispatch, Notifiers
  <2>2. /\ IsABag(e.results) /\ \A row \in BagToSet(e.results) : row.notice = Notice(r)
        /\ SameAttempts(Notice(r), e.results, attempts)
    BY <1>0 DEF DispatchOK, Collects
  <2> QED
    BY <1>1, <2>1, <2>2
<1>4. ASSUME NEW n \in Notifiers, LoadChannels(r, n)
      PROVE  AuditInv'
  <2>1. PICK failed \in BOOLEAN :
          Set(r, [load |-> e.load \ {n}, todo |-> e.todo \union Loaded(n, active, failed)])
    BY <1>4 DEF LoadChannels
  <2>2. /\ IsABag(e.results) /\ \A row \in BagToSet(e.results) : row.notice = Notice(r)
        /\ SameAttempts(Notice(r), e.results, attempts)
        /\ e.phase = "sending" /\ TriesAccount(e)
    BY <1>0, <1>4 DEF DispatchOK, Collects, LoadChannels
  <2>3. n = "Email" => [via |-> "Email", to |-> Account, copy |-> 1] \in Loaded(n, active, failed)
    BY DEF Loaded, Recipients
  <2>4. \/ \E row \in BagToSet(e.results) : ForAccount(row)
        \/ "Email" \in e.load \ {n}
        \/ [via |-> "Email", to |-> Account, copy |-> 1] \in e.todo \union Loaded(n, active, failed)
    BY <2>2, <2>3 DEF TriesAccount
  <2> QED
    BY <1>1, <2>1, <2>2, <2>4
<1>5. ASSUME NEW n \in Notifiers, Reject(r, n)
      PROVE  AuditInv'
  <2> DEFINE row == Row(r, n, "none", "Failed")
  <2>1. Set(r, [load |-> e.load \ {n}, rejected |-> e.rejected \union {n},
                results |-> Add(e.results, row)])
    BY <1>5 DEF Reject
  <2>2. row.notice = Notice(r) /\ ~Counts(row) /\ (n = "Email" => ForAccount(row))
    BY DEF Row, ForAccount, Counts
  <2> HIDE DEF row
  <2>3. /\ IsABag(e.results) /\ \A x \in BagToSet(e.results) : x.notice = Notice(r)
        /\ SameAttempts(Notice(r), e.results, attempts)
        /\ e.phase = "sending" /\ TriesAccount(e)
    BY <1>0, <1>5 DEF DispatchOK, Collects, Reject
  <2>4. /\ IsABag(Add(e.results, row))
        /\ BagToSet(Add(e.results, row)) = BagToSet(e.results) \union {row}
        /\ SameAttempts(Notice(r), Add(e.results, row), attempts)
    BY <1>0, <2>2, <2>3, OneRowMore
  <2>5. \/ \E x \in BagToSet(Add(e.results, row)) : ForAccount(x)
        \/ "Email" \in e.load \ {n}
        \/ [via |-> "Email", to |-> Account, copy |-> 1] \in e.todo
    BY <2>2, <2>3, <2>4 DEF TriesAccount
  <2> QED
    BY <1>1, <2>1, <2>2, <2>3, <2>4, <2>5
<1>6. CASE Settle(r)
  <2>1. /\ Set(r, [phase |-> "recording", results |-> e.results])
        /\ e.load = {} /\ e.todo = {} /\ e.phase = "sending"
    BY <1>6 DEF Settle, AllSettled
  <2>2. /\ IsABag(e.results) /\ \A x \in BagToSet(e.results) : x.notice = Notice(r)
        /\ SameAttempts(Notice(r), e.results, attempts) /\ TriesAccount(e)
    BY <1>0, <2>1 DEF DispatchOK, Collects
  <2>3. \E x \in BagToSet(e.results) : ForAccount(x)
    BY <2>1, <2>2 DEF TriesAccount
  <2> QED
    BY <1>1, <2>1, <2>2, <2>3
<1> QED
  BY <1>2, <1>3, <1>4, <1>5, <1>6

\* A mail or a post: one row of results and one attempt, the same.
LEMMA SendingStep ==
  ASSUME AnnounceInv, AuditInv, NEW r \in Runner, Mail(r) \/ Post(r)
  PROVE  AuditInv'
<1> DEFINE e == dispatch[r]
<1>1. PICK send \in e.todo, status \in {"Delivered", "Failed"} : Deliver(r, send, status)
  BY DEF Mail, Post, sendEmail, post
<1> DEFINE row == Row(r, send.via, send.to, status)
<1>2. /\ Set(r, [todo |-> e.todo \ {send}, results |-> Add(e.results, row)])
      /\ attempts' = Add(attempts, row)
      /\ UNCHANGED vars /\ audit' = audit /\ lost' = lost
  BY <1>1 DEF Deliver
<1>3. /\ row.notice = Notice(r)
      /\ send = [via |-> "Email", to |-> Account, copy |-> 1] => ForAccount(row)
  BY DEF Row, ForAccount
<1> HIDE DEF row
<1>4. /\ e.phase = "sending" /\ Announcing(r) /\ Collects(r) /\ TriesAccount(e)
      /\ IsABag(attempts) /\ IsABag(e.results)
  BY DEF AuditInv, DispatchOK
<1>5. PICK d : /\ dispatch' = [dispatch EXCEPT ![r] = d] /\ IsDispatch(d)
               /\ Sets(d, [todo |-> e.todo \ {send}, results |-> Add(e.results, row)], e)
  BY <1>2, SetOne
<1>6. /\ d.results = Add(e.results, row) /\ d.todo = e.todo \ {send}
      /\ d.phase = "sending" /\ d.load = e.load
  BY <1>4, <1>5 DEF Sets
<1>7. /\ IsABag(d.results) /\ BagToSet(d.results) = BagToSet(e.results) \union {row}
      /\ SameAttempts(Notice(r), d.results, attempts')
  <2>1. SameAttempts(Notice(r), e.results, attempts)
    BY <1>4 DEF Collects
  <2> QED
    BY <1>2, <1>4, <1>6, <2>1, OneRowMore
<1>8. /\ IsABag(attempts') /\ BagToSet(attempts') = BagToSet(attempts) \union {row}
      /\ \A x : x # row => Copies(x, attempts') = Copies(x, attempts)
  <2>1. /\ IsABag(SetToBag({row})) /\ BagToSet(SetToBag({row})) = {row}
        /\ \A x : Copies(x, SetToBag({row})) = IF x = row THEN 1 ELSE 0
    BY BagOfOne
  <2>2. \A x : Copies(x, attempts) \in Nat
    BY <1>4 DEF Copies, IsABag, BagToSet, BagIn
  <2>3. attempts' = attempts (+) SetToBag({row})
    BY <1>2 DEF Add
  <2>4. /\ IsABag(attempts') /\ BagToSet(attempts') = BagToSet(attempts) \union {row}
        /\ \A x : Copies(x, attempts') = Copies(x, attempts) + Copies(x, SetToBag({row}))
    BY <1>4, <2>1, <2>3, SumOfBags
  <2> QED
    BY <2>1, <2>2, <2>4
<1>9. TriesAccount(d)
  BY <1>3, <1>4, <1>6, <1>7 DEF TriesAccount
<1>10. /\ Announced' = Announced
       /\ \A q : Notice(q)' = Notice(q) /\ (Announcing(q)' <=> Announcing(q))
       /\ \A n : Happened(n)' <=> Happened(n)
  BY <1>2, SameNotices
<1>11. /\ dispatch'[r] = d /\ \A q \in Runner \ {r} : dispatch'[q] = dispatch[q]
       /\ dispatch' = [q \in Runner |-> dispatch'[q]]
  BY <1>5 DEF AuditInv
<1>12. ASSUME NEW n, n # Notice(r), NEW X, SameAttempts(n, X, attempts)
       PROVE  SameAttempts(n, X, attempts')
  BY <1>3, <1>8, <1>12 DEF SameAttempts
<1>13. DispatchOK(r)'
  <2>1. Collects(r)'
    BY <1>2, <1>3, <1>4, <1>7, <1>10, <1>11 DEF Collects
  <2> QED
    BY <1>5, <1>6, <1>7, <1>9, <1>11, <1>4, <1>10, <2>1 DEF DispatchOK
<1>14. ASSUME NEW q \in Runner \ {r}
       PROVE  DispatchOK(q)'
  <2>1. DispatchOK(q)
    BY DEF AuditInv
  <2>2. Announcing(q) => Notice(q) # Notice(r)
    BY <1>4, NoticesApart
  <2>3. Announcing(q) => Collects(q)'
    BY <1>2, <1>10, <1>11, <1>12, <2>1, <2>2 DEF DispatchOK, Collects
  <2> QED
    BY <1>10, <1>11, <2>1, <2>3 DEF DispatchOK
<1>15. \A n \in Announced' \ lost' : AuditedOK(n)'
  <2>1. Notice(r) \notin Announced /\ Happened(Notice(r))
    BY <1>4, NotToldYet
  <2> QED
    BY <1>2, <1>10, <1>12, <2>1 DEF AuditInv, AuditedOK
<1>16. \A x \in BagToSet(attempts') : Happened(x.notice)
  <2>1. Happened(Notice(r))
    BY <1>4, NotToldYet
  <2> QED
    BY <1>3, <1>8, <2>1 DEF AuditInv
<1> QED
  BY <1>2, <1>8, <1>10, <1>11, <1>13, <1>14, <1>15, <1>16 DEF AuditInv

\* An announcement tells of its own notice, undoes nothing, and ends its runner's check.
LEMMA AnnouncementEffect ==
  ASSUME AnnounceInv, NEW r \in Runner, AnnounceOpened(r) \/ AnnounceClosed(r)
  PROVE  /\ Announced' \subseteq Announced \union {Notice(r)}
         /\ \A n : Happened(n) => Happened(n)'
         /\ run'[r].stage = "idle" /\ \A q \in Runner \ {r} : run'[q] = run[q]
<1> DEFINE i == run[r].incident
<1>1. run'[r].stage = "idle" /\ \A q \in Runner \ {r} : run'[q] = run[q]
  BY GotoRun DEF AnnounceOpened, AnnounceClosed, Stages
<1>2. i \in DOMAIN incidents /\ incidents[i] \in Ledger!Incident
  BY DEF AnnounceInv, IncidentsOK, Pending, AnnounceOpened, AnnounceClosed
<1>3. PICK c : c = incidents[i]
  OBVIOUS
<1>4. PICK c1 : /\ DOMAIN incidents' = DOMAIN incidents /\ incidents'[i] = c1
                /\ \A j \in DOMAIN incidents \ {i} : incidents'[j] = incidents[j]
                /\ c1.status = c.status
                /\ run[r].stage = "saving" => c1.openNotices = c.openNotices
                /\ run[r].stage = "announceOpened" => c1.closeNotices = c.closeNotices
                /\ run[r].stage \in {"announceOpened", "saving"}
  <2>1. CASE AnnounceOpened(r)
    <3>1. /\ incidents' = [incidents EXCEPT ![i] = [c EXCEPT !.openNotices = @ + 1]]
          /\ run[r].stage = "announceOpened"
      BY <1>3, <2>1 DEF AnnounceOpened
    <3>2. PICK c1 : c1 = [c EXCEPT !.openNotices = @ + 1]
      OBVIOUS
    <3>3. c1.status = c.status /\ c1.closeNotices = c.closeNotices
      BY <1>2, <1>3, <3>2 DEF Ledger!Incident
    <3> QED
      BY <1>2, <3>1, <3>2, <3>3 DEF AnnounceInv, IncidentsOK
  <2>2. CASE AnnounceClosed(r)
    <3>1. /\ incidents' = [incidents EXCEPT ![i] = [c EXCEPT !.closeNotices = @ + 1]]
          /\ run[r].stage = "saving"
      BY <1>3, <2>2 DEF AnnounceClosed
    <3>2. PICK c1 : c1 = [c EXCEPT !.closeNotices = @ + 1]
      OBVIOUS
    <3>3. c1.status = c.status /\ c1.openNotices = c.openNotices
      BY <1>2, <1>3, <3>2 DEF Ledger!Incident
    <3> QED
      BY <1>2, <3>1, <3>2, <3>3 DEF AnnounceInv, IncidentsOK
  <2> QED
    BY <2>1, <2>2
<1>5. ASSUME NEW n, Happened(n)
      PROVE  Happened(n)'
  BY <1>3, <1>4, <1>5 DEF Happened
<1>6. ASSUME NEW n \in Announced'
      PROVE  n \in Announced \union {Notice(r)}
  <2>1. /\ n \in [incident : DOMAIN incidents, event : {"OPENED", "CLOSED"}]
        /\ (IF n.event = "OPENED" THEN incidents'[n.incident].openNotices
                                  ELSE incidents'[n.incident].closeNotices) > 0
    BY <1>4 DEF Announced
  <2>2. CASE n.incident # i
    BY <1>4, <2>1, <2>2 DEF Announced
  <2>3. CASE n.incident = i
    <3>1. Notice(r) = [incident |-> i, event |-> IF run[r].stage = "saving" THEN "CLOSED"
                                                                          ELSE "OPENED"]
      BY DEF Notice
    <3>2. n = [incident |-> n.incident, event |-> n.event]
      BY <2>1
    <3>3. n.event = (IF run[r].stage = "saving" THEN "CLOSED" ELSE "OPENED") => n = Notice(r)
      BY <2>3, <3>1, <3>2
    <3>4. n.event # (IF run[r].stage = "saving" THEN "CLOSED" ELSE "OPENED") => n \in Announced
      BY <1>3, <1>4, <2>1, <2>3 DEF Announced
    <3> QED
      BY <3>3, <3>4
  <2> QED
    BY <2>2, <2>3
<1> QED
  BY <1>1, <1>5, <1>6

\* The end of a dispatch: its rows become the record of its notice, which nobody told of
\* before; or one of them is lost.
LEMMA RecordingStep ==
  ASSUME AnnounceInv, AuditInv, NEW r \in Runner, EndDispatch(r)
  PROVE  AuditInv'
<1> DEFINE e == dispatch[r]
<1>1. /\ e.phase = "recording"
      /\ dispatch' = [dispatch EXCEPT ![r] = NoDispatch] /\ attempts' = attempts
      /\ AnnounceOpened(r) \/ AnnounceClosed(r)
  BY DEF EndDispatch
<1>2. /\ Announcing(r) /\ Collects(r) /\ TriesAccount(e) /\ IsABag(e.results)
      /\ IsABag(audit) /\ IsABag(attempts)
  BY <1>1 DEF AuditInv, DispatchOK
<1>3. PICK N : N = Notice(r)
  OBVIOUS
<1>4. PICK part : /\ IsABag(part) /\ BagToSet(part) \subseteq BagToSet(e.results)
                  /\ audit' = audit (+) part
                  /\ \/ lost' = lost /\ part = e.results
                     \/ lost' = lost \union {N}
  <2>1. CASE audit' = audit (+) e.results /\ UNCHANGED <<upsets, lost>>
    BY <1>2, <2>1
  <2>2. CASE /\ lost' = lost \union {Notice(r)}
             /\ \E row \in BagToSet(e.results) : audit' = audit (+) (e.results (-) SetToBag({row}))
    <3>1. PICK row \in BagToSet(e.results) : audit' = audit (+) (e.results (-) SetToBag({row}))
      BY <2>2
    <3>2. IsABag(SetToBag({row}))
      BY BagOfOne
    <3> QED
      BY <1>2, <1>3, <2>2, <3>1, <3>2, BagLess
  <2> QED
    BY <2>1, <2>2 DEF EndDispatch
<1>5. /\ IsABag(audit') /\ BagToSet(audit') = BagToSet(audit) \union BagToSet(part)
      /\ \A x : Copies(x, audit') = Copies(x, audit) + Copies(x, part)
  BY <1>2, <1>4, SumOfBags
<1>6. /\ \A row \in BagToSet(part) : row.notice = N
      /\ \A row \in BagToSet(audit) : row.notice # N
  BY <1>2, <1>3, <1>4 DEF Collects
<1>7. ASSUME NEW X, IsABag(X), NEW x
      PROVE  Copies(x, X) \in Nat /\ (x \notin BagToSet(X) => Copies(x, X) = 0)
  BY <1>7 DEF Copies, IsABag, BagToSet, BagIn
<1>8. ASSUME NEW n, n # N, SameAttempts(n, audit, attempts)
      PROVE  SameAttempts(n, audit', attempts)
  <2>1. ASSUME NEW x, x.notice = n
        PROVE  Copies(x, audit') = Copies(x, audit)
    BY <1>2, <1>4, <1>5, <1>6, <1>7, <1>8, <2>1
  <2> QED
    BY <1>5, <1>6, <1>8, <2>1 DEF SameAttempts
<1>9. part = e.results => SameAttempts(N, audit', attempts)
  <2>1. ASSUME NEW x, x.notice = N
        PROVE  Copies(x, audit') = Copies(x, part)
    BY <1>2, <1>4, <1>5, <1>6, <1>7, <2>1
  <2> QED
    BY <1>2, <1>3, <1>5, <1>6, <2>1 DEF Collects, SameAttempts
<1>10. part = e.results => \E row \in BagToSet(audit') : row.notice = N /\ ForAccount(row)
  BY <1>1, <1>2, <1>5, <1>6 DEF TriesAccount
<1>11. /\ Announced' \subseteq Announced \union {N}
       /\ \A n : Happened(n) => Happened(n)'
       /\ run'[r].stage = "idle" /\ \A q \in Runner \ {r} : run'[q] = run[q]
  BY <1>1, <1>3, AnnouncementEffect
<1>12. DispatchOK(r)'
  <2>1. PICK d : d = NoDispatch
    OBVIOUS
  <2>2. dispatch'[r] = d
    BY <1>1, <2>1 DEF AuditInv
  <2>3. d.phase = "off" /\ d.results = EmptyBag /\ d.todo = {} /\ IsDispatch(d)
    BY <2>1 DEF NoDispatch, IsDispatch
  <2>4. ~Announcing(r)'
    BY <1>11 DEF Announcing
  <2> QED
    BY <2>2, <2>3, <2>4, BagOfNone DEF DispatchOK
<1>13. ASSUME NEW q \in Runner \ {r}
       PROVE  DispatchOK(q)'
  <2>1. DispatchOK(q) /\ dispatch'[q] = dispatch[q]
    BY <1>1 DEF AuditInv
  <2>2. Notice(q)' = Notice(q) /\ (Announcing(q)' <=> Announcing(q))
    BY <1>11 DEF Notice, Announcing
  <2>3. Announcing(q) => Notice(q) # N
    BY <1>2, <1>3, NoticesApart
  <2>4. Announcing(q) => Collects(q)'
    BY <1>1, <1>4, <1>5, <1>6, <2>1, <2>2, <2>3 DEF DispatchOK, Collects
  <2> QED
    BY <2>1, <2>2, <2>4 DEF DispatchOK
<1>14. ASSUME NEW n \in Announced' \ lost'
       PROVE  AuditedOK(n)'
  <2>1. CASE n = N
    BY <1>1, <1>4, <1>9, <1>10, <1>14, <2>1 DEF AuditedOK
  <2>2. CASE n # N
    <3>1. AuditedOK(n)
      BY <1>4, <1>11, <1>14, <2>2 DEF AuditInv
    <3> QED
      BY <1>1, <1>5, <1>8, <2>2, <3>1 DEF AuditedOK
  <2> QED
    BY <2>1, <2>2
<1>15. Happened(N)
  BY <1>2, <1>3, NotToldYet
<1>16. /\ \A n \in lost' : Happened(n)'
       /\ \A row \in BagToSet(audit') \union BagToSet(attempts') : Happened(row.notice)
  BY <1>1, <1>4, <1>5, <1>6, <1>11, <1>15 DEF AuditInv
<1>17. \A row \in BagToSet(audit') \union BagToSet(attempts') : Happened(row.notice)'
  <2>1. ASSUME NEW row, Happened(row.notice)
        PROVE  /\ row.notice.incident \in DOMAIN incidents'
               /\ row.notice.event = "CLOSED" => incidents'[row.notice.incident].status = "RESOLVED"
    <3>1. PICK n : n = row.notice
      OBVIOUS
    <3>2. Happened(n)'
      BY <1>11, <2>1, <3>1
    <3> QED
      BY <3>1, <3>2 DEF Happened
  <2> QED
    BY <1>16, <2>1 DEF Happened
<1> QED
  BY <1>1, <1>2, <1>5, <1>12, <1>13, <1>14, <1>16, <1>17 DEF AuditInv

\* A check that is cut short loses its notice, if it was telling of one.
LEMMA AbandoningStep ==
  ASSUME AnnounceInv, AuditInv, NEW r \in Runner, AbandonCheck(r)
  PROVE  AuditInv'
<1>1. /\ dispatch' = [dispatch EXCEPT ![r] = NoDispatch]
      /\ UNCHANGED <<audit, attempts, incidents>>
      /\ lost' = IF Announcing(r) THEN lost \union {Notice(r)} ELSE lost
      /\ Goto(r, "idle")
  BY DEF AbandonCheck, Abandon
<1>2. run'[r].stage = "idle" /\ \A q \in Runner \ {r} : run'[q] = run[q]
  BY <1>1, GotoRun DEF Stages
<1>3. /\ Announced' = Announced /\ \A n : Happened(n)' <=> Happened(n)
  BY <1>1 DEF Announced, Happened
<1>4. Announcing(r) => Happened(Notice(r))
  BY NotToldYet
<1>5. DispatchOK(r)'
  <2>1. PICK d : d = NoDispatch
    OBVIOUS
  <2>2. dispatch'[r] = d
    BY <1>1, <2>1 DEF AuditInv
  <2>3. d.phase = "off" /\ d.results = EmptyBag /\ d.todo = {} /\ IsDispatch(d)
    BY <2>1 DEF NoDispatch, IsDispatch
  <2>4. ~Announcing(r)'
    BY <1>2 DEF Announcing
  <2> QED
    BY <2>2, <2>3, <2>4, BagOfNone DEF DispatchOK
<1>6. ASSUME NEW q \in Runner \ {r}
      PROVE  DispatchOK(q)'
  <2>1. DispatchOK(q) /\ dispatch'[q] = dispatch[q]
    BY <1>1 DEF AuditInv
  <2>2. Notice(q)' = Notice(q) /\ (Announcing(q)' <=> Announcing(q))
    BY <1>2 DEF Notice, Announcing
  <2>3. Announcing(q) /\ Announcing(r) => Notice(q) # Notice(r)
    BY NoticesApart
  <2>4. Announcing(q) => Collects(q)'
    BY <1>1, <2>1, <2>2, <2>3 DEF DispatchOK, Collects
  <2> QED
    BY <2>1, <2>2, <2>4 DEF DispatchOK
<1>7. \A n \in Announced' \ lost' : AuditedOK(n)'
  BY <1>1, <1>3 DEF AuditInv, AuditedOK
<1>8. \A n \in lost' : Happened(n)
  BY <1>1, <1>4 DEF AuditInv
<1> QED
  BY <1>1, <1>3, <1>5, <1>6, <1>7, <1>8 DEF AuditInv

\* A runner that is not telling of anything, and may be about to: of something new.
LEMMA CheckingStep ==
  ASSUME AuditInv, UNCHANGED notices, NEW r \in Runner, ~Announcing(r),
         \A q \in Runner \ {r} : run'[q] = run[q],
         Announced' \subseteq Announced, \A n : Happened(n) => Happened(n)',
         Announcing(r)' => ~Happened(Notice(r)')
  PROVE  AuditInv'
<1>1. UNCHANGED <<dispatch, audit, attempts, lost>>
  BY DEF notices
<1>2. ASSUME NEW q \in Runner \ {r}
      PROVE  DispatchOK(q)'
  <2>1. Notice(q)' = Notice(q) /\ (Announcing(q)' <=> Announcing(q))
    BY DEF Notice, Announcing
  <2> QED
    BY <1>1, <2>1 DEF AuditInv, DispatchOK, Collects
<1>3. DispatchOK(r)'
  <2>1. DispatchOK(r) /\ dispatch[r].phase = "off" /\ dispatch[r].results = EmptyBag
    BY DEF AuditInv, DispatchOK
  <2>2. PICK n : n = Notice(r)'
    OBVIOUS
  <2>3. Announcing(r)' => /\ n \notin lost
                          /\ \A row \in BagToSet(audit) \union BagToSet(attempts) : row.notice # n
    BY <2>2 DEF AuditInv
  <2>4. Announcing(r)' => SameAttempts(n, EmptyBag, attempts)
    BY <2>3, BagOfNone DEF SameAttempts
  <2>5. Announcing(r)' => Collects(r)'
    BY <1>1, <2>1, <2>2, <2>3, <2>4, BagOfNone DEF Collects
  <2> QED
    BY <1>1, <2>1, <2>5 DEF DispatchOK
<1>4. \A n \in Announced' \ lost' : AuditedOK(n)'
  BY <1>1 DEF AuditInv, AuditedOK
<1>5. \A row \in BagToSet(audit) \union BagToSet(attempts) : Happened(row.notice)'
  <2>1. ASSUME NEW row, Happened(row.notice)
        PROVE  /\ row.notice.incident \in DOMAIN incidents'
               /\ row.notice.event = "CLOSED" => incidents'[row.notice.incident].status = "RESOLVED"
    <3>1. PICK n : n = row.notice
      OBVIOUS
    <3>2. Happened(n)'
      BY <2>1, <3>1
    <3> QED
      BY <3>1, <3>2 DEF Happened
  <2> QED
    BY <2>1 DEF AuditInv, Happened
<1> QED
  BY <1>1, <1>2, <1>3, <1>4, <1>5 DEF AuditInv

\* A runner that turns to an incident.
LEMMA TurnsTo ==
  ASSUME AnnounceInv, NEW r \in Runner, NEW stage, NEW i,
         run' = [run EXCEPT ![r].stage = stage, ![r].incident = i]
  PROVE  /\ run'[r].stage = stage /\ run'[r].incident = i
         /\ \A q \in Runner \ {r} : run'[q] = run[q]
<1>1. run = [q \in Runner |-> run[q]] /\ IsRun(run[r])
  BY DEF AnnounceInv, RunsOK
<1>2. PICK d : d = run'[r]
  OBVIOUS
<1>3. PICK c : c = run[r]
  OBVIOUS
<1>4. d = [[c EXCEPT !.stage = stage] EXCEPT !.incident = i]
  BY <1>1, <1>2, <1>3
<1>5. d.stage = stage /\ d.incident = i
  BY <1>1, <1>3, <1>4 DEF IsRun
<1> QED
  BY <1>1, <1>2, <1>5

\* The steps of MonitorCheck other than its announcements.
LEMMA OtherStepsKeep ==
  ASSUME AnnounceInv, AuditInv, UNCHANGED notices, NEW r \in Runner, OtherStep(r)
  PROVE  AuditInv'
<1>0. incidents \in Seq(Ledger!Incident)
  BY DEF AnnounceInv, IncidentsOK
<1>1. ~Announcing(r)
  BY DEF OtherStep, StartCheck, FinishProbe, ApplyUpdate, WriteLog, MatchOngoing,
         InsertIncident, ResolveIncident, Idle, Announcing
<1>2. ASSUME NEW stage \in Stages \ {"announceOpened", "saving"}, Goto(r, stage),
             UNCHANGED incidents
      PROVE  AuditInv'
  <2>1. run'[r].stage = stage /\ \A q \in Runner \ {r} : run'[q] = run[q]
    BY <1>2, GotoRun
  <2>2. ~Announcing(r)'
    BY <1>2, <2>1 DEF Announcing
  <2>3. Announced' = Announced /\ \A n : Happened(n)' <=> Happened(n)
    BY <1>2 DEF Announced, Happened
  <2> QED
    BY <1>1, <2>1, <2>2, <2>3, CheckingStep
<1>3. CASE StartCheck(r) \/ FinishProbe(r)
  <2>1. /\ run'[r].stage \in {"probing", "updating"} /\ UNCHANGED incidents
        /\ \A q \in Runner \ {r} : run'[q] = run[q]
    <3>1. CASE StartCheck(r)
      BY <3>1 DEF AnnounceInv, RunsOK, StartCheck
    <3>2. CASE FinishProbe(r)
      <4>1. PICK u, t : run' = [run EXCEPT ![r] = [[run[r] EXCEPT !.up = t]
                                                     EXCEPT !.stage = "updating", !.patch = u]]
        BY <3>2 DEF FinishProbe
      <4> QED
        BY <3>2, <4>1 DEF AnnounceInv, RunsOK, IsRun, FinishProbe
    <3> QED
      BY <1>3, <3>1, <3>2
  <2>2. ~Announcing(r)'
    BY <2>1 DEF Announcing
  <2>3. Announced' = Announced /\ \A n : Happened(n)' <=> Happened(n)
    BY <2>1 DEF Announced, Happened
  <2> QED
    BY <1>1, <2>1, <2>2, <2>3, CheckingStep
<1>4. CASE ApplyUpdate(r) \/ WriteLog(r) \/ MatchOngoing(r)
  <2>1. \E stage \in {"logging", "matching", "closing", "idle", "inserting"} :
          Goto(r, stage) /\ UNCHANGED incidents
    BY <1>4 DEF ApplyUpdate, WriteLog, MatchOngoing
  <2> QED
    BY <1>2, <2>1 DEF Stages
<1>5. CASE InsertIncident(r)
  <2>1. CASE Goto(r, "idle") /\ UNCHANGED incidents
    BY <1>2, <2>1 DEF Stages
  <2>2. CASE /\ incidents' = Append(incidents, [status |-> "ONGOING", openNotices |-> 0,
                                                closeNotices |-> 0])
             /\ run' = [run EXCEPT ![r].stage = "announceOpened", ![r].incident = Len(incidents) + 1]
    <3>1. PICK c : c = [status |-> "ONGOING", openNotices |-> 0, closeNotices |-> 0]
      OBVIOUS
    <3>2. /\ DOMAIN incidents' = 1..(Len(incidents) + 1) /\ Len(incidents) \in Nat
          /\ DOMAIN incidents = 1..Len(incidents)
          /\ \A i \in DOMAIN incidents : incidents'[i] = incidents[i]
          /\ incidents'[Len(incidents) + 1] = c
      BY <1>0, <2>2, <3>1
    <3>3. c.openNotices = 0 /\ c.closeNotices = 0
      BY <3>1
    <3>4. Announced' \subseteq Announced /\ \A n : Happened(n) => Happened(n)'
      BY <3>2, <3>3 DEF Announced, Happened
    <3>5. /\ run'[r].incident = Len(incidents) + 1
          /\ \A q \in Runner \ {r} : run'[q] = run[q]
      <4>1. PICK new : new = Len(incidents) + 1
        OBVIOUS
      <4>2. run' = [run EXCEPT ![r].stage = "announceOpened", ![r].incident = new]
        BY <2>2, <4>1
      <4>3. run'[r].incident = new /\ \A q \in Runner \ {r} : run'[q] = run[q]
        BY <4>2, TurnsTo
      <4> QED
        BY <4>1, <4>3
    <3>6. ~Happened(Notice(r)')
      BY <3>2, <3>5 DEF Happened, Notice
    <3> QED
      BY <1>1, <3>4, <3>5, <3>6, CheckingStep
  <2> QED
    BY <1>5, <2>1, <2>2 DEF InsertIncident
<1>6. CASE ResolveIncident(r)
  <2>1. CASE Goto(r, "idle") /\ UNCHANGED incidents
    BY <1>2, <2>1 DEF Stages
  <2>2. CASE \E i \in Closable :
               /\ incidents' = [incidents EXCEPT ![i].status = "RESOLVED"]
               /\ run' = [run EXCEPT ![r].stage = "saving", ![r].incident = i]
    <3>1. PICK i \in Closable :
            /\ incidents' = [incidents EXCEPT ![i].status = "RESOLVED"]
            /\ run' = [run EXCEPT ![r].stage = "saving", ![r].incident = i]
      BY <2>2
    <3>2. i \in DOMAIN incidents /\ incidents[i].status = "ONGOING"
      BY DEF Closable, Ongoing
    <3>3. PICK c : c = [incidents[i] EXCEPT !.status = "RESOLVED"]
      OBVIOUS
    <3>4. /\ c.status = "RESOLVED" /\ c.openNotices = incidents[i].openNotices
          /\ c.closeNotices = incidents[i].closeNotices
      BY <1>0, <3>2, <3>3 DEF Ledger!Incident
    <3>5. /\ DOMAIN incidents' = DOMAIN incidents /\ incidents'[i] = c
          /\ \A j \in DOMAIN incidents \ {i} : incidents'[j] = incidents[j]
      BY <1>0, <3>1, <3>2, <3>3
    <3>6. Announced' \subseteq Announced /\ \A n : Happened(n) => Happened(n)'
      BY <3>4, <3>5 DEF Announced, Happened
    <3>7. /\ run'[r].incident = i /\ run'[r].stage = "saving"
          /\ \A q \in Runner \ {r} : run'[q] = run[q]
      BY <3>1, TurnsTo
    <3>8. ~Happened(Notice(r)')
      BY <3>2, <3>7 DEF Happened, Notice
    <3> QED
      BY <1>1, <3>6, <3>7, <3>8, CheckingStep
  <2> QED
    BY <1>6, <2>1, <2>2 DEF ResolveIncident
<1> QED
  BY <1>3, <1>4, <1>5, <1>6 DEF OtherStep

\* One step of AuditInv.
LEMMA AuditStep ==
  ASSUME AnnounceInv, AuditInv, [NotifierNext]_<<vars, notices>>
  PROVE  AuditInv'
<1>1. ASSUME UNCHANGED <<incidents, dispatch, audit, attempts, lost>>,
             \A r \in Runner : Notice(r)' = Notice(r) /\ (Announcing(r)' <=> Announcing(r))
      PROVE  AuditInv'
  <2>1. Announced' = Announced /\ \A n : Happened(n)' <=> Happened(n)
    BY <1>1 DEF Announced, Happened
  <2>2. ASSUME NEW r \in Runner
        PROVE  DispatchOK(r)'
    BY <1>1 DEF AuditInv, DispatchOK, Collects
  <2>3. \A n \in Announced' \ lost' : AuditedOK(n)'
    BY <1>1, <2>1 DEF AuditInv, AuditedOK
  <2> QED
    BY <1>1, <2>1, <2>2, <2>3 DEF AuditInv
<1>2. CASE UNCHANGED vars /\ UNCHANGED <<dispatch, audit, attempts, lost>>
  BY <1>1, <1>2, SameNotices DEF vars
<1>3. CASE UNCHANGED <<vars, notices>> \/ ChangeChannels
  BY <1>2, <1>3 DEF notices, ChangeChannels
<1>4. ASSUME NEW r \in Runner, DispatchStep(r) \/ AbandonCheck(r)
      PROVE  AuditInv'
  BY <1>4, PreparingSteps, SendingStep, RecordingStep, AbandoningStep DEF DispatchStep
<1>5. CASE UNCHANGED notices /\ \E r \in Runner : OtherStep(r)
  BY <1>5, OtherStepsKeep
<1>6. CASE UNCHANGED notices /\ PassTime
  <2>1. \A r \in Runner : run'[r].stage = run[r].stage /\ run'[r].incident = run[r].incident
    <3> SUFFICES ASSUME NEW r \in Runner
                 PROVE  run'[r].stage = run[r].stage /\ run'[r].incident = run[r].incident
      OBVIOUS
    <3>1. PICK p, t : run'[r] = [[run[r] EXCEPT !.patch = p] EXCEPT !.snap = t]
      BY <1>6 DEF PassTime
    <3>2. PICK d : d = run'[r]
      OBVIOUS
    <3>3. IsRun(run[r])
      BY DEF AnnounceInv, RunsOK
    <3>4. d.stage = run[r].stage /\ d.incident = run[r].incident
      BY <3>1, <3>2, <3>3 DEF IsRun
    <3> QED
      BY <3>2, <3>4
  <2> QED
    BY <1>1, <1>6, <2>1 DEF notices, PassTime, Notice, Announcing
<1>7. CASE UNCHANGED notices /\ (FlipTarget \/ OwnerStep)
  <2>1. UNCHANGED <<run, incidents>>
    BY <1>7 DEF FlipTarget, OwnerStep, EditMonitor, DeleteMonitor
  <2> QED
    BY <1>1, <1>7, <2>1 DEF notices, Notice, Announcing
<1> QED
  BY <1>3, <1>4, <1>5, <1>6, <1>7 DEF NotifierNext

\* The inductive invariant holds.
LEMMA AuditInvariant == NotifierSpec => [](AnnounceInv /\ AuditInv)
<1>1. NotifierInit => AuditInv
  <2> SUFFICES ASSUME NotifierInit PROVE AuditInv
    OBVIOUS
  <2>1. /\ audit = EmptyBag /\ attempts = EmptyBag /\ lost = {} /\ incidents = <<>>
        /\ dispatch = [r \in Runner |-> NoDispatch]
        /\ \A r \in Runner : run[r].stage = "idle"
    BY DEF NotifierInit, Init, NoRun
  <2>2. PICK d : d = NoDispatch
    OBVIOUS
  <2>3. d.phase = "off" /\ d.results = EmptyBag /\ d.todo = {} /\ IsDispatch(d)
    BY <2>2 DEF NoDispatch, IsDispatch
  <2>4. \A r \in Runner : DispatchOK(r)
    BY <2>1, <2>2, <2>3, BagOfNone DEF DispatchOK, Announcing
  <2>5. Announced = {}
    BY <2>1 DEF Announced
  <2> QED
    BY <2>1, <2>4, <2>5, BagOfNone DEF AuditInv
<1>2. AnnounceInv /\ AuditInv /\ [NotifierNext]_<<vars, notices>> => AuditInv'
  BY AuditStep
<1>3. NotifierSpec => []AnnounceInv
  BY DispatchIsPartOfTheCheck, AnnounceInvariant DEF CheckSpec
<1> QED
  BY <1>1, <1>2, <1>3, PTL DEF NotifierSpec

\* notifier.js:90 "Every attempt is recorded": whatever fails to load, is refused, times
\* out or is rejected, for any channels and any number of runners dispatching at once,
\* the rows of a notice are exactly what was attempted for it, and every notice has one,
\* unless a crash or a failed insert cut its dispatch short.
THEOREM EveryAttemptIsAudited == NotifierSpec => []AttemptsAreAudited
<1>1. AuditInv => AttemptsAreAudited
  <2> SUFFICES ASSUME AuditInv, NEW n \in Announced \ lost
               PROVE  /\ \E row \in BagToSet(audit) : row.notice = n
                      /\ \A row \in BagToSet(attempts) \union BagToSet(audit) :
                           row.notice = n /\ row.status # "Skipped" /\ row.to # "none" =>
                             Copies(row, audit) = Copies(row, attempts)
    BY DEF AttemptsAreAudited
  <2>1. AuditedOK(n)
    BY DEF AuditInv
  <2> QED
    BY <2>1 DEF AuditedOK, SameAttempts, Counts
<1> QED
  BY <1>1, AuditInvariant, PTL

\* email.notifier.js:42 "the account email is the guarantee": every notice that was sent
\* was tried at the account's address, or its failure before that is on record.
THEOREM TheAccountIsTried == NotifierSpec => []AccountIsTried
<1>1. AuditInv => AccountIsTried
  BY DEF AuditInv, AuditedOK, ForAccount, AccountIsTried
<1> QED
  BY <1>1, AuditInvariant, PTL
==============================================================================
