----------------------------- MODULE MonitorCheck -----------------------------
(***************************************************************************)
(* The life of one monitor: runCheck() of Backend/src/jobs/scheduler.js    *)
(* with the incident transitions of services/incident.service.js it makes, *)
(* against the monitor's document, its incidents and its owner's edits.    *)
(*                                                                         *)
(* A Runner is a scheduler instance that believes it leads: the in-flight  *)
(* set lets each have one check of the monitor under way.  One runner is   *)
(* the normal case; two is a failover window (docs/adr/0004).  runCheck is *)
(* cut at its awaits: the document is read when the check starts, the      *)
(* target answers later, and every later decision uses the document as it  *)
(* was read.                                                               *)
(*                                                                         *)
(* Times are kept relative to the present (nextIn is nextCheckAt - now),   *)
(* so the model runs for ever in finitely many states; counters that are   *)
(* only compared with thresholds saturate.                                 *)
(***************************************************************************)
EXTENDS CircuitBreaker, Integers, Sequences

CONSTANTS Runner,        \* scheduler instances that may run checks
          Configs,       \* configurations the owner may choose
          MinInterval,   \* MIN_INTERVAL_SECONDS, in model time units
          CounterCap,    \* bound: the consecutive counters saturate here
          MaxFlips,      \* bound: times the target goes down or comes back
          MaxEdits,      \* bound: owner edits
          MaxFaults      \* bound: crashes and failed database calls

\* What the owner sets: failureThreshold, successThreshold, interval, active (an
\* unset field is its default, and 0 counts as unset).
ASSUME CheckAssumption ==
  /\ Configs \subseteq [failN : Nat \ {0}, succN : Nat \ {0},
                        interval : Nat \ {0}, active : BOOLEAN]
  /\ MinInterval \in Nat \ {0} /\ CounterCap \in Nat
  /\ \A c \in Configs : c.failN <= CounterCap /\ c.succN <= CounterCap
  /\ BREAKER_FAILURE_THRESHOLD <= CounterCap
  /\ MaxFlips \in Nat /\ MaxEdits \in Nat /\ MaxFaults \in Nat

VARIABLES mon,        \* the monitor document
          exists,     \* it has not been deleted
          run,        \* the check each runner has under way
          incidents,  \* the incident documents of the monitor, oldest first
          target,     \* does the target answer?
          flips, edits, faults,   \* history: what the environment did so far
          streak,     \* history: outcome and length of the last recorded streak
          chosen,     \* history: the configuration the owner chose last
          unlogged    \* history: checks recorded on the monitor minus log rows

vars == <<mon, exists, run, incidents, target, flips, edits, faults, streak,
          chosen, unlogged>>

AtMost(a, b) == IF a <= b THEN a ELSE b
AtLeast(a, b) == IF a >= b THEN a ELSE b

\* {...breaker.patch, ...onCheck...}: the later spread wins.
Spread(p, q) ==
  [f \in DOMAIN p \union DOMAIN q |-> IF f \in DOMAIN q THEN q[f] ELSE p[f]]

Stages == {"idle", "probing", "updating", "logging", "matching", "inserting",
           "announceOpened", "closing", "saving"}

NewMonitor(c) ==
  [failN |-> c.failN, succN |-> c.succN, interval |-> c.interval,
   active |-> c.active, status |-> "UP", fails |-> 0, succs |-> 0, nextIn |-> 0,
   breaker |-> "CLOSED", retryIn |-> 0, opens |-> 0]

Monitor ==
  [failN : Nat \ {0}, succN : Nat \ {0}, interval : Nat \ {0}, active : BOOLEAN,
   status : {"UP", "DOWN"}, fails : Nat, succs : Nat, nextIn : Nat,
   breaker : BreakerState, retryIn : Nat, opens : Nat]

Config(m) == [failN |-> m.failN, succN |-> m.succN,
              interval |-> m.interval, active |-> m.active]

\* A runner with no check of this monitor under way.
NoRun == [stage |-> "idle", snap |-> NewMonitor(CHOOSE c \in Configs : TRUE),
          probe |-> FALSE, patch |-> NoPatch, up |-> FALSE, incident |-> 0]

Idle(r) == run[r].stage = "idle"
Quiet == \A r \in Runner : Idle(r)
Ongoing == {i \in DOMAIN incidents : incidents[i].status = "ONGOING"}

\* Runner r moves to another stage of its check, or ends it.
Goto(r, stage) ==
  run' = [run EXCEPT ![r] = IF stage = "idle" THEN NoRun ELSE [@ EXCEPT !.stage = stage]]

Init ==
  /\ \E c \in Configs : mon = NewMonitor(c) /\ chosen = c
  /\ exists = TRUE
  /\ run = [r \in Runner |-> NoRun]
  /\ incidents = <<>>
  /\ target = "UP"
  /\ flips = 0 /\ edits = 0 /\ faults = 0 /\ unlogged = 0
  /\ streak = [status |-> "UP", len |-> 0]

------------------------------------------------------------------------------
(* One check *)

\* tick(): the monitor is active and due, not in flight here, and its breaker
\* lets it through; the document is read and the check handed to the pool.
StartCheck(r) ==
  LET breaker == evaluateBreaker(mon)
  IN  /\ exists /\ mon.active /\ mon.nextIn = 0
      /\ Idle(r) /\ breaker.allowed
      /\ run' = [run EXCEPT ![r] = [stage |-> "probing", snap |-> mon,
                                    probe |-> breaker.probe,
                                    patch |-> breaker.patch,
                                    up |-> FALSE, incident |-> 0]]
      /\ UNCHANGED <<mon, exists, incidents, target, flips, edits, faults,
                     streak, chosen, unlogged>>

\* Flap detection, on the document as it was read.
Fails(c) == IF c.up THEN 0 ELSE AtMost(c.snap.fails + 1, CounterCap)
Succs(c) == IF c.up THEN AtMost(c.snap.succs + 1, CounterCap) ELSE 0

\* Faulty variant: the transition fires only at the exact count.
shouldOpen_exact(c) == ~c.up /\ c.snap.status = "UP" /\ Fails(c) = c.snap.failN

shouldOpen(c) == ~c.up /\ c.snap.status = "UP" /\ Fails(c) >= c.snap.failN

\* Faulty variant: the close threshold is off by one.
shouldClose_early(c) == c.up /\ c.snap.status = "DOWN" /\ Succs(c) + 1 >= c.snap.succN

shouldClose(c) == c.up /\ c.snap.status = "DOWN" /\ Succs(c) >= c.snap.succN

\* The $set of the terminal write of check c.
Update(c) ==
  Spread(
    Spread(
      Spread([fails |-> Fails(c), succs |-> Succs(c),
              nextIn |-> AtLeast(MinInterval, c.snap.interval)],
             c.patch),
      IF c.up THEN onCheckSuccess(c.snap) ELSE onCheckFailure(c.snap, Fails(c))),
    CASE shouldOpen(c)  -> [status |-> "DOWN"]
      [] shouldClose(c) -> [status |-> "UP"]
      [] OTHER          -> NoPatch)

\* checkMonitor() answers with the target's state; the update is computed and
\* the updateOne leaves.
FinishProbe(r) ==
  /\ run[r].stage = "probing"
  /\ LET c == [run[r] EXCEPT !.up = (target = "UP")]
     IN  run' = [run EXCEPT ![r] = [c EXCEPT !.stage = "updating", !.patch = Update(c)]]
  /\ UNCHANGED <<mon, exists, incidents, target, flips, edits, faults, streak,
                 chosen, unlogged>>

\* Faulty variant: doc.save() of the document as it was read.
Written_wholeDocument(c) == Overlay(c.patch, c.snap)

\* A targeted $set: only the fields of the update are written.
Written(c) == Overlay(c.patch, mon)

\* The updateOne is applied; it matches nothing once the monitor is deleted.
ApplyUpdate(r) ==
  LET c == run[r]
      status == IF c.up THEN "UP" ELSE "DOWN"
  IN  /\ c.stage = "updating"
      /\ mon' = IF exists THEN Written(c) ELSE mon
      /\ unlogged' = IF exists THEN unlogged + 1 ELSE unlogged
      /\ streak' = [status |-> status,
                    len |-> IF streak.status = status
                            THEN AtMost(streak.len + 1, CounterCap) ELSE 1]
      /\ Goto(r, "logging")
      /\ UNCHANGED <<exists, incidents, target, flips, edits, faults, chosen>>

\* The log row is created, the status pushed, and the transition entered.
WriteLog(r) ==
  /\ run[r].stage = "logging"
  /\ unlogged' = unlogged - 1
  /\ Goto(r, CASE shouldOpen(run[r])  -> "matching"
               [] shouldClose(run[r]) -> "closing"
               [] OTHER               -> "idle")
  /\ UNCHANGED <<mon, exists, incidents, target, flips, edits, faults, streak,
                 chosen>>

------------------------------------------------------------------------------
(* openIncident() *)

\* The upsert looks for an ongoing incident; finding one, it is not a transition.
MatchOngoing(r) ==
  /\ run[r].stage = "matching"
  /\ Goto(r, IF Ongoing = {} THEN "inserting" ELSE "idle")
  /\ UNCHANGED <<mon, exists, incidents, target, flips, edits, faults, streak,
                 chosen, unlogged>>

\* Faulty variant: no partial unique index.
InsertAllowed_noIndex == TRUE

\* The partial unique index admits one ONGOING document per monitor.
InsertAllowed == Ongoing = {}

\* The upsert inserts.  If another writer got there first the index refuses
\* (E11000) and that writer notifies.
InsertIncident(r) ==
  /\ run[r].stage = "inserting"
  /\ IF InsertAllowed
     THEN /\ incidents' = Append(incidents, [status |-> "ONGOING",
                                             openNotices |-> 0, closeNotices |-> 0])
          /\ run' = [run EXCEPT ![r].stage = "announceOpened",
                                ![r].incident = Len(incidents) + 1]
     ELSE /\ Goto(r, "idle")
          /\ UNCHANGED incidents
  /\ UNCHANGED <<mon, exists, target, flips, edits, faults, streak, chosen,
                 unlogged>>

\* After the AI summary (best effort) the owner is loaded and the registry
\* dispatches the OPENED notification.
AnnounceOpened(r) ==
  /\ run[r].stage = "announceOpened"
  /\ incidents' = [incidents EXCEPT ![run[r].incident].openNotices = @ + 1]
  /\ Goto(r, "idle")
  /\ UNCHANGED <<mon, exists, target, flips, edits, faults, streak, chosen,
                 unlogged>>

------------------------------------------------------------------------------
(* closeIncident() *)

\* The filter { monitorId, status: 'ONGOING' }.
Closable == Ongoing

\* ONGOING becomes RESOLVED in one atomic update; whoever's update matches
\* nothing did not close it and says nothing.
ResolveIncident(r) ==
  /\ run[r].stage = "closing"
  /\ IF Closable = {}
     THEN Goto(r, "idle") /\ UNCHANGED incidents
     ELSE \E i \in Closable :
            /\ incidents' = [incidents EXCEPT ![i].status = "RESOLVED"]
            /\ run' = [run EXCEPT ![r].stage = "saving", ![r].incident = i]
  /\ UNCHANGED <<mon, exists, target, flips, edits, faults, streak, chosen,
                 unlogged>>

\* The duration is saved, the owner loaded, the CLOSED notification dispatched.
AnnounceClosed(r) ==
  /\ run[r].stage = "saving"
  /\ incidents' = [incidents EXCEPT ![run[r].incident].closeNotices = @ + 1]
  /\ Goto(r, "idle")
  /\ UNCHANGED <<mon, exists, target, flips, edits, faults, streak, chosen,
                 unlogged>>

------------------------------------------------------------------------------
(* The environment *)

\* The check ends early: its process dies, or the database call of its stage
\* fails (updateOne, create, the incident upsert, the incident update, the
\* owner's lookup), which runPool or the catch of the transition absorbs.
Abandon(r) ==
  /\ ~Idle(r) /\ faults < MaxFaults
  /\ faults' = faults + 1
  /\ Goto(r, "idle")
  /\ UNCHANGED <<mon, exists, incidents, target, flips, edits, streak, chosen,
                 unlogged>>

\* Time left after one more unit; a time that has come stays come.
Left(t) == IF t = 0 THEN 0 ELSE t - 1

\* The remaining times of a document or a pending update, one unit later.
Age(fields) ==
  [f \in DOMAIN fields |-> IF f \in {"nextIn", "retryIn"} THEN Left(fields[f])
                                                          ELSE fields[f]]

PassTime ==
  /\ mon' = Age(mon)
  /\ run' = [r \in Runner |-> [run[r] EXCEPT
                                 !.patch = Age(@),
                                 !.snap = IF Idle(r) THEN @ ELSE Age(@)]]
  /\ UNCHANGED <<exists, incidents, target, flips, edits, faults, streak, chosen,
                 unlogged>>

FlipTarget ==
  /\ flips < MaxFlips
  /\ flips' = flips + 1
  /\ target' = IF target = "UP" THEN "DOWN" ELSE "UP"
  /\ UNCHANGED <<mon, exists, run, incidents, edits, faults, streak, chosen,
                 unlogged>>

\* updateMonitorController: a $set of the owner's fields only.
EditMonitor(c) ==
  /\ exists /\ edits < MaxEdits
  /\ edits' = edits + 1
  /\ chosen' = c
  /\ mon' = Overlay(c, mon)
  /\ UNCHANGED <<exists, run, incidents, target, flips, faults, streak, unlogged>>

\* deleteMonitorController: the monitor only; incidents and logs stay.
DeleteMonitor ==
  /\ exists /\ edits < MaxEdits
  /\ edits' = edits + 1
  /\ exists' = FALSE
  /\ UNCHANGED <<mon, run, incidents, target, flips, faults, streak, chosen,
                 unlogged>>

CheckStep(r) ==
  \/ StartCheck(r) \/ FinishProbe(r) \/ ApplyUpdate(r) \/ WriteLog(r)
  \/ MatchOngoing(r) \/ InsertIncident(r) \/ AnnounceOpened(r)
  \/ ResolveIncident(r) \/ AnnounceClosed(r)

OwnerStep == DeleteMonitor \/ \E c \in Configs : EditMonitor(c)

Next ==
  \/ \E r \in Runner : CheckStep(r) \/ Abandon(r)
  \/ PassTime \/ FlipTarget \/ OwnerStep

Spec == Init /\ [][Next]_vars

\* The leader keeps ticking, checks are bounded by their deadline, the database
\* answers, and time passes.
FairSpec == Spec /\ WF_vars(PassTime) /\ \A r \in Runner : WF_vars(CheckStep(r))

------------------------------------------------------------------------------
(* Properties *)

Run == [stage : Stages, snap : Monitor, probe : BOOLEAN, up : BOOLEAN,
        incident : Nat]

TypeOK ==
  /\ mon \in Monitor /\ exists \in BOOLEAN
  /\ DOMAIN run = Runner
  /\ \A r \in Runner :
       /\ [f \in DOMAIN run[r] \ {"patch"} |-> run[r][f]] \in Run
       /\ Overlay(run[r].patch, mon) \in Monitor
  /\ target \in {"UP", "DOWN"}
  /\ streak.status \in {"UP", "DOWN"} /\ streak.len \in Nat
  /\ unlogged \in Int

\* The incidents obey the ledger in every run: any number of leaders, crashes,
\* failed calls, edits and a deletion.  In particular one incident is ongoing at
\* most, and nothing is announced twice.
Ledger == INSTANCE IncidentLedger
LedgerSpec == Ledger!Spec

\* With one runner an incident opens only after failureThreshold consecutive
\* failed checks, and closes only after successThreshold successful ones, counted
\* independently of the persisted counters: over crashes, failed calls, restarts
\* and edits.  (docs/SCHEDULER.md 6)
TransitionOnStreak ==
  [][\A r \in Runner :
       /\ InsertIncident(r) /\ incidents' # incidents
            => streak.status = "DOWN" /\ streak.len >= run[r].snap.failN
       /\ ResolveIncident(r) /\ incidents' # incidents
            => streak.status = "UP" /\ streak.len >= run[r].snap.succN]_vars

\* The owner's edits survive the checks under way: no check writes the
\* configuration it read back.
EditsSurvive == exists => Config(mon) = chosen

\* With one runner a breaker is open (or half open) only while the monitor is
\* failing: a healthy target is never skipped.
OpenBreakerMeansFailing ==
  mon.breaker # "CLOSED" =>
    mon.fails >= BREAKER_FAILURE_THRESHOLD /\ mon.opens > 0

\* An open breaker is retried within the longest cooldown.
RetryIsBounded == mon.retryIn <= BREAKER_MAX_COOLDOWN

\* With one runner, once no check is under way and nothing ever failed, status
\* and incidents agree, every check has its log row, and each transition was
\* announced exactly once.  A failure can leave any of these undone for good: the
\* terminal write, the log row and the incident are separate writes.
Settled(i) ==
  /\ incidents[i].openNotices = 1
  /\ incidents[i].closeNotices = (IF incidents[i].status = "RESOLVED" THEN 1 ELSE 0)

SettledWhenQuiet ==
  Quiet /\ faults = 0 /\ exists =>
    /\ unlogged = 0
    /\ (mon.status = "DOWN") <=> (Ongoing # {})
    /\ \A i \in DOMAIN incidents : Settled(i)

Watched == exists /\ mon.active

\* Unless something failed, a watched target that stays down ends up with an
\* ongoing incident, one that stays up with none, the breaker's cooldowns
\* notwithstanding.
NoFaults == [](faults = 0)

OutageIsReported ==
  NoFaults /\ <>[](target = "DOWN" /\ Watched) => <>[](Ongoing # {})
RecoveryIsReported ==
  NoFaults /\ <>[](target = "UP" /\ Watched) => <>[](Ongoing = {})

------------------------------------------------------------------------------
(* Claims of the documentation that the code does not keep *)

\* scheduler.js:391 "a failed incident transition must not lose it.  The next check
\* re-evaluates the same threshold": the outage is reported after a failure too.
OutageSurvivesFailure == <>[](target = "DOWN" /\ Watched) => <>[](Ongoing # {})

\* circuitBreaker.js:90 "From HALF_OPEN a single failure reopens immediately with
\* a longer cooldown - the probe was the test, and it failed".
FailedProbeReopens ==
  [][\A r \in Runner : ApplyUpdate(r) /\ run[r].probe /\ ~run[r].up /\ exists
       => mon'.breaker = "OPEN"]_vars
==============================================================================
