------------------------------ MODULE Scheduler ------------------------------
(***************************************************************************)
(* MonitorScheduler of Backend/src/jobs/scheduler.js on every instance:    *)
(* the self-rescheduling tick loop, leader election through SchedulerLock, *)
(* the query for due monitors, the bounded pool of checks and stop().      *)
(*                                                                         *)
(* A tick awaits three things in order - the lease, the due monitors, the  *)
(* whole pool - and `ticking` keeps a second tick out meanwhile; the lease *)
(* is therefore renewed only between pools.  What a check does inside is   *)
(* in MonitorCheck; here it only takes time and, when it completes, moves  *)
(* the monitor's nextCheckAt.                                              *)
(***************************************************************************)
EXTENDS SchedulerLock, Sequences, FiniteSets

CONSTANTS Monitor,      \* the monitors
          Interval,     \* their interval
          Concurrency,  \* SCHEDULER_CONCURRENCY
          MaxBatch,     \* MAX_BATCH
          Grace,        \* SHUTDOWN_GRACE_MS
          MaxBadCalls   \* bound: failed queries and failed checks

ASSUME SchedulerAssumption ==
  /\ IsFiniteSet(Monitor)
  /\ Interval \in Nat \ {0} /\ Concurrency \in Nat \ {0}
  /\ MaxBatch \in Nat \ {0} /\ Grace \in Nat /\ MaxBadCalls \in Nat

VARIABLES phase,        \* where each instance's tick is; "idle" between ticks
          stop,         \* how far each instance's stop() has come
          stopAt,       \* when stop() was called
          queue,        \* tasks of the pool not begun, in order
          active,       \* checks the pool is running
          inFlight,     \* the overlap guard
          nextCheckAt,  \* per monitor document
          badCalls      \* history: queries and checks that failed

schedVars == <<phase, stop, stopAt, queue, active, inFlight, nextCheckAt, badCalls>>
allVars == <<lockVars, schedVars>>

SchedTypeOK ==
  /\ phase \in [Node -> {"idle", "acquiring", "finding", "found", "pool"}]
  /\ stop \in [Node -> {"no", "draining", "released"}]
  /\ stopAt \in [Node -> Nat]
  /\ \A n \in Node : queue[n] \in Seq(Monitor)
  /\ active \in [Node -> SUBSET Monitor] /\ inFlight \in [Node -> SUBSET Monitor]
  /\ nextCheckAt \in [Monitor -> Nat] /\ badCalls \in Nat

SchedInit ==
  /\ LockInit
  /\ phase = [n \in Node |-> "idle"]
  /\ stop = [n \in Node |-> "no"] /\ stopAt = [n \in Node |-> 0]
  /\ queue = [n \in Node |-> <<>>]
  /\ active = [n \in Node |-> {}] /\ inFlight = [n \in Node |-> {}]
  /\ nextCheckAt = [m \in Monitor |-> 0] /\ badCalls = 0

Elements(s) == {s[i] : i \in DOMAIN s}
Goto(n, p) == phase' = [phase EXCEPT ![n] = p]

------------------------------------------------------------------------------
(* tick() *)

\* The loop's timer fires: tick() starts with lock.acquire().
Tick(n) ==
  /\ phase[n] = "idle" /\ stop[n] = "no"
  /\ SendAcquire(n)
  /\ Goto(n, "acquiring")
  /\ UNCHANGED <<stop, stopAt, queue, active, inFlight, nextCheckAt, badCalls>>

\* acquire() resolves; a follower's tick ends here.
Acquired(n) ==
  /\ phase[n] = "acquiring"
  /\ FinishAcquire(n) \/ FailAcquire(n)
  /\ Goto(n, IF isLeader'[n] THEN "finding" ELSE "idle")
  /\ UNCHANGED <<stop, stopAt, queue, active, inFlight, nextCheckAt, badCalls>>

BatchSize(due) ==
  IF Cardinality(due) <= MaxBatch THEN Cardinality(due) ELSE MaxBatch

\* The batch: due monitors, the most overdue first, at most MaxBatch of them.
Batches(due) ==
  {s \in [1..BatchSize(due) -> due] :
     /\ \A i, j \in DOMAIN s : i # j => s[i] # s[j]
     /\ \A i, j \in DOMAIN s : i < j => nextCheckAt[s[i]] <= nextCheckAt[s[j]]
     /\ \A m \in due \ Elements(s), i \in DOMAIN s : nextCheckAt[s[i]] <= nextCheckAt[m]}

\* findDueMonitors() runs in the database.  Pausing is up to the owners: any
\* set of monitors may be active at this moment.
FindDue(n) ==
  /\ phase[n] = "finding" /\ life[n] = "up"
  /\ \E on \in SUBSET Monitor :
       \E s \in Batches({m \in on : nextCheckAt[m] <= LocalNow(n)}) :
         queue' = [queue EXCEPT ![n] = s]
  /\ Goto(n, "found")
  /\ UNCHANGED <<lockVars, stop, stopAt, active, inFlight, nextCheckAt, badCalls>>

\* The query fails: the tick throws, the loop counts the error and goes on.
FailFind(n) ==
  /\ phase[n] = "finding" /\ life[n] = "up" /\ badCalls < MaxBadCalls
  /\ badCalls' = badCalls + 1
  /\ Goto(n, "idle")
  /\ UNCHANGED <<lockVars, stop, stopAt, queue, active, inFlight, nextCheckAt>>

\* What a batch comes to when some of its monitors are skipped, in the same order.
Kept(batch) ==
  UNION {{[i \in 1..k |-> batch[at[i]]] :
            at \in {a \in [1..k -> DOMAIN batch] : \A i, j \in 1..k : i < j => a[i] < a[j]}} :
         k \in 0..Len(batch)}

\* The due monitors arrive.  Those in flight are skipped, as are those with an
\* open breaker (any of them, see MonitorCheck); the others become the pool's
\* tasks.
LaunchPool(n) ==
  /\ phase[n] = "found" /\ life[n] = "up"
  /\ \E tasks \in Kept(queue[n]) :
       /\ Elements(tasks) \intersect inFlight[n] = {}
       /\ queue' = [queue EXCEPT ![n] = tasks]
       /\ inFlight' = [inFlight EXCEPT ![n] = @ \union Elements(tasks)]
  /\ Goto(n, "pool")
  /\ UNCHANGED <<lockVars, stop, stopAt, active, nextCheckAt, badCalls>>

\* A free worker of runPool takes the next task and its check begins.
BeginCheck(n) ==
  /\ phase[n] = "pool" /\ life[n] = "up"
  /\ queue[n] # <<>> /\ Cardinality(active[n]) < Concurrency
  /\ active' = [active EXCEPT ![n] = @ \union {Head(queue[n])}]
  /\ queue' = [queue EXCEPT ![n] = Tail(@)]
  /\ UNCHANGED <<lockVars, phase, stop, stopAt, inFlight, nextCheckAt, badCalls>>

\* Anchored to the end of the check, not to the previous nextCheckAt.
NextCheck(n) == LocalNow(n) + Interval

\* runCheck() records the check, or throws and leaves the document as it was.
Record(n, m) ==
  /\ nextCheckAt' = [nextCheckAt EXCEPT ![m] = NextCheck(n)]
  /\ UNCHANGED badCalls

Throw ==
  /\ badCalls < MaxBadCalls /\ badCalls' = badCalls + 1
  /\ UNCHANGED nextCheckAt

\* Faulty variant: the id is only taken out of the guard when the check succeeds.
EndCheck_noFinally(n, m) ==
  /\ m \in active[n] /\ life[n] = "up"
  /\ active' = [active EXCEPT ![n] = @ \ {m}]
  /\ \/ Record(n, m) /\ inFlight' = [inFlight EXCEPT ![n] = @ \ {m}]
     \/ Throw /\ UNCHANGED inFlight
  /\ UNCHANGED <<lockVars, phase, stop, stopAt, queue>>

\* A check ends, either way; its id leaves the overlap guard.
EndCheck(n, m) ==
  /\ m \in active[n] /\ life[n] = "up"
  /\ active' = [active EXCEPT ![n] = @ \ {m}]
  /\ inFlight' = [inFlight EXCEPT ![n] = @ \ {m}]
  /\ Record(n, m) \/ Throw
  /\ UNCHANGED <<lockVars, phase, stop, stopAt, queue>>

\* runPool resolves; the tick is over.
EndTick(n) ==
  /\ phase[n] = "pool" /\ life[n] = "up" /\ queue[n] = <<>> /\ active[n] = {}
  /\ Goto(n, "idle")
  /\ UNCHANGED <<lockVars, stop, stopAt, queue, active, inFlight, nextCheckAt, badCalls>>

------------------------------------------------------------------------------
(* start(), stop() and the environment *)

StartScheduler(n) ==
  /\ Boot(n)
  /\ UNCHANGED schedVars

\* stop() is called: no further tick, and the grace period begins.
BeginStop(n) ==
  /\ life[n] = "up" /\ stop[n] = "no"
  /\ stop' = [stop EXCEPT ![n] = "draining"]
  /\ stopAt' = [stopAt EXCEPT ![n] = clock]
  /\ UNCHANGED <<lockVars, phase, queue, active, inFlight, nextCheckAt, badCalls>>

\* stop() stops waiting: nothing is in flight, or the grace period is over.
Drained(n) == inFlight[n] = {} \/ clock >= stopAt[n] + Grace

\* The lease is released.
EndStop(n) ==
  /\ stop[n] = "draining" /\ Drained(n)
  /\ stop' = [stop EXCEPT ![n] = "released"]
  /\ Release(n)
  /\ UNCHANGED <<phase, stopAt, queue, active, inFlight, nextCheckAt, badCalls>>

\* The process dies, or exits after stop(), with all it had in memory.
Die(n) ==
  /\ Crash(n)
  /\ Goto(n, "idle")
  /\ queue' = [queue EXCEPT ![n] = <<>>]
  /\ active' = [active EXCEPT ![n] = {}] /\ inFlight' = [inFlight EXCEPT ![n] = {}]
  /\ UNCHANGED <<stop, stopAt, nextCheckAt, badCalls>>

\* The database and the clock.
Environment ==
  /\ \/ Sweep \/ PassTime
     \/ \E n \in Node : ApplyAcquire(n) \/ ApplyRelease(n) \/ FailRelease(n)
  /\ UNCHANGED schedVars

TickStep(n) ==
  \/ Tick(n) \/ Acquired(n) \/ FindDue(n) \/ LaunchPool(n)
  \/ BeginCheck(n) \/ EndTick(n) \/ \E m \in Monitor : EndCheck(n, m)

SchedNext ==
  \/ Environment
  \/ \E n \in Node : \/ TickStep(n) \/ FailFind(n)
                     \/ StartScheduler(n) \/ BeginStop(n) \/ EndStop(n) \/ Die(n)

SchedSpec == SchedInit /\ [][SchedNext]_allVars

------------------------------------------------------------------------------
(* Properties *)

\* Outside the pool nothing is in flight: no id ever leaks from the overlap guard
\* (it would never be checked again), whatever checks fail or shutdowns happen.
\* It also shows that the guard's skip is never taken: the pool is always drained
\* before the next query.
NothingLeaks ==
  \A n \in Node :
    inFlight[n] = IF phase[n] = "pool" THEN Elements(queue[n]) \union active[n] ELSE {}

\* No monitor is twice in one instance's pool, and the pool keeps its bound.
PoolIsSound ==
  \A n \in Node :
    /\ Cardinality(active[n]) <= Concurrency
    /\ Cardinality(inFlight[n]) <= MaxBatch
    /\ phase[n] = "pool" =>
         /\ Elements(queue[n]) \intersect active[n] = {}
         /\ Len(queue[n]) = Cardinality(Elements(queue[n]))

\* n is working on checks and its lease has not run out (by more than the skew).
WorksUnderLease(n) ==
  phase[n] = "pool" /\ stop[n] = "no" /\ clock + MaxSkew < leaseUntil[n]

\* Two instances work at once only when one of them has outlived its lease or is
\* shutting down: what is left of docs/SCHEDULER.md 2, "exactly one instance
\* executes checks at any time".  A pool that outlasts its lease runs on.
OverlapNeedsLapse ==
  \A a, b \in Node : WorksUnderLease(a) /\ WorksUnderLease(b) => a = b

\* The lease is given up only by an instance with nothing in flight, unless the
\* grace period is over.  (A tick that was still asking for the lease or for the
\* due monitors can put checks in flight afterwards: see StoppedTakesNoWork.)
ReleaseAfterDrain ==
  [][\A n \in Node : rel[n] = "idle" /\ rel'[n] # "idle"
       => inFlight[n] = {} \/ clock >= stopAt[n] + Grace]_allVars

------------------------------------------------------------------------------
(* A claim of the documentation that the code does not keep *)

\* docs/SCHEDULER.md 4: "On shutdown the scheduler stops taking new work".
StoppedTakesNoWork ==
  [][\A n \in Node : stop[n] # "no" => inFlight'[n] \subseteq inFlight[n]]_allVars
==============================================================================
