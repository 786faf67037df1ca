--------------------------- MODULE Scheduler_proofs ---------------------------
(***************************************************************************)
(* Proofs about SchedulerLock, for any set of instances, any lease length, *)
(* any bounded clock skew and any bounds; and about Scheduler, which uses  *)
(* the lock as the lock's specification asks, so that what is proved of it *)
(* holds of every instance's tick loop.                                    *)
(***************************************************************************)
EXTENDS Scheduler, FiniteSetTheorems, SequenceTheorems, TLAPS

-----------------------------------------------------------------------------
(* The lock *)

\* The variables keep their types.
THEOREM LockTypeCorrect == LockSpec => []TypeOK
<1> USE LockAssumption DEF LockAssumption, TypeOK, LockDoc, AcquireCall, Time, LocalNow
<1>1. LockInit => TypeOK
  BY DEF LockInit, NoDoc, IdleAcquire
<1>2. TypeOK /\ [LockNext]_lockVars => TypeOK'
  <2> SUFFICES ASSUME TypeOK, [LockNext]_lockVars PROVE TypeOK'
    OBVIOUS
  <2>1. ASSUME NEW n \in Node, SendAcquire(n) PROVE TypeOK'
    BY <2>1 DEF SendAcquire
  <2>2. ASSUME NEW n \in Node, ApplyAcquire(n) PROVE TypeOK'
    <3>1. CanTake(n) \in BOOLEAN
      BY DEF CanTake
    <3>2. acq' \in [Node -> AcquireCall]
      BY <2>2, <3>1 DEF ApplyAcquire
    <3> QED BY <2>2, <3>2 DEF ApplyAcquire
  <2>3. ASSUME NEW n \in Node, FinishAcquire(n) PROVE TypeOK'
    BY <2>3 DEF FinishAcquire, IdleAcquire
  <2>4. ASSUME NEW n \in Node, FailAcquire(n) PROVE TypeOK'
    BY <2>4 DEF FailAcquire, IdleAcquire
  <2>5. ASSUME NEW n \in Node, Release(n) PROVE TypeOK'
    BY <2>5 DEF Release
  <2>6. ASSUME NEW n \in Node, ApplyRelease(n) PROVE TypeOK'
    BY <2>6 DEF ApplyRelease, NoDoc
  <2>7. ASSUME NEW n \in Node, FailRelease(n) PROVE TypeOK'
    BY <2>7 DEF FailRelease
  <2>8. ASSUME NEW n \in Node, Boot(n) \/ Crash(n) PROVE TypeOK'
    BY <2>8 DEF Boot, Crash
  <2>9. CASE Sweep \/ PassTime \/ UNCHANGED lockVars
    BY <2>9 DEF Sweep, PassTime, NoDoc, lockVars
  <2> QED
    BY <2>1, <2>2, <2>3, <2>4, <2>5, <2>6, <2>7, <2>8, <2>9
    DEF LockNext, LockStep
<1> QED BY <1>1, <1>2, PTL DEF LockSpec

------------------------------------------------------------------------------
(* The inductive invariant *)

\* Without a document or a call, nobody believes anything of the lease.
LEMMA LockInvInit == LockInit => LockInv
  BY LockAssumption
  DEF LockInit, LockInv, LeaseBacked, SecureLeader, AnswerBacked, CallsInOrder,
      LocalNow, NoDoc, IdleAcquire

\* What one acquire does to the document.  Nobody but n can take a document n
\* holds with a margin of more than the clock skew, and n itself only extends it.
LEMMA AcquireOutcome ==
  ASSUME TypeOK, LockInv, NEW n \in Node, ApplyAcquire(n)
  PROVE  /\ acq[n].now <= clock + MaxSkew
         /\ ~CanTake(n) => doc' = doc
         /\ CanTake(n) => /\ doc'.owner = n
                          /\ doc'.expiresAt = acq[n].now + TtlMs
         /\ CanTake(n) /\ doc.owner # NoOwner => doc.expiresAt <= doc'.expiresAt
         /\ \A m \in Node \ {n} :
              CanTake(n) /\ doc.owner = m => doc.expiresAt <= clock + MaxSkew
<1> USE LockAssumption DEF LockAssumption
<1>1. acq[n].now <= clock + MaxSkew /\ acq[n].now \in Int
  <2>1. acq[n] \in AcquireCall /\ clock \in Int /\ Skew[n] \in 0..MaxSkew
    BY DEF TypeOK
  <2>2. acq[n].now <= clock + Skew[n]
    BY DEF LockInv, CallsInOrder, LocalNow, ApplyAcquire
  <2> QED BY <2>1, <2>2 DEF AcquireCall, Time
<1>2. /\ ~CanTake(n) => doc' = doc
      /\ CanTake(n) => doc' = [owner |-> n, expiresAt |-> acq[n].now + TtlMs]
  BY DEF ApplyAcquire
<1>3. CanTake(n) /\ doc.owner # NoOwner => doc.expiresAt <= doc'.expiresAt
  BY <1>1, <1>2 DEF CanTake, LockInv, CallsInOrder, ApplyAcquire, TypeOK, LockDoc, Time
<1>4. ASSUME NEW m \in Node \ {n}, CanTake(n), doc.owner = m
      PROVE  doc.expiresAt <= clock + MaxSkew
  BY <1>1, <1>4 DEF CanTake, TypeOK, LockDoc, Time
<1> QED BY <1>1, <1>2, <1>3, <1>4

\* Every step preserves the inductive invariant.
LEMMA LockInvStep == TypeOK /\ LockInv /\ [LockNext]_lockVars => LockInv'
<1> SUFFICES ASSUME TypeOK, LockInv, [LockNext]_lockVars PROVE LockInv'
  OBVIOUS
<1> USE LockAssumption DEF LockAssumption
<1> USE DEF LockInv, LeaseBacked, SecureLeader, AnswerBacked, CallsInOrder,
            LocalNow, TypeOK, LockDoc, AcquireCall, Time
<1>1. ASSUME NEW n \in Node, SendAcquire(n) PROVE LockInv'
  BY <1>1 DEF SendAcquire
<1>2. ASSUME NEW n \in Node, ApplyAcquire(n) PROVE LockInv'
  <2>1. /\ acq[n].now <= clock + MaxSkew
        /\ ~CanTake(n) => doc' = doc
        /\ CanTake(n) => /\ doc'.owner = n
                         /\ doc'.expiresAt = acq[n].now + TtlMs
        /\ CanTake(n) /\ doc.owner # NoOwner => doc.expiresAt <= doc'.expiresAt
        /\ \A m \in Node \ {n} :
             CanTake(n) /\ doc.owner = m => doc.expiresAt <= clock + MaxSkew
    BY <1>2, AcquireOutcome
  <2>2. /\ acq' = [acq EXCEPT ![n] = [@ EXCEPT !.stage = "answered", !.held = CanTake(n)]]
        /\ acq[n].stage = "sent"
        /\ UNCHANGED <<clock, life, isLeader, rel, leaseUntil, faults>>
    BY <1>2 DEF ApplyAcquire
  <2>3. /\ acq'[n].stage = "answered" /\ acq'[n].now = acq[n].now
        /\ acq'[n].held = CanTake(n)
        /\ \A m \in Node \ {n} : acq'[m] = acq[m]
    BY <2>2
  <2>4. LeaseBacked'
    BY <2>1, <2>2
  <2>5. AnswerBacked'
    BY <2>1, <2>2, <2>3
  <2>6. CallsInOrder'
    BY <2>1, <2>2, <2>3
  <2> QED BY <2>4, <2>5, <2>6
<1>3. ASSUME NEW n \in Node, FinishAcquire(n) PROVE LockInv'
  BY <1>3 DEF FinishAcquire, IdleAcquire
<1>4. ASSUME NEW n \in Node, FailAcquire(n) PROVE LockInv'
  BY <1>4 DEF FailAcquire, IdleAcquire
<1>5. ASSUME NEW n \in Node, Release(n) PROVE LockInv'
  BY <1>5 DEF Release
<1>6. ASSUME NEW n \in Node, ApplyRelease(n) PROVE LockInv'
  BY <1>6 DEF ApplyRelease, NoDoc
<1>7. ASSUME NEW n \in Node, FailRelease(n) PROVE LockInv'
  BY <1>7 DEF FailRelease
<1>8. ASSUME NEW n \in Node, Boot(n) \/ Crash(n) PROVE LockInv'
  BY <1>8 DEF Boot, Crash
<1>9. CASE Sweep
  BY <1>9 DEF Sweep, NoDoc
<1>10. CASE PassTime
  BY <1>10 DEF PassTime
<1>11. CASE UNCHANGED lockVars
  BY <1>11 DEF lockVars
<1> QED
  BY <1>1, <1>2, <1>3, <1>4, <1>5, <1>6, <1>7, <1>8, <1>9, <1>10, <1>11
  DEF LockNext, LockStep

\* What the document owes to the beliefs of the instances holds in every run.
THEOREM LockInvariant == LockSpec => []LockInv
  BY LockInvInit, LockInvStep, LockTypeCorrect, PTL DEF LockSpec

\* Mutual exclusion: two instances that lead with more lease left than the clock
\* skew, neither shutting down, are the same instance.
THEOREM SecureLeaderUnique == LockSpec => []OneSecureLeader
<1>1. LockInv => OneSecureLeader
  BY DEF LockInv, LeaseBacked, OneSecureLeader
<1> QED BY <1>1, LockInvariant, PTL

------------------------------------------------------------------------------
(* Properties of steps *)

\* A lease in the document is never shortened.
THEOREM ExpiryMonotone == LockSpec => ExpiryNeverShrinks
<1>1. TypeOK /\ LockInv /\ [LockNext]_lockVars
      => [doc.owner # NoOwner /\ doc'.owner # NoOwner
            => doc.expiresAt <= doc'.expiresAt]_lockVars
  <2> SUFFICES ASSUME TypeOK, LockInv, [LockNext]_lockVars,
                      doc.owner # NoOwner, doc'.owner # NoOwner
               PROVE  doc.expiresAt <= doc'.expiresAt
    OBVIOUS
  <2>0. doc.expiresAt <= doc.expiresAt
    BY DEF TypeOK, LockDoc, Time
  <2>1. ASSUME NEW n \in Node, ApplyAcquire(n) PROVE doc.expiresAt <= doc'.expiresAt
    BY <2>0, <2>1, AcquireOutcome
  <2>2. CASE doc' = doc \/ doc' = NoDoc
    BY <2>0, <2>2 DEF NoDoc
  <2>3. ASSUME NEW n \in Node, LockStep(n), ~ApplyAcquire(n)
        PROVE  doc' = doc \/ doc' = NoDoc
    BY <2>3 DEF LockStep, SendAcquire, FinishAcquire, FailAcquire, Release,
                ApplyRelease, FailRelease, Boot, Crash
  <2>4. Sweep \/ PassTime \/ UNCHANGED lockVars => doc' = doc \/ doc' = NoDoc
    BY DEF Sweep, PassTime, lockVars
  <2> QED BY <2>1, <2>2, <2>3, <2>4 DEF LockNext
<1> QED
  BY <1>1, LockTypeCorrect, LockInvariant, PTL DEF LockSpec, ExpiryNeverShrinks

\* The lock document implements the abstract lease.
THEOREM LockImplementsLease == LockSpec => LeaseSpec
<1> DEFINE h == IF InForce THEN doc.owner ELSE NoOwner
<1>1. LockInit => Lease!Init
  BY DEF LockInit, NoDoc, InForce, Lease!Init
<1>2. TypeOK /\ LockInv /\ [LockNext]_lockVars => [Lease!Next]_h
  <2> SUFFICES ASSUME TypeOK, LockInv, [LockNext]_lockVars PROVE [Lease!Next]_h
    OBVIOUS
  <2> USE LockAssumption DEF LockAssumption, InForce, Lease!Next, Lease!Grant, Lease!Lapse
  <2> USE DEF TypeOK, LockDoc, Time
  <2>1. ASSUME NEW n \in Node, ApplyAcquire(n) PROVE [Lease!Next]_h
    <3>1. clock' = clock
      BY <2>1 DEF ApplyAcquire
    <3>2. CASE ~CanTake(n)
      BY <2>1, <3>1, <3>2, AcquireOutcome
    <3>3. CASE CanTake(n) /\ ~InForce
      BY <2>1, <3>1, <3>3, AcquireOutcome
    <3>4. CASE CanTake(n) /\ InForce
      <4>1. doc.owner = n
        BY <2>1, <3>4, AcquireOutcome
      <4>2. doc'.owner = n /\ doc'.expiresAt = acq[n].now + TtlMs
            /\ doc.expiresAt <= doc'.expiresAt
        BY <2>1, <3>4, AcquireOutcome
      <4> QED BY <3>1, <3>4, <4>1, <4>2 DEF AcquireCall
    <3> QED BY <3>2, <3>3, <3>4
  <2>2. ASSUME doc' = doc \/ doc' = NoDoc, clock' = clock PROVE [Lease!Next]_h
    BY <2>2 DEF NoDoc
  <2>3. ASSUME NEW n \in Node, LockStep(n), ~ApplyAcquire(n)
        PROVE  (doc' = doc \/ doc' = NoDoc) /\ clock' = clock
    BY <2>3 DEF LockStep, SendAcquire, FinishAcquire, FailAcquire, Release,
                ApplyRelease, FailRelease, Boot, Crash
  <2>4. Sweep \/ UNCHANGED lockVars => (doc' = doc \/ doc' = NoDoc) /\ clock' = clock
    BY DEF Sweep, lockVars
  <2>5. CASE PassTime
    BY <2>5 DEF PassTime
  <2> QED BY <2>1, <2>2, <2>3, <2>4, <2>5 DEF LockNext
<1> QED
  BY <1>1, <1>2, LockTypeCorrect, LockInvariant, PTL
  DEF LockSpec, LeaseSpec, Lease!Spec

-----------------------------------------------------------------------------
(* The composition *)

\* Every step of the schedulers is a step of the lock, or leaves it alone.
LEMMA SchedLockStep ==
  ASSUME [SchedNext]_allVars
  PROVE  [LockNext]_lockVars
<1>1. CASE Environment
  BY <1>1 DEF Environment, LockNext, LockStep
<1>2. ASSUME NEW n \in Node, TickStep(n)
      PROVE  [LockNext]_lockVars
  <2>1. CASE Tick(n)
    BY <2>1 DEF Tick, LockNext, LockStep
  <2>2. CASE Acquired(n)
    BY <2>2 DEF Acquired, LockNext, LockStep
  <2>3. CASE \/ FindDue(n) \/ LaunchPool(n) \/ BeginCheck(n) \/ EndTick(n)
             \/ \E m \in Monitor : EndCheck(n, m)
    BY <2>3 DEF FindDue, LaunchPool, BeginCheck, EndTick, EndCheck, lockVars
  <2> QED
    BY <1>2, <2>1, <2>2, <2>3 DEF TickStep
<1>3. ASSUME NEW n \in Node,
             FailFind(n) \/ StartScheduler(n) \/ BeginStop(n) \/ EndStop(n) \/ Die(n)
      PROVE  [LockNext]_lockVars
  BY <1>3 DEF FailFind, StartScheduler, BeginStop, EndStop, Die, LockNext,
              LockStep, lockVars
<1>4. CASE UNCHANGED allVars
  BY <1>4 DEF allVars, lockVars
<1> QED
  BY <1>1, <1>2, <1>3, <1>4 DEF SchedNext

\* Every behaviour of the schedulers, seen at the lock, is one of the lock's: a
\* tick starts one acquire() at a time, never after stop() has released, and the
\* release is sent once.
THEOREM SchedulersUseTheLock == SchedSpec => LockSpec
<1>1. SchedInit => LockInit
  BY DEF SchedInit
<1>2. [SchedNext]_allVars => [LockNext]_lockVars
  BY SchedLockStep
<1> QED
  BY <1>1, <1>2, PTL DEF SchedSpec, LockSpec

-----------------------------------------------------------------------------
(* Who works under a lease *)

Leading == {"finding", "found", "pool"}

\* An instance past the election leads until it stops, and only a stop sends the
\* release.
LeadInv ==
  /\ phase \in [Node -> {"idle", "acquiring"} \union Leading]
  /\ stop \in [Node -> {"no", "draining", "released"}]
  /\ \A n \in Node : phase[n] \in Leading /\ rel[n] = "idle" => isLeader[n]
  /\ \A n \in Node : stop[n] # "released" => rel[n] = "idle"

\* Every step leaves an instance past the election leading, and the release to stop().
LEMMA LeadInvStep ==
  ASSUME TypeOK, LeadInv, [SchedNext]_allVars
  PROVE  LeadInv'
<1> USE DEF LeadInv, Leading
<1>1. CASE Environment
  <2>1. UNCHANGED <<phase, stop, isLeader>>
    BY <1>1 DEF Environment, schedVars, Sweep, PassTime, ApplyAcquire,
                ApplyRelease, FailRelease
  <2>2. \A n \in Node : (rel[n] = "idle") = (rel'[n] = "idle")
    BY <1>1 DEF Environment, Sweep, PassTime, ApplyAcquire, ApplyRelease,
                FailRelease, TypeOK
  <2> QED
    BY <2>1, <2>2
<1>2. ASSUME NEW n \in Node, Acquired(n)
      PROVE  LeadInv'
  <2>1. UNCHANGED <<rel, stop>> /\ phase[n] = "acquiring"
    BY <1>2 DEF Acquired, FinishAcquire, FailAcquire
  <2>2. /\ phase' = [phase EXCEPT ![n] = IF isLeader'[n] THEN "finding" ELSE "idle"]
        /\ \A k \in Node \ {n} : isLeader'[k] = isLeader[k]
    BY <1>2 DEF Acquired, Goto, FinishAcquire, FailAcquire, TypeOK
  <2> QED
    BY <2>1, <2>2
<1>3. ASSUME NEW n \in Node,
             Tick(n) \/ FindDue(n) \/ LaunchPool(n) \/ EndTick(n) \/ FailFind(n)
      PROVE  LeadInv'
  <2>1. UNCHANGED <<rel, stop, isLeader>>
    BY <1>3 DEF Tick, SendAcquire, FindDue, LaunchPool, EndTick, FailFind, lockVars
  <2>2. CASE Goto(n, "idle") \/ Goto(n, "acquiring")
    BY <2>1, <2>2 DEF Goto
  <2>3. CASE phase[n] \in Leading /\ (Goto(n, "found") \/ Goto(n, "pool"))
    BY <2>1, <2>3 DEF Goto
  <2> QED
    BY <1>3, <2>2, <2>3 DEF Tick, FindDue, LaunchPool, EndTick, FailFind
<1>4. ASSUME NEW n \in Node, EndStop(n)
      PROVE  LeadInv'
  <2>1. /\ UNCHANGED phase
        /\ stop' = [stop EXCEPT ![n] = "released"]
        /\ rel' = [rel EXCEPT ![n] = IF isLeader[n] THEN "sent" ELSE "done"]
        /\ \A k \in Node \ {n} : isLeader'[k] = isLeader[k]
    BY <1>4 DEF EndStop, Release, TypeOK
  <2> QED
    BY <2>1 DEF TypeOK
<1>5. ASSUME NEW n \in Node, Die(n)
      PROVE  LeadInv'
  BY <1>5 DEF Die, Crash, Goto, TypeOK
<1>6. ASSUME NEW n \in Node, BeginStop(n)
      PROVE  LeadInv'
  BY <1>6 DEF BeginStop, lockVars
<1>7. ASSUME NEW n \in Node,
             StartScheduler(n) \/ BeginCheck(n) \/ \E m \in Monitor : EndCheck(n, m)
      PROVE  LeadInv'
  BY <1>7 DEF StartScheduler, Boot, schedVars, BeginCheck, EndCheck, lockVars
<1>8. CASE UNCHANGED allVars
  BY <1>8 DEF allVars, lockVars, schedVars
<1> QED
  BY <1>1, <1>2, <1>3, <1>4, <1>5, <1>6, <1>7, <1>8 DEF SchedNext, TickStep

\* In every run an instance past the election leads until it stops, and only stop()
\* releases (scheduler.js).
THEOREM LeadInvariant == SchedSpec => []LeadInv
<1>1. SchedInit => LeadInv
  BY DEF SchedInit, LockInit, LeadInv, Leading
<1>2. TypeOK /\ LeadInv /\ [SchedNext]_allVars => LeadInv'
  BY LeadInvStep
<1> QED
  BY <1>1, <1>2, SchedulersUseTheLock, LockTypeCorrect, PTL DEF SchedSpec

\* For any number of instances, clocks and checks: two of them are in the pool at
\* once only if one has outlived its lease (less the skew) or is shutting down.
THEOREM OverlapOnlyAfterLapse == SchedSpec => []OverlapNeedsLapse
<1>1. LeadInv /\ OneSecureLeader => OverlapNeedsLapse
  <2> SUFFICES ASSUME LeadInv, OneSecureLeader, NEW a \in Node, NEW b \in Node,
                      WorksUnderLease(a), WorksUnderLease(b)
               PROVE  a = b
    BY DEF OverlapNeedsLapse
  <2>1. SecureLeader(a) /\ SecureLeader(b)
    BY DEF WorksUnderLease, LeadInv, Leading, SecureLeader
  <2> QED
    BY <2>1 DEF OneSecureLeader
<1> QED
  BY <1>1, LeadInvariant, SchedulersUseTheLock, SecureLeaderUnique, PTL

-----------------------------------------------------------------------------
(* Shutdown *)

\* Only stop() sends the release, after it has stopped waiting for the checks in
\* flight.
THEOREM ReleaseIsLast == SchedSpec => ReleaseAfterDrain
<1> DEFINE Waited ==
      \A n \in Node : rel[n] = "idle" /\ rel'[n] # "idle"
        => inFlight[n] = {} \/ clock >= stopAt[n] + Grace
<1>1. ASSUME TypeOK, SchedNext
      PROVE  Waited
  <2>1. ASSUME NEW n \in Node, EndStop(n)
        PROVE  Waited
    BY <1>1, <2>1 DEF EndStop, Release, Drained, TypeOK
  <2>2. ASSUME NEW n \in Node, \/ TickStep(n) \/ FailFind(n)
                               \/ StartScheduler(n) \/ BeginStop(n) \/ Die(n)
        PROVE  UNCHANGED rel
    <3>1. CASE TickStep(n)
      BY <3>1 DEF TickStep, Tick, SendAcquire, Acquired, FinishAcquire, FailAcquire,
                  FindDue, LaunchPool, BeginCheck, EndTick, EndCheck, lockVars
    <3>2. CASE FailFind(n) \/ StartScheduler(n) \/ BeginStop(n) \/ Die(n)
      BY <3>2 DEF FailFind, StartScheduler, Boot, BeginStop, Die, Crash, lockVars
    <3> QED
      BY <2>2, <3>1, <3>2
  <2>3. CASE Environment
    BY <1>1, <2>3 DEF Environment, Sweep, PassTime, ApplyAcquire, ApplyRelease,
                      FailRelease, TypeOK
  <2> QED
    BY <1>1, <2>1, <2>2, <2>3 DEF SchedNext
<1>2. TypeOK /\ [SchedNext]_allVars => [Waited]_allVars
  BY <1>1
<1> QED
  BY <1>2, SchedulersUseTheLock, LockTypeCorrect, PTL DEF SchedSpec, ReleaseAfterDrain

-----------------------------------------------------------------------------
(* The overlap guard *)

Distinct(s) == \A i, j \in DOMAIN s : s[i] = s[j] => i = j

\* Of one instance, with its phase, queue, running checks and guard: the pool's tasks
\* are distinct and not begun; outside the pool nothing runs and nothing is guarded.
Sound(p, tasks, running, guard) ==
  /\ tasks \in Seq(Monitor)
  /\ p \in {"found", "pool"} => Distinct(tasks)
  /\ p = "pool" => Elements(tasks) \intersect running = {}
  /\ p # "pool" => running = {}
  /\ guard = IF p = "pool" THEN Elements(tasks) \union running ELSE {}

WorkInv ==
  /\ phase = [n \in Node |-> phase[n]] /\ queue = [n \in Node |-> queue[n]]
  /\ active = [n \in Node |-> active[n]] /\ inFlight = [n \in Node |-> inFlight[n]]
  /\ \A n \in Node : Sound(phase[n], queue[n], active[n], inFlight[n])

\* A step of one instance.
Becomes(n, p, tasks, running, guard) ==
  /\ phase' = [phase EXCEPT ![n] = p] /\ queue' = [queue EXCEPT ![n] = tasks]
  /\ active' = [active EXCEPT ![n] = running] /\ inFlight' = [inFlight EXCEPT ![n] = guard]

\* It leaves the others as they were.
LEMMA WorkOfOne ==
  ASSUME WorkInv, NEW n \in Node, NEW p, NEW tasks, NEW running, NEW guard,
         Sound(p, tasks, running, guard), Becomes(n, p, tasks, running, guard)
  PROVE  WorkInv'
<1>1. /\ phase' = [k \in Node |-> IF k = n THEN p ELSE phase[k]]
      /\ queue' = [k \in Node |-> IF k = n THEN tasks ELSE queue[k]]
      /\ active' = [k \in Node |-> IF k = n THEN running ELSE active[k]]
      /\ inFlight' = [k \in Node |-> IF k = n THEN guard ELSE inFlight[k]]
  BY DEF WorkInv, Becomes
<1>2. ASSUME NEW k \in Node
      PROVE  Sound(phase'[k], queue'[k], active'[k], inFlight'[k])
  <2>1. CASE k = n
    BY <1>1, <2>1
  <2>2. CASE k # n
    BY <1>1, <2>2 DEF WorkInv
  <2> QED
    BY <2>1, <2>2
<1>3. /\ phase' = [k \in Node |-> phase'[k]] /\ queue' = [k \in Node |-> queue'[k]]
      /\ active' = [k \in Node |-> active'[k]] /\ inFlight' = [k \in Node |-> inFlight'[k]]
  BY <1>1
<1> QED
  BY <1>2, <1>3 DEF WorkInv, Sound, Distinct, Elements

\* A batch is a sequence of distinct monitors.
LEMMA BatchIsDistinct ==
  ASSUME NEW due, due \subseteq Monitor, NEW s \in Batches(due)
  PROVE  s \in Seq(Monitor) /\ Distinct(s)
<1>1. IsFiniteSet(due)
  BY SchedulerAssumption, FS_Subset DEF SchedulerAssumption
<1>2. BatchSize(due) \in Nat
  BY <1>1, FS_CardinalityType, SchedulerAssumption DEF BatchSize, SchedulerAssumption
<1>3. s \in [1..BatchSize(due) -> Monitor] /\ Distinct(s)
  BY DEF Batches, Distinct
<1> QED
  BY <1>2, <1>3

\* What is kept of it is again one.
LEMMA KeptIsDistinct ==
  ASSUME NEW q \in Seq(Monitor), Distinct(q), NEW s \in Kept(q)
  PROVE  s \in Seq(Monitor) /\ Distinct(s)
<1>0. PICK k \in 0..Len(q) :
        \E at \in [1..k -> DOMAIN q] : /\ \A i, j \in 1..k : i < j => at[i] < at[j]
                                      /\ s = [i \in 1..k |-> q[at[i]]]
  BY DEF Kept
<1>1. PICK at \in [1..k -> DOMAIN q] : /\ \A i, j \in 1..k : i < j => at[i] < at[j]
                                      /\ s = [i \in 1..k |-> q[at[i]]]
  BY <1>0
<1>2. k \in Nat /\ DOMAIN q = 1..Len(q) /\ Len(q) \in Nat
  BY <1>0
<1>3. s \in [1..k -> Monitor]
  BY <1>1, <1>2
<1>4. \A i, j \in 1..k : i # j => at[i] # at[j]
  BY <1>1, <1>2
<1>5. Distinct(s)
  BY <1>1, <1>2, <1>4 DEF Distinct
<1> QED
  BY <1>2, <1>3, <1>5

\* Taking the first task of a queue takes that monitor out of it, and no other.
LEMMA TailLeaves ==
  ASSUME NEW q \in Seq(Monitor), q # <<>>, Distinct(q)
  PROVE  /\ Tail(q) \in Seq(Monitor) /\ Distinct(Tail(q))
         /\ Elements(q) = Elements(Tail(q)) \union {Head(q)}
         /\ Head(q) \notin Elements(Tail(q))
<1>1. /\ Tail(q) \in Seq(Monitor) /\ Len(Tail(q)) = Len(q) - 1 /\ Len(q) \in Nat \ {0}
      /\ \A i \in 1..(Len(q) - 1) : Tail(q)[i] = q[i + 1]
      /\ Head(q) = q[1] /\ DOMAIN q = 1..Len(q) /\ DOMAIN Tail(q) = 1..(Len(q) - 1)
  BY HeadTailProperties, EmptySeq
<1>2. Distinct(Tail(q))
  BY <1>1 DEF Distinct
<1>3. \A i \in 2..Len(q) : i - 1 \in 1..(Len(q) - 1) /\ Tail(q)[i - 1] = q[i]
  BY <1>1
<1>4. Elements(q) = Elements(Tail(q)) \union {Head(q)}
  <2>1. ASSUME NEW m \in Elements(q)
        PROVE  m \in Elements(Tail(q)) \union {Head(q)}
    <3>1. PICK i \in 1..Len(q) : m = q[i]
      BY <1>1 DEF Elements
    <3>2. CASE i = 1
      BY <1>1, <3>1, <3>2
    <3>3. CASE i # 1
      <4>1. i - 1 \in DOMAIN Tail(q) /\ m = Tail(q)[i - 1]
        BY <1>1, <1>3, <3>1, <3>3
      <4> QED
        BY <4>1 DEF Elements
    <3> QED
      BY <3>2, <3>3
  <2>2. Elements(Tail(q)) \subseteq Elements(q)
    <3>1. \A i \in DOMAIN Tail(q) : i + 1 \in DOMAIN q /\ Tail(q)[i] = q[i + 1]
      BY <1>1
    <3> QED
      BY <3>1 DEF Elements
  <2>3. Head(q) \in Elements(q)
    BY <1>1 DEF Elements
  <2> QED
    BY <2>1, <2>2, <2>3
<1>5. Head(q) \notin Elements(Tail(q))
  BY <1>1 DEF Elements, Distinct
<1> QED
  BY <1>1, <1>2, <1>4, <1>5

\* The overlap guard's invariant is kept by every step of every tick.
LEMMA WorkStep ==
  ASSUME WorkInv, [SchedNext]_allVars
  PROVE  WorkInv'
<1>1. CASE UNCHANGED <<phase, queue, active, inFlight>>
  <2>1. \A n \in Node : Sound(phase'[n], queue'[n], active'[n], inFlight'[n])
    BY <1>1 DEF WorkInv
  <2> QED
    BY <1>1, <2>1 DEF WorkInv, Sound, Distinct, Elements
<1>2. ASSUME NEW n \in Node
      PROVE  /\ Sound(phase[n], queue[n], active[n], inFlight[n])
             /\ phase' = phase => phase' = [phase EXCEPT ![n] = phase[n]]
             /\ queue' = queue => queue' = [queue EXCEPT ![n] = queue[n]]
             /\ active' = active => active' = [active EXCEPT ![n] = active[n]]
             /\ inFlight' = inFlight => inFlight' = [inFlight EXCEPT ![n] = inFlight[n]]
  BY DEF WorkInv
<1>3. ASSUME NEW n \in Node, NEW p, Goto(n, p), phase[n] # "pool",
             p \notin {"found", "pool"}, UNCHANGED <<queue, active, inFlight>>
      PROVE  WorkInv'
  <2>1. Sound(p, queue[n], active[n], inFlight[n])
    BY <1>2, <1>3 DEF Sound
  <2>2. Becomes(n, p, queue[n], active[n], inFlight[n])
    BY <1>2, <1>3 DEF Becomes, Goto
  <2> QED
    BY <1>2, <1>3, <2>1, <2>2, WorkOfOne
<1>4. ASSUME NEW n \in Node, FindDue(n)
      PROVE  WorkInv'
  <2>1. PICK on \in SUBSET Monitor :
          \E s \in Batches({m \in on : nextCheckAt[m] <= LocalNow(n)}) :
            queue' = [queue EXCEPT ![n] = s]
    BY <1>4 DEF FindDue
  <2>2. PICK s \in Seq(Monitor) : queue' = [queue EXCEPT ![n] = s] /\ Distinct(s)
    BY <2>1, BatchIsDistinct
  <2>3. Sound("found", s, active[n], inFlight[n])
    BY <1>2, <1>4, <2>2 DEF Sound, FindDue
  <2>4. Goto(n, "found") /\ UNCHANGED <<active, inFlight>>
    BY <1>4 DEF FindDue
  <2>5. Becomes(n, "found", s, active[n], inFlight[n])
    BY <1>2, <2>2, <2>4 DEF Becomes, Goto
  <2> QED
    BY <2>3, <2>5, WorkOfOne
<1>5. ASSUME NEW n \in Node, LaunchPool(n)
      PROVE  WorkInv'
  <2>1. PICK tasks \in Kept(queue[n]) :
          /\ queue' = [queue EXCEPT ![n] = tasks]
          /\ inFlight' = [inFlight EXCEPT ![n] = @ \union Elements(tasks)]
    BY <1>5 DEF LaunchPool
  <2>2. phase[n] = "found" /\ phase' = [phase EXCEPT ![n] = "pool"] /\ active' = active
    BY <1>5 DEF LaunchPool, Goto
  <2>3. /\ active[n] = {} /\ inFlight[n] = {} /\ queue[n] \in Seq(Monitor)
        /\ Distinct(queue[n])
    BY <1>2, <2>2 DEF Sound
  <2>4. tasks \in Seq(Monitor) /\ Distinct(tasks)
    BY <2>3, KeptIsDistinct
  <2>5. Sound("pool", tasks, active[n], Elements(tasks))
    BY <2>3, <2>4 DEF Sound
  <2>6. inFlight' = [inFlight EXCEPT ![n] = Elements(tasks)]
    BY <2>1, <2>3
  <2>7. Becomes(n, "pool", tasks, active[n], Elements(tasks))
    BY <1>2, <2>1, <2>2, <2>6 DEF Becomes
  <2> QED
    BY <2>5, <2>7, WorkOfOne
<1>6. ASSUME NEW n \in Node, BeginCheck(n)
      PROVE  WorkInv'
  <2> DEFINE running == active[n] \union {Head(queue[n])}
  <2>1. /\ phase[n] = "pool" /\ queue[n] # <<>> /\ phase' = phase /\ inFlight' = inFlight
        /\ active' = [active EXCEPT ![n] = running] /\ queue' = [queue EXCEPT ![n] = Tail(queue[n])]
    BY <1>6 DEF BeginCheck
  <2>2. /\ queue[n] \in Seq(Monitor) /\ Distinct(queue[n])
        /\ Elements(queue[n]) \intersect active[n] = {}
        /\ inFlight[n] = Elements(queue[n]) \union active[n]
    BY <1>2, <2>1 DEF Sound
  <2>3. Sound("pool", Tail(queue[n]), running, inFlight[n])
    BY <2>1, <2>2, TailLeaves DEF Sound
  <2> HIDE DEF running
  <2>4. Becomes(n, "pool", Tail(queue[n]), running, inFlight[n])
    BY <1>2, <2>1 DEF Becomes
  <2> QED
    BY <2>3, <2>4, WorkOfOne
<1>7. ASSUME NEW n \in Node, NEW m \in Monitor, EndCheck(n, m)
      PROVE  WorkInv'
  <2>1. /\ m \in active[n] /\ UNCHANGED <<phase, queue>>
        /\ active' = [active EXCEPT ![n] = active[n] \ {m}]
        /\ inFlight' = [inFlight EXCEPT ![n] = inFlight[n] \ {m}]
    BY <1>7 DEF EndCheck
  <2>2. Sound(phase[n], queue[n], active[n] \ {m}, inFlight[n] \ {m})
    BY <1>2, <2>1 DEF Sound
  <2>3. Becomes(n, phase[n], queue[n], active[n] \ {m}, inFlight[n] \ {m})
    BY <1>2, <2>1 DEF Becomes
  <2> QED
    BY <2>2, <2>3, WorkOfOne
<1>8. ASSUME NEW n \in Node, EndTick(n)
      PROVE  WorkInv'
  <2>1. /\ phase[n] = "pool" /\ queue[n] = <<>> /\ active[n] = {}
        /\ phase' = [phase EXCEPT ![n] = "idle"] /\ UNCHANGED <<queue, active, inFlight>>
    BY <1>8 DEF EndTick, Goto
  <2>2. Elements(queue[n]) = {}
    BY <2>1 DEF Elements
  <2>3. Sound("idle", queue[n], active[n], inFlight[n])
    BY <1>2, <2>1, <2>2 DEF Sound
  <2>4. Becomes(n, "idle", queue[n], active[n], inFlight[n])
    BY <1>2, <2>1 DEF Becomes
  <2> QED
    BY <2>3, <2>4, WorkOfOne
<1>9. ASSUME NEW n \in Node, Die(n)
      PROVE  WorkInv'
  <2>1. Sound("idle", <<>>, {}, {})
    BY DEF Sound
  <2>2. Becomes(n, "idle", <<>>, {}, {})
    BY <1>9 DEF Die, Goto, Becomes
  <2> QED
    BY <2>1, <2>2, WorkOfOne
<1>10. ASSUME NEW n \in Node, Tick(n) \/ Acquired(n) \/ FailFind(n)
       PROVE  WorkInv'
  BY <1>3, <1>10 DEF Tick, Acquired, FailFind
<1>11. ASSUME NEW n \in Node, StartScheduler(n) \/ BeginStop(n) \/ EndStop(n)
       PROVE  WorkInv'
  BY <1>1, <1>11 DEF StartScheduler, BeginStop, EndStop, schedVars
<1> QED
  BY <1>1, <1>4, <1>5, <1>6, <1>7, <1>8, <1>9, <1>10, <1>11
     DEF SchedNext, TickStep, Environment, schedVars, allVars

\* An id never stays behind in the overlap guard, where it would keep its monitor from
\* ever being checked again: outside the pool the guard of tick() is empty, and in it
\* holds the tasks not begun and the checks running, whatever fails or is shut down.
THEOREM GuardNeverLeaks == SchedSpec => []NothingLeaks
<1>1. SchedInit => WorkInv
  BY DEF SchedInit, WorkInv, Sound
<1>2. WorkInv /\ [SchedNext]_allVars => WorkInv'
  BY WorkStep
<1>3. WorkInv => NothingLeaks
  BY DEF WorkInv, Sound, NothingLeaks
<1> QED
  BY <1>1, <1>2, <1>3, PTL DEF SchedSpec
=============================================================================
