---------------------------- MODULE SchedulerLock ----------------------------
(***************************************************************************)
(* Leader election of the monitor scheduler: the lease lock of             *)
(* Backend/src/services/lock.service.js over the one document of the       *)
(* scheduler_locks collection.                                             *)
(*                                                                         *)
(* acquire() reads the local clock, sends one findOneAndUpdate, and updates*)
(* isLeader when the answer arrives; release() clears isLeader and sends a *)
(* deleteOne.  Each call is split where the code awaits the database, so a *)
(* request may be applied long after its `now` was read, after its process *)
(* died, or concurrently with the other call of the same process.          *)
(*                                                                         *)
(* An element of Node is one process incarnation (one INSTANCE_ID): a      *)
(* restarted process has a fresh id and is another element.  Instances do  *)
(* not share a clock: Skew[n] is how far ahead of true time n's clock runs.*)
(***************************************************************************)
EXTENDS Integers

CONSTANTS Node,        \* process incarnations
          NoOwner,     \* the lock document is absent
          TtlMs,       \* LOCK_TTL_MS
          SweepAfter,  \* expireAfterSeconds of the TTL index
          Skew,        \* clock offset of each instance
          MaxSkew,     \* bound on the offsets
          MaxTime,     \* bound: the clock stops here
          QuietAfter,  \* bound: nothing crashes or fails after this time
          MaxFaults    \* bound: failed database calls

ASSUME LockAssumption ==
  /\ NoOwner \notin Node
  /\ TtlMs \in Nat /\ SweepAfter \in Nat
  /\ MaxTime \in Nat /\ QuietAfter \in Nat /\ MaxFaults \in Nat
  /\ MaxSkew \in Nat /\ Skew \in [Node -> 0..MaxSkew]

VARIABLES clock,       \* true time
          doc,         \* the lock document [owner, expiresAt]
          life,        \* "new" | "up" | "down", per incarnation
          isLeader,    \* SchedulerLock.isLeader of each process
          acq,         \* the acquire() of each process, if one is outstanding
          rel,         \* the release() of each process
          leaseUntil,  \* history: expiresAt of the last acquire n saw succeed
          faults       \* history: failed database calls so far

lockVars == <<clock, doc, life, isLeader, acq, rel, leaseUntil, faults>>

LocalNow(n) == clock + Skew[n]

\* The environment may still misbehave.
MayFail == faults < MaxFaults /\ clock <= QuietAfter

NoDoc == [owner |-> NoOwner, expiresAt |-> 0]
IdleAcquire == [stage |-> "idle", now |-> 0, held |-> FALSE]

Time == Int
LockDoc == [owner : Node \union {NoOwner}, expiresAt : Time]
AcquireCall == [stage : {"idle", "sent", "answered"}, now : Time, held : BOOLEAN]

TypeOK ==
  /\ clock \in Nat
  /\ doc \in LockDoc
  /\ life \in [Node -> {"new", "up", "down"}]
  /\ isLeader \in [Node -> BOOLEAN]
  /\ acq \in [Node -> AcquireCall]
  /\ rel \in [Node -> {"idle", "sent", "done"}]
  /\ leaseUntil \in [Node -> Time]
  /\ faults \in Nat

LockInit ==
  /\ clock = 0
  /\ doc = NoDoc
  /\ life = [n \in Node |-> "new"]
  /\ isLeader = [n \in Node |-> FALSE]
  /\ acq = [n \in Node |-> IdleAcquire]
  /\ rel = [n \in Node |-> "idle"]
  /\ leaseUntil = [n \in Node |-> 0]
  /\ faults = 0

------------------------------------------------------------------------------
(* acquire() *)

\* `now` is read and the findOneAndUpdate leaves the process.  The tick's
\* re-entrancy guard allows one outstanding acquire(); a stopped scheduler
\* starts no further tick.
SendAcquire(n) ==
  /\ life[n] = "up" /\ rel[n] = "idle" /\ acq[n].stage = "idle"
  /\ acq' = [acq EXCEPT ![n] = [stage |-> "sent", now |-> LocalNow(n), held |-> FALSE]]
  /\ UNCHANGED <<clock, doc, life, isLeader, rel, leaseUntil, faults>>

\* Faulty variants: a filter that ignores the live owner, one that is a unit
\* early, and one that waits for the TTL monitor instead of comparing expiresAt.
CanTake_stealing(n) == TRUE
CanTake_early(n) ==
  doc.owner = NoOwner \/ doc.expiresAt <= acq[n].now + 1 \/ doc.owner = n
CanTake_swept(n) == doc.owner = NoOwner \/ doc.owner = n

\* The query's filter: no document to conflict with, an expired one, or ours.
CanTake(n) ==
  \/ doc.owner = NoOwner
  \/ doc.expiresAt <= acq[n].now
  \/ doc.owner = n

\* The database runs the upsert atomically: it writes the lease, or the insert
\* collides with the document of a live lease (E11000) and nothing is written.
ApplyAcquire(n) ==
  /\ acq[n].stage = "sent"
  /\ acq' = [acq EXCEPT ![n] = [@ EXCEPT !.stage = "answered", !.held = CanTake(n)]]
  /\ doc' = IF CanTake(n)
            THEN [owner |-> n, expiresAt |-> acq[n].now + TtlMs]
            ELSE doc
  /\ UNCHANGED <<clock, life, isLeader, rel, leaseUntil, faults>>

\* The answer reaches the process: acquire() resolves to `held`.
FinishAcquire(n) ==
  /\ life[n] = "up" /\ acq[n].stage = "answered"
  /\ isLeader' = [isLeader EXCEPT ![n] = acq[n].held]
  /\ leaseUntil' = [leaseUntil EXCEPT
                      ![n] = IF acq[n].held THEN acq[n].now + TtlMs ELSE @]
  /\ acq' = [acq EXCEPT ![n] = IdleAcquire]
  /\ UNCHANGED <<clock, doc, life, rel, faults>>

\* The call fails with something else than E11000, before the database ran it
\* ("sent") or after ("answered"): not provably the leader, so not the leader.
\* Assumed of MongoDB: a call that failed unapplied is not applied later.
FailAcquire(n) ==
  /\ life[n] = "up" /\ acq[n].stage # "idle" /\ MayFail
  /\ isLeader' = [isLeader EXCEPT ![n] = FALSE]
  /\ acq' = [acq EXCEPT ![n] = IdleAcquire]
  /\ faults' = faults + 1
  /\ UNCHANGED <<clock, doc, life, rel, leaseUntil>>

------------------------------------------------------------------------------
(* release(), called once, by stop() *)

\* A no-op unless isLeader; otherwise the owner-scoped delete is sent.
Release(n) ==
  /\ life[n] = "up" /\ rel[n] = "idle"
  /\ rel' = [rel EXCEPT ![n] = IF isLeader[n] THEN "sent" ELSE "done"]
  /\ isLeader' = [isLeader EXCEPT ![n] = FALSE]
  /\ UNCHANGED <<clock, doc, life, acq, leaseUntil, faults>>

\* Faulty variant: the delete is not scoped by owner.
ApplyRelease_unscoped(n) ==
  /\ rel[n] = "sent"
  /\ doc' = NoDoc
  /\ rel' = [rel EXCEPT ![n] = "done"]
  /\ UNCHANGED <<clock, life, isLeader, acq, leaseUntil, faults>>

ApplyRelease(n) ==
  /\ rel[n] = "sent"
  /\ doc' = IF doc.owner = n THEN NoDoc ELSE doc
  /\ rel' = [rel EXCEPT ![n] = "done"]
  /\ UNCHANGED <<clock, life, isLeader, acq, leaseUntil, faults>>

\* The delete fails; the error is swallowed and the lease left to its TTL.
FailRelease(n) ==
  /\ rel[n] = "sent" /\ MayFail
  /\ rel' = [rel EXCEPT ![n] = "done"]
  /\ faults' = faults + 1
  /\ UNCHANGED <<clock, doc, life, isLeader, acq, leaseUntil>>

------------------------------------------------------------------------------
(* The environment *)

\* A process boots.
Boot(n) ==
  /\ life[n] = "new"
  /\ life' = [life EXCEPT ![n] = "up"]
  /\ UNCHANGED <<clock, doc, isLeader, acq, rel, leaseUntil, faults>>

\* A process dies (or exits after stop()); what it sent may still be applied.
Crash(n) ==
  /\ life[n] = "up" /\ clock <= QuietAfter
  /\ life' = [life EXCEPT ![n] = "down"]
  /\ isLeader' = [isLeader EXCEPT ![n] = FALSE]
  /\ UNCHANGED <<clock, doc, acq, rel, leaseUntil, faults>>

\* MongoDB's TTL monitor removes a document that expired long ago.
Sweep ==
  /\ doc.owner # NoOwner /\ doc.expiresAt + SweepAfter <= clock
  /\ doc' = NoDoc
  /\ UNCHANGED <<clock, life, isLeader, acq, rel, leaseUntil, faults>>

PassTime ==
  /\ clock < MaxTime
  /\ clock' = clock + 1
  /\ UNCHANGED <<doc, life, isLeader, acq, rel, leaseUntil, faults>>

LockStep(n) ==
  \/ SendAcquire(n) \/ ApplyAcquire(n) \/ FinishAcquire(n) \/ FailAcquire(n)
  \/ Release(n) \/ ApplyRelease(n) \/ FailRelease(n)
  \/ Boot(n) \/ Crash(n)

LockNext == Sweep \/ PassTime \/ \E n \in Node : LockStep(n)

LockSpec == LockInit /\ [][LockNext]_lockVars

\* A live process keeps ticking, the database keeps answering, time passes.
LockFairness ==
  /\ WF_lockVars(PassTime)
  /\ \A n \in Node : /\ WF_lockVars(SendAcquire(n))
                     /\ WF_lockVars(ApplyAcquire(n))
                     /\ WF_lockVars(FinishAcquire(n))
                     /\ WF_lockVars(ApplyRelease(n))

FairLockSpec == LockSpec /\ LockFairness

------------------------------------------------------------------------------
(* Properties *)

\* n believes it leads, has not begun to shut down, and its lease has a margin
\* of more than the worst clock skew left.
SecureLeader(n) ==
  /\ isLeader[n] /\ rel[n] = "idle"
  /\ clock + MaxSkew < leaseUntil[n]

\* The belief of a secure leader is backed by the document: nobody else can
\* have written it since.  (lock.service.js: "a live lease held by another
\* instance is never stolen")
LeaseBacked ==
  \A n \in Node : SecureLeader(n) =>
    doc.owner = n /\ leaseUntil[n] <= doc.expiresAt

\* A granted lease whose answer is still under way is in the document too.
AnswerBacked ==
  \A n \in Node :
    /\ acq[n].stage = "answered" /\ acq[n].held /\ rel[n] = "idle"
    /\ clock + MaxSkew < acq[n].now + TtlMs
    => doc.owner = n /\ acq[n].now + TtlMs <= doc.expiresAt

\* Per instance the `now` of its calls only grows: no lease it was granted, and
\* none it wrote, outlives the lease its next call asks for.
CallsInOrder ==
  \A n \in Node :
    /\ leaseUntil[n] <= LocalNow(n) + TtlMs
    /\ doc.owner = n => doc.expiresAt <= LocalNow(n) + TtlMs
    /\ acq[n].stage # "idle" => acq[n].now <= LocalNow(n)
    /\ acq[n].stage # "idle" => leaseUntil[n] <= acq[n].now + TtlMs
    /\ acq[n].stage = "sent" /\ doc.owner = n
         => doc.expiresAt <= acq[n].now + TtlMs

\* The inductive invariant of the lock: what the document owes to the beliefs
\* and to the answers under way, and the order of each instance's calls.
LockInv == LeaseBacked /\ AnswerBacked /\ CallsInOrder

\* Two instances never both lead securely.  (The header comment claims "exactly
\* one active leader"; isLeader itself outlives the lease until the next call.)
OneSecureLeader ==
  \A m, n \in Node : SecureLeader(m) /\ SecureLeader(n) => m = n

\* While the document exists its expiry only moves forward: neither a takeover
\* nor a renewal computed from an old `now` shortens a lease already granted.
ExpiryNeverShrinks ==
  [][doc.owner # NoOwner /\ doc'.owner # NoOwner
       => doc.expiresAt <= doc'.expiresAt]_lockVars

\* The lock document, with what is left of its lease, is an implementation of
\* the abstract lease.
InForce == doc.owner # NoOwner /\ clock + MaxSkew < doc.expiresAt
Lease == INSTANCE LeaderLease WITH holder <- IF InForce THEN doc.owner ELSE NoOwner
LeaseSpec == Lease!Spec

\* Failover: an instance that stays up never waits forever for a leader, whatever
\* leaders crashed holding the lease and whatever calls failed.
Failover ==
  \A m \in Node :
    (life[m] = "up" /\ rel[m] = "idle")
      ~> (\/ \E n \in Node : isLeader[n]
          \/ life[m] # "up" \/ rel[m] # "idle")
==============================================================================
