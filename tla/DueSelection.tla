----------------------------- MODULE DueSelection -----------------------------
(***************************************************************************)
(* Who is checked when: one leader's tick() and findDueMonitors() of       *)
(* Backend/src/jobs/scheduler.js over many monitors, a full batch, open    *)
(* breakers, pauses and wall-clock jumps (docs/SCHEDULER.md 4 and 7).      *)
(*                                                                         *)
(* Every instant is kept relative to the wall clock: nextIn is nextCheckAt *)
(* minus now, lastIn is lastChecked minus now (LongAgo when the monitor was*)
(* never checked), retryIn is breakerRetryAt minus now.  waited measures   *)
(* real time, which no jump touches.                                       *)
(***************************************************************************)
EXTENDS Integers, FiniteSets

CONSTANTS Monitor,
          Interval,   \* the interval of every monitor
          Cooldown,   \* the longest cooldown of a breaker
          MaxBatch,   \* MAX_BATCH
          TickMs,     \* pause between ticks
          PoolMs,     \* the longest a pool of checks takes
          JumpBy,     \* how far the wall clock may jump (0: it does not)
          MaxUpsets,  \* bound: jumps, pauses, resumptions and lost checks
          MaxLag      \* bound: instants further in the past are not told apart

ASSUME SelectionAssumption ==
  /\ IsFiniteSet(Monitor)
  /\ Interval \in Nat \ {0} /\ Cooldown \in Nat /\ MaxBatch \in Nat \ {0}
  /\ TickMs \in Nat \ {0} /\ PoolMs \in Nat
  /\ JumpBy \in Nat /\ MaxUpsets \in Nat
  /\ MaxLag \in Nat /\ MaxLag > JumpBy * MaxUpsets

VARIABLES docs,      \* the monitor documents
          pending,   \* monitors of the pool whose check has not ended
          sinceTick, \* real time since the last tick began or ended
          waited,    \* history: real time since the monitor's last check began
          excused,   \* history: since then the clock jumped, the monitor
                     \* was paused or resumed, or the check was lost
          upsets,    \* history: jumps, pauses, resumptions and lost checks so far
          jumped     \* history: there was a jump

vars == <<docs, pending, sinceTick, waited, excused, upsets, jumped>>

\* No jump brings an instant so far back into the future.
LongAgo == -MaxLag

Doc == [active : BOOLEAN, nextIn : Int, lastIn : Int, open : BOOLEAN, retryIn : Nat]

TypeOK ==
  /\ docs \in [Monitor -> Doc] /\ pending \subseteq Monitor
  /\ sinceTick \in Nat /\ waited \in [Monitor -> Nat]
  /\ excused \in [Monitor -> BOOLEAN] /\ upsets \in Nat /\ jumped \in BOOLEAN

\* Monitors are created due and unchecked.
Init ==
  /\ docs = [m \in Monitor |-> [active |-> TRUE, nextIn |-> 0, lastIn |-> LongAgo,
                                open |-> FALSE, retryIn |-> 0]]
  /\ pending = {} /\ sinceTick = 0 /\ upsets = 0 /\ jumped = FALSE
  /\ waited = [m \in Monitor |-> 0] /\ excused = [m \in Monitor |-> TRUE]

\* Something upsets the regular course of things.
Upset == upsets < MaxUpsets /\ upsets' = upsets + 1

AtLeast(a, b) == IF a >= b THEN a ELSE b
AtMost(a, b) == IF a <= b THEN a ELSE b

\* One round of the loop: the pause, and the pool.
Round == TickMs + PoolMs

\* An upper bound on the time between two checks of a monitor: how long the first
\* takes, its interval, and then as many rounds as it takes all that can be ahead of it,
\* each launched or skipped until its cooldown is over, and the checks that were lost
\* and have to be repeated.
RegularWait ==
  PoolMs + Interval + Cooldown
    + Round * (1 + Cardinality(Monitor) \div MaxBatch + MaxUpsets)

\* A clock that goes back delays checks by as much; but when it goes back further than
\* any monitor waits, every lastChecked is in the future, and gives it away.
MaxWait ==
  RegularWait + (IF JumpBy > RegularWait THEN 0 ELSE JumpBy * MaxUpsets)

\* Until that bound is reached all instants are told apart.
ASSUME LagAssumption == MaxLag > MaxWait

------------------------------------------------------------------------------
(* The tick *)

\* Faulty variant: only nextCheckAt counts.
Due_nextOnly == {m \in Monitor : docs[m].active /\ docs[m].nextIn <= 0}

\* The filter: active, and due or checked in the future.
Due == {m \in Monitor : /\ docs[m].active
                        /\ docs[m].nextIn <= 0 \/ docs[m].lastIn > 0}

\* Faulty variant: the batch is not sorted.
Batch_unsorted(batch) ==
  /\ batch \subseteq Due /\ Cardinality(batch) <= MaxBatch
  /\ Cardinality(batch) = MaxBatch \/ batch = Due

\* The most overdue first, at most MaxBatch of them.
Batch(batch) ==
  /\ batch \subseteq Due /\ Cardinality(batch) <= MaxBatch
  /\ Cardinality(batch) = MaxBatch \/ batch = Due
  /\ \A m \in batch, k \in Due \ batch : docs[m].nextIn <= docs[k].nextIn

\* Faulty variant: an open breaker is never retried.
Allowed_never(m) == ~docs[m].open

\* evaluateBreaker(): an open breaker keeps the monitor out until its time.
Allowed(m) == docs[m].open => docs[m].retryIn <= 0

\* A tick of the leader: the allowed monitors of the batch go to the pool.  The
\* others keep their nextCheckAt, and so their place at the head of the next batch.
Tick ==
  /\ pending = {} /\ sinceTick >= TickMs
  /\ \E batch \in SUBSET Due :
       /\ Batch(batch)
       /\ pending' = {m \in batch : Allowed(m)}
  /\ waited' = [m \in Monitor |-> IF m \in pending' THEN 0 ELSE waited[m]]
  /\ excused' = [m \in Monitor |-> excused[m] /\ m \notin pending']
  /\ sinceTick' = 0
  /\ UNCHANGED <<docs, upsets, jumped>>

\* Faulty variant: the next check is anchored to the one before.
NextIn_anchored(m) == docs[m].nextIn + Interval

\* Anchored to now.
NextIn(m) == Interval

\* What the check leaves of the breaker: a failure may open it, for at most
\* Cooldown; a success closes it (see CircuitBreaker).
Breakers ==
  {[open |-> FALSE, retryIn |-> 0]}
    \union {[open |-> TRUE, retryIn |-> c] : c \in 0..Cooldown}

\* A check ends and is recorded.  The pool is over with the last of them.
EndCheck(m) ==
  /\ m \in pending
  /\ pending' = pending \ {m}
  /\ \E b \in Breakers :
       docs' = [docs EXCEPT ![m] = [active |-> docs[m].active, lastIn |-> 0,
                                    nextIn |-> NextIn(m),
                                    open |-> b.open, retryIn |-> b.retryIn]]
  /\ sinceTick' = IF pending' = {} THEN 0 ELSE sinceTick
  /\ UNCHANGED <<waited, excused, upsets, jumped>>

\* A check throws before it is recorded: the monitor stays due.
LoseCheck(m) ==
  /\ m \in pending /\ Upset
  /\ pending' = pending \ {m}
  /\ excused' = [excused EXCEPT ![m] = TRUE]
  /\ sinceTick' = IF pending' = {} THEN 0 ELSE sinceTick
  /\ UNCHANGED <<docs, waited, jumped>>

------------------------------------------------------------------------------
(* Owners and clocks *)

\* updateMonitorController sets `active` only; the schedule stays where it was.
Toggle(m) ==
  /\ Upset
  /\ docs' = [docs EXCEPT ![m].active = ~@]
  /\ waited' = [waited EXCEPT ![m] = 0]
  /\ excused' = [excused EXCEPT ![m] = TRUE]
  /\ UNCHANGED <<pending, sinceTick, jumped>>

\* The documents when the wall clock moves by d.
Shifted(d) ==
  [m \in Monitor |->
     [docs[m] EXCEPT !.nextIn  = AtLeast(@ - d, LongAgo),
                     !.lastIn  = IF @ = LongAgo THEN @ ELSE AtLeast(@ - d, LongAgo),
                     !.retryIn = AtLeast(@ - d, 0)]]

\* The timer of the next tick and the deadline of the checks are kept.
PassTime ==
  /\ sinceTick < IF pending = {} THEN TickMs ELSE PoolMs
  /\ sinceTick' = sinceTick + 1
  /\ docs' = Shifted(1)
  /\ waited' = [m \in Monitor |-> IF docs[m].active
                            THEN AtMost(waited[m] + 1, MaxWait + 1) ELSE 0]
  /\ UNCHANGED <<pending, excused, upsets, jumped>>

Jump ==
  /\ JumpBy > 0 /\ Upset /\ jumped' = TRUE
  /\ \E d \in {JumpBy, -JumpBy} : docs' = Shifted(d)
  /\ excused' = [m \in Monitor |-> TRUE]
  /\ UNCHANGED <<pending, sinceTick, waited>>

Next ==
  \/ Tick \/ PassTime \/ Jump
  \/ \E m \in Monitor : EndCheck(m) \/ LoseCheck(m) \/ Toggle(m)

Spec == Init /\ [][Next]_vars

\* The loop's timer fires, checks end, time passes.
FairSpec ==
  /\ Spec /\ WF_vars(Tick) /\ WF_vars(PassTime)
  /\ \A m \in Monitor : WF_vars(EndCheck(m))

------------------------------------------------------------------------------
(* Properties *)

\* A watched monitor waits no longer than that, however full the batch and however
\* many open breakers hold places in it.  After a backward jump it does so only
\* when everything due fits the batch, for what the jump has made due comes last in
\* the order; when its breaker is not open, for breakerRetryAt has moved away with
\* the clock; and when it has a lastChecked to give the jump away.
ShieldedFromJump(m) ==
  \/ ~jumped
  \/ /\ Cardinality(Monitor) <= MaxBatch
     /\ ~docs[m].open /\ docs[m].lastIn # LongAgo

WaitIsBounded ==
  \A m \in Monitor : waited[m] > MaxWait => ~ShieldedFromJump(m)

\* No catch-up: a monitor is not checked again within its interval, however long
\* the leader was busy, unless it is excused.
NoBackfill ==
  [][\A m \in Monitor : m \in pending' \ pending
       => waited[m] >= Interval \/ excused[m]]_vars

\* Every watched monitor is checked again and again.
NobodyForgotten == \A m \in Monitor : []<>(m \in pending \/ ~docs[m].active)
==============================================================================
