---------------------------- MODULE Process_proofs ----------------------------
(***************************************************************************)
(* runPool, for any number of tasks and any limit; and one server process  *)
(* around it, for any delays and ceilings and any number of outages: the   *)
(* readiness probe tells the truth, and a clean exit leaves the lease to   *)
(* the others.                                                             *)
(***************************************************************************)
EXTENDS Process, TLAPS

-----------------------------------------------------------------------------
(* runPool *)

\* There is a worker at least, and none without a task.
LEMMA WidthFacts ==
  /\ width \in Nat /\ width >= 1
  /\ Len > 0 => width <= Len
BY PoolAssumption DEF width, AtLeast, AtMost, PoolAssumption

\* The workers that start take the first indices.
LEMMA PoolInit == Init => PoolInv
<1> SUFFICES ASSUME Init PROVE PoolInv
  OBVIOUS
<1>1. TypeOK
  BY WidthFacts, PoolAssumption DEF Init, TypeOK, Worker, Index, AtMost, PoolAssumption
<1>2. BegunOnce
  BY WidthFacts, PoolAssumption DEF Init, BegunOnce, Index, AtMost, PoolAssumption
<1>3. AwaitedOrStored
  BY WidthFacts, PoolAssumption
     DEF Init, AwaitedOrStored, Worker, Index, AtMost, PoolAssumption
<1>4. KeepsWidth
  BY WidthFacts, PoolAssumption DEF Init, KeepsWidth, Worker, AtMost, PoolAssumption
<1>5. NotBegunYet
  BY DEF Init, NotBegunYet
<1> QED
  BY <1>1, <1>2, <1>3, <1>4, <1>5 DEF PoolInv

\* A task settles and its worker goes on.
LEMMA PoolStep ==
  ASSUME PoolInv, [Next]_vars
  PROVE  PoolInv'
<1>1. CASE UNCHANGED vars
  BY <1>1 DEF vars, PoolInv, TypeOK, BegunOnce, AwaitedOrStored, NotBegunYet, KeepsWidth
<1>2. ASSUME NEW w \in Worker, Settle(w)
      PROVE  PoolInv'
  <2> DEFINE i == at[w]
  <2>1. i \in Index /\ i <= cursor /\ results[i] = "none"
    BY <1>2, PoolAssumption
       DEF Settle, PoolInv, TypeOK, AwaitedOrStored, Index, PoolAssumption
  <2>2. PICK outcome \in {"value", "error"} :
          results' = [results EXCEPT ![i] = outcome]
    BY <1>2 DEF Settle
  <2>0. results' \in [Index -> {"none", "value", "error"}]
    BY <2>1, <2>2 DEF PoolInv, TypeOK
  <2>3. CASE cursor < Len
    <3>1. /\ at' = [at EXCEPT ![w] = cursor + 1]
          /\ begun' = [begun EXCEPT ![cursor + 1] = @ + 1]
          /\ cursor' = cursor + 1
          /\ cursor + 1 \in Index
      BY <1>2, <2>3, PoolAssumption DEF Settle, Take, PoolInv, TypeOK, Index, PoolAssumption
    <3>2. TypeOK'
      <4>1. cursor' \in 0..Len /\ at' \in [Worker -> 0..Len]
        BY <2>3, <3>1, PoolAssumption DEF PoolInv, TypeOK, Index, PoolAssumption
      <4>2. begun' \in [Index -> Nat]
        BY <3>1 DEF PoolInv, TypeOK
      <4> QED
        BY <2>0, <4>1, <4>2 DEF TypeOK
    <3>3. BegunOnce'
      BY <3>1, PoolAssumption DEF PoolInv, TypeOK, BegunOnce, Index, PoolAssumption
    <3>4. AwaitedOrStored'
      <4> DEFINE new == cursor + 1
      <4>1. at'[w] = new /\ \A v \in Worker \ {w} : at'[v] = at[v]
        BY <3>1 DEF PoolInv, TypeOK
      <4>2. results[new] = "none" /\ \A v \in Worker : at[v] # new
        BY <3>1, PoolAssumption
           DEF PoolInv, TypeOK, AwaitedOrStored, NotBegunYet, Index, PoolAssumption
      <4>3. results'[i] # "none" /\ \A j \in Index \ {i} : results'[j] = results[j]
        BY <2>1, <2>2 DEF PoolInv, TypeOK
      <4>4. \A v, u \in Worker : at'[v] = at'[u] /\ at'[v] # 0 => v = u
        BY <4>1, <4>2 DEF PoolInv, AwaitedOrStored
      <4>5. ASSUME NEW j \in Index
            PROVE  (\E v \in Worker : at'[v] = j)
                     <=> (j <= cursor' /\ results'[j] = "none")
        <5>1. CASE j = new
          BY <2>1, <3>1, <4>1, <4>2, <4>3, <5>1, PoolAssumption
             DEF PoolInv, TypeOK, Index, PoolAssumption
        <5>2. CASE j = i
          BY <2>1, <4>1, <4>2, <4>3, <5>2, <3>1, PoolAssumption
             DEF PoolInv, TypeOK, AwaitedOrStored, Index, PoolAssumption
        <5>3. CASE j # new /\ j # i
          BY <3>1, <4>1, <4>3, <5>3, PoolAssumption
             DEF PoolInv, TypeOK, AwaitedOrStored, Index, PoolAssumption
        <5> QED
          BY <5>1, <5>2, <5>3
      <4> QED
        BY <4>4, <4>5 DEF AwaitedOrStored
    <3>5. KeepsWidth'
      BY <2>3, <3>1, PoolAssumption
         DEF PoolInv, TypeOK, KeepsWidth, PoolAssumption
    <3>6. NotBegunYet'
      BY <2>1, <2>2, <3>1, PoolAssumption
         DEF PoolInv, TypeOK, NotBegunYet, Index, PoolAssumption
    <3> QED
      BY <3>2, <3>3, <3>4, <3>5, <3>6 DEF PoolInv
  <2>4. CASE ~(cursor < Len)
    <3>1. at' = [at EXCEPT ![w] = 0] /\ UNCHANGED <<cursor, begun>> /\ cursor = Len
      BY <1>2, <2>4, PoolAssumption DEF Settle, Take, PoolInv, TypeOK, PoolAssumption
    <3>2. TypeOK'
      BY <2>0, <3>1, PoolAssumption DEF PoolInv, TypeOK, PoolAssumption
    <3>3. BegunOnce'
      BY <3>1 DEF PoolInv, BegunOnce
    <3>4. AwaitedOrStored'
      BY <2>1, <2>2, <3>1, PoolAssumption
         DEF PoolInv, TypeOK, AwaitedOrStored, Index, PoolAssumption
    <3>5. KeepsWidth'
      BY <3>1 DEF PoolInv, KeepsWidth
    <3>6. NotBegunYet'
      BY <2>1, <2>2, <3>1, PoolAssumption
         DEF PoolInv, TypeOK, NotBegunYet, Index, PoolAssumption
    <3> QED
      BY <3>2, <3>3, <3>4, <3>5, <3>6 DEF PoolInv
  <2> QED
    BY <2>3, <2>4
<1> QED
  BY <1>1, <1>2 DEF Next

\* For any number of tasks and any limit: no task is begun twice, each one begun is
\* awaited by one worker until its result is stored at its own index, and no worker
\* returns while a task is left.
THEOREM PoolInvariant == Spec => []PoolInv
<1>1. PoolInv /\ [Next]_vars => PoolInv'
  BY PoolStep
<1> QED
  BY <1>1, PoolInit, PTL DEF Spec

\* runPool never resolves with a task forgotten or a result missing.
THEOREM PoolComplete == Spec => []Complete
<1>1. PoolInv => Complete
  <2> SUFFICES ASSUME PoolInv, Resolved, NEW i \in Index
               PROVE  begun[i] = 1 /\ results[i] # "none"
    BY DEF Complete
  <2>1. cursor = Len
    BY WidthFacts DEF PoolInv, KeepsWidth, Resolved, Worker
  <2>2. i \in Nat /\ i # 0 /\ i <= cursor
    BY <2>1, PoolAssumption DEF Index, PoolAssumption
  <2>3. begun[i] = 1
    BY <2>2 DEF PoolInv, BegunOnce
  <2>4. results[i] # "none"
    BY <2>2 DEF PoolInv, AwaitedOrStored, Resolved
  <2> QED
    BY <2>3, <2>4
<1> QED
  BY <1>1, PoolInvariant, PTL

-----------------------------------------------------------------------------
(* The invariants of the process *)

\* Between two ticks the loop's timer and the heartbeat's age make up one TICK_MS;
\* during a tick the heartbeat is older than the tick, by one TICK_MS at most.
BeatInv ==
  /\ life = "connecting" => sinceTick = Never
  /\ tick = "idle" => tickAge = 0
  /\ enabled /\ sinceTick # Never /\ life \in {"up", "closing"} =>
       IF tick = "idle" THEN sinceTick + wait <= TickMs
                        ELSE tickAge <= sinceTick /\ sinceTick <= tickAge + TickMs

\* The lease is ours only if we believe it, are about to, or are giving it back.
LeaseInv ==
  /\ tick = "lost" => lease # "ours"
  /\ ~enabled => tick = "idle" /\ lease # "ours"
  /\ lease = "ours" /\ ~strayed =>
       isLeader \/ tick = "won" \/ life \in {"releasing", "exit1"}
  /\ CleanExitFreesLease

-----------------------------------------------------------------------------
(* The pool of the tick under way *)

\* Whether a pool runs or not, the pool's variables are those of a run of Pool.
LEMMA ProcPoolStep ==
  ASSUME PoolInv, [ProcNext]_allVars
  PROVE  PoolInv'
<1>1. UNCHANGED vars => PoolInv'
  BY DEF vars, PoolInv, TypeOK, BegunOnce, AwaitedOrStored, NotBegunYet, KeepsWidth
<1>2. LaunchPool => PoolInv'
  <2>1. LaunchPool => Init'
    BY DEF LaunchPool, Init
  <2>2. Init' => PoolInv'
    BY PoolInit, PTL
  <2> QED
    BY <2>1, <2>2
<1>3. DropPool => PoolInv'
  BY PoolAssumption
     DEF DropPool, PoolInv, TypeOK, BegunOnce, AwaitedOrStored, NotBegunYet, KeepsWidth,
         Index, PoolAssumption
<1>4. CheckEnds => PoolInv'
  BY PoolStep DEF CheckEnds, Next
<1>5. CASE UNCHANGED allVars \/ Boot \/ BootFails \/ Shutdown \/ Client \/ Database
             \/ OtherInstance \/ PassTime
  BY <1>1, <1>5 DEF allVars, Boot, BootFails, Shutdown, Signal, Closed, Drained, Released,
     FailsafeFires, Client, Database, OtherInstance, PassTime
<1>6. CASE StartTick \/ AcquireRuns \/ Acquired \/ AcquireFails \/ FindFails
  BY <1>1, <1>6 DEF StartTick, AcquireRuns, Acquired, AcquireFails, FindFails
<1>7. CASE Found
  BY <1>1, <1>2, <1>7 DEF Found
<1>8. CASE PoolEnds
  BY <1>3, <1>8 DEF PoolEnds
<1> QED
  BY <1>4, <1>5, <1>6, <1>7, <1>8 DEF ProcNext, TickStep

\* Every pool that a process runs, one tick after the other and through a shutdown,
\* begins each task once and stores each result at its place (scheduler.js:196, pool.js).
THEOREM PoolOfEveryTick == ProcSpec => []PoolInv
<1>1. ProcInit => PoolInv
  BY PoolAssumption
     DEF ProcInit, NoPool, PoolInv, TypeOK, BegunOnce, AwaitedOrStored, NotBegunYet,
         KeepsWidth, Index, PoolAssumption
<1>2. PoolInv /\ [ProcNext]_allVars => PoolInv'
  BY ProcPoolStep
<1> QED
  BY <1>1, <1>2, PTL DEF ProcSpec

-----------------------------------------------------------------------------
(* Types *)

\* What the variables of the process may be.
ProcVarsOK ==
  /\ life \in Exited \union Stopping \union {"connecting", "up"}
  /\ attempt \in 1..Attempts /\ conns \in 0..MaxConns
  /\ tick \in {"idle", "acquiring", "won", "lost", "finding", "pool"}
  /\ lease \in {"free", "ours", "other"} /\ leaseLeft \in 0..TTL
  /\ wait \in 0..TickMs /\ sinceTick \in Never..(StaleAfter + 1)
  /\ tickAge \in 0..(StaleAfter + 1) /\ outages \in 0..MaxOutages
  /\ elapsed \in [signal : 0..Failsafe, stop : 0..Grace]
  /\ enabled \in BOOLEAN /\ isLeader \in BOOLEAN /\ dbUp \in BOOLEAN /\ strayed \in BOOLEAN

\* The end of a tick sets its three variables to values of their types.
LEMMA EndTickTypes ==
  EndTick => /\ tick' = "idle" /\ tickAge' = 0 /\ sinceTick' = 0 /\ wait' = TickMs
             /\ tickAge' \in 0..(StaleAfter + 1) /\ wait' \in 0..TickMs
             /\ sinceTick' \in Never..(StaleAfter + 1)
BY ProcessAssumption DEF EndTick, Goto, Never, ProcessAssumption

\* Every step keeps the types of the process's variables.
LEMMA ProcTypeStep ==
  ASSUME ProcVarsOK, [ProcNext]_allVars
  PROVE  ProcVarsOK'
<1> USE ProcessAssumption DEF ProcessAssumption
<1>1. CASE UNCHANGED allVars
  BY <1>1 DEF allVars, procVars, ProcVarsOK
<1>2. CASE Boot \/ BootFails
  BY <1>2 DEF Boot, BootFails, ProcVarsOK, Exited, Stopping
<1>3. CASE StartTick \/ AcquireRuns
  BY <1>3 DEF StartTick, AcquireRuns, Goto, ProcVarsOK
<1>4. CASE Acquired
  BY <1>4, EndTickTypes DEF Acquired, Goto, ProcVarsOK
<1>5. CASE AcquireFails \/ FindFails \/ PoolEnds
  BY <1>5, EndTickTypes DEF AcquireFails, FindFails, PoolEnds, ProcVarsOK
<1>6. CASE Found
  BY <1>6, EndTickTypes DEF Found, Goto, ProcVarsOK
<1>7. CASE CheckEnds
  BY <1>7 DEF CheckEnds, procVars, ProcVarsOK
<1>8. CASE Signal \/ FailsafeFires
  BY <1>8 DEF Signal, FailsafeFires, ProcVarsOK, Exited, Stopping
<1>9. CASE Closed \/ Drained \/ Released
  <2>1. CASE Closed
    BY <1>9, <2>1 DEF Closed, ProcVarsOK, Exited, Stopping
  <2>2. CASE Drained
    <3>1. strayed' \in BOOLEAN
      BY <2>2 DEF Drained
    <3>2. life' \in {"releasing", "exit0"} /\ isLeader' \in BOOLEAN
      BY <2>2 DEF Drained
    <3> QED
      BY <2>2, <3>1, <3>2 DEF Drained, ProcVarsOK, Exited, Stopping
  <2>3. CASE Released
    BY <2>3 DEF Released, ProcVarsOK, Exited, Stopping
  <2> QED
    BY <1>9, <2>1, <2>2, <2>3
<1>10. CASE Client \/ Database \/ OtherInstance
  <2>1. CASE Client
    BY <2>1 DEF Client, ProcVarsOK
  <2>2. CASE Database
    <3>1. dbUp' \in BOOLEAN
      BY <2>2 DEF Database
    <3>2. outages' \in 0..MaxOutages
      BY <2>2 DEF Database, ProcVarsOK
    <3> QED
      BY <2>2, <3>1, <3>2 DEF Database, ProcVarsOK
  <2>3. CASE OtherInstance
    BY <2>3 DEF OtherInstance, ProcVarsOK
  <2> QED
    BY <1>10, <2>1, <2>2, <2>3
<1>11. CASE PassTime
  <2>1. leaseLeft' \in 0..TTL /\ wait' \in 0..TickMs
    BY <1>11 DEF PassTime, AtLeast, ProcVarsOK
  <2>2. sinceTick' \in Never..(StaleAfter + 1) /\ tickAge' \in 0..(StaleAfter + 1)
    BY <1>11 DEF PassTime, AtMost, Never, ProcVarsOK
  <2>3. elapsed.signal \in 0..Failsafe /\ elapsed.stop \in 0..Grace
    BY DEF ProcVarsOK
  <2>4. elapsed' \in [signal : 0..Failsafe, stop : 0..Grace]
    BY <1>11, <2>3 DEF PassTime, AtMost
  <2> QED
    BY <1>11, <2>1, <2>2, <2>4 DEF PassTime, ProcVarsOK
<1> QED
  BY <1>1, <1>2, <1>3, <1>4, <1>5, <1>6, <1>7, <1>8, <1>9, <1>10, <1>11
     DEF ProcNext, TickStep, Shutdown

\* The types of the process and of its pool, for every value of the constants.
THEOREM ProcTypeCorrect == ProcSpec => []ProcTypeOK
<1>1. ASSUME ProcInit
      PROVE  ProcVarsOK
  <2>1. /\ attempt \in 1..Attempts /\ conns \in 0..MaxConns /\ leaseLeft \in 0..TTL
        /\ wait \in 0..TickMs /\ sinceTick \in Never..(StaleAfter + 1)
        /\ tickAge \in 0..(StaleAfter + 1) /\ outages \in 0..MaxOutages
    BY <1>1, ProcessAssumption DEF ProcInit, ProcessAssumption, Never
  <2>2. elapsed \in [signal : 0..Failsafe, stop : 0..Grace]
    BY <1>1, ProcessAssumption DEF ProcInit, ProcessAssumption
  <2>3. /\ life = "connecting" /\ tick = "idle" /\ lease \in {"free", "other"}
        /\ enabled \in BOOLEAN /\ dbUp \in BOOLEAN /\ isLeader = FALSE /\ strayed = FALSE
    BY <1>1 DEF ProcInit
  <2> QED
    BY <2>1, <2>2, <2>3 DEF ProcVarsOK
<1>2. ProcVarsOK /\ [ProcNext]_allVars => ProcVarsOK'
  BY ProcTypeStep
<1>3. PoolInv /\ ProcVarsOK => ProcTypeOK
  BY DEF PoolInv, ProcVarsOK, ProcTypeOK
<1> QED
  BY <1>1, <1>2, <1>3, PoolOfEveryTick, PTL DEF ProcSpec

-----------------------------------------------------------------------------
(* The heartbeat *)

\* One step of BeatInv.
LEMMA BeatStep ==
  ASSUME ProcTypeOK, BeatInv, [ProcNext]_allVars
  PROVE  BeatInv'
<1> USE ProcessAssumption DEF ProcessAssumption
<1>0. /\ TickMs \in Nat /\ StaleAfter \in Nat /\ wait \in 0..TickMs
      /\ sinceTick \in -1..(StaleAfter + 1) /\ tickAge \in 0..(StaleAfter + 1)
      /\ Never = -1 /\ StaleAfter >= TickMs
  BY DEF ProcTypeOK, Never
<1>1. ASSUME UNCHANGED <<enabled, tick, wait, sinceTick, tickAge>>,
             \/ life' = life \/ life = "connecting"
             \/ life = "up" /\ life' = "closing"
             \/ life' \notin {"connecting", "up", "closing"},
             life' = "connecting" => life = "connecting"
      PROVE  BeatInv'
  BY <1>1 DEF BeatInv
<1>2. EndTick /\ life' = life /\ Serving => BeatInv'
  BY EndTickTypes DEF BeatInv, Serving, Exited
<1>3. CASE UNCHANGED allVars \/ CheckEnds \/ Client \/ Database \/ OtherInstance
  BY <1>1, <1>3 DEF allVars, procVars, CheckEnds, Client, Database, OtherInstance
<1>4. CASE Boot \/ BootFails \/ Signal \/ FailsafeFires
  BY <1>1, <1>4 DEF Boot, BootFails, Signal, FailsafeFires
<1>5. CASE Closed
  BY <1>5 DEF Closed, BeatInv
<1>6. CASE Drained \/ Released
  BY <1>1, <1>6 DEF Drained, Released
<1>7. CASE StartTick
  BY <1>0, <1>7 DEF StartTick, Goto, BeatInv, Running
<1>8. CASE AcquireRuns
  BY <1>8 DEF AcquireRuns, Goto, BeatInv, Serving
<1>9. CASE Acquired
  <2>1. EndTick => BeatInv'
    BY <1>2, <1>9 DEF Acquired
  <2>2. ~EndTick => BeatInv'
    BY <1>9 DEF Acquired, Goto, BeatInv
  <2> QED
    BY <2>1, <2>2
<1>10. CASE AcquireFails \/ FindFails \/ PoolEnds
  BY <1>2, <1>10 DEF AcquireFails, FindFails, PoolEnds
<1>11. CASE Found
  <2>1. EndTick => BeatInv'
    BY <1>2, <1>11 DEF Found
  <2>2. ~EndTick => BeatInv'
    BY <1>11 DEF Found, Goto, BeatInv
  <2> QED
    BY <2>1, <2>2
<1>12. CASE PassTime
  <2>0. (tick = "idle" => tickAge' = 0) /\ tick' = tick
    BY <1>12 DEF PassTime
  <2> SUFFICES ASSUME enabled, sinceTick # -1, life \in {"up", "closing"}
               PROVE  IF tick = "idle" THEN sinceTick' + wait' <= TickMs
                      ELSE tickAge' <= sinceTick' /\ sinceTick' <= tickAge' + TickMs
    BY <1>0, <1>12, <2>0 DEF PassTime, BeatInv, Serving
  <2>1. sinceTick' = AtMost(sinceTick + 1, StaleAfter + 1)
    BY <1>0, <1>12 DEF PassTime
  <2>2. CASE tick = "idle"
    <3>1. wait # 0 /\ wait' = wait - 1
      BY <1>0, <1>12, <2>2 DEF PassTime, TimerDue, Running, AtLeast
    <3>2. sinceTick + wait <= TickMs
      BY <1>0, <2>2 DEF BeatInv
    <3> QED
      BY <1>0, <2>1, <2>2, <3>1, <3>2 DEF AtMost
  <2>3. CASE tick # "idle"
    <3>1. tickAge' = AtMost(tickAge + 1, StaleAfter + 1)
      BY <1>12, <2>3 DEF PassTime
    <3>2. tickAge <= sinceTick /\ sinceTick <= tickAge + TickMs
      BY <1>0, <2>3 DEF BeatInv
    <3> QED
      BY <1>0, <2>1, <2>3, <3>1, <3>2 DEF AtMost
  <2> QED
    BY <2>2, <2>3
<1> QED
  BY <1>3, <1>4, <1>5, <1>6, <1>7, <1>8, <1>9, <1>10, <1>11, <1>12
     DEF ProcNext, TickStep, Shutdown

\* Once a tick has ended, /health/ready says "stale" of a loop only while a tick hangs,
\* and of every tick that has hung for longer than the limit (health.controller.js:86-110), for every TICK_MS and every limit that is no shorter.
THEOREM ReadinessTellsTheTruth == ProcSpec => []HeartbeatIsTrue
<1>1. ProcInit => BeatInv
  BY DEF ProcInit, BeatInv
<1>2. ProcTypeOK /\ BeatInv /\ [ProcNext]_allVars => BeatInv'
  BY BeatStep
<1>3. ProcTypeOK /\ BeatInv => HeartbeatIsTrue
  <2> SUFFICES ASSUME ProcTypeOK, BeatInv, enabled, sinceTick # Never,
                      life \in {"up", "closing"}
               PROVE  /\ tickAge > StaleAfter => ~Ready
                      /\ SchedulerHealth = "stale" =>
                           tick # "idle" /\ tickAge > StaleAfter - TickMs
    BY DEF HeartbeatIsTrue
  <2>1. /\ TickMs \in Nat /\ StaleAfter \in Nat /\ wait \in 0..TickMs
        /\ sinceTick \in -1..(StaleAfter + 1) /\ tickAge \in 0..(StaleAfter + 1)
        /\ StaleAfter >= TickMs
    BY ProcessAssumption DEF ProcTypeOK, ProcessAssumption, Never
  <2>2. SchedulerHealth = IF sinceTick > StaleAfter THEN "stale" ELSE "up"
    BY DEF SchedulerHealth
  <2>3. tick # "idle" => tickAge <= sinceTick /\ sinceTick <= tickAge + TickMs
    BY DEF BeatInv
  <2>4. tick = "idle" => sinceTick + wait <= TickMs /\ tickAge = 0
    BY DEF BeatInv
  <2>5. tickAge > StaleAfter => sinceTick > StaleAfter
    BY <2>1, <2>3, <2>4
  <2>6. sinceTick > StaleAfter => tick # "idle" /\ tickAge > StaleAfter - TickMs
    BY <2>1, <2>3, <2>4
  <2> QED
    BY <2>2, <2>5, <2>6 DEF Ready
<1> QED
  BY <1>1, <1>2, <1>3, ProcTypeCorrect, PTL DEF ProcSpec

-----------------------------------------------------------------------------
(* The lease *)

\* One step of LeaseInv.
LEMMA LeaseStep ==
  ASSUME ProcTypeOK, LeaseInv, [ProcNext]_allVars
  PROVE  LeaseInv'
<1>1. CASE UNCHANGED allVars \/ CheckEnds \/ Client \/ Database \/ PassTime
  BY <1>1 DEF allVars, procVars, CheckEnds, Client, Database, PassTime, LeaseInv,
              CleanExitFreesLease
<1>2. CASE Boot \/ BootFails \/ Signal \/ FailsafeFires
  BY <1>2 DEF Boot, BootFails, Signal, FailsafeFires, Stopping, LeaseInv, CleanExitFreesLease
<1>3. CASE StartTick
  BY <1>3 DEF StartTick, Running, Goto, LeaseInv, CleanExitFreesLease
<1>4. CASE AcquireRuns
  BY <1>4 DEF AcquireRuns, Serving, Exited, Goto, LeaseInv, CleanExitFreesLease
<1>5. CASE Acquired
  BY <1>5, EndTickTypes DEF Acquired, Serving, Exited, Goto, LeaseInv, CleanExitFreesLease
<1>6. CASE AcquireFails
  BY <1>6, EndTickTypes DEF AcquireFails, Serving, Exited, LeaseInv, CleanExitFreesLease
<1>7. CASE Found \/ FindFails \/ PoolEnds
  BY <1>7, EndTickTypes
     DEF Found, FindFails, PoolEnds, Serving, Exited, Goto, LeaseInv, CleanExitFreesLease
<1>8. CASE Closed \/ Drained \/ Released
  BY <1>8 DEF Closed, Drained, Released, LeaseInv, CleanExitFreesLease
<1>9. CASE OtherInstance
  BY <1>9 DEF OtherInstance, LeaseInv, CleanExitFreesLease
<1> QED
  BY <1>1, <1>2, <1>3, <1>4, <1>5, <1>6, <1>7, <1>8, <1>9
     DEF ProcNext, TickStep, Shutdown

\* A clean exit (server.js:48-56) leaves the lease to the others at once, however the
\* signal falls between the tick's queries, its checks and the drain, unless a call of
\* the lock failed or an acquire() outlived the drain.
THEOREM CleanExitGivesLeaseBack == ProcSpec => []CleanExitFreesLease
<1>1. ProcInit => LeaseInv
  BY DEF ProcInit, LeaseInv, CleanExitFreesLease
<1>2. ProcTypeOK /\ LeaseInv /\ [ProcNext]_allVars => LeaseInv'
  BY LeaseStep
<1>3. LeaseInv => CleanExitFreesLease
  BY DEF LeaseInv
<1> QED
  BY <1>1, <1>2, <1>3, ProcTypeCorrect, PTL DEF ProcSpec
==============================================================================
