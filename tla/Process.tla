------------------------------- MODULE Process -------------------------------
(***************************************************************************)
(* One server process from boot to exit: Backend/server.js around the      *)
(* scheduler's loop, the pool of the tick under way (module Pool), the     *)
(* lease it holds, the connections of its clients and the readiness probe  *)
(* of health.controller.js.                                                *)
(*                                                                         *)
(* The lease is one instance's view of SchedulerLock: the document is      *)
(* ours, another's or free.  Time passes in steps of one unit; timers that *)
(* are due fire before time goes on (the event loop is not blocked), while *)
(* database calls and checks may take any time, or for ever.               *)
(***************************************************************************)
EXTENDS Pool

CONSTANTS Attempts,    \* MAX_ATTEMPTS of ConnectDB
          TickMs,      \* TICK_MS
          StaleAfter,  \* staleAfterMs of checkScheduler
          Failsafe,    \* the ceiling of shutdown
          Grace,       \* SHUTDOWN_GRACE_MS
          TTL,         \* LOCK_TTL_MS
          MaxConns,    \* bound: connections open at once
          MaxOutages   \* bound: outages of the database

ASSUME ProcessAssumption ==
  /\ Attempts \in Nat \ {0} /\ TickMs \in Nat \ {0}
  /\ StaleAfter \in Nat /\ StaleAfter >= TickMs
  /\ Failsafe \in Nat /\ Grace \in Nat /\ TTL \in Nat \ {0}
  /\ MaxConns \in Nat /\ MaxOutages \in Nat

VARIABLES life,      \* where server.js is
          enabled,   \* SCHEDULER_ENABLED
          attempt,   \* the attempt of ConnectDB under way
          conns,     \* connections that hold server.close()
          tick,      \* where the tick is; "idle" between ticks
          isLeader,  \* the lock's belief
          lease,     \* whose the lock document is
          leaseLeft, \* until our lease lapses
          dbUp,      \* the database answers
          outages,   \* history: outages so far
          wait,      \* until the loop's timer is due
          sinceTick, \* age of stats.lastTickAt, or Never
          tickAge,   \* age of the tick under way
          elapsed,   \* since the signal, and then since stop() was called
          strayed    \* history: a call failed, or an acquire outlived the release

procVars == <<life, enabled, attempt, conns, tick, isLeader, lease, leaseLeft, dbUp,
              outages, wait, sinceTick, tickAge, elapsed, strayed>>
allVars == <<vars, procVars>>

Never == -1
Exited == {"exit0", "exit1", "killed"}
Stopping == {"closing", "draining", "releasing"}

\* scheduler.running
Running == enabled /\ life \in {"up", "closing"}

\* No runPool() is under way: it is shown as one that is over, its results dropped.
NoPool ==
  /\ cursor = Len /\ at = [w \in Worker |-> 0]
  /\ results = [i \in Index |-> "value"] /\ begun = [i \in Index |-> 1]

DropPool ==
  /\ cursor' = Len /\ at' = [w \in Worker |-> 0]
  /\ results' = [i \in Index |-> "value"] /\ begun' = [i \in Index |-> 1]

\* runPool(tasks): Init of Pool.
LaunchPool ==
  /\ cursor' = AtMost(width, Len)
  /\ at' = [w \in Worker |-> IF w <= Len THEN w ELSE 0]
  /\ results' = [i \in Index |-> "none"]
  /\ begun' = [i \in Index |-> IF i <= width THEN 1 ELSE 0]

ProcInit ==
  /\ NoPool
  /\ life = "connecting" /\ enabled \in BOOLEAN /\ attempt = 1 /\ conns = 0
  /\ tick = "idle" /\ isLeader = FALSE /\ lease \in {"free", "other"} /\ leaseLeft = 0
  /\ dbUp \in BOOLEAN /\ outages = 0
  /\ wait = 0 /\ sinceTick = Never /\ tickAge = 0
  /\ elapsed = [signal |-> 0, stop |-> 0] /\ strayed = FALSE

------------------------------------------------------------------------------
(* Boot *)

\* mongoose.connect() resolves: the server listens and the scheduler starts.
Boot ==
  /\ life = "connecting" /\ dbUp
  /\ life' = "up"
  /\ UNCHANGED <<vars, enabled, attempt, conns, tick, isLeader, lease, leaseLeft, dbUp,
                 outages, wait, sinceTick, tickAge, elapsed, strayed>>

\* An attempt fails; the last one ends the process.
BootFails ==
  /\ life = "connecting" /\ ~dbUp
  /\ IF attempt = Attempts
     THEN life' = "exit1" /\ UNCHANGED attempt
     ELSE attempt' = attempt + 1 /\ UNCHANGED life
  /\ UNCHANGED <<vars, enabled, conns, tick, isLeader, lease, leaseLeft, dbUp, outages, wait,
                 sinceTick, tickAge, elapsed, strayed>>

------------------------------------------------------------------------------
(* The scheduler's loop *)

Goto(p) == tick' = p
Serving == life \notin Exited \union {"connecting"}

\* The loop's timer fires and the tick asks for the lease.
StartTick ==
  /\ Running /\ tick = "idle" /\ wait = 0
  /\ Goto("acquiring") /\ tickAge' = 0
  /\ UNCHANGED <<vars, life, enabled, attempt, conns, isLeader, lease, leaseLeft, dbUp, outages,
                 wait, sinceTick, elapsed, strayed>>

\* The upsert runs in the database; its answer is on the way.
AcquireRuns ==
  /\ Serving /\ tick = "acquiring" /\ dbUp
  /\ IF lease = "other"
     THEN Goto("lost") /\ UNCHANGED <<lease, leaseLeft>>
     ELSE Goto("won") /\ lease' = "ours" /\ leaseLeft' = TTL
  /\ strayed' = (strayed \/ life = "releasing")
  /\ UNCHANGED <<vars, life, enabled, attempt, conns, isLeader, dbUp, outages, wait, sinceTick,
                 tickAge, elapsed>>

\* Faulty variant: only a tick that goes through its checks leaves its mark.
EndTick_leader ==
  /\ Goto("idle") /\ tickAge' = 0
  /\ sinceTick' = IF tick = "lost" THEN sinceTick ELSE 0
  /\ wait' = TickMs

\* The finally block, and the loop's next timer.
EndTick ==
  /\ Goto("idle") /\ tickAge' = 0
  /\ sinceTick' = 0
  /\ wait' = TickMs

\* acquire() resolves.  A follower's tick ends here.
Acquired ==
  /\ Serving
  /\ \/ /\ tick = "won" /\ isLeader' = TRUE
        /\ Goto("finding") /\ UNCHANGED <<wait, sinceTick, tickAge>>
     \/ /\ tick = "lost" /\ isLeader' = FALSE
        /\ EndTick
  /\ UNCHANGED <<vars, life, enabled, attempt, conns, lease, leaseLeft, dbUp, outages, elapsed,
                 strayed>>

\* acquire() fails: its catch block gives the belief up and the tick ends.
AcquireFails ==
  /\ Serving /\ tick \in {"acquiring", "won", "lost"} /\ ~dbUp
  /\ isLeader' = FALSE /\ strayed' = TRUE
  /\ EndTick
  /\ UNCHANGED <<vars, life, enabled, attempt, conns, lease, leaseLeft, dbUp, outages, elapsed>>

\* findDueMonitors() answers with nothing, or with what the pool is launched on.
Found ==
  /\ Serving /\ tick = "finding" /\ dbUp
  /\ \/ EndTick /\ UNCHANGED vars
     \/ /\ Goto("pool") /\ LaunchPool
        /\ UNCHANGED <<wait, sinceTick, tickAge>>
  /\ UNCHANGED <<life, enabled, attempt, conns, isLeader, lease, leaseLeft, dbUp, outages,
                 elapsed, strayed>>

\* The query fails: the tick throws, and the loop counts the error.
FindFails ==
  /\ Serving /\ tick = "finding" /\ ~dbUp
  /\ EndTick
  /\ UNCHANGED <<vars, life, enabled, attempt, conns, isLeader, lease, leaseLeft, dbUp, outages,
                 elapsed, strayed>>

\* A check of the pool ends, in whichever way.
CheckEnds ==
  /\ Serving /\ tick = "pool"
  /\ \E w \in Worker : Settle(w)
  /\ UNCHANGED procVars

\* runPool() resolves and the tick ends.
PoolEnds ==
  /\ Serving /\ tick = "pool" /\ Resolved
  /\ DropPool
  /\ EndTick
  /\ UNCHANGED <<life, enabled, attempt, conns, isLeader, lease, leaseLeft, dbUp, outages,
                 elapsed, strayed>>

------------------------------------------------------------------------------
(* Shutdown *)

\* The checks in flight: the ids leave the set as their tasks end.
InFlight == IF tick = "pool" THEN {i \in Index : results[i] = "none"} ELSE {}

\* SIGTERM or SIGINT.  Until the handlers are registered the default action holds;
\* a second signal finds shuttingDown set.
Signal ==
  /\ \/ life = "connecting" /\ life' = "killed"
     \/ life = "up" /\ life' = "closing"
  /\ UNCHANGED <<vars, enabled, attempt, conns, tick, isLeader, lease, leaseLeft, dbUp, outages,
                 wait, sinceTick, tickAge, elapsed, strayed>>

\* server.close() calls back once no connection is left; stop() begins, or returns at
\* once when the scheduler never ran.
Closed ==
  /\ life = "closing" /\ conns = 0
  /\ life' = IF enabled THEN "draining" ELSE "exit0"
  /\ wait' = 0
  /\ UNCHANGED <<vars, enabled, attempt, conns, tick, isLeader, lease, leaseLeft, dbUp, outages,
                 sinceTick, tickAge, elapsed, strayed>>

\* Faulty variant: whoever is not drained in time keeps the lease.
Drained_keeps ==
  /\ life = "draining" /\ (InFlight = {} \/ elapsed.stop >= Grace)
  /\ life' = IF isLeader /\ InFlight = {} THEN "releasing" ELSE "exit0"
  /\ isLeader' = FALSE
  /\ strayed' = (strayed \/ tick \in {"acquiring", "won"})
  /\ UNCHANGED <<vars, enabled, attempt, conns, tick, lease, leaseLeft, dbUp, outages, wait,
                 sinceTick, tickAge, elapsed>>

\* Nothing is in flight any more, or the grace period is over: the lease is released
\* by whoever believes to hold it.
Drained ==
  /\ life = "draining" /\ (InFlight = {} \/ elapsed.stop >= Grace)
  /\ life' = IF isLeader THEN "releasing" ELSE "exit0"
  /\ isLeader' = FALSE
  /\ strayed' = (strayed \/ tick \in {"acquiring", "won"})
  /\ UNCHANGED <<vars, enabled, attempt, conns, tick, lease, leaseLeft, dbUp, outages, wait,
                 sinceTick, tickAge, elapsed>>

\* deleteOne() scoped by owner; a failure is logged.  Either way exit(0) follows.
Released ==
  /\ life = "releasing"
  /\ IF dbUp
     THEN lease' = (IF lease = "ours" THEN "free" ELSE lease) /\ UNCHANGED strayed
     ELSE strayed' = TRUE /\ UNCHANGED lease
  /\ life' = "exit0"
  /\ UNCHANGED <<vars, enabled, attempt, conns, tick, isLeader, leaseLeft, dbUp, outages, wait,
                 sinceTick, tickAge, elapsed>>

\* Faulty variant: the ceiling is put on the drain alone.
FailsafeFires_late ==
  /\ life \in Stopping \ {"closing"} /\ elapsed.signal >= Failsafe
  /\ life' = "exit1"
  /\ UNCHANGED <<vars, enabled, attempt, conns, tick, isLeader, lease, leaseLeft, dbUp, outages,
                 wait, sinceTick, tickAge, elapsed, strayed>>

\* The failsafe timer, set when the signal came.
FailsafeFires ==
  /\ life \in Stopping /\ elapsed.signal >= Failsafe
  /\ life' = "exit1"
  /\ UNCHANGED <<vars, enabled, attempt, conns, tick, isLeader, lease, leaseLeft, dbUp, outages,
                 wait, sinceTick, tickAge, elapsed, strayed>>

------------------------------------------------------------------------------
(* Readiness *)

\* checkScheduler()
SchedulerHealth ==
  CASE ~enabled               -> "disabled"
    [] enabled /\ sinceTick = Never      -> "starting"
    [] enabled /\ sinceTick > StaleAfter -> "stale"
    [] OTHER                  -> "up"

\* ReadinessController
Ready == dbUp /\ SchedulerHealth # "stale"

------------------------------------------------------------------------------
(* Around the process *)

\* A client's websocket opens while the server accepts, or any connection ends.
Client ==
  /\ \/ life = "up" /\ conns < MaxConns /\ conns' = conns + 1
     \/ conns > 0 /\ conns' = conns - 1
  /\ life \notin Exited
  /\ UNCHANGED <<vars, life, enabled, attempt, tick, isLeader, lease, leaseLeft, dbUp, outages,
                 wait, sinceTick, tickAge, elapsed, strayed>>

Database ==
  /\ life \notin Exited
  /\ dbUp' = ~dbUp
  /\ dbUp => outages < MaxOutages
  /\ outages' = IF dbUp THEN outages + 1 ELSE outages
  /\ UNCHANGED <<vars, life, enabled, attempt, conns, tick, isLeader, lease, leaseLeft, wait,
                 sinceTick, tickAge, elapsed, strayed>>

\* Another instance takes a lease that is free or lapsed, or gives its own up.
OtherInstance ==
  /\ life \notin Exited /\ dbUp
  /\ \/ lease = "other" /\ lease' = "free"
     \/ lease = "free" /\ lease' = "other"
     \/ lease = "ours" /\ leaseLeft = 0 /\ lease' = "other"
  /\ UNCHANGED <<vars, life, enabled, attempt, conns, tick, isLeader, leaseLeft, dbUp, outages,
                 wait, sinceTick, tickAge, elapsed, strayed>>

\* A timer that is due fires before time goes on.
TimerDue ==
  \/ Running /\ tick = "idle" /\ wait = 0
  \/ life \in Stopping /\ elapsed.signal >= Failsafe

PassTime ==
  /\ Serving /\ ~TimerDue
  /\ leaseLeft' = AtLeast(0, leaseLeft - 1)
  /\ wait' = AtLeast(0, wait - 1)
  /\ sinceTick' = IF sinceTick = Never THEN Never ELSE AtMost(sinceTick + 1, StaleAfter + 1)
  /\ tickAge' = IF tick = "idle" THEN 0 ELSE AtMost(tickAge + 1, StaleAfter + 1)
  /\ elapsed' = [signal |-> IF life \in Stopping THEN AtMost(elapsed.signal + 1, Failsafe) ELSE 0,
                 stop   |-> IF life = "draining" THEN AtMost(elapsed.stop + 1, Grace)
                                                 ELSE elapsed.stop]
  /\ UNCHANGED <<vars, life, enabled, attempt, conns, tick, isLeader, lease, dbUp, outages,
                 strayed>>

------------------------------------------------------------------------------

TickStep ==
  \/ StartTick \/ AcquireRuns \/ Acquired \/ AcquireFails \/ Found \/ FindFails
  \/ CheckEnds \/ PoolEnds

Shutdown == Signal \/ Closed \/ Drained \/ Released \/ FailsafeFires

ProcNext ==
  \/ Boot \/ BootFails \/ TickStep \/ Shutdown
  \/ Client \/ Database \/ OtherInstance \/ PassTime

\* Time goes on and timers fire; nothing else is certain to happen.
ProcSpec ==
  /\ ProcInit /\ [][ProcNext]_allVars
  /\ WF_allVars(StartTick \/ FailsafeFires \/ PassTime)

------------------------------------------------------------------------------
(* Properties *)

ProcTypeOK ==
  /\ TypeOK
  /\ life \in Exited \union Stopping \union {"connecting", "up"}
  /\ attempt \in 1..Attempts /\ conns \in 0..MaxConns
  /\ tick \in {"idle", "acquiring", "won", "lost", "finding", "pool"}
  /\ lease \in {"free", "ours", "other"} /\ leaseLeft \in 0..TTL
  /\ wait \in 0..TickMs /\ sinceTick \in Never..(StaleAfter + 1)
  /\ tickAge \in 0..(StaleAfter + 1) /\ outages \in 0..MaxOutages
  /\ elapsed \in [signal : 0..Failsafe, stop : 0..Grace]
  /\ {enabled, isLeader, dbUp, strayed} \subseteq BOOLEAN

\* After the first tick the readiness probe tells the truth about the scheduler
\* (health.controller.js:76-85): a tick that has been under way for longer than the
\* limit takes the instance out of rotation, and a loop that ticks as it should,
\* leader or follower, is never called stale.
HeartbeatIsTrue ==
  enabled /\ sinceTick # Never /\ life \in {"up", "closing"} =>
    /\ tickAge > StaleAfter => ~Ready
    /\ SchedulerHealth = "stale" => tick # "idle" /\ tickAge > StaleAfter - TickMs

\* A clean exit leaves the lease to the others at once (server.js:30-32), unless a call
\* of the lock failed or the drain ended while an acquire() was under way.
CleanExitFreesLease == life = "exit0" /\ ~strayed => lease # "ours"

\* Whatever connections and checks are open, a signal ends the process
\* (server.js:38-44).
ShutdownEnds == life \in Stopping ~> life \in Exited
==============================================================================
