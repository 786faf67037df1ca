--------------------------------- MODULE Pool ---------------------------------
(***************************************************************************)
(* runPool() of Backend/src/utils/pool.js: `width` workers that share a    *)
(* cursor over an array of tasks.  A worker awaits only its task, so what  *)
(* it does when that settles - store the result, take the next index - is  *)
(* one step.  Indices start at 1.                                          *)
(***************************************************************************)
EXTENDS Integers, FiniteSets

CONSTANTS Len,     \* tasks.length
          Limit    \* limit

ASSUME PoolAssumption == Len \in Nat /\ Limit \in Int

VARIABLES cursor,   \* indices taken so far
          at,       \* the index each worker is awaiting, or 0 when it has returned
          results,  \* "none" | "value" | "error", by index
          begun     \* history: how often each task was begun

vars == <<cursor, at, results, begun>>

AtMost(a, b) == IF a <= b THEN a ELSE b
AtLeast(a, b) == IF a >= b THEN a ELSE b

width == AtLeast(1, AtMost(Limit, Len))
Worker == 1..width
Index == 1..Len

TypeOK ==
  /\ cursor \in 0..Len
  /\ at \in [Worker -> 0..Len]
  /\ results \in [Index -> {"none", "value", "error"}]
  /\ begun \in [Index -> Nat]

\* The workers start one after the other, each running up to its first await.
Init ==
  /\ cursor = AtMost(width, Len)
  /\ at = [w \in Worker |-> IF w <= Len THEN w ELSE 0]
  /\ results = [i \in Index |-> "none"]
  /\ begun = [i \in Index |-> IF i <= width THEN 1 ELSE 0]

\* Faulty variant: the cursor moves only when the task is over.
Take_late(w) ==
  IF cursor < Len
  THEN /\ at' = [at EXCEPT ![w] = cursor]
       /\ begun' = [begun EXCEPT ![cursor] = @ + 1]
       /\ cursor' = cursor + 1
  ELSE /\ at' = [at EXCEPT ![w] = 0]
       /\ UNCHANGED <<cursor, begun>>

\* A worker takes the next index and begins its task, or returns.
Take(w) ==
  IF cursor < Len
  THEN /\ at' = [at EXCEPT ![w] = cursor + 1]
       /\ begun' = [begun EXCEPT ![cursor + 1] = @ + 1]
       /\ cursor' = cursor + 1
  ELSE /\ at' = [at EXCEPT ![w] = 0]
       /\ UNCHANGED <<cursor, begun>>

\* The task a worker awaits settles: its result is stored at its index, whether it
\* returned or threw, and the worker goes on.
Settle(w) ==
  /\ at[w] # 0
  /\ \E outcome \in {"value", "error"} :
       results' = [results EXCEPT ![at[w]] = outcome]
  /\ Take(w)

Next == \E w \in Worker : Settle(w)

Spec == Init /\ [][Next]_vars

\* Promise.all of the workers: runPool resolves.
Resolved == \A w \in Worker : at[w] = 0

------------------------------------------------------------------------------
(* Properties *)

\* No task is begun twice, and the ones begun are those below the cursor.
BegunOnce == \A i \in Index : begun[i] = (IF i <= cursor THEN 1 ELSE 0)

\* A task begun is awaited by exactly one worker, until its result is there.
AwaitedOrStored ==
  /\ \A v, w \in Worker : at[v] = at[w] /\ at[v] # 0 => v = w
  /\ \A i \in Index : (\E w \in Worker : at[w] = i) <=> (i <= cursor /\ results[i] = "none")

\* A task not begun has no result.
NotBegunYet == \A i \in Index : i > cursor => results[i] = "none"

\* A worker returns only when no task is left to begin: the pool keeps its width.
KeepsWidth == \A w \in Worker : at[w] = 0 => cursor = Len

\* The inductive invariant.
PoolInv == TypeOK /\ BegunOnce /\ AwaitedOrStored /\ NotBegunYet /\ KeepsWidth

\* When runPool resolves every task was begun once and has its result, whichever of
\* them threw.
Complete == Resolved => \A i \in Index : begun[i] = 1 /\ results[i] # "none"
==============================================================================
