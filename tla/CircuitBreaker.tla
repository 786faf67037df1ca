---------------------------- MODULE CircuitBreaker ----------------------------
(***************************************************************************)
(* The per-monitor circuit breaker of Backend/src/services/circuitBreaker.js*)
(* as the pure functions they are: monitor fields in, a patch out.         *)
(*                                                                         *)
(* Absolute times are kept relative to the present: retryIn is the time    *)
(* left until breakerRetryAt (0 when it has passed or is null).  A patch is *)
(* a record holding just the fields that the code's object literal sets    *)
(* (breakerOpenedAt, which nothing reads, is left out).                    *)
(***************************************************************************)
EXTENDS Naturals

CONSTANTS BREAKER_FAILURE_THRESHOLD,
          BREAKER_COOLDOWN,       \* BREAKER_COOLDOWN_MS, in model time units
          BREAKER_MAX_COOLDOWN,   \* BREAKER_MAX_COOLDOWN_MS
          OpensCap                \* bound: breakerConsecutiveOpens saturates here

ASSUME BreakerAssumption ==
  /\ BREAKER_FAILURE_THRESHOLD \in Nat \ {0}
  /\ BREAKER_COOLDOWN \in Nat /\ BREAKER_MAX_COOLDOWN \in Nat
  /\ OpensCap \in Nat \ {0}
  /\ \A k \in 0..OpensCap : 2^k \in Nat

BreakerState == {"CLOSED", "OPEN", "HALF_OPEN"}

\* {...patch} spread over a document.
Overlay(patch, document) ==
  [f \in DOMAIN document |-> IF f \in DOMAIN patch THEN patch[f] ELSE document[f]]

\* The empty patch, {} or null in the code.
NoPatch == [f \in {} |-> 0]

\* base * 2^opens, capped.
cooldownFor(consecutiveOpens) ==
  LET growth == BREAKER_COOLDOWN * 2^consecutiveOpens
  IN  IF growth <= BREAKER_MAX_COOLDOWN THEN growth ELSE BREAKER_MAX_COOLDOWN

\* Faulty variant: an open breaker waits for a success that cannot come.
evaluateBreaker_stuck(monitor) ==
  IF monitor.breaker = "OPEN"
  THEN [allowed |-> FALSE, probe |-> FALSE, patch |-> NoPatch]
  ELSE [allowed |-> TRUE, probe |-> monitor.breaker = "HALF_OPEN", patch |-> NoPatch]

\* May this due monitor be checked, as a single-attempt probe, and what becomes
\* of the breaker if so?
evaluateBreaker(monitor) ==
  CASE monitor.breaker = "CLOSED" ->
         [allowed |-> TRUE, probe |-> FALSE, patch |-> NoPatch]
    [] monitor.breaker = "HALF_OPEN" ->
         [allowed |-> TRUE, probe |-> TRUE, patch |-> NoPatch]
    [] monitor.breaker = "OPEN" /\ monitor.retryIn = 0 ->
         [allowed |-> TRUE, probe |-> TRUE, patch |-> [breaker |-> "HALF_OPEN"]]
    [] OTHER ->
         [allowed |-> FALSE, probe |-> FALSE, patch |-> NoPatch]

OpenPatch(opens, cooldown) ==
  [breaker |-> "OPEN", retryIn |-> cooldown, opens |-> opens]

\* Faulty variant: the breaker only closes from HALF_OPEN.
onCheckSuccess_halfOpenOnly(monitor) ==
  IF monitor.breaker = "HALF_OPEN"
  THEN [breaker |-> "CLOSED", retryIn |-> 0, opens |-> 0]
  ELSE NoPatch

\* A success closes the breaker and forgets the escalation.
onCheckSuccess(monitor) ==
  IF monitor.breaker = "CLOSED"
  THEN NoPatch
  ELSE [breaker |-> "CLOSED", retryIn |-> 0, opens |-> 0]

\* A failure reopens a HALF_OPEN breaker with a longer cooldown, and opens a
\* CLOSED one once the (already incremented) failure counter reaches the
\* threshold.
onCheckFailure(monitor, consecutiveFailures) ==
  LET next == IF monitor.opens < OpensCap THEN monitor.opens + 1 ELSE OpensCap
  IN  CASE monitor.breaker = "HALF_OPEN" -> OpenPatch(next, cooldownFor(next))
        [] /\ monitor.breaker = "CLOSED"
           /\ consecutiveFailures >= BREAKER_FAILURE_THRESHOLD ->
             OpenPatch(1, cooldownFor(0))
        [] OTHER -> NoPatch
==============================================================================
