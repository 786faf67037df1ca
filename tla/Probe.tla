-------------------------------- MODULE Probe --------------------------------
(***************************************************************************)
(* One check of a target: checkMonitor() and its retry ladder over         *)
(* probeOnce(), of Backend/src/services/monitor.service.js.                *)
(*                                                                         *)
(* An attempt is a chain of requests, one per redirect hop, each with      *)
(* listeners that stay attached; whichever of them, or the deadline, calls *)
(* finish() first decides the attempt.  hops[h] is the connection of hop h:*)
(* "waiting" for its response, reading its "body", "draining" the body of a*)
(* redirect that was followed, or "closed".                                *)
(***************************************************************************)
EXTENDS Integers, Sequences

CONSTANTS TimeoutMs,     \* deadline of an attempt, in model time units
          MaxRetries,    \* CHECK_MAX_RETRIES (0 for a half-open probe)
          MaxRedirects,  \* maxRedirects
          RetryBase,     \* CHECK_RETRY_BASE_MS
          RetryCap,      \* CHECK_RETRY_CAP_MS
          UrlKinds       \* what URLs and Location headers may be

ASSUME ProbeAssumption ==
  /\ TimeoutMs \in Nat \ {0} /\ MaxRetries \in Nat /\ MaxRedirects \in Nat
  /\ RetryBase \in Nat \ {0} /\ RetryCap \in Nat \ {0}
  /\ \A k \in 0..MaxRetries : 2^k \in Nat
  /\ UrlKinds \subseteq {"http", "invalid", "otherProtocol", "badHeaders"}
  /\ "http" \in UrlKinds

VARIABLES url,        \* the monitor's URL and headers
          stage,      \* of the check; "resolved" | "rejected" | "crashed" at the end
          attempts,   \* attempts begun
          hops,       \* the connections of the attempt, in order
          redirects,  \* redirects followed in the attempt
          settled,    \* the attempt's promise is settled
          result,     \* what settled it
          timer,      \* time left to the deadline, or to the next attempt
          elapsed     \* history: time since the check began

vars == <<url, stage, attempts, hops, redirects, settled, result, timer, elapsed>>

\* The classes of answers that finish() tells apart; `by` is a history of what
\* called it: the hop, or 0 for the deadline or a refusal to send the request.
Result == [status : {"UP", "DOWN"}, retryable : BOOLEAN, by : Nat]

NoResult == [status |-> "DOWN", retryable |-> FALSE, by |-> 0]

TypeOK ==
  /\ url \in UrlKinds
  /\ stage \in {"probing", "sleeping", "resolved", "rejected", "crashed"}
  /\ attempts \in 1..(MaxRetries + 1)
  /\ hops \in Seq({"waiting", "body", "draining", "closed"})
  /\ redirects \in 0..MaxRedirects /\ Len(hops) <= MaxRedirects + 1
  /\ settled \in BOOLEAN /\ result \in Result
  /\ timer \in Nat /\ elapsed \in Nat

Current == Len(hops)
Running == stage = "probing" /\ ~settled

\* Faulty variant: finish() without the destroy().
Finish_keepsOpen(open, status, retryable, by) ==
  IF settled
  THEN hops' = open /\ UNCHANGED <<settled, result>>
  ELSE /\ result' = [status |-> status, retryable |-> retryable, by |-> by]
       /\ settled' = TRUE
       /\ hops' = open

\* finish(), when the connections are `open`: the first call settles the attempt
\* and destroys the current request; any other does nothing.
Finish(open, status, retryable, by) ==
  IF settled
  THEN hops' = open /\ UNCHANGED <<settled, result>>
  ELSE /\ result' = [status |-> status, retryable |-> retryable, by |-> by]
       /\ settled' = TRUE
       /\ hops' = [h \in DOMAIN open |-> IF h = Len(open) THEN "closed" ELSE open[h]]

Elsewhere == UNCHANGED <<url, attempts, timer, elapsed>>

------------------------------------------------------------------------------
(* request() *)

\* A request for a URL of this kind, after the hops `open`: it is sent, or it is
\* refused with an answer that no retry changes.
Request(kind, open) ==
  IF kind = "http"
  THEN hops' = Append(open, "waiting") /\ UNCHANGED <<settled, result>>
  ELSE Finish(open, "DOWN", FALSE, 0)

\* The attempt's first request.  A header that node refuses makes it throw inside
\* the promise's executor, which rejects the promise, and with it the check.
FirstRequest ==
  /\ Running /\ hops = <<>>
  /\ IF url = "badHeaders"
     THEN stage' = "rejected" /\ UNCHANGED <<hops, settled, result>>
     ELSE Request(url, <<>>) /\ UNCHANGED stage
  /\ Elsewhere /\ UNCHANGED redirects

------------------------------------------------------------------------------
(* The listeners *)

RedirectsLeft == redirects < MaxRedirects

\* A redirect, or any response with a Location once no redirects are left.  While
\* some are left it is followed: its body is drained, and the new request takes its
\* place.  A Location that does not parse throws out of the listener, where nothing
\* catches it.
Redirected ==
  /\ Running /\ hops # <<>> /\ hops[Current] = "waiting"
  /\ IF RedirectsLeft
     THEN \E kind \in UrlKinds :
            /\ redirects' = redirects + 1
            /\ IF kind = "invalid"
               THEN stage' = "crashed" /\ UNCHANGED <<hops, settled, result>>
               ELSE /\ Request(IF kind = "badHeaders" THEN "http" ELSE kind,
                               [hops EXCEPT ![Current] = "draining"])
                    /\ UNCHANGED stage
     ELSE /\ Finish(hops, "DOWN", FALSE, Current)
          /\ UNCHANGED <<redirects, stage>>
  /\ Elsewhere

\* Any other response: its body is read.
Responded ==
  /\ Running /\ hops # <<>> /\ hops[Current] = "waiting"
  /\ hops' = [hops EXCEPT ![Current] = "body"]
  /\ Elsewhere /\ UNCHANGED <<stage, redirects, settled, result>>

Closed(h) == [hops EXCEPT ![h] = "closed"]

\* settleWithStatus(): the body ends, is cut off at MAX_BODY_BYTES or breaks, and
\* the status code decides: below 400 it is up; 408, 429 and 5xx may be retried.
BodyDone(h) ==
  /\ hops[h] = "body"
  /\ \E answer \in {[status |-> "UP", retryable |-> FALSE],
                    [status |-> "DOWN", retryable |-> FALSE],
                    [status |-> "DOWN", retryable |-> TRUE]} :
       Finish(Closed(h), answer.status, answer.retryable, h)
  /\ Elsewhere /\ UNCHANGED <<stage, redirects>>

\* Faulty variant: the body of a redirect is graded like any other.
DrainDone_graded(h) ==
  /\ hops[h] = "draining"
  /\ Finish(Closed(h), "UP", FALSE, h)
  /\ Elsewhere /\ UNCHANGED <<stage, redirects>>

\* The drained body of a redirect ends: nothing listens.
DrainDone(h) ==
  /\ hops[h] = "draining"
  /\ hops' = Closed(h)
  /\ Elsewhere /\ UNCHANGED <<stage, redirects, settled, result>>

\* fail(): the request or the socket of any hop reports an error, with a code that
\* may be retried or not.
HopFails(h) ==
  /\ hops[h] # "closed"
  /\ \E retryable \in BOOLEAN : Finish(Closed(h), "DOWN", retryable, h)
  /\ Elsewhere /\ UNCHANGED <<stage, redirects>>

\* A request that finish() destroyed still reports an error, which fail() hears.
LateError ==
  /\ settled /\ stage = "probing" /\ hops # <<>> /\ hops[Current] = "closed"
  /\ \E retryable \in BOOLEAN : Finish(hops, "DOWN", retryable, Current)
  /\ Elsewhere /\ UNCHANGED <<stage, redirects>>

\* Faulty variant: a timeout on idle sockets only.
Deadline_idle ==
  /\ Running /\ hops # <<>> /\ timer = 0 /\ hops[Current] = "waiting"
  /\ Finish(hops, "DOWN", TRUE, 0)
  /\ Elsewhere /\ UNCHANGED <<stage, redirects>>

\* The deadline of the attempt.
Deadline ==
  /\ Running /\ hops # <<>> /\ timer = 0
  /\ Finish(hops, "DOWN", TRUE, 0)
  /\ Elsewhere /\ UNCHANGED <<stage, redirects>>

------------------------------------------------------------------------------
(* checkMonitor() *)

AtMost(a, b) == IF a <= b THEN a ELSE b

\* backoffDelay(): full jitter below min(base * 2^attempt, cap).
Backoffs(attempt) == 0..(AtMost(RetryBase * 2^attempt, RetryCap) - 1)

\* The result ends the ladder whatever attempts are left.
Answered == result.status = "UP" \/ ~result.retryable

\* The await resumes: the check resolves, or sleeps before the next attempt.
Judge ==
  /\ stage = "probing" /\ settled
  /\ IF Answered \/ attempts > MaxRetries
     THEN stage' = "resolved" /\ UNCHANGED timer
     ELSE stage' = "sleeping" /\ timer' \in Backoffs(attempts - 1)
  /\ UNCHANGED <<url, attempts, hops, redirects, settled, result, elapsed>>

\* The next attempt, with listeners, timer and connections of its own.
Retry ==
  /\ stage = "sleeping" /\ timer = 0
  /\ stage' = "probing"
  /\ attempts' = attempts + 1
  /\ hops' = <<>> /\ redirects' = 0 /\ settled' = FALSE /\ result' = NoResult
  /\ timer' = TimeoutMs
  /\ UNCHANGED <<url, elapsed>>

Init ==
  /\ url \in UrlKinds
  /\ stage = "probing" /\ attempts = 1
  /\ hops = <<>> /\ redirects = 0 /\ settled = FALSE /\ result = NoResult
  /\ timer = TimeoutMs /\ elapsed = 0

\* Time passes for the connections, until the timer that is set is due.  What the
\* program does by itself takes no time.
PassTime ==
  /\ timer > 0
  /\ stage = "sleeping" \/ (Running /\ hops # <<>>)
  /\ timer' = timer - 1 /\ elapsed' = elapsed + 1
  /\ UNCHANGED <<url, stage, attempts, hops, redirects, settled, result>>

\* What the program does by itself.
Program == FirstRequest \/ Judge \/ Retry \/ Deadline

\* What the target and the network do.
Network ==
  /\ stage \in {"probing", "sleeping", "resolved"}
  /\ \/ Redirected \/ Responded \/ LateError
     \/ \E h \in DOMAIN hops : BodyDone(h) \/ DrainDone(h) \/ HopFails(h)

Next == Program \/ Network \/ PassTime

Spec == Init /\ [][Next]_vars

\* Timers fire; the target owes nothing.
FairSpec == Spec /\ WF_vars(Program) /\ WF_vars(PassTime)

------------------------------------------------------------------------------
(* Properties *)

\* An attempt is decided once: no late error, end of body or deadline changes the
\* answer of an attempt that is settled.
DecidedOnce ==
  [][settled /\ attempts' = attempts => result' = result /\ settled']_vars

\* A target is up only on the word of the last hop of the chain.
UpIsAnswered == settled /\ result.status = "UP" => result.by = Current

\* Whatever settles an attempt, the connection it was waiting for is closed; all
\* that may outlive the attempt is the body of a redirect that was followed, still
\* being drained.  (finish() destroys the current request only.)
OnlyDrainsOutlive ==
  settled => \A h \in DOMAIN hops :
               hops[h] = "closed" \/ (h < Current /\ hops[h] = "draining")

\* A durable answer is never asked for again.
AnswerIsFinal == [][attempts' # attempts => result.retryable]_vars

\* What a check lasts at most: every attempt to its deadline, every sleep at its
\* ceiling (each ceiling is itself at most the cap).  No deadline covers the whole
\* check: this sum may exceed the monitor's interval.
LongestCheck == (MaxRetries + 1) * TimeoutMs + MaxRetries * (RetryCap - 1)

CheckIsBounded == elapsed <= LongestCheck

\* A check ends, whatever the target does.
CheckEnds == <>(stage \in {"resolved", "rejected", "crashed"})

------------------------------------------------------------------------------
(* A claim of the comments that the code does not keep *)

\* monitor.service.js:73 "never rejects - a failed probe is a result, not an
\* exception".
NeverRejects == stage \notin {"rejected", "crashed"}
==============================================================================
