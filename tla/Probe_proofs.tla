----------------------------- MODULE Probe_proofs -----------------------------
(***************************************************************************)
(* One check of a target, for any deadlines, retries, redirects and        *)
(* targets: what decides an attempt, what may outlive it, when another is  *)
(* made, and how long all of them take.                                    *)
(***************************************************************************)
EXTENDS Probe, TLAPS

HopState == {"waiting", "body", "draining", "closed"}

\* Only the last hop of the chain is still read; a hop before it is being drained at
\* most.  Once the attempt is settled the last one is closed too.
ChainOK ==
  /\ \A h \in 1..Len(hops) : h < Len(hops) => hops[h] \in {"draining", "closed"}
  /\ settled /\ hops # <<>> => hops[Len(hops)] = "closed"
  /\ Len(hops) <= redirects + 1

\* The ladder goes on only from an answer that may be asked for again.
LadderOK ==
  /\ stage = "sleeping" => settled /\ result.retryable /\ attempts <= MaxRetries
  /\ attempts <= MaxRetries + 1

\* What n attempts to their deadlines take, with the sleeps between them.
Budget(n) == n * TimeoutMs + (n - 1) * (RetryCap - 1)

\* The time so far, and the time the timer that is set will take.
TimeOK ==
  CASE stage = "probing"  -> elapsed + timer <= Budget(attempts)
    [] stage = "sleeping" -> elapsed + timer <= Budget(attempts) + (RetryCap - 1)
    [] OTHER              -> elapsed <= Budget(attempts)

ProbeInv == TypeOK /\ ChainOK /\ LadderOK /\ TimeOK /\ UpIsAnswered

-----------------------------------------------------------------------------
(* Budgets *)

\* One more attempt takes its deadline and the sleep before it.
LEMMA BudgetOfOneMore ==
  ASSUME NEW n \in Nat
  PROVE  /\ Budget(n) \in Int
         /\ Budget(n + 1) = Budget(n) + TimeoutMs + (RetryCap - 1)
<1>1. TimeoutMs \in Nat /\ RetryCap \in Nat \ {0}
  BY ProbeAssumption
<1>2. PICK c \in Nat : c = RetryCap - 1
  BY <1>1
<1>3. (n + 1) * TimeoutMs = n * TimeoutMs + TimeoutMs
  BY <1>1
<1>4. ((n + 1) - 1) * c = (n - 1) * c + c
  BY <1>2
<1>5. n * TimeoutMs \in Int /\ (n - 1) * c \in Int
  BY <1>1, <1>2
<1> QED
  BY <1>1, <1>2, <1>3, <1>4, <1>5 DEF Budget

\* More attempts never take less.
LEMMA BudgetGrows ==
  ASSUME NEW m \in Nat, NEW n \in Nat, m <= n
  PROVE  Budget(m) <= Budget(n)
<1>1. TimeoutMs \in Nat /\ RetryCap \in Nat \ {0}
  BY ProbeAssumption
<1>2. PICK c \in Nat : c = RetryCap - 1
  BY <1>1
<1>3. PICK d \in Nat : n = m + d
  <2>1. n - m \in Nat /\ n = m + (n - m)
    OBVIOUS
  <2> QED
    BY <2>1
<1>4. n * TimeoutMs = m * TimeoutMs + d * TimeoutMs
  BY <1>1, <1>3
<1>5. (n - 1) * c = (m - 1) * c + d * c
  BY <1>2, <1>3
<1>6. d * TimeoutMs >= 0 /\ d * c >= 0
  BY <1>1, <1>2
<1>7. m * TimeoutMs \in Int /\ (m - 1) * c \in Int /\ d * TimeoutMs \in Int /\ d * c \in Int
  BY <1>1, <1>2
<1> QED
  BY <1>1, <1>2, <1>4, <1>5, <1>6, <1>7 DEF Budget

\* The longest check is the budget of all its attempts.
LEMMA LongestIsABudget == LongestCheck = Budget(MaxRetries + 1) /\ LongestCheck \in Int
<1>1. MaxRetries \in Nat /\ TimeoutMs \in Nat /\ RetryCap \in Nat
  BY ProbeAssumption
<1>2. (MaxRetries + 1) - 1 = MaxRetries
  BY <1>1
<1>3. Budget(MaxRetries + 1) \in Int
  BY <1>1, BudgetOfOneMore
<1> QED
  BY <1>2, <1>3 DEF LongestCheck, Budget

\* No sleep is as long as the cap.
LEMMA SleepsAreCapped ==
  ASSUME NEW k \in 0..MaxRetries, NEW t \in Backoffs(k)
  PROVE  t \in Nat /\ t <= RetryCap - 1
<1>1. RetryBase \in Nat /\ RetryCap \in Nat \ {0} /\ 2^k \in Nat
  BY ProbeAssumption
<1>2. PICK c \in Nat : c = RetryBase * 2^k
  BY <1>1
<1> QED
  BY <1>1, <1>2 DEF Backoffs, AtMost

-----------------------------------------------------------------------------
(* finish() *)

\* The first call settles the attempt with its answer and closes the last hop; any
\* other leaves the answer as it is, and the hops as they have become.
LEMMA FinishEffect ==
  ASSUME NEW open \in Seq(HopState), NEW status \in {"UP", "DOWN"},
         NEW retryable \in BOOLEAN, NEW by \in Nat,
         TypeOK, Finish(open, status, retryable, by)
  PROVE  /\ settled' = TRUE /\ result' \in Result
         /\ hops' \in Seq(HopState) /\ Len(hops') = Len(open)
         /\ \A h \in 1..Len(open) :
              hops'[h] = IF ~settled /\ h = Len(open) THEN "closed" ELSE open[h]
         /\ settled => result' = result
         /\ ~settled => result' = [status |-> status, retryable |-> retryable, by |-> by]
<1>1. settled \in BOOLEAN /\ result \in Result
  BY DEF TypeOK
<1>2. CASE settled
  BY <1>1, <1>2 DEF Finish
<1>3. CASE ~settled
  <2>1. hops' = [h \in 1..Len(open) |-> IF h = Len(open) THEN "closed" ELSE open[h]]
    BY <1>3 DEF Finish
  <2>2. \A h \in 1..Len(open) : (IF h = Len(open) THEN "closed" ELSE open[h]) \in HopState
    BY DEF HopState
  <2>3. hops' \in Seq(HopState) /\ Len(hops') = Len(open)
    BY <2>1, <2>2
  <2>4. settled' = TRUE /\ result' = [status |-> status, retryable |-> retryable, by |-> by]
    BY <1>3 DEF Finish
  <2>5. result' \in Result
    BY <2>4 DEF Result
  <2> QED
    BY <1>3, <2>1, <2>3, <2>4, <2>5
<1> QED
  BY <1>1, <1>2, <1>3

\* What an action must leave of the attempt: its hops in order, its answer whole, and an
\* UP that is the last hop's.
AttemptOK ==
  /\ hops \in Seq(HopState) /\ settled \in BOOLEAN /\ result \in Result
  /\ \A h \in 1..Len(hops) : h < Len(hops) => hops[h] \in {"draining", "closed"}
  /\ settled /\ hops # <<>> => hops[Len(hops)] = "closed"
  /\ UpIsAnswered

\* finish() leaves a sound attempt, whoever calls it, if UP is only said by the last hop
\* while the attempt is open.
LEMMA FinishKeepsAttempt ==
  ASSUME NEW open \in Seq(HopState), NEW status \in {"UP", "DOWN"},
         NEW retryable \in BOOLEAN, NEW by \in Nat,
         TypeOK, UpIsAnswered, Finish(open, status, retryable, by),
         \A h \in 1..Len(open) : h < Len(open) => open[h] \in {"draining", "closed"},
         settled => Len(open) = Len(hops) /\ (open # <<>> => open[Len(open)] = "closed"),
         ~settled /\ status = "UP" => by = Len(open)
  PROVE  AttemptOK' /\ Len(hops') = Len(open) /\ settled'
<1>1. /\ settled' = TRUE /\ result' \in Result
      /\ hops' \in Seq(HopState) /\ Len(hops') = Len(open)
      /\ \A h \in 1..Len(open) :
           hops'[h] = IF ~settled /\ h = Len(open) THEN "closed" ELSE open[h]
      /\ settled => result' = result
      /\ ~settled => result' = [status |-> status, retryable |-> retryable, by |-> by]
  BY FinishEffect
<1>2. Len(open) \in Nat /\ settled \in BOOLEAN
  BY DEF TypeOK
<1>3. \A h \in 1..Len(hops') : h < Len(hops') => hops'[h] \in {"draining", "closed"}
  BY <1>1, <1>2
<1>4. hops' # <<>> => hops'[Len(hops')] = "closed"
  <2> SUFFICES ASSUME hops' # <<>> PROVE hops'[Len(hops')] = "closed"
    OBVIOUS
  <2>1. Len(open) \in 1..Len(open) /\ open # <<>>
    BY <1>1, <1>2
  <2> QED
    BY <1>1, <1>2, <2>1
<1>5. UpIsAnswered'
  <2> SUFFICES ASSUME result'.status = "UP" PROVE result'.by = Len(hops')
    BY DEF UpIsAnswered, Current
  <2>1. CASE settled
    BY <1>1, <2>1 DEF UpIsAnswered, Current
  <2>2. CASE ~settled
    BY <1>1, <2>2
  <2> QED
    BY <1>2, <2>1, <2>2
<1> QED
  BY <1>1, <1>3, <1>4, <1>5 DEF AttemptOK

\* request() leaves a sound attempt, after hops that are all done with.
LEMMA RequestKeepsAttempt ==
  ASSUME NEW kind, NEW open \in Seq({"draining", "closed"}),
         TypeOK, UpIsAnswered, ~settled, Request(kind, open)
  PROVE  AttemptOK' /\ Len(hops') <= Len(open) + 1
<1>1. open \in Seq(HopState) /\ Len(open) \in Nat
      /\ \A h \in 1..Len(open) : open[h] \in {"draining", "closed"}
  BY DEF HopState
<1>2. CASE kind = "http"
  <2>1. hops' = Append(open, "waiting") /\ settled' = settled /\ result' = result
    BY <1>2 DEF Request
  <2>2. hops' \in Seq(HopState) /\ Len(hops') = Len(open) + 1
    BY <1>1, <2>1 DEF HopState
  <2>3. \A h \in 1..Len(hops') : h < Len(hops') => hops'[h] \in {"draining", "closed"}
    BY <1>1, <2>1, <2>2
  <2>4. settled' \in BOOLEAN /\ result' \in Result /\ ~settled'
    BY <2>1 DEF TypeOK
  <2>5. UpIsAnswered'
    BY <2>4 DEF UpIsAnswered
  <2> QED
    BY <2>2, <2>3, <2>4, <2>5, <1>1 DEF AttemptOK
<1>3. CASE kind # "http"
  <2>1. Finish(open, "DOWN", FALSE, 0)
    BY <1>3 DEF Request
  <2>2. AttemptOK' /\ Len(hops') = Len(open)
    BY <2>1, <1>1, FinishKeepsAttempt
  <2> QED
    BY <2>2, <1>1
<1> QED
  BY <1>2, <1>3

\* Closing any connection keeps the chain in order.
LEMMA ClosingKeepsOrder ==
  ASSUME NEW h \in DOMAIN hops, TypeOK, ChainOK
  PROVE  /\ Closed(h) \in Seq(HopState) /\ Len(Closed(h)) = Len(hops)
         /\ \A i \in 1..Len(hops) : i < Len(hops) => Closed(h)[i] \in {"draining", "closed"}
         /\ settled /\ hops # <<>> => Closed(h)[Len(hops)] = "closed"
<1>1. hops \in Seq(HopState) /\ Len(hops) \in Nat /\ h \in 1..Len(hops)
  BY DEF TypeOK, HopState
<1>2. Closed(h) \in Seq(HopState) /\ Len(Closed(h)) = Len(hops)
  BY <1>1 DEF Closed, HopState
<1>3. \A i \in 1..Len(hops) : Closed(h)[i] = IF i = h THEN "closed" ELSE hops[i]
  BY <1>1 DEF Closed
<1>4. hops # <<>> => Len(hops) \in 1..Len(hops)
  BY <1>1
<1> QED
  BY <1>1, <1>2, <1>3, <1>4 DEF ChainOK

-----------------------------------------------------------------------------
(* The attempt *)

\* What leaves the hops and the answer alone leaves a sound attempt.
LEMMA AttemptUntouched ==
  ASSUME TypeOK, ChainOK, UpIsAnswered, UNCHANGED <<hops, settled, result, redirects>>
  PROVE  AttemptOK' /\ redirects' \in 0..MaxRedirects /\ Len(hops') <= redirects' + 1
<1>1. AttemptOK
  BY DEF AttemptOK, TypeOK, ChainOK, HopState
<1>2. AttemptOK'
  BY <1>1 DEF AttemptOK, UpIsAnswered, Current
<1> QED
  BY <1>2 DEF TypeOK, ChainOK

\* The listeners of a hop leave a sound attempt, late or not.
LEMMA ListenersKeepAttempt ==
  ASSUME TypeOK, ChainOK, UpIsAnswered,
         NEW h \in DOMAIN hops, BodyDone(h) \/ DrainDone(h) \/ HopFails(h)
  PROVE  AttemptOK' /\ redirects' \in 0..MaxRedirects /\ Len(hops') <= redirects' + 1
<1>1. /\ Closed(h) \in Seq(HopState) /\ Len(Closed(h)) = Len(hops)
      /\ \A i \in 1..Len(hops) : i < Len(hops) => Closed(h)[i] \in {"draining", "closed"}
      /\ settled /\ hops # <<>> => Closed(h)[Len(hops)] = "closed"
  BY ClosingKeepsOrder
<1>2. h \in 1..Len(hops) /\ Len(hops) \in Nat /\ h \in Nat /\ hops # <<>>
  BY DEF TypeOK
<1>3. PICK open : open = Closed(h)
  OBVIOUS
<1>4. redirects' = redirects
  BY DEF BodyDone, DrainDone, HopFails
<1>5. ASSUME NEW status \in {"UP", "DOWN"}, NEW retryable \in BOOLEAN,
             Finish(open, status, retryable, h),
             ~settled /\ status = "UP" => h = Len(open)
      PROVE  AttemptOK' /\ Len(hops') = Len(hops)
  BY <1>1, <1>2, <1>3, <1>5, FinishKeepsAttempt
<1>6. CASE BodyDone(h)
  <2>1. h = Len(open)
    BY <1>1, <1>2, <1>3, <1>6 DEF BodyDone, ChainOK
  <2>2. PICK answer \in {[status |-> "UP", retryable |-> FALSE],
                         [status |-> "DOWN", retryable |-> FALSE],
                         [status |-> "DOWN", retryable |-> TRUE]} :
               Finish(open, answer.status, answer.retryable, h)
    BY <1>3, <1>6 DEF BodyDone
  <2>3. answer.status \in {"UP", "DOWN"} /\ answer.retryable \in BOOLEAN
    <3>1. CASE answer = [status |-> "UP", retryable |-> FALSE]
      BY <3>1
    <3>2. CASE answer = [status |-> "DOWN", retryable |-> FALSE]
      BY <3>2
    <3>3. CASE answer = [status |-> "DOWN", retryable |-> TRUE]
      BY <3>3
    <3> QED
      BY <2>2, <3>1, <3>2, <3>3
  <2>4. AttemptOK' /\ Len(hops') = Len(hops)
    BY <2>1, <2>2, <2>3, <1>5
  <2> QED
    BY <2>4, <1>4 DEF TypeOK, ChainOK
<1>7. CASE HopFails(h)
  <2>1. PICK retryable \in BOOLEAN : Finish(open, "DOWN", retryable, h)
    BY <1>3, <1>7 DEF HopFails
  <2>2. AttemptOK' /\ Len(hops') = Len(hops)
    BY <2>1, <1>5
  <2> QED
    BY <2>2, <1>4 DEF TypeOK, ChainOK
<1>8. CASE DrainDone(h)
  <2>1. hops' = open /\ settled' = settled /\ result' = result
    BY <1>3, <1>8 DEF DrainDone
  <2>2. UpIsAnswered'
    BY <2>1, <1>1, <1>3 DEF UpIsAnswered, Current
  <2>3. AttemptOK'
    BY <2>1, <2>2, <1>1, <1>2, <1>3 DEF AttemptOK, TypeOK
  <2> QED
    BY <2>1, <2>3, <1>1, <1>3, <1>4 DEF TypeOK, ChainOK
<1> QED
  BY <1>6, <1>7, <1>8

\* A redirect, a response, a late error and the deadline leave a sound attempt.
LEMMA CurrentKeepsAttempt ==
  ASSUME TypeOK, ChainOK, UpIsAnswered, Redirected \/ Responded \/ LateError \/ Deadline
  PROVE  AttemptOK' /\ redirects' \in 0..MaxRedirects /\ Len(hops') <= redirects' + 1
<1>1. hops # <<>> /\ hops \in Seq(HopState) /\ Len(hops) \in Nat /\ Current = Len(hops)
      /\ Len(hops) \in 1..Len(hops)
  <2>1. hops \in Seq(HopState)
    BY DEF TypeOK, HopState
  <2>2. hops # <<>>
    BY DEF Redirected, Responded, LateError, Deadline
  <2>3. Len(hops) \in Nat /\ Len(hops) # 0
    BY <2>1, <2>2
  <2> QED
    BY <2>1, <2>2, <2>3 DEF Current
<1>2. MaxRedirects \in Nat /\ redirects \in 0..MaxRedirects /\ Len(hops) <= redirects + 1
  BY ProbeAssumption DEF TypeOK, ChainOK
<1>3. \A i \in 1..Len(hops) : i < Len(hops) => hops[i] \in {"draining", "closed"}
  BY DEF ChainOK
<1>4. ASSUME NEW retryable \in BOOLEAN, NEW by \in Nat, Finish(hops, "DOWN", retryable, by)
      PROVE  AttemptOK' /\ Len(hops') = Len(hops)
  BY <1>1, <1>3, <1>4, FinishKeepsAttempt DEF ChainOK
<1>5. CASE Redirected
  <2>1. ~settled
    BY <1>5 DEF Redirected, Running
  <2>2. CASE RedirectsLeft
    <3>1. PICK kind \in UrlKinds :
            /\ redirects' = redirects + 1
            /\ IF kind = "invalid"
               THEN stage' = "crashed" /\ UNCHANGED <<hops, settled, result>>
               ELSE Request(IF kind = "badHeaders" THEN "http" ELSE kind,
                            [hops EXCEPT ![Current] = "draining"])
      BY <1>5, <2>2 DEF Redirected
    <3>2. redirects' \in 0..MaxRedirects
      BY <3>1, <2>2, <1>2 DEF RedirectsLeft
    <3>3. CASE kind = "invalid"
      <4>1. hops' = hops /\ settled' = settled /\ result' = result
        BY <3>1, <3>3
      <4>2. UpIsAnswered' /\ ~settled'
        BY <4>1, <2>1 DEF UpIsAnswered
      <4>3. AttemptOK'
        BY <4>1, <4>2, <1>1, <1>3 DEF AttemptOK, TypeOK
      <4> QED
        BY <4>1, <4>3, <3>1, <3>2, <1>1, <1>2
    <3>4. CASE kind # "invalid"
      <4>1. PICK open : open = [hops EXCEPT ![Current] = "draining"]
        OBVIOUS
      <4>2. open \in Seq({"draining", "closed"}) /\ Len(open) = Len(hops)
        <5>1. Len(open) = Len(hops) /\ open \in Seq(HopState)
          BY <4>1, <1>1 DEF HopState
        <5>2. \A i \in 1..Len(hops) : open[i] \in {"draining", "closed"}
          BY <4>1, <1>1, <1>3
        <5> QED
          BY <5>1, <5>2, <1>1
      <4>3. PICK k : Request(k, open)
        BY <3>1, <3>4, <4>1
      <4>4. AttemptOK' /\ Len(hops') <= Len(hops) + 1
        BY <4>2, <4>3, <2>1, RequestKeepsAttempt
      <4>5. Len(hops') \in Nat
        BY <4>4 DEF AttemptOK
      <4> QED
        BY <4>4, <4>5, <3>1, <3>2, <1>1, <1>2
    <3> QED
      BY <3>3, <3>4
  <2>3. CASE ~RedirectsLeft
    <3>1. Finish(hops, "DOWN", FALSE, Len(hops)) /\ redirects' = redirects
      BY <1>1, <1>5, <2>3 DEF Redirected
    <3> QED
      BY <3>1, <1>1, <1>2, <1>4
  <2> QED
    BY <2>2, <2>3
<1>6. CASE Responded
  <2>1. ~settled
    BY <1>6 DEF Responded, Running
  <2>2. hops' = [hops EXCEPT ![Len(hops)] = "body"] /\ settled' = settled /\ result' = result
        /\ redirects' = redirects
    BY <1>1, <1>6 DEF Responded
  <2>3. hops' \in Seq(HopState) /\ Len(hops') = Len(hops)
    BY <2>2, <1>1 DEF HopState
  <2>4. \A i \in 1..Len(hops') : i < Len(hops') => hops'[i] \in {"draining", "closed"}
    <3> SUFFICES ASSUME NEW i \in 1..Len(hops), i < Len(hops)
                 PROVE  hops'[i] \in {"draining", "closed"}
      BY <2>3
    <3>1. hops'[i] = hops[i]
      BY <2>2, <1>1
    <3> QED
      BY <3>1, <1>3
  <2>5. UpIsAnswered' /\ ~settled'
    BY <2>1, <2>2 DEF UpIsAnswered
  <2>6. settled' \in BOOLEAN /\ result' \in Result
    BY <2>2 DEF TypeOK
  <2> QED
    BY <2>2, <2>3, <2>4, <2>5, <2>6, <1>2 DEF AttemptOK
<1>7. CASE LateError
  <2>1. PICK retryable \in BOOLEAN : Finish(hops, "DOWN", retryable, Len(hops))
    BY <1>1, <1>7 DEF LateError
  <2>2. redirects' = redirects
    BY <1>7 DEF LateError
  <2> QED
    BY <2>1, <2>2, <1>1, <1>2, <1>4
<1>8. CASE Deadline
  <2>1. Finish(hops, "DOWN", TRUE, 0) /\ redirects' = redirects
    BY <1>8 DEF Deadline
  <2> QED
    BY <2>1, <1>2, <1>4
<1> QED
  BY <1>5, <1>6, <1>7, <1>8

\* Every step leaves a sound attempt, and redirects within their limit.
LEMMA AttemptStep ==
  ASSUME TypeOK, ChainOK, UpIsAnswered, [Next]_vars
  PROVE  AttemptOK' /\ redirects' \in 0..MaxRedirects /\ Len(hops') <= redirects' + 1
<1>1. CASE FirstRequest
  <2>1. hops = <<>> /\ ~settled /\ redirects' = redirects
    BY <1>1 DEF FirstRequest, Running
  <2>2. CASE url = "badHeaders"
    <3>1. UNCHANGED <<hops, settled, result, redirects>>
      BY <1>1, <2>2 DEF FirstRequest
    <3> QED
      BY <3>1, AttemptUntouched
  <2>3. CASE url # "badHeaders"
    <3>1. PICK open \in Seq({"draining", "closed"}) : open = <<>>
      <4>1. <<>> \in Seq({"draining", "closed"})
        OBVIOUS
      <4> QED
        BY <4>1
    <3>2. Request(url, open)
      BY <1>1, <2>3, <3>1 DEF FirstRequest
    <3>3. AttemptOK' /\ Len(hops') <= Len(open) + 1
      BY <3>2, <2>1, RequestKeepsAttempt
    <3>4. Len(hops') \in Nat /\ Len(open) = 0
      BY <3>1, <3>3 DEF AttemptOK
    <3>5. redirects \in 0..MaxRedirects /\ MaxRedirects \in Nat
      BY ProbeAssumption DEF TypeOK
    <3> QED
      BY <3>3, <3>4, <3>5, <2>1
  <2> QED
    BY <2>2, <2>3
<1>2. CASE Retry
  <2>1. hops' = <<>> /\ redirects' = 0 /\ settled' = FALSE /\ result' = NoResult
    BY <1>2 DEF Retry
  <2>2. result' \in Result
    BY <2>1 DEF NoResult, Result
  <2>3. hops' \in Seq(HopState) /\ Len(hops') = 0
    BY <2>1
  <2>4. UpIsAnswered'
    BY <2>1 DEF UpIsAnswered
  <2>5. AttemptOK'
    <3>1. settled' \in BOOLEAN /\ ~settled'
      BY <2>1
    <3>2. \A h \in 1..Len(hops') : h < Len(hops') => hops'[h] \in {"draining", "closed"}
      BY <2>3
    <3> QED
      BY <3>1, <3>2, <2>2, <2>3, <2>4 DEF AttemptOK
  <2>6. MaxRedirects \in Nat
    BY ProbeAssumption
  <2> QED
    BY <2>1, <2>3, <2>5, <2>6
<1>3. CASE Judge \/ PassTime \/ UNCHANGED vars
  <2>1. UNCHANGED <<hops, settled, result, redirects>>
    BY <1>3 DEF Judge, PassTime, vars
  <2> QED
    BY <2>1, AttemptUntouched
<1>4. CASE Deadline \/ Redirected \/ Responded \/ LateError
  BY <1>4, CurrentKeepsAttempt
<1>5. CASE \E h \in DOMAIN hops : BodyDone(h) \/ DrainDone(h) \/ HopFails(h)
  BY <1>5, ListenersKeepAttempt
<1> QED
  BY <1>1, <1>2, <1>3, <1>4, <1>5 DEF Next, Program, Network

-----------------------------------------------------------------------------
(* The ladder *)

\* Once an attempt is settled, only the next one changes its answer.
LEMMA DecidedStep ==
  ASSUME TypeOK, [Next]_vars, settled, ~Retry
  PROVE  result' = result /\ settled'
<1>1. CASE FirstRequest \/ Redirected \/ Responded \/ Deadline
  BY <1>1 DEF FirstRequest, Redirected, Responded, Deadline, Running
<1>2. CASE Judge \/ PassTime \/ UNCHANGED vars
  BY <1>2 DEF Judge, PassTime, vars
<1>3. CASE LateError
  BY <1>3 DEF LateError, Finish
<1>4. ASSUME NEW h \in DOMAIN hops, BodyDone(h) \/ DrainDone(h) \/ HopFails(h)
      PROVE  result' = result /\ settled'
  BY <1>4 DEF BodyDone, DrainDone, HopFails, Finish
<1> QED
  BY <1>1, <1>2, <1>3, <1>4 DEF Next, Program, Network

\* A step of an attempt: no time passes, and the check goes on or breaks off.
Quiet ==
  /\ Elsewhere
  /\ \/ stage' = stage
     \/ stage = "probing" /\ stage' \in {"rejected", "crashed"}

\* The steps of a check, told apart by what they do to its stage and its time.
LEMMA StepKinds ==
  ASSUME [Next]_vars
  PROVE  Quiet \/ Judge \/ Retry \/ PassTime
<1>1. CASE FirstRequest
  BY <1>1 DEF FirstRequest, Running, Quiet
<1>2. CASE Redirected
  BY <1>2 DEF Redirected, Running, Quiet
<1>3. CASE Responded \/ LateError \/ Deadline \/ UNCHANGED vars
  BY <1>3 DEF Responded, LateError, Deadline, Quiet, Elsewhere, vars
<1>4. ASSUME NEW h \in DOMAIN hops, BodyDone(h) \/ DrainDone(h) \/ HopFails(h)
      PROVE  Quiet
  BY <1>4 DEF BodyDone, DrainDone, HopFails, Quiet
<1> QED
  BY <1>1, <1>2, <1>3, <1>4 DEF Next, Program, Network

StageOK ==
  /\ url \in UrlKinds
  /\ stage \in {"probing", "sleeping", "resolved", "rejected", "crashed"}
  /\ attempts \in 1..(MaxRetries + 1)
  /\ timer \in Nat /\ elapsed \in Nat

\* Every step goes up the ladder by one attempt at most, only from an answer that may be
\* asked for again, and within the time that many attempts may take.
LEMMA StageStep ==
  ASSUME TypeOK, LadderOK, TimeOK, [Next]_vars
  PROVE  StageOK' /\ LadderOK' /\ TimeOK'
<1>1. /\ StageOK /\ MaxRetries \in Nat /\ TimeoutMs \in Nat \ {0} /\ RetryCap \in Nat \ {0}
      /\ attempts \in Nat /\ settled \in BOOLEAN
  BY ProbeAssumption DEF TypeOK, StageOK
<1>2. Budget(attempts) \in Int
      /\ Budget(attempts + 1) = Budget(attempts) + TimeoutMs + (RetryCap - 1)
  BY <1>1, BudgetOfOneMore
<1>3. CASE Quiet
  <2>1. UNCHANGED <<url, attempts, timer, elapsed>>
    BY <1>3 DEF Quiet, Elsewhere
  <2>2. stage' = stage \/ (stage = "probing" /\ stage' \in {"rejected", "crashed"})
    BY <1>3 DEF Quiet
  <2>3. StageOK'
    BY <2>1, <2>2, <1>1 DEF StageOK
  <2>4. LadderOK'
    <3> SUFFICES ASSUME stage' = "sleeping"
                 PROVE  settled' /\ result'.retryable /\ attempts' <= MaxRetries
      BY <2>3, <1>1 DEF LadderOK, StageOK
    <3>1. stage = "sleeping"
      BY <2>2
    <3>2. settled /\ result.retryable /\ attempts <= MaxRetries
      BY <3>1 DEF LadderOK
    <3>3. ~Retry
      BY <2>1, <1>1 DEF Retry
    <3> QED
      BY <3>2, <3>3, <2>1, DecidedStep
  <2>5. TimeOK'
    <3>1. Budget(attempts)' = Budget(attempts)
      BY <2>1 DEF Budget
    <3>2. CASE stage' = stage
      BY <3>1, <3>2, <2>1 DEF TimeOK
    <3>3. CASE stage = "probing" /\ stage' \in {"rejected", "crashed"}
      <4>1. elapsed + timer <= Budget(attempts) /\ elapsed \in Nat /\ timer \in Nat
        BY <3>3, <1>1 DEF TimeOK, StageOK
      <4>2. elapsed' <= Budget(attempts)'
        BY <4>1, <3>1, <2>1, <1>2
      <4> QED
        BY <4>2, <3>3 DEF TimeOK
    <3> QED
      BY <3>2, <3>3, <2>2
  <2> QED
    BY <2>3, <2>4, <2>5
<1>4. CASE Judge
  <2>1. UNCHANGED <<url, attempts, settled, result, elapsed>> /\ settled /\ stage = "probing"
    BY <1>4 DEF Judge
  <2>2. elapsed + timer <= Budget(attempts) /\ elapsed \in Nat /\ timer \in Nat
    BY <2>1, <1>1 DEF TimeOK, StageOK
  <2>3. Budget(attempts)' = Budget(attempts)
    BY <2>1 DEF Budget
  <2>4. CASE Answered \/ attempts > MaxRetries
    <3>1. stage' = "resolved" /\ timer' = timer
      BY <1>4, <2>4 DEF Judge
    <3>2. StageOK'
      BY <3>1, <2>1, <1>1 DEF StageOK
    <3>3. LadderOK'
      BY <3>1, <3>2, <1>1 DEF LadderOK, StageOK
    <3>4. elapsed' <= Budget(attempts)'
      BY <2>1, <2>2, <2>3, <1>2
    <3> QED
      BY <3>1, <3>2, <3>3, <3>4 DEF TimeOK
  <2>5. CASE ~(Answered \/ attempts > MaxRetries)
    <3>1. stage' = "sleeping" /\ timer' \in Backoffs(attempts - 1)
      BY <1>4, <2>5 DEF Judge
    <3>2. result.retryable /\ attempts <= MaxRetries
      BY <2>5, <1>1 DEF Answered
    <3>3. attempts - 1 \in 0..MaxRetries
      BY <1>1, <3>2 DEF StageOK
    <3>4. timer' \in Nat /\ timer' <= RetryCap - 1
      BY <3>1, <3>3, SleepsAreCapped
    <3>5. StageOK'
      BY <3>1, <3>4, <2>1, <1>1 DEF StageOK
    <3>6. LadderOK'
      BY <3>2, <3>5, <2>1, <1>1 DEF LadderOK, StageOK
    <3>7. elapsed' + timer' <= Budget(attempts)' + (RetryCap - 1)
      BY <2>1, <2>2, <2>3, <3>4, <1>1, <1>2
    <3> QED
      BY <3>1, <3>5, <3>6, <3>7 DEF TimeOK
  <2> QED
    BY <2>4, <2>5
<1>5. CASE Retry
  <2>1. /\ stage = "sleeping" /\ timer = 0 /\ stage' = "probing"
        /\ attempts' = attempts + 1 /\ timer' = TimeoutMs /\ url' = url /\ elapsed' = elapsed
    BY <1>5 DEF Retry
  <2>2. attempts <= MaxRetries /\ elapsed \in Nat /\ attempts \in 1..(MaxRetries + 1)
    BY <2>1, <1>1 DEF LadderOK, StageOK
  <2>3. StageOK'
    BY <2>1, <2>2, <1>1 DEF StageOK
  <2>4. LadderOK'
    BY <2>1, <2>2, <1>1 DEF LadderOK
  <2>5. elapsed + timer <= Budget(attempts) + (RetryCap - 1)
    BY <2>1 DEF TimeOK
  <2>6. Budget(attempts)' = Budget(attempts + 1)
    BY <2>1 DEF Budget
  <2>7. elapsed' + timer' <= Budget(attempts)'
    BY <2>1, <2>2, <2>5, <2>6, <1>1, <1>2
  <2> QED
    BY <2>1, <2>3, <2>4, <2>7 DEF TimeOK
<1>6. CASE PassTime
  <2>1. /\ timer > 0 /\ timer' = timer - 1 /\ elapsed' = elapsed + 1
        /\ UNCHANGED <<url, stage, attempts, settled, result>>
        /\ stage \in {"probing", "sleeping"}
    BY <1>6 DEF PassTime, Running
  <2>2. timer \in Nat /\ elapsed \in Nat
    BY <1>1 DEF StageOK
  <2>3. timer' \in Nat /\ elapsed' \in Nat /\ elapsed' + timer' = elapsed + timer
    BY <2>1, <2>2
  <2>4. StageOK'
    BY <2>1, <2>3, <1>1 DEF StageOK
  <2>5. LadderOK'
    BY <2>1 DEF LadderOK
  <2>6. Budget(attempts)' = Budget(attempts)
    BY <2>1 DEF Budget
  <2>7. TimeOK'
    BY <2>1, <2>3, <2>6 DEF TimeOK
  <2> QED
    BY <2>4, <2>5, <2>7
<1> QED
  BY <1>3, <1>4, <1>5, <1>6, StepKinds

-----------------------------------------------------------------------------
(* The check *)

\* A check begins with one attempt and the whole of its deadline ahead.
LEMMA ProbeInit == Init => ProbeInv
<1> SUFFICES ASSUME Init PROVE ProbeInv
  OBVIOUS
<1>1. /\ stage = "probing" /\ attempts = 1 /\ hops = <<>> /\ redirects = 0
      /\ settled = FALSE /\ result = NoResult /\ timer = TimeoutMs /\ elapsed = 0
      /\ url \in UrlKinds
  BY DEF Init
<1>2. MaxRetries \in Nat /\ MaxRedirects \in Nat /\ TimeoutMs \in Nat
      /\ RetryCap \in Nat
  BY ProbeAssumption
<1>3. result \in Result /\ Len(hops) = 0 /\ hops \in Seq(HopState)
  BY <1>1 DEF NoResult, Result
<1>4. TypeOK
  <2>1. attempts \in 1..(MaxRetries + 1) /\ redirects \in 0..MaxRedirects
        /\ Len(hops) <= MaxRedirects + 1 /\ timer \in Nat /\ elapsed \in Nat
    BY <1>1, <1>2, <1>3
  <2>2. settled \in BOOLEAN /\ stage = "probing" /\ url \in UrlKinds
    BY <1>1
  <2> QED
    BY <2>1, <2>2, <1>3 DEF TypeOK, HopState
<1>5. ChainOK /\ LadderOK /\ UpIsAnswered
  BY <1>1, <1>2, <1>3 DEF ChainOK, LadderOK, UpIsAnswered
<1>6. Budget(1) = TimeoutMs
  <2>1. PICK c \in Int : c = RetryCap - 1
    BY <1>2
  <2>2. (1 - 1) * c = 0 /\ 1 * TimeoutMs = TimeoutMs
    BY <1>2, <2>1
  <2> QED
    BY <1>2, <2>1, <2>2 DEF Budget
<1>7. TimeOK
  BY <1>1, <1>2, <1>6 DEF TimeOK
<1> QED
  BY <1>4, <1>5, <1>7 DEF ProbeInv

\* Every step keeps the invariant of the check.
LEMMA ProbeStep == ProbeInv /\ [Next]_vars => ProbeInv'
<1> SUFFICES ASSUME ProbeInv, [Next]_vars PROVE ProbeInv'
  OBVIOUS
<1>1. TypeOK /\ ChainOK /\ LadderOK /\ TimeOK /\ UpIsAnswered
  BY DEF ProbeInv
<1>2. AttemptOK' /\ redirects' \in 0..MaxRedirects /\ Len(hops') <= redirects' + 1
  BY <1>1, AttemptStep
<1>3. StageOK' /\ LadderOK' /\ TimeOK'
  BY <1>1, StageStep
<1>4. Len(hops') \in Nat /\ MaxRedirects \in Nat
  BY <1>2, ProbeAssumption DEF AttemptOK
<1>5. TypeOK'
  BY <1>2, <1>3, <1>4 DEF TypeOK, AttemptOK, StageOK, HopState
<1>6. ChainOK'
  BY <1>2 DEF AttemptOK, ChainOK
<1>7. UpIsAnswered'
  BY <1>2 DEF AttemptOK
<1> QED
  BY <1>3, <1>5, <1>6, <1>7 DEF ProbeInv

\* The chain of hops, the ladder of retries and the time of a check are sound whatever the
\* target does (monitor.service.js).
THEOREM ProbeInvariant == Spec => []ProbeInv
BY ProbeInit, ProbeStep, PTL DEF Spec

\* A target is up only on the word of the last hop of the chain: neither the body of a
\* followed redirect nor a late event can say so.
THEOREM UpIsTheLastHop == Spec => []UpIsAnswered
<1>1. ProbeInv => UpIsAnswered
  BY DEF ProbeInv
<1> QED
  BY <1>1, ProbeInvariant, PTL

\* Whatever settles an attempt, nothing outlives it but the bodies of the redirects it
\* followed: finish() destroys the request it was waiting for.
THEOREM NothingElseOutlives == Spec => []OnlyDrainsOutlive
<1>1. ProbeInv => OnlyDrainsOutlive
  <2> SUFFICES ASSUME ProbeInv, settled, NEW h \in DOMAIN hops
               PROVE  hops[h] = "closed" \/ (h < Current /\ hops[h] = "draining")
    BY DEF OnlyDrainsOutlive
  <2>1. h \in 1..Len(hops) /\ Len(hops) \in Nat /\ hops # <<>>
    BY DEF ProbeInv, TypeOK
  <2>2. CASE h < Len(hops)
    BY <2>1, <2>2 DEF ProbeInv, ChainOK, Current
  <2>3. CASE h = Len(hops)
    BY <2>1, <2>3 DEF ProbeInv, ChainOK
  <2> QED
    BY <2>1, <2>2, <2>3
<1> QED
  BY <1>1, ProbeInvariant, PTL

\* The deadline, a late error and the end of a body race to finish(): the first decides the
\* attempt, and no other changes its answer.
THEOREM AttemptsAreDecidedOnce == Spec => DecidedOnce
<1>1. ProbeInv /\ [Next]_vars => [settled /\ attempts' = attempts => result' = result /\ settled']_vars
  <2> SUFFICES ASSUME ProbeInv, [Next]_vars, settled, attempts' = attempts
               PROVE  result' = result /\ settled'
    OBVIOUS
  <2>1. TypeOK /\ attempts \in Nat
    BY ProbeAssumption DEF ProbeInv, TypeOK
  <2>2. ~Retry
    BY <2>1 DEF Retry
  <2> QED
    BY <2>1, <2>2, DecidedStep
<1> QED
  BY <1>1, ProbeInvariant, PTL DEF Spec, DecidedOnce

\* An answer that no retry would change is never asked for again.
THEOREM DurableAnswersAreFinal == Spec => AnswerIsFinal
<1>1. ProbeInv /\ [Next]_vars => [attempts' # attempts => result.retryable]_vars
  <2> SUFFICES ASSUME ProbeInv, [Next]_vars, attempts' # attempts
               PROVE  result.retryable
    OBVIOUS
  <2>1. Retry
    BY StepKinds DEF Quiet, Elsewhere, Judge, PassTime
  <2> QED
    BY <2>1 DEF Retry, ProbeInv, LadderOK
<1> QED
  BY <1>1, ProbeInvariant, PTL DEF Spec, AnswerIsFinal

\* A check lasts no longer than its attempts to their deadlines and the sleeps between
\* them at the cap, however many redirects and late events there are.
THEOREM ChecksAreBounded == Spec => []CheckIsBounded
<1>1. ProbeInv => CheckIsBounded
  <2> SUFFICES ASSUME ProbeInv PROVE elapsed <= LongestCheck
    BY DEF CheckIsBounded
  <2>1. /\ attempts \in 1..(MaxRetries + 1) /\ elapsed \in Nat /\ timer \in Nat
        /\ MaxRetries \in Nat /\ RetryCap \in Nat /\ TimeoutMs \in Nat
    BY ProbeAssumption DEF ProbeInv, TypeOK
  <2>2. Budget(attempts) \in Int
        /\ Budget(attempts + 1) = Budget(attempts) + TimeoutMs + (RetryCap - 1)
    BY <2>1, BudgetOfOneMore
  <2>3. LongestCheck = Budget(MaxRetries + 1) /\ LongestCheck \in Int
    BY LongestIsABudget
  <2>4. CASE stage = "sleeping"
    <3>1. attempts <= MaxRetries /\ elapsed + timer <= Budget(attempts) + (RetryCap - 1)
      BY <2>4 DEF ProbeInv, LadderOK, TimeOK
    <3>2. elapsed <= Budget(attempts + 1) /\ Budget(attempts + 1) \in Int
      BY <3>1, <2>1, <2>2
    <3>3. Budget(attempts + 1) <= Budget(MaxRetries + 1)
      BY <3>1, <2>1, BudgetGrows
    <3> QED
      BY <3>2, <3>3, <2>1, <2>3
  <2>5. CASE stage # "sleeping"
    <3>1. elapsed <= Budget(attempts)
      BY <2>1, <2>2, <2>5 DEF ProbeInv, TimeOK
    <3>2. Budget(attempts) <= Budget(MaxRetries + 1)
      BY <2>1, BudgetGrows
    <3> QED
      BY <3>1, <3>2, <2>1, <2>2, <2>3
  <2> QED
    BY <2>4, <2>5
<1> QED
  BY <1>1, ProbeInvariant, PTL

==============================================================================
