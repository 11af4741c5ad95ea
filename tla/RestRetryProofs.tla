---------------------------- MODULE RestRetryProofs ----------------------------
(***************************************************************************)
(* Proofs about RestRetry, for every set of calls, every retry policy and  *)
(* every server, and what they give the callers of the routes of Clients.  *)
(* They rest on RestAssumption alone.                                      *)
(***************************************************************************)
EXTENDS Clients, DataLemmas

(***************************************************************************)
(* The inductive invariant.  What the properties leave out is the state of *)
(* the exchange: how many copies can be about for the attempts made, and   *)
(* that a call which must not be replayed only goes on after answers that  *)
(* came from in front of the backend.                                      *)
(***************************************************************************)
Copies(c) == effects[c] + held[c]

\* Where the exchange stands at each place of the loop.
Exchange(c) ==
  /\ pc[c] = "idle" => wire[c] = Quiet /\ attempt[c] = 0
  /\ pc[c] = "sleeping" => wire[c] = Quiet /\ attempt[c] < TotalAttempts(request[c])
  /\ pc[c] \in {"waiting", "body", "sleeping"} => 1 <= attempt[c]
  /\ pc[c] # "done" => outcome[c].kind = "None"

\* A request on the wire has left no copy yet; every earlier one left at most one.
Load(c) == /\ Copies(c) <= attempt[c]
           /\ wire[c] = Sent => Copies(c) < attempt[c]

\* The last exchange ended in front of the backend.
NotDelivered(c) == \/ wire[c].kind = "unconnected"
                   \/ wire[c].kind = "answer" /\ wire[c].status = 429

\* A call that acts only goes on while nothing has been done for it.
Once(c) ==
  ActsOnce(request[c]) =>
    /\ Copies(c) <= 1
    /\ wire[c].kind \in {"quiet", "sent", "unconnected"} => Copies(c) = 0
    /\ wire[c].kind = "answer" /\ wire[c].status = 429 => Copies(c) = 0
    /\ Refused(c) => NotDelivered(c)

\* The pauses so far, one for every attempt but the one under way.
Pausing(c) ==
  /\ slept[c] <= attempt[c] * LongestPause(request[c])
  /\ pc[c] = "idle" => slept[c] = 0
  /\ pc[c] \in {"waiting", "body"} => slept[c] <= (attempt[c] - 1) * LongestPause(request[c])
  /\ slept[c] <= request[c].attempts * LongestPause(request[c])

\* A call that ends on a status that is retried has no retries left, or acts.
Spent(c) ==
  /\ outcome[c].kind = "Api" /\ ShouldRetry(outcome[c].status) => ActsOnce(request[c])
  /\ outcome[c].kind = "RetriesExhausted" => attempt[c] = TotalAttempts(request[c])

LocalInv(c) == Exchange(c) /\ Load(c) /\ Once(c) /\ Pausing(c) /\ Spent(c)

IInv == TypeOK /\ \A c \in Calls : LocalInv(c)

(***************************************************************************)
(* Arithmetic and the operators of the policy.                             *)
(***************************************************************************)
\* Products of naturals are monotone, and step by their factor.
LEMMA Products ==
  ASSUME NEW a \in Nat, NEW b \in Nat, NEW l \in Nat
  PROVE  /\ a <= b => a * l <= b * l
         /\ (a + 1 - 1) * l = a * l
         /\ a * l \in Nat
         /\ 1 <= a => (a - 1) * l + l = a * l /\ (a - 1) * l \in Nat
OBVIOUS

\* The loop runs at least once and at most RetryConfig.attempts + 1 times.
LEMMA Budget ==
  ASSUME NEW r \in Requests
  PROVE  /\ TotalAttempts(r) \in Nat
         /\ 1 <= TotalAttempts(r)
         /\ TotalAttempts(r) <= r.attempts + 1
         /\ r.attempts \in Nat
BY RestAssumption DEF TotalAttempts, SaturatingInc

LEMMA LongestPauseType ==
  ASSUME NEW r \in Requests
  PROVE  LongestPause(r) \in Nat /\ RetryAfterCap(r) \in Nat
BY RestAssumption DEF LongestPause, RetryAfterCap

\* Every pause the loop draws is a natural within the configuration's own bound.
LEMMA PauseBound ==
  ASSUME NEW r \in Requests, NEW answer \in Answers, NEW failures \in Nat,
         NEW d \in Pauses(r, answer, failures)
  PROVE  d \in Nat /\ d <= LongestPause(r)
<1>1. CASE answer.retryAfter = NoHeader
  <2>1. d \in Delays(r, failures)
    BY <1>1 DEF Pauses
  <2>2. CASE r.backoff = "Flat"
    BY <2>1, <2>2, RestAssumption DEF Delays, LongestPause, RetryAfterCap
  <2>3. CASE r.backoff = "Exponential"
    BY <2>1, <2>3, RestAssumption DEF Delays, ReconnectDelays, LongestPause, RetryAfterCap
  <2> QED
    BY <2>2, <2>3, RestAssumption
<1>2. CASE answer.retryAfter # NoHeader
  <2>1. answer.retryAfter \in Nat
    BY <1>2, RestAssumption DEF Answers
  <2>2. d = Least(answer.retryAfter, RetryAfterCap(r))
    BY <1>2 DEF Pauses
  <2>3. d \in Nat /\ d <= RetryAfterCap(r)
    BY <2>1, <2>2, LongestPauseType DEF Least
  <2> QED
    BY <2>3, LongestPauseType, RestAssumption DEF LongestPause
<1> QED
  BY <1>1, <1>2

(***************************************************************************)
(* Types.                                                                  *)
(***************************************************************************)
LEMMA TypeStep ==
  ASSUME TypeOK, \A c \in Calls : Exchange(c), [Next]_vars
  PROVE  TypeOK'
<1>1. CASE UNCHANGED vars
  BY <1>1 DEF TypeOK, vars, client, server
<1>2. ASSUME NEW c \in Calls, NEW o \in Outcomes, Finish(c, o) PROVE TypeOK'
  BY <1>2 DEF TypeOK, Finish, server, PCs
<1>3. ASSUME NEW c \in Calls, ClientStep(c) PROVE TypeOK'
  <2>1. CASE Start(c)
    BY <2>1, Budget DEF TypeOK, Start, server, PCs
  <2>2. CASE SendFails(c)
    BY <2>2, <1>2 DEF SendFails, Outcomes
  <2>3. CASE Succeed(c)
    BY <2>3 DEF TypeOK, Succeed, server, PCs
  <2>4. CASE ReadBody(c)
    BY <2>4, <1>2 DEF ReadBody, Outcomes
  <2>5. CASE Reject(c)
    <3>1. wire[c].status \in Statuses
      BY <2>5 DEF Reject, Answered, TypeOK, Quiet, Sent, Lost, Unconnected, Answers
    <3> QED
      BY <3>1, <2>5, <1>2 DEF Reject, Outcomes
  <2>6. CASE Exhaust(c)
    BY <2>6, <1>2 DEF Exhaust, Outcomes
  <2>7. CASE BackOff(c)
    <3>1. wire[c] \in Answers /\ attempt[c] \in Nat
      BY <2>7, Budget DEF BackOff, Answered, TypeOK, Quiet, Sent, Lost, Unconnected, Answers
    <3>2. PICK d \in Pauses(request[c], wire[c], attempt[c]) :
            /\ delay' = [delay EXCEPT ![c] = d]
            /\ slept' = [slept EXCEPT ![c] = @ + d]
      BY <2>7 DEF BackOff
    <3>3. request[c] \in Requests
      BY DEF TypeOK
    <3>4. d \in Nat
      BY <3>1, <3>2, <3>3, PauseBound
    <3> QED
      BY <2>7, <3>2, <3>4 DEF BackOff, TypeOK, server, PCs
  <2>8. CASE Resend(c)
    <3>1. attempt[c] + 1 \in 0..TotalAttempts(request[c])
      BY <2>8, Budget DEF TypeOK, Resend, Exchange
    <3> QED
      BY <2>8, <3>1 DEF TypeOK, Resend, server, PCs
  <2> QED
    BY <1>3, <2>1, <2>2, <2>3, <2>4, <2>5, <2>6, <2>7, <2>8 DEF ClientStep
<1>4. ASSUME NEW c \in Calls, Drop(c) PROVE TypeOK'
  BY <1>4, <1>2 DEF Drop, Outcomes
<1>5. ASSUME NEW c \in Calls, ServerStep(c) PROVE TypeOK'
  <2>1. CASE RateLimit(c)
    BY <2>1 DEF TypeOK, RateLimit, client, server, Answer, Answers
  <2>2. CASE Accept(c)
    BY <2>2 DEF TypeOK, Accept, client, Answer, Answers
  <2>3. CASE Break(c)
    BY <2>3 DEF TypeOK, Break, client
  <2>4. CASE CarryOut(c)
    BY <2>4 DEF TypeOK, CarryOut, client
  <2>5. CASE Discard(c)
    BY <2>5 DEF TypeOK, Discard, client
  <2>6. CASE Unreachable(c)
    BY <2>6 DEF TypeOK, Unreachable, client, server
  <2> QED
    BY <1>5, <2>1, <2>2, <2>3, <2>4, <2>5, <2>6 DEF ServerStep
<1> QED
  BY <1>1, <1>3, <1>4, <1>5 DEF Next

(***************************************************************************)
(* Calls do not disturb one another.                                       *)
(***************************************************************************)
Step(c) == ClientStep(c) \/ Drop(c) \/ ServerStep(c)

\* What LocalInv(d) reads.
SameFor(d) ==
  /\ request'[d] = request[d] /\ pc'[d] = pc[d] /\ attempt'[d] = attempt[d]
  /\ slept'[d] = slept[d] /\ outcome'[d] = outcome[d] /\ wire'[d] = wire[d]
  /\ Copies(d)' = Copies(d)

LEMMA Frame ==
  ASSUME NEW d \in Calls, LocalInv(d), SameFor(d)
  PROVE  LocalInv(d)'
BY DEF LocalInv, SameFor, Exchange, Load, Once, Pausing, Spent, Refused, NotDelivered, ActsOnce, TotalAttempts

LEMMA OthersUnchanged ==
  ASSUME TypeOK, NEW c \in Calls, NEW d \in Calls, d # c, Step(c)
  PROVE  SameFor(d)
<1> USE DEF TypeOK, SameFor, Copies, client, server
<1>1. CASE ClientStep(c)
  <2>1. ASSUME NEW o, Finish(c, o) PROVE SameFor(d)
    BY <2>1 DEF Finish
  <2>2. CASE Start(c)
    BY <2>2 DEF Start
  <2>3. CASE SendFails(c)
    BY <2>3, <2>1 DEF SendFails
  <2>4. CASE Succeed(c)
    BY <2>4 DEF Succeed
  <2>5. CASE ReadBody(c)
    BY <2>5, <2>1 DEF ReadBody
  <2>6. CASE Reject(c)
    BY <2>6, <2>1 DEF Reject
  <2>7. CASE Exhaust(c)
    BY <2>7, <2>1 DEF Exhaust
  <2>8. CASE BackOff(c)
    BY <2>8 DEF BackOff
  <2>9. CASE Resend(c)
    BY <2>9 DEF Resend
  <2> QED
    BY <1>1, <2>2, <2>3, <2>4, <2>5, <2>6, <2>7, <2>8, <2>9 DEF ClientStep
<1>2. CASE Drop(c)
  BY <1>2 DEF Drop, Finish
<1>3. CASE ServerStep(c)
  BY <1>3 DEF ServerStep, RateLimit, Accept, Unreachable, Break, CarryOut, Discard
<1> QED
  BY <1>1, <1>2, <1>3 DEF Step

(***************************************************************************)
(* A call's own steps.                                                     *)
(***************************************************************************)
\* Returning an outcome disturbs the invariant only through what it tells the
\* caller.
LEMMA FinishStep ==
  ASSUME TypeOK, NEW c \in Calls, NEW o \in Outcomes, LocalInv(c), Finish(c, o),
         pc[c] \in {"waiting", "body", "sleeping"},
         ActsOnce(request[c]) /\ Refused(c)' => NotDelivered(c),
         o.kind = "Api" /\ ShouldRetry(o.status) => ActsOnce(request[c]),
         o.kind = "RetriesExhausted" => attempt[c] = TotalAttempts(request[c])
  PROVE  LocalInv(c)'
<1>1. /\ pc'[c] = "done" /\ outcome'[c] = o
      /\ request'[c] = request[c] /\ attempt'[c] = attempt[c]
      /\ slept'[c] = slept[c] /\ wire'[c] = wire[c] /\ Copies(c)' = Copies(c)
  BY DEF Finish, TypeOK, server, Copies
<1>2. Exchange(c)' /\ Load(c)' /\ Pausing(c)'
  BY <1>1 DEF LocalInv, Exchange, Load, Pausing
<1>3. Once(c)'
  BY <1>1 DEF LocalInv, Once, ActsOnce, NotDelivered
<1>4. Spent(c)'
  BY <1>1 DEF Spent, ActsOnce, TotalAttempts
<1> QED
  BY <1>2, <1>3, <1>4 DEF LocalInv

\* What may be repeated is retried whenever the policy retries the status.
LEMMA OthersAreRetried ==
  ASSUME NEW c \in Calls, request[c] \in Requests, ShouldRetry(wire[c].status), ~Retryable(c)
  PROVE  ActsOnce(request[c])
BY RestAssumption DEF ActsOnce, Retryable, ReplayIsSafe, IsIdempotent

\* A call that acts goes on only after the rate limiter's answer.
LEMMA OnlyRateLimited ==
  ASSUME NEW c \in Calls, request[c] \in Requests, ActsOnce(request[c]), Retryable(c)
  PROVE  wire[c].status = 429
BY RestAssumption DEF ActsOnce, Retryable, ReplayIsSafe, IsIdempotent

LEMMA ClientOwnStep ==
  ASSUME TypeOK, NEW c \in Calls, LocalInv(c), ClientStep(c)
  PROVE  LocalInv(c)'
<1>0. request[c] \in Requests
  BY DEF TypeOK
<1>1. CASE Start(c)
  <2>1. /\ pc'[c] = "waiting" /\ attempt'[c] = 1 /\ wire'[c] = Sent
        /\ request'[c] = request[c] /\ slept'[c] = slept[c] /\ outcome'[c] = outcome[c]
        /\ Copies(c)' = Copies(c)
    BY <1>1 DEF Start, TypeOK, server, Copies
  <2>2. Copies(c) = 0 /\ slept[c] = 0 /\ outcome[c].kind = "None"
    BY <1>1 DEF Start, LocalInv, Exchange, Load, Pausing, TypeOK, Copies
  <2>3. 0 <= LongestPause(request[c]) /\ 0 * LongestPause(request[c]) = 0 /\ 0 <= request[c].attempts * LongestPause(request[c])
    BY <1>0, LongestPauseType, Budget, Products
  <2>4. Exchange(c)' /\ Load(c)' /\ Once(c)' /\ Spent(c)'
    BY <2>1, <2>2 DEF Exchange, Load, Once, Spent, Refused, Sent, Quiet
  <2>5. Pausing(c)'
    BY <1>0, <2>1, <2>2, <2>3, LongestPauseType DEF Pausing
  <2> QED
    BY <2>4, <2>5 DEF LocalInv
<1>2. CASE SendFails(c)
  <2>1. [kind |-> "Transport"] \in Outcomes /\ [kind |-> "Connect"] \in Outcomes
    BY DEF Outcomes
  <2>2. CASE wire[c] = Unconnected /\ Finish(c, [kind |-> "Connect"])
    <3>1. NotDelivered(c)
      BY <2>2 DEF NotDelivered, Unconnected
    <3> QED
      BY <1>2, <2>1, <2>2, <3>1, FinishStep DEF SendFails
  <2>3. CASE Finish(c, [kind |-> "Transport"])
    <3>1. ~Refused(c)'
      BY <2>3 DEF Finish, Refused, TypeOK
    <3> QED
      BY <1>2, <2>1, <2>3, <3>1, FinishStep DEF SendFails
  <2> QED
    BY <1>2, <2>2, <2>3 DEF SendFails
<1>3. CASE Succeed(c)
  <2>1. /\ pc'[c] = "body" /\ attempt'[c] = attempt[c] /\ wire'[c] = wire[c]
        /\ request'[c] = request[c] /\ slept'[c] = slept[c] /\ outcome'[c] = outcome[c]
        /\ Copies(c)' = Copies(c)
    BY <1>3 DEF Succeed, TypeOK, server, Copies
  <2> QED
    BY <1>3, <2>1 DEF Succeed, Answered, LocalInv, Exchange, Load, Once, Pausing, Spent, Refused, NotDelivered
<1>4. CASE ReadBody(c)
  <2>1. PICK k \in {"Ok", "Decode", "Transport"} : Finish(c, [kind |-> k])
    BY <1>4 DEF ReadBody
  <2>2. [kind |-> k] \in Outcomes
    BY DEF Outcomes
  <2>3. ~Refused(c)'
    BY <2>1 DEF Finish, Refused, TypeOK
  <2> QED
    BY <1>4, <2>1, <2>2, <2>3, FinishStep DEF ReadBody
<1>5. CASE Reject(c)
  <2> DEFINE o == [kind |-> "Api", status |-> wire[c].status]
  <2>1. wire[c].status \in Statuses
    BY <1>5 DEF Reject, Answered, TypeOK, Quiet, Sent, Lost, Unconnected, Answers
  <2>2. o \in Outcomes
    BY <2>1 DEF Outcomes
  <2>3. Refused(c)' => wire[c].status = 429
    BY <1>5 DEF Reject, Finish, Refused, TypeOK
  <2>4. ShouldRetry(o.status) => ActsOnce(request[c])
    BY <1>0, <1>5, OthersAreRetried DEF Reject
  <2> QED
    BY <1>5, <2>2, <2>3, <2>4, FinishStep DEF Reject, Answered, NotDelivered
<1>6. CASE Exhaust(c)
  <2>1. [kind |-> "RetriesExhausted"] \in Outcomes
    BY DEF Outcomes
  <2>2. ActsOnce(request[c]) => wire[c].status = 429
    BY <1>0, <1>6, OnlyRateLimited DEF Exhaust
  <2> QED
    BY <1>6, <2>1, <2>2, FinishStep DEF Exhaust, Answered, NotDelivered
<1>7. CASE BackOff(c)
  <2>1. wire[c] \in Answers /\ attempt[c] \in Nat /\ attempt[c] < TotalAttempts(request[c])
    BY <1>0, <1>7, Budget DEF BackOff, Answered, TypeOK, Quiet, Sent, Lost, Unconnected, Answers
  <2>2. PICK d \in Pauses(request[c], wire[c], attempt[c]) :
          /\ delay' = [delay EXCEPT ![c] = d]
          /\ slept' = [slept EXCEPT ![c] = @ + d]
    BY <1>7 DEF BackOff
  <2>3. d \in Nat /\ d <= LongestPause(request[c])
    BY <1>0, <2>1, PauseBound
  <2>4. /\ pc'[c] = "sleeping" /\ attempt'[c] = attempt[c] /\ wire'[c] = Quiet
        /\ request'[c] = request[c] /\ slept'[c] = slept[c] + d /\ outcome'[c] = outcome[c]
        /\ Copies(c)' = Copies(c)
    BY <1>7, <2>2 DEF BackOff, TypeOK, server, Copies
  <2>5. Exchange(c)' /\ Load(c)' /\ Spent(c)'
    BY <1>7, <2>1, <2>4 DEF BackOff, Answered, LocalInv, Exchange, Load, Spent, Quiet, Sent
  <2>6. Once(c)'
    <3>1. ActsOnce(request[c]) => Copies(c) = 0
      BY <1>0, <1>7, OnlyRateLimited DEF BackOff, Answered, LocalInv, Once
    <3>2. outcome[c].kind = "None"
      BY <1>7 DEF BackOff, Answered, LocalInv, Exchange
    <3> QED
      BY <2>4, <3>1, <3>2 DEF Once, Refused, Quiet
  <2>7. Pausing(c)'
    <3>1. slept[c] \in Nat /\ slept[c] <= (attempt[c] - 1) * LongestPause(request[c]) /\ 1 <= attempt[c]
      BY <1>7 DEF BackOff, Answered, LocalInv, Exchange, Pausing, TypeOK
    <3>2. /\ (attempt[c] - 1) * LongestPause(request[c]) + LongestPause(request[c]) = attempt[c] * LongestPause(request[c])
          /\ (attempt[c] - 1) * LongestPause(request[c]) \in Nat
          /\ attempt[c] * LongestPause(request[c]) \in Nat
      BY <1>0, <2>1, <3>1, LongestPauseType, Products
    <3>3. slept[c] + d <= attempt[c] * LongestPause(request[c])
      BY <1>0, <2>3, <3>1, <3>2, LongestPauseType
    <3>4. attempt[c] <= request[c].attempts
      BY <1>0, <2>1, Budget
    <3>5. /\ attempt[c] * LongestPause(request[c]) <= request[c].attempts * LongestPause(request[c])
          /\ request[c].attempts * LongestPause(request[c]) \in Nat
      BY <1>0, <2>1, <3>4, Budget, LongestPauseType, Products
    <3> QED
      BY <2>3, <2>4, <3>1, <3>2, <3>3, <3>5 DEF Pausing
  <2> QED
    BY <2>5, <2>6, <2>7 DEF LocalInv
<1>8. CASE Resend(c)
  <2>1. attempt[c] \in Nat /\ 1 <= attempt[c] /\ attempt[c] < TotalAttempts(request[c])
    BY <1>0, <1>8, Budget DEF Resend, LocalInv, Exchange, TypeOK
  <2>2. /\ pc'[c] = "waiting" /\ attempt'[c] = attempt[c] + 1 /\ wire'[c] = Sent
        /\ request'[c] = request[c] /\ slept'[c] = slept[c] /\ outcome'[c] = outcome[c]
        /\ Copies(c)' = Copies(c) /\ Copies(c) \in Nat
    BY <1>8 DEF Resend, TypeOK, server, Copies
  <2>3. Exchange(c)' /\ Load(c)' /\ Spent(c)'
    BY <1>0, <1>8, <2>1, <2>2, Budget DEF Resend, LocalInv, Exchange, Load, Spent, Sent
  <2>4. Once(c)'
    BY <1>8, <2>2 DEF Resend, LocalInv, Exchange, Once, Refused, Sent, Quiet
  <2>5. Pausing(c)'
    <3>1. /\ (attempt[c] + 1 - 1) * LongestPause(request[c]) = attempt[c] * LongestPause(request[c])
          /\ attempt[c] * LongestPause(request[c]) <= (attempt[c] + 1) * LongestPause(request[c])
          /\ attempt[c] * LongestPause(request[c]) \in Nat /\ (attempt[c] + 1) * LongestPause(request[c]) \in Nat
      BY <1>0, <2>1, LongestPauseType, Products
    <3>2. slept[c] \in Nat
      BY DEF TypeOK
    <3> QED
      BY <1>8, <2>1, <2>2, <3>1, <3>2 DEF Resend, LocalInv, Pausing
  <2> QED
    BY <2>3, <2>4, <2>5 DEF LocalInv
<1> QED
  BY <1>1, <1>2, <1>3, <1>4, <1>5, <1>6, <1>7, <1>8 DEF ClientStep

LEMMA ServerOwnStep ==
  ASSUME TypeOK, NEW c \in Calls, LocalInv(c), ServerStep(c)
  PROVE  LocalInv(c)'
<1>1. /\ pc'[c] = pc[c] /\ attempt'[c] = attempt[c] /\ slept'[c] = slept[c]
      /\ outcome'[c] = outcome[c] /\ request'[c] = request[c]
  BY DEF ServerStep, RateLimit, Accept, Unreachable, Break, CarryOut, Discard, client
<1>2. held[c] \in Nat /\ effects[c] \in Nat /\ Copies(c) \in Nat /\ attempt[c] \in Nat
  BY Budget DEF TypeOK, Copies
<1>3. Pausing(c)' /\ Spent(c)'
  BY <1>1 DEF LocalInv, Pausing, Spent, ActsOnce, TotalAttempts
<1>4. CASE RateLimit(c)
  <2>1. Copies(c)' = Copies(c) /\ wire[c] = Sent
    BY <1>4 DEF RateLimit, server, Copies
  <2>2. PICK ra \in RetryAfters \cup {NoHeader} : wire'[c] = Answer(429, ra)
    BY <1>4 DEF RateLimit, TypeOK
  <2> QED
    BY <1>1, <1>2, <1>3, <2>1, <2>2
    DEF LocalInv, Exchange, Load, Once, Refused, NotDelivered, Sent, Quiet, Answer
<1>5. CASE Accept(c)
  <2>1. Copies(c)' = Copies(c) + 1 /\ wire[c] = Sent
    BY <1>5, <1>2 DEF Accept, TypeOK, Copies
  <2>2. PICK s \in Statuses \ {429}, ra \in RetryAfters \cup {NoHeader} :
          wire'[c] = Answer(s, ra)
    BY <1>5 DEF Accept, TypeOK
  <2> QED
    BY <1>1, <1>2, <1>3, <2>1, <2>2
    DEF LocalInv, Exchange, Load, Once, Refused, NotDelivered, Sent, Quiet, Answer
<1>6. CASE Break(c)
  <2>1. Copies(c)' \in {Copies(c), Copies(c) + 1} /\ wire[c] = Sent /\ wire'[c] = Lost
    BY <1>6, <1>2 DEF Break, TypeOK, Copies
  <2> QED
    BY <1>1, <1>2, <1>3, <2>1
    DEF LocalInv, Exchange, Load, Once, Refused, NotDelivered, Sent, Quiet, Lost
<1>7. CASE CarryOut(c)
  <2>1. Copies(c)' = Copies(c) /\ wire'[c] = wire[c]
    BY <1>7, <1>2 DEF CarryOut, TypeOK, Copies
  <2> QED
    BY <1>1, <2>1, Frame DEF SameFor
<1>8. CASE Discard(c)
  <2>1. Copies(c)' = Copies(c) - 1 /\ wire'[c] = wire[c] /\ Copies(c) > 0
    BY <1>8, <1>2 DEF Discard, TypeOK, Copies
  <2> QED
    BY <1>1, <1>2, <1>3, <2>1 DEF LocalInv, Exchange, Load, Once, Refused, NotDelivered
<1>9. CASE Unreachable(c)
  <2>1. Copies(c)' = Copies(c) /\ wire[c] = Sent /\ wire'[c] = Unconnected
    BY <1>9 DEF Unreachable, server, TypeOK, Copies
  <2> QED
    BY <1>1, <1>2, <1>3, <2>1
    DEF LocalInv, Exchange, Load, Once, Refused, NotDelivered, Sent, Quiet, Unconnected
<1> QED
  BY <1>4, <1>5, <1>6, <1>7, <1>8, <1>9 DEF ServerStep

(***************************************************************************)
(* The theorems.                                                           *)
(***************************************************************************)
LEMMA InitInv == Init => IInv
<1> SUFFICES ASSUME Init PROVE IInv
  OBVIOUS
<1>1. TypeOK
  BY Budget DEF Init, TypeOK, PCs, Outcomes
<1>2. ASSUME NEW c \in Calls PROVE LocalInv(c)
  <2>1. request[c] \in Requests
    BY DEF Init
  <2>2. 0 * LongestPause(request[c]) = 0 /\ 0 <= request[c].attempts * LongestPause(request[c])
    BY <2>1, LongestPauseType, Budget, Products
  <2> QED
    BY <2>1, <2>2, Budget
    DEF Init, LocalInv, Exchange, Load, Once, Pausing, Spent, Refused, NotDelivered, Copies, Quiet, Sent
<1> QED
  BY <1>1, <1>2 DEF IInv

LEMMA NextInv == IInv /\ [Next]_vars => IInv'
<1> SUFFICES ASSUME IInv, [Next]_vars PROVE IInv'
  OBVIOUS
<1>1. TypeOK'
  BY TypeStep DEF IInv, LocalInv
<1>2. ASSUME NEW d \in Calls PROVE LocalInv(d)'
  <2>1. CASE UNCHANGED vars
    <3>1. SameFor(d)
      BY <2>1 DEF SameFor, vars, client, server, Copies
    <3> QED
      BY <3>1, Frame DEF IInv
  <2>2. ASSUME NEW c \in Calls, Step(c) PROVE LocalInv(d)'
    <3>1. CASE d # c
      BY <2>2, <3>1, OthersUnchanged, Frame DEF IInv
    <3>2. CASE d = c /\ ClientStep(d)
      BY <3>2, ClientOwnStep DEF IInv
    <3>3. CASE d = c /\ Drop(d)
      <4>1. [kind |-> "Dropped"] \in Outcomes
        BY DEF Outcomes
      <4>2. ~Refused(d)'
        BY <3>3 DEF Drop, Finish, Refused, IInv, TypeOK
      <4> QED
        BY <3>3, <4>1, <4>2, FinishStep DEF Drop, IInv
    <3>4. CASE d = c /\ ServerStep(d)
      BY <3>4, ServerOwnStep DEF IInv
    <3> QED
      BY <2>2, <3>1, <3>2, <3>3, <3>4 DEF Step
  <2> QED
    BY <2>1, <2>2 DEF Next, Step
<1> QED
  BY <1>1, <1>2 DEF IInv

THEOREM Inductive == Spec => []IInv
BY InitInv, NextInv, PTL DEF Spec

\* The types of all variables, in particular that the loop never goes beyond
\* its budget of attempts.
THEOREM TypeCorrect == Spec => []TypeOK
<1>1. IInv => TypeOK
  BY DEF IInv
<1> QED
  BY <1>1, Inductive, PTL

\* An order is placed at most once by one call, whatever statuses are retried,
\* lost or delayed: the replay policy of rest.rs.
THEOREM OrdersPlacedOnce == Spec => []AtMostOnce
<1>1. IInv => AtMostOnce
  BY DEF IInv, LocalInv, Once, AtMostOnce, Copies, TypeOK
<1> QED
  BY <1>1, Inductive, PTL

\* A read is not given up, nor anything else that may be repeated, before the
\* retries its policy grants are used up.
THEOREM NothingGivenUpEarly == Spec => []RetriesAreUsed
<1>1. IInv => RetriesAreUsed
  BY DEF IInv, LocalInv, Spent, RetriesAreUsed
<1> QED
  BY <1>1, Inductive, PTL

\* RetriesExhausted, a final 429 or a failure to connect on an order means it was
\* never placed and never will be.
THEOREM RefusalIsFinal == Spec => []RefusedMeansNothingDone
<1>1. IInv => RefusedMeansNothingDone
  BY DEF IInv, LocalInv, Once, NotDelivered, RefusedMeansNothingDone, Copies
<1> QED
  BY <1>1, Inductive, PTL

\* No call costs the backend more than RetryConfig.attempts + 1 requests.
THEOREM LoadIsBounded == Spec => []BoundedLoad
<1>1. IInv => BoundedLoad
  <2> SUFFICES ASSUME IInv, NEW c \in Calls PROVE effects[c] + held[c] <= request[c].attempts + 1
    BY DEF BoundedLoad
  <2>1. request[c] \in Requests
    BY DEF IInv, TypeOK
  <2>2. attempt[c] \in Nat /\ attempt[c] <= TotalAttempts(request[c]) /\ effects[c] + held[c] \in Nat
    BY DEF IInv, TypeOK
  <2> QED
    BY <2>1, <2>2, Budget DEF IInv, LocalInv, Load, Copies
<1> QED
  BY <1>1, Inductive, PTL

\* No server keeps a caller asleep beyond what the configuration asks for.
THEOREM SleepIsBounded == Spec => []SleepBounded
<1>1. IInv => SleepBounded
  BY DEF IInv, LocalInv, Pausing, SleepBounded
<1> QED
  BY <1>1, Inductive, PTL

\* The retry policy is neither exceeded nor withheld: the three facts above are
\* what the configuration means to a caller.
THEOREM PolicyIsKept == Spec => []RetryPolicyKept
BY NothingGivenUpEarly, LoadIsBounded, SleepIsBounded, PTL DEF RetryPolicyKept

(***************************************************************************)
(* The refinement.                                                         *)
(***************************************************************************)
\* A client step only tells the caller something; the backend's only carries
\* the request out.
LEMMA ClientTells ==
  ASSUME IInv, IInv', NEW c \in Calls, ClientStep(c) \/ Drop(c)
  PROVE  \/ UNCHANGED <<request, effects, pc, outcome>>
         \/ /\ UNCHANGED <<request, effects>>
            /\ pc[c] # "done" /\ pc'[c] # "done"
            /\ \A d \in Calls \ {c} : pc'[d] = pc[d] /\ outcome'[d] = outcome[d]
         \/ /\ UNCHANGED <<request, effects>>
            /\ pc[c] # "done" /\ pc'[c] = "done"
            /\ \A d \in Calls \ {c} : pc'[d] = pc[d] /\ outcome'[d] = outcome[d]
<1> USE DEF IInv, TypeOK, server
<1>1. ASSUME NEW o, Finish(c, o), pc[c] # "done"
      PROVE  /\ UNCHANGED <<request, effects>>
             /\ pc[c] # "done" /\ pc'[c] = "done"
             /\ \A d \in Calls \ {c} : pc'[d] = pc[d] /\ outcome'[d] = outcome[d]
  BY <1>1 DEF Finish
<1>2. CASE Start(c) \/ Succeed(c) \/ BackOff(c) \/ Resend(c)
  BY <1>2 DEF Start, Succeed, BackOff, Resend, Answered
<1>3. CASE SendFails(c)
  BY <1>3, <1>1 DEF SendFails
<1>4. CASE ReadBody(c)
  BY <1>4, <1>1 DEF ReadBody
<1>5. CASE Reject(c)
  BY <1>5, <1>1 DEF Reject, Answered
<1>6. CASE Exhaust(c)
  BY <1>6, <1>1 DEF Exhaust, Answered
<1>7. CASE Drop(c)
  BY <1>7, <1>1 DEF Drop
<1> QED
  BY <1>2, <1>3, <1>4, <1>5, <1>6, <1>7 DEF ClientStep

\* The retry loop implements the promise of EffectOnce.
THEOREM Refinement == Spec => ImplementsEffectOnce
<1>1. Init => Promise!AbsInit
  <2> SUFFICES ASSUME Init PROVE Promise!AbsInit
    OBVIOUS
  <2>1. \A c \in Calls : ActsOnce(request[c]) \in BOOLEAN
    BY DEF ActsOnce
  <2>2. [c \in Calls |-> ActsOnce(request[c])] \in [Calls -> BOOLEAN]
    BY <2>1, Zenon
  <2>3. [c \in Calls |-> Told(c)] = [c \in Calls |-> "none"]
    BY DEF Init, Told
  <2> QED
    BY <2>2, <2>3 DEF Init, Promise!AbsInit
<1>2. IInv /\ IInv' /\ [Next]_vars => [Promise!AbsNext]_(Promise!absVars)
  <2> SUFFICES ASSUME IInv, IInv', [Next]_vars
               PROVE  [Promise!AbsNext]_(Promise!absVars)
    OBVIOUS
  <2>1. CASE UNCHANGED vars
    BY <2>1 DEF vars, client, server, Promise!absVars, Told, Refused
  <2>2. ASSUME NEW c \in Calls, ClientStep(c) \/ Drop(c)
        PROVE  [Promise!AbsNext]_(Promise!absVars)
    <3>1. CASE UNCHANGED <<request, effects, pc, outcome>>
      BY <3>1 DEF Promise!absVars, Told, Refused
    <3>2. CASE /\ UNCHANGED <<request, effects>>
               /\ pc[c] # "done" /\ pc'[c] # "done"
               /\ \A d \in Calls \ {c} : pc'[d] = pc[d] /\ outcome'[d] = outcome[d]
      <4>1. \A d \in Calls : Told(d)' = Told(d)
        BY <3>2 DEF Told, Refused
      <4> QED
        BY <3>2, <4>1 DEF Promise!absVars
    <3>3. CASE /\ UNCHANGED <<request, effects>>
               /\ pc[c] # "done" /\ pc'[c] = "done"
               /\ \A d \in Calls \ {c} : pc'[d] = pc[d] /\ outcome'[d] = outcome[d]
      <4>1. Told(c) = "none" /\ \A d \in Calls \ {c} : Told(d)' = Told(d)
        BY <3>3 DEF Told, Refused
      <4>2. Told(c)' \in {"ok", "refused", "unknown"}
        BY <3>3 DEF Told
      <4>3. Told(c)' = "refused" => effects[c] = 0
        BY <3>3 DEF Told, IInv, LocalInv, Once, NotDelivered, Copies, TypeOK
      <4>4. Promise!Return(c, Told(c)')
        BY <3>3, <4>1, <4>2, <4>3 DEF Promise!Return
      <4> QED
        BY <4>2, <4>4 DEF Promise!AbsNext
    <3> QED
      BY <2>2, <3>1, <3>2, <3>3, ClientTells
  <2>3. ASSUME NEW c \in Calls, ServerStep(c)
        PROVE  [Promise!AbsNext]_(Promise!absVars)
    <3>1. request' = request /\ \A d \in Calls : Told(d)' = Told(d)
      BY <2>3 DEF ServerStep, RateLimit, Accept, Unreachable, Break, CarryOut, Discard, client, Told, Refused
    <3>2. CASE RateLimit(c) \/ Accept(c) \/ Unreachable(c) \/ Break(c) \/ Discard(c)
      BY <3>1, <3>2 DEF RateLimit, Accept, Unreachable, Break, Discard, server, Promise!absVars
    <3>3. CASE CarryOut(c)
      <4>1. held[c] \in Nat /\ held[c] > 0 /\ effects[c] \in Nat
        BY <3>3 DEF CarryOut, IInv, TypeOK
      <4>2. ActsOnce(request[c]) => effects[c] = 0 /\ ~Refused(c)
        BY <4>1 DEF IInv, LocalInv, Once, NotDelivered, Copies
      <4>3. Told(c) # "refused"
        BY <4>2 DEF Told
      <4>4. Promise!CarryOut(c)
        BY <3>1, <3>3, <4>2, <4>3 DEF CarryOut, Promise!CarryOut
      <4> QED
        BY <4>4 DEF Promise!AbsNext
    <3> QED
      BY <2>3, <3>2, <3>3 DEF ServerStep
  <2> QED
    BY <2>1, <2>2, <2>3 DEF Next
<1> QED
  BY <1>1, <1>2, Inductive, PTL DEF Spec, ImplementsEffectOnce, Promise!AbsSpec

(***************************************************************************)
(* The curve behind every pause.                                           *)
(***************************************************************************)
\* A window the builders let through has delays, and none of them is empty.
LEMMA WindowsNeverSpin ==
  ASSUME NEW n \in Nat \ {0}, NEW base \in Nat, NEW ceiling \in Nat, CheckWindow(base, ceiling)
  PROVE  /\ ReconnectDelays(n, base, ceiling) # {}
         /\ \A d \in ReconnectDelays(n, base, ceiling) : 0 < d /\ d <= ceiling
<1> DEFINE p == 2 ^ (n - 1)
           h == CappedDelay(n, base, ceiling)
<1>1. h = Least(base * p, ceiling)
  BY CappedDoubling
<1>2. p \in Nat /\ p >= 1
  <2>1. n - 1 \in Nat
    OBVIOUS
  <2> QED
    BY <2>1, PowersDouble
<1> HIDE DEF p, h
<1>3. base * p \in Nat /\ base * p >= base
  BY <1>2
<1>4. h \in 1..ceiling
  BY <1>1, <1>3 DEF CheckWindow, Least
<1>5. \A d : d \in ReconnectDelays(n, base, ceiling) <=> d \in 0..ceiling /\ d <= h /\ h <= 2 * d
  BY DEF ReconnectDelays, h
<1> QED
  BY <1>4, <1>5

\* capped_delay is the capped doubling its documentation describes, however long
\* a call has been failing and whatever the configuration holds, and a sound
\* window never lets a loop spin.
THEOREM CurveIsDoubling == Spec => []CurveIsCappedDoubling
<1>1. TypeOK => CurveIsCappedDoubling
  <2> SUFFICES ASSUME TypeOK, NEW c \in Calls, attempt[c] > 0,
                      NEW base \in Durations, NEW ceiling \in Durations
               PROVE  /\ CappedDelay(attempt[c], base, ceiling)
                            = Least(base * 2 ^ (attempt[c] - 1), ceiling)
                      /\ CheckWindow(base, ceiling) =>
                           /\ ReconnectDelays(attempt[c], base, ceiling) # {}
                           /\ \A d \in ReconnectDelays(attempt[c], base, ceiling) :
                                0 < d /\ d <= ceiling
    BY DEF CurveIsCappedDoubling
  <2>1. attempt[c] \in Nat \ {0}
    BY DEF TypeOK
  <2>2. base \in Nat /\ ceiling \in Nat
    BY RestAssumption
  <2> QED
    BY <2>1, <2>2, CappedDoubling, WindowsNeverSpin
<1> QED
  BY <1>1, TypeCorrect, PTL

(***************************************************************************)
(* The routes of the clients.                                              *)
(***************************************************************************)
\* A route that acts goes through a wrapper that the transport does not replay,
\* on the trading client and on the broker's.
LEMMA TradingActs ==
  ASSUME NEW r \in TradingRoutes, r.name \in Acting
  PROVE  ActsOnce(r.sends)
BY SMTT(60) DEF TradingRoutes, TradingOrders, TradingPositions, TradingAccount,
  TradingReference, TradingWatchlists, TradingOptions, TradingWatchlistsByName, TradingLocates,
  TradingCryptoFunding, Via, Get, Post, Put, Patch, Delete, DeleteEffectful, Request,
  RequestRaw, SendVoid, Acting, ActsOnce

LEMMA BrokerActs ==
  ASSUME NEW r \in BrokerRoutes, r.name \in Acting
  PROVE  ActsOnce(r.sends)
BY SMTT(60) DEF BrokerRoutes, BrokerAccounts, BrokerFunding, BrokerTransfers,
  BrokerActivities, BrokerRecords, BrokerDocuments, BrokerPortfolios, BrokerSubscriptions,
  BrokerRuns, BrokerJournals, BrokerPositions, BrokerOrders, BrokerOrdersRest,
  BrokerWatchlists, BrokerReference, BrokerFixedIncome, BrokerInstantFunding, BrokerJit,
  BrokerReports, BrokerFundingWallets, BrokerOnboarding, BrokerTokenization,
  BrokerCryptoWallets, Via, Get, GetBytes, Post, Put, Patch, Delete, DeleteEffectful,
  Request, RequestRaw, SendVoid, Acting, ActsOnce

\* A request is one that acts by its method and replay class alone.
LEMMA ServesActing ==
  ASSUME NEW c \in Calls, NEW r, ActsOnce(r.sends), Serves(c, r)
  PROVE  ActsOnce(request[c])
BY DEF Serves, ActsOnce

\* Whatever the policy, the network and the server do, no route of either client
\* that submits an order, liquidates, exercises or moves money is carried out
\* twice by one call.
THEOREM ActingRoutesAreDoneOnce == Spec => []ActingRoutesOnce
<1>1. AtMostOnce => ActingRoutesOnce
  BY TradingActs, BrokerActs, ServesActing DEF AtMostOnce, ActingRoutesOnce
<1> QED
  BY <1>1, OrdersPlacedOnce, PTL
================================================================================
