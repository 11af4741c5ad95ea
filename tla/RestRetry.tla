------------------------------- MODULE RestRetry -------------------------------
(***************************************************************************)
(* The retry loop of the shared HTTP transport, RestClient in src/rest.rs, *)
(* with its retry policy (RetryConfig in src/config.rs): any number of     *)
(* calls on one client, each against a gateway and a backend that may act  *)
(* on a request long after the client has stopped waiting for the answer.  *)
(*                                                                         *)
(* The client keeps no state from one call to another, so calls interleave *)
(* freely.  Time is counted in whole units; jitter is a choice.            *)
(***************************************************************************)
EXTENDS Integers, Backoff

CONSTANTS
  Calls,        \* the calls issued, on one client or on several
  Requests,     \* what a call may send, and under which policy: see below
  Statuses,     \* the HTTP statuses the server may answer with
  StatusCodes,  \* RetryConfig.status_codes
  MaxU32,       \* u32::MAX, the largest value attempts can have
  Wait,         \* RetryConfig.wait
  MaxWait,      \* RetryBackoff::Exponential { max }
  DefaultCap,   \* DEFAULT_RETRY_MAX_WAIT
  RetryAfters,  \* the values a Retry-After header may carry
  HasTimeout,   \* RestConfig.timeout is Some
  Durations     \* bound: the bases and ceilings the curve is looked at for

Methods == {"GET", "HEAD", "PUT", "DELETE", "OPTIONS", "TRACE", "POST", "PATCH"}

\* http::Method::is_idempotent, as replay_is_safe uses it.
IsIdempotent(m) == m \in Methods \ {"POST", "PATCH"}

\* A request, its replay class, and what differs between clients: the retries
\* after the first request, and how the pauses between them grow.
Under(w, p) == [method |-> w.method, replay |-> w.replay,
                attempts |-> p.attempts, backoff |-> p.backoff]

\* A response without a Retry-After the client can read.
NoHeader == -1

ASSUME RestAssumption ==
  /\ Requests \subseteq [method : Methods, replay : {"ByMethod", "Never"},
                          attempts : 0..MaxU32, backoff : {"Flat", "Exponential"}]
  /\ Statuses \subseteq 100..599
  /\ StatusCodes \subseteq Nat
  /\ Durations \subseteq Nat
  /\ MaxU32 \in Nat \ {0}
  /\ Wait \in Nat /\ MaxWait \in Nat /\ DefaultCap \in Nat
  /\ RetryAfters \subseteq Nat
  /\ HasTimeout \in BOOLEAN

VARIABLES
  request,   \* request[c]: what call c sends, and its client's policy
  pc,        \* pc[c]: where execute_response stands
  attempt,   \* attempt[c]: its loop variable, the requests sent so far
  delay,     \* delay[c]: the pause the loop is sleeping through
  slept,     \* slept[c]: all its pauses so far
  outcome,   \* outcome[c]: what the call returned
  wire,      \* wire[c]: the current exchange: a request, an answer or nothing
  held,      \* held[c]: copies the backend has accepted and not finished
  effects    \* effects[c]: how often the backend has carried the request out

client == <<pc, attempt, delay, slept, outcome>>
server == <<held, effects>>
vars == <<request, client, wire, server>>

(***************************************************************************)
(* The policy.                                                             *)
(***************************************************************************)
IsSuccess(status) == status \in 200..299

ShouldRetry(status) == status \in StatusCodes

\* A bug to catch: the status alone decides.
ReplayIsSafe_StatusOnly(r, status) == TRUE
\* A bug to catch: only the rate limiter's answer is retried.
ReplayIsSafe_NeverElse(r, status) == status = 429
\* A bug to catch: Replay::Never is overlooked.
ReplayIsSafe_MethodOnly(r, status) == status = 429 \/ IsIdempotent(r.method)

ReplayIsSafe(r, status) ==
  \/ status = 429
  \/ r.replay = "ByMethod" /\ IsIdempotent(r.method)

\* Bugs to catch: one request too many; u32 addition that wraps.
TotalAttempts_OneMore(r) == IF r.attempts = MaxU32 THEN MaxU32 ELSE r.attempts + 2
TotalAttempts_Wraps(r) == (r.attempts + 1) % (MaxU32 + 1)

TotalAttempts(r) == SaturatingInc(r.attempts, MaxU32)

\* RetryConfig::delay: every pause the jitter may draw.
Delays(r, failures) ==
  IF r.backoff = "Flat" THEN {Wait}
  ELSE ReconnectDelays(failures, Wait, MaxWait)

RetryAfterCap(r) == IF r.backoff = "Exponential" THEN MaxWait ELSE DefaultCap

\* A bug to catch: the server's value is taken as it comes.
Pauses_Unclamped(r, answer, failures) ==
  IF answer.retryAfter = NoHeader THEN Delays(r, failures) ELSE {answer.retryAfter}

\* A readable Retry-After replaces the curve, clamped to the cap.
Pauses(r, answer, failures) ==
  IF answer.retryAfter = NoHeader THEN Delays(r, failures)
  ELSE {Least(answer.retryAfter, RetryAfterCap(r))}

(***************************************************************************)
(* The wire.  A request is "sent" until something answers it or loses it.  *)
(***************************************************************************)
Quiet == [kind |-> "quiet"]
Sent == [kind |-> "sent"]
Lost == [kind |-> "lost"]
Unconnected == [kind |-> "unconnected"]
Answers == [kind : {"answer"}, status : Statuses, retryAfter : RetryAfters \cup {NoHeader}]
Answer(s, ra) == [kind |-> "answer", status |-> s, retryAfter |-> ra]

PCs == {"idle", "waiting", "body", "sleeping", "done"}
Outcomes == [kind : {"Ok", "Decode", "Transport", "Connect", "Dropped", "RetriesExhausted", "None"}]
              \cup [kind : {"Api"}, status : Statuses]

TypeOK ==
  /\ request \in [Calls -> Requests]
  /\ pc \in [Calls -> PCs]
  /\ attempt \in [Calls -> Nat] /\ \A c \in Calls : attempt[c] <= TotalAttempts(request[c])
  /\ delay \in [Calls -> Nat]
  /\ slept \in [Calls -> Nat]
  /\ outcome \in [Calls -> Outcomes]
  /\ wire \in [Calls -> {Quiet, Sent, Lost, Unconnected} \cup Answers]
  /\ held \in [Calls -> Nat]
  /\ effects \in [Calls -> Nat]

Init ==
  /\ request \in [Calls -> Requests]
  /\ pc = [c \in Calls |-> "idle"]
  /\ attempt = [c \in Calls |-> 0]
  /\ delay = [c \in Calls |-> 0]
  /\ slept = [c \in Calls |-> 0]
  /\ outcome = [c \in Calls |-> [kind |-> "None"]]
  /\ wire = [c \in Calls |-> Quiet]
  /\ held = [c \in Calls |-> 0]
  /\ effects = [c \in Calls |-> 0]

(***************************************************************************)
(* The client.                                                             *)
(***************************************************************************)
\* The first pass of the loop, which needs at least one attempt to exist.
Start(c) ==
  /\ pc[c] = "idle"
  /\ 1 <= TotalAttempts(request[c])
  /\ attempt' = [attempt EXCEPT ![c] = 1]
  /\ pc' = [pc EXCEPT ![c] = "waiting"]
  /\ wire' = [wire EXCEPT ![c] = Sent]
  /\ UNCHANGED <<request, delay, slept, outcome, server>>

Finish(c, o) ==
  /\ pc' = [pc EXCEPT ![c] = "done"]
  /\ outcome' = [outcome EXCEPT ![c] = o]
  /\ UNCHANGED <<request, attempt, delay, slept, wire, server>>

Answered(c) == pc[c] = "waiting" /\ wire[c].kind = "answer"

Retryable(c) == /\ ShouldRetry(wire[c].status)
                /\ ReplayIsSafe(request[c], wire[c].status)

\* send() fails: no connection was made, which is_connect tells the caller; one
\* broke; or the request's deadline passed.
SendFails(c) ==
  /\ pc[c] = "waiting"
  /\ \/ wire[c] = Unconnected /\ Finish(c, [kind |-> "Connect"])
     \/ (wire[c] = Lost \/ HasTimeout) /\ Finish(c, [kind |-> "Transport"])

Succeed(c) ==
  /\ Answered(c)
  /\ IsSuccess(wire[c].status)
  /\ pc' = [pc EXCEPT ![c] = "body"]
  /\ UNCHANGED <<request, attempt, delay, slept, outcome, wire, server>>

\* execute reads the body, decode parses it; both come after the loop.
ReadBody(c) ==
  /\ pc[c] = "body"
  /\ \E k \in {"Ok", "Decode", "Transport"} : Finish(c, [kind |-> k])

Reject(c) ==
  /\ Answered(c)
  /\ ~IsSuccess(wire[c].status)
  /\ ~Retryable(c)
  /\ Finish(c, [kind |-> "Api", status |-> wire[c].status])

Exhaust(c) ==
  /\ Answered(c)
  /\ ~IsSuccess(wire[c].status)
  /\ Retryable(c)
  /\ attempt[c] = TotalAttempts(request[c])
  /\ Finish(c, [kind |-> "RetriesExhausted"])

BackOff(c) ==
  /\ Answered(c)
  /\ ~IsSuccess(wire[c].status)
  /\ Retryable(c)
  /\ attempt[c] < TotalAttempts(request[c])
  /\ \E d \in Pauses(request[c], wire[c], attempt[c]) :
       /\ delay' = [delay EXCEPT ![c] = d]
       /\ slept' = [slept EXCEPT ![c] = @ + d]
  /\ pc' = [pc EXCEPT ![c] = "sleeping"]
  /\ wire' = [wire EXCEPT ![c] = Quiet]
  /\ UNCHANGED <<request, attempt, outcome, server>>

Resend(c) ==
  /\ pc[c] = "sleeping"
  /\ attempt' = [attempt EXCEPT ![c] = @ + 1]
  /\ delay' = [delay EXCEPT ![c] = 0]
  /\ pc' = [pc EXCEPT ![c] = "waiting"]
  /\ wire' = [wire EXCEPT ![c] = Sent]
  /\ UNCHANGED <<request, slept, outcome, server>>

\* The caller drops the future at one of its await points.
Drop(c) ==
  /\ pc[c] \in {"waiting", "body", "sleeping"}
  /\ Finish(c, [kind |-> "Dropped"])

(***************************************************************************)
(* The server.  The rate limiter stands in front of everything that acts;  *)
(* any other answer leaves open whether, and when, the request is carried  *)
(* out.                                                                    *)
(***************************************************************************)
RateLimit(c) ==
  /\ wire[c] = Sent
  /\ 429 \in Statuses
  /\ \E ra \in RetryAfters \cup {NoHeader} : wire' = [wire EXCEPT ![c] = Answer(429, ra)]
  /\ UNCHANGED <<request, client, server>>

\* The backend takes a copy; the gateway answers now, whatever the backend does.
Accept(c) ==
  /\ wire[c] = Sent
  /\ \E s \in Statuses \ {429}, ra \in RetryAfters \cup {NoHeader} :
       wire' = [wire EXCEPT ![c] = Answer(s, ra)]
  /\ held' = [held EXCEPT ![c] = @ + 1]
  /\ UNCHANGED <<request, client, effects>>

\* No connection can be made: nothing is sent.
Unreachable(c) ==
  /\ wire[c] = Sent
  /\ wire' = [wire EXCEPT ![c] = Unconnected]
  /\ UNCHANGED <<request, client, server>>

\* The connection breaks, before or after the backend has its copy.
Break(c) ==
  /\ wire[c] = Sent
  /\ wire' = [wire EXCEPT ![c] = Lost]
  /\ held' \in {held, [held EXCEPT ![c] = @ + 1]}
  /\ UNCHANGED <<request, client, effects>>

CarryOut(c) ==
  /\ held[c] > 0
  /\ held' = [held EXCEPT ![c] = @ - 1]
  /\ effects' = [effects EXCEPT ![c] = @ + 1]
  /\ UNCHANGED <<request, client, wire>>

Discard(c) ==
  /\ held[c] > 0
  /\ held' = [held EXCEPT ![c] = @ - 1]
  /\ UNCHANGED <<request, client, wire, effects>>

ClientStep(c) == \/ Start(c) \/ SendFails(c) \/ Succeed(c) \/ ReadBody(c)
                 \/ Reject(c) \/ Exhaust(c) \/ BackOff(c) \/ Resend(c)
ServerStep(c) == \/ RateLimit(c) \/ Accept(c) \/ Unreachable(c) \/ Break(c)
                 \/ CarryOut(c) \/ Discard(c)

Next == \E c \in Calls : ClientStep(c) \/ Drop(c) \/ ServerStep(c)

Spec == Init /\ [][Next]_vars

\* tokio polls a task that can go on, and its timers fire: a sleep ends and,
\* where a deadline is configured, a request does.  Nothing is assumed of the
\* server.
FairSpec == Spec /\ \A c \in Calls : WF_vars(ClientStep(c))

(***************************************************************************)
(* Properties.                                                             *)
(***************************************************************************)
\* A request whose work must not be done twice: replay_is_safe's POST, PATCH
\* and Replay::Never.
ActsOnce(r) == r.replay = "Never" \/ r.method \in {"POST", "PATCH"}

\* The caller has been told that the request never came through.
Refused(c) == \/ outcome[c].kind \in {"RetriesExhausted", "Connect"}
              \/ outcome[c] = [kind |-> "Api", status |-> 429]

\* However the answers are lost, delayed or overtaken, and whatever statuses
\* the caller's policy retries, an order is placed at most once by one call.
AtMostOnce ==
  \A c \in Calls : ActsOnce(request[c]) => effects[c] + held[c] <= 1

\* RetriesExhausted, a final 429 or a failure to connect for an order means that
\* nothing was done and that nothing will be: the caller may place it again.
RefusedMeansNothingDone ==
  \A c \in Calls :
    ActsOnce(request[c]) /\ Refused(c) => effects[c] + held[c] = 0

\* An idempotent call costs the backend at most the first request and
\* RetryConfig.attempts retries of it.
BoundedLoad ==
  \A c \in Calls : effects[c] + held[c] <= request[c].attempts + 1

\* A passing failure is not the caller's before the policy's retries of it are
\* used up, unless the request is one that acts.
RetriesAreUsed ==
  \A c \in Calls :
    /\ outcome[c].kind = "Api" /\ ShouldRetry(outcome[c].status) => ActsOnce(request[c])
    /\ outcome[c].kind = "RetriesExhausted" => attempt[c] = TotalAttempts(request[c])

\* The longest pause the configuration can ask for.
LongestPause(r) == IF r.backoff = "Exponential" \/ Wait < RetryAfterCap(r)
                   THEN RetryAfterCap(r) ELSE Wait

\* No server can put a caller to sleep for longer than its own configuration
\* asks for, whatever Retry-After it sends and however often.
SleepBounded ==
  \A c \in Calls : slept[c] <= request[c].attempts * LongestPause(request[c])

\* The policy decides: no retry it grants is withheld, no request is sent beyond
\* it, and no sleep is longer than it allows.
RetryPolicyKept == RetriesAreUsed /\ BoundedLoad /\ SleepBounded

\* After as many failures as a call can have behind it, the loop of capped_delay
\* with its early jump computes the capped power of two that the documentation of
\* reconnect_delay describes, for every base and every ceiling, the odd ones the
\* unchecked REST configuration allows included; and a window the builders let
\* through never spins.
CurveIsCappedDoubling ==
  \A c \in {x \in Calls : attempt[x] > 0}, base \in Durations, ceiling \in Durations :
    /\ CappedDelay(attempt[c], base, ceiling) = Least(base * 2 ^ (attempt[c] - 1), ceiling)
    /\ CheckWindow(base, ceiling) =>
         LET ds == ReconnectDelays(attempt[c], base, ceiling)
         IN  ds # {} /\ \A d \in ds : 0 < d /\ d <= ceiling

\* What error.rs says of is_connect: it guarantees that the request was not
\* processed, whatever the request.
ConnectMeansNothingDone ==
  \A c \in Calls : outcome[c].kind = "Connect" => effects[c] + held[c] = 0

\* The abstract promise: carried out once, and never once refused.
Told(c) == IF pc[c] # "done" THEN "none"
           ELSE IF ActsOnce(request[c]) /\ Refused(c) THEN "refused"
           ELSE IF outcome[c].kind = "Ok" THEN "ok" ELSE "unknown"

Promise == INSTANCE EffectOnce WITH
             once <- [c \in Calls |-> ActsOnce(request[c])],
             result <- [c \in Calls |-> Told(c)]

ImplementsEffectOnce == Promise!AbsSpec

\* With a deadline configured, a call returns even if the server never says
\* anything.
EveryCallReturns == \A c \in Calls : (pc[c] = "idle") ~> (pc[c] = "done")
=============================================================================
