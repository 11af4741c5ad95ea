------------------------------- MODULE Exchanges -------------------------------
(***************************************************************************)
(* One use of a client or stream of the SDK, from its construction to what *)
(* its caller is told: a call (a GET through RestClient), a document       *)
(* download, the subscription to an event stream or the opening of a       *)
(* websocket, awaited or made through the Blocking facade, against servers *)
(* that answer, redirect, stall or break off as they like.  Which failures *)
(* are retried and when is RestRetry; here a retry is a step.              *)
(***************************************************************************)
EXTENDS Integers, Endpoints

CONSTANTS
  Uses,           \* what is built and how it is used: see Use
  Targets,        \* the hosts a server may redirect to
  RedirectLimit,  \* what download_client passes to Policy::limited
  Retries         \* RetryConfig.attempts

\* Where a call is made: awaited, or through the facade on a thread that
\* drives no runtime, on one of spawn_blocking, or on a worker.  The caller's
\* future may panic after the exchange, or start a runtime of its own there.
Contexts == [facade : {FALSE}, thread : {"worker"}, future : {"sound", "panics"}]
              \cup [facade : {TRUE}, thread : {"plain", "spawn_blocking", "worker"},
                    future : {"sound", "panics", "nests"}]

Ops == {"call", "download", "subscribe", "listen"}

Use == [product : Products, op : Ops, env : Environments, credential : Credentials,
        anonymous : BOOLEAN, timeout : BOOLEAN,
        feed : UNION {Feeds[p] : p \in LiveStreams}, context : Contexts]

ASSUME ExchangeAssumption ==
  /\ Uses \subseteq Use
  /\ \A u \in Uses :
       /\ u.op = "listen" \/ u.op \in DOMAIN ClientOf(u.product, u.credential, u.timeout, u.anonymous)
       /\ u.op = "listen" => u.product \in LiveStreams \cup {"trading"}
       /\ u.product \in LiveStreams => u.op = "listen"
       /\ u.context.facade => u.op \in {"call", "download"}
  /\ RedirectLimit \in Nat /\ Retries \in Nat

VARIABLES
  use,       \* what is built, and how it is used
  stage,     \* how far it has come
  at,        \* the host the request at hand went to
  carried,   \* the authenticating headers it carried there
  hops,      \* the redirects followed since it was sent
  attempt,   \* the requests sent, redirects apart
  requests,  \* every host contacted, with what it was shown of the credentials
  result,    \* what the exchange came to
  outcome,   \* what the caller is told
  facade     \* the Blocking value: "alive", "dropped" or "panicked"

xvars == <<use, stage, at, carried, hops, attempt, requests, result, outcome, facade>>

Origin == Home(use.product, use.op, use.env)
Http == ClientOf(use.product, use.credential, use.timeout, use.anonymous)[use.op]
HasDeadline == use.op # "listen" /\ Http.deadline

XInit ==
  /\ use \in Uses
  /\ stage = "new" /\ at = "none" /\ carried = {} /\ hops = 0 /\ attempt = 0
  /\ requests = {} /\ result = "none" /\ outcome = "none" /\ facade = "alive"

(***************************************************************************)
(* Construction.                                                           *)
(***************************************************************************)
NeedsCredential == ~(use.product = "crypto" /\ use.anonymous)
HeldCredential == IF use.product = "broker" THEN IntoBasic(use.credential) ELSE use.credential

CredentialFits == /\ Constructible(use.credential)
                  /\ use.op # "listen" => Encodable(HeldCredential)

\* A caller's own endpoint takes the place of the feed's.
FeedFits == use.product \in LiveStreams /\ use.env # "custom" => FeedIsServed(use.product, use.feed)

Refuse == /\ stage = "new"
          /\ \/ NeedsCredential /\ ~CredentialFits /\ outcome' = "Credentials"
             \/ ~FeedFits /\ outcome' = "InvalidRequest"
          /\ stage' = "done"
          /\ UNCHANGED <<use, at, carried, hops, attempt, requests, result, facade>>

Construct == /\ stage = "new"
             /\ NeedsCredential => CredentialFits
             /\ FeedFits
             /\ stage' = "built"
             /\ UNCHANGED <<use, at, carried, hops, attempt, requests, result, outcome, facade>>

(***************************************************************************)
(* The facade.  tokio panics where a worker would block, and where a       *)
(* runtime is started inside another, with the same words.                 *)
(***************************************************************************)
\* Bugs to catch: every panic is called misuse; a thread with a runtime's
\* handle counts as one that drives it.
IsNestedRuntimePanic_Any(words) == TRUE
IsNestedRuntimePanic(words) == words = "nested runtime"

BlockOnPanics_AnyHandle(thread) == thread # "plain"
BlockOnPanics(thread) == thread = "worker"

\* A bug to catch: the runtime is dropped as any value is, which waits for it.
DropPanics_Waits(thread) == thread = "worker"

\* shutdown_background does not wait, and so is allowed anywhere.
DropPanics(thread) == FALSE

\* What becomes of a panic: call() turns one kind into an error and raises the
\* others again.
Surfaced(words) ==
  IF use.context.facade /\ IsNestedRuntimePanic(words) THEN "Misuse" ELSE "Panic"

CallRefused ==
  /\ stage = "built"
  /\ use.context.facade /\ BlockOnPanics(use.context.thread)
  /\ stage' = "done"
  /\ outcome' = Surfaced("nested runtime")
  /\ UNCHANGED <<use, at, carried, hops, attempt, requests, result, facade>>

DropFacade ==
  /\ stage = "done" /\ use.context.facade /\ facade = "alive"
  /\ facade' = IF DropPanics(use.context.thread) THEN "panicked" ELSE "dropped"
  /\ UNCHANGED <<use, stage, at, carried, hops, attempt, requests, result, outcome>>

(***************************************************************************)
(* The exchange.                                                           *)
(***************************************************************************)
\* One request: what the host is shown, with what was shown before.
Shown(host, headers) == requests \cup {[host |-> host, headers |-> headers]}

Send == /\ at' = Origin
        /\ carried' = IF use.op = "listen" THEN {} ELSE Http.headers
        /\ hops' = 0
        /\ attempt' = attempt + 1
        /\ requests' = Shown(at', carried')
        /\ stage' = "waiting"
        /\ UNCHANGED <<use, result, outcome, facade>>

\* The future is polled for the first time.
Begin == /\ stage = "built"
         /\ use.context.facade => ~BlockOnPanics(use.context.thread)
         /\ Send

Over(r) == /\ stage' = "over"
           /\ result' = r
           /\ UNCHANGED <<use, at, carried, hops, attempt, requests, outcome, facade>>

\* An answer that is no success, to an operation that does not try again.
Failure == IF use.op = "listen" THEN "Stream" ELSE "Api"

\* reqwest strips what it knows to be sensitive when a redirect changes host,
\* and only that.
CarriedOver(headers, from, to) == IF from = to THEN headers ELSE headers \ {"Authorization"}

FollowRedirect(to) ==
  /\ stage = "waiting"
  /\ use.op # "listen" /\ Http.follows
  /\ hops < RedirectLimit
  /\ at' = to
  /\ carried' = CarriedOver(carried, at, to)
  /\ hops' = hops + 1
  /\ requests' = Shown(to, carried')
  /\ UNCHANGED <<use, stage, attempt, result, outcome, facade>>

\* A redirect that is not followed is an answer like any other; one too many
\* is a failure of the transport.
RefuseRedirect ==
  /\ stage = "waiting"
  /\ IF use.op # "listen" /\ Http.follows
     THEN hops = RedirectLimit /\ Over("Transport")
     ELSE Over(Failure)

Reject == stage = "waiting" /\ Over(Failure)

\* 429 or a status like it: only calls and downloads try again.
Retry == /\ stage = "waiting"
         /\ use.op \in {"call", "download"}
         /\ IF attempt <= Retries THEN Send ELSE Over("RetriesExhausted")

Accept == /\ stage = "waiting"
          /\ stage' = IF use.op \in {"call", "download"} THEN "body" ELSE "open"
          /\ UNCHANGED <<use, at, carried, hops, attempt, requests, result, outcome, facade>>

ReadBody == stage = "body" /\ Over("Ok")

\* An event stream is handed over; a websocket is shown the key pair first, in
\* a message, and takes no token.
Open == /\ stage = "open"
        /\ IF use.op = "listen" /\ use.credential.form # "OAuth"
           THEN requests' = Shown(at, KeyHeaders)
           ELSE UNCHANGED requests
        /\ result' = IF use.op = "listen" /\ use.credential.form = "OAuth" THEN "Credentials" ELSE "Ok"
        /\ stage' = "over"
        /\ UNCHANGED <<use, at, carried, hops, attempt, outcome, facade>>

Break == /\ stage \in {"waiting", "body"}
         /\ Over(IF use.op = "listen" THEN "Stream" ELSE "Transport")

\* The total deadline of a request, its redirects and body included.
DeadlinePasses == stage \in {"waiting", "body"} /\ HasDeadline /\ Over("Transport")

\* The rest of the caller's future.
Return == /\ stage = "over"
          /\ outcome' = CASE use.context.future = "sound" -> result
                          [] use.context.future = "panics" -> Surfaced("other")
                          [] use.context.future = "nests" -> Surfaced("nested runtime")
          /\ stage' = "done"
          /\ UNCHANGED <<use, at, carried, hops, attempt, requests, result, facade>>

\* What the SDK, its runtime and its timers do, and what the server does.
Own == Refuse \/ Construct \/ CallRefused \/ Begin \/ Open \/ DeadlinePasses \/ Return
Servers == \/ \E to \in Targets : FollowRedirect(to)
           \/ RefuseRedirect \/ Reject \/ Retry \/ Accept \/ ReadBody \/ Break

XNext == Own \/ Servers \/ DropFacade

XSpec == XInit /\ [][XNext]_xvars

(***************************************************************************)
(* Properties.                                                             *)
(***************************************************************************)
LiveHosts == {HostOf[u] : u \in {"BrokerProduction", "TradingLive", "TradingStreamLive"}}
TestHosts == {HostOf[u] : u \in {"BrokerSandbox", "TradingPaper", "TradingStreamPaper", "DataSandbox"}}
SharedHosts == {HostOf[u] : u \in {"Data", "MarketDataStream"}}

Trusted == CASE use.env = "custom" -> {"proxy"}
             [] use.env = "test" -> TestHosts \cup SharedHosts
             [] use.env = "real" -> LiveHosts \cup SharedHosts

\* Whatever redirects come, a host is shown credentials only in the
\* environment that was asked for, and only a download has its answer from
\* another host than the one it asked.
NothingLeavesHome ==
  /\ \A r \in requests : r.headers # {} => r.host \in Trusted
  /\ outcome = "Ok" /\ use.op # "download" => at = Origin

\* A call or a download with a timeout configured ends, although the server
\* may redirect it, stall it or break it off at any point of any attempt.
CallsEnd == (stage = "built" /\ use.op \in {"call", "download"} /\ use.timeout) ~> stage = "done"

\* The facade adds nothing but one refusal: a call from a worker is refused
\* before anything is sent, no other call is, a panic of the caller's own
\* future reaches the caller, and dropping the facade is safe anywhere.  A
\* future that starts a runtime of its own is excepted: its panic cannot be
\* told from the refusal.
FacadeIsTransparent ==
  /\ use.context.facade /\ use.context.thread = "worker" => requests = {}
  /\ outcome = "Misuse" /\ use.context.future # "nests" => use.context.thread = "worker"
  /\ stage = "done" /\ requests # {} /\ use.context.future = "panics" => outcome = "Panic"
  /\ facade # "panicked"
=============================================================================
