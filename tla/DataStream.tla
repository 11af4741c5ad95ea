------------------------------- MODULE DataStream -------------------------------
(***************************************************************************)
(* The live market data stream, DataStream::run in src/data/live/mod.rs:   *)
(* one client that connects, authenticates, subscribes, reads batches of   *)
(* messages and hands them to its consumer one at a time, and reconnects   *)
(* with backoff; a server that may answer, refuse, stall, send or vanish   *)
(* at every step; a consumer that may sit on a message; and a clock.       *)
(*                                                                         *)
(* The stream is a generator: between two messages it is suspended until   *)
(* its consumer polls again, and time goes on.  A consumer that drops the  *)
(* stream is a behaviour that takes no further step.                       *)
(***************************************************************************)
EXTENDS Integers, Sequences, SequencesExt, Backoff

CONSTANTS
  DataTimeout,    \* data_timeout, or 0 for None
  ReceivePoll,    \* RECEIVE_POLL
  MinBackoff,     \* min_backoff
  MaxBackoff,     \* max_backoff
  StableSession,  \* stable_session
  MaxU32,         \* u32::MAX in small, where the failure count sticks
  Batches,        \* the batches of messages the server may send in one frame
  InboxCap,       \* bound: frames the client has not read yet
  SessionCap,     \* bound: messages the server sends in one session
  Patience        \* bound: the ticks consumers may sit on one item

\* The messages decode tells apart: market data, an acknowledgement, an error
\* frame, an error frame that is fatal, and a frame that fails to decode.
Messages == {"data", "ack", "error", "fatal", "garbled"}

ASSUME StreamAssumption ==
  /\ DataTimeout \in Nat
  /\ ReceivePoll \in Nat \ {0}
  /\ MinBackoff \in Nat /\ MaxBackoff \in Nat /\ CheckWindow(MinBackoff, MaxBackoff)
  /\ StableSession \in Nat /\ CheckStableSession(StableSession)
  /\ MaxU32 \in Nat \ {0}
  /\ Batches \subseteq Seq(Messages)
  /\ InboxCap \in Nat /\ SessionCap \in Nat /\ Patience \subseteq Nat

VARIABLES
  setup,      \* [subscribed, oauth, hold]: what the caller set the stream up with,
              \* and how long it sits on an item
  phase,      \* where run stands
  retries,    \* its count of consecutive failures
  verdict,    \* how the attempt or session ended: "reconnect" or "fatal"
  heard,      \* the client has learnt that trying again is useless
  delivered,  \* delivered_data of this session
  sinceData,  \* time since last_data, as far as data_timeout cares
  age,        \* time since session_start, as far as stable_session cares
  left,       \* what is left of the poll or of the backoff sleep
  batch,      \* the decoded messages not yet handed out, the one in hand first
  held,       \* ticks the consumer has sat on the item in hand
  inbox,      \* frames that have arrived and were not read
  sent,       \* messages the server has sent in this session
  silence,    \* time since it last sent market data, or since the session began
  ripe,       \* market data has been lying unread for a whole tick
  pinged,     \* bound: the one ping a tick may bring has come
  got         \* messages the consumer has been handed in this session

session == <<delivered, sinceData, age>>
network == <<inbox, sent, silence, ripe, pinged>>
vars == <<setup, phase, retries, verdict, heard, session, left, batch, held,
          network, got>>

Phases == {"start", "opening", "greeting", "authenticating", "failed",
           "top", "reading", "yielded", "closing", "sleeping", "over"}

\* Frames: a ping or pong, the end of the connection (a close frame, an error
\* or the end of the stream), a batch.
Ping == [kind |-> "ping"]
End == [kind |-> "end"]
Frame(b) == [kind |-> "batch", messages |-> b]
Frames == {Ping, End} \cup {Frame(b) : b \in Batches}

MessagesOf(f) == IF f.kind = "batch" THEN Len(f.messages) ELSE 0

HasData(frames) == \E i \in DOMAIN frames : frames[i].kind = "batch"
                                             /\ Contains(frames[i].messages, "data")

\* Messages that have arrived and were not read.
Sizes(frames) == [i \in DOMAIN frames |-> MessagesOf(frames[i])]
Unread == SumFunction(Sizes(inbox))

\* A bug to catch: any message restarts the staleness clock.
IsMarketData_Any(m) == TRUE

\* StreamMessage::is_market_data; messages of unknown type count as data.
IsMarketData(m) == m = "data"
\* is_fatal_message on the text of an error message.
IsFatal(m) == m = "fatal"

\* What a caller may set a stream up with.
Setups == [subscribed : BOOLEAN, oauth : BOOLEAN, hold : Patience]

TypeOK ==
  /\ setup \in Setups
  /\ phase \in Phases
  /\ retries \in 0..MaxU32
  /\ verdict \in {"reconnect", "fatal"}
  /\ heard \in BOOLEAN
  /\ delivered \in BOOLEAN
  /\ sinceData \in 0..DataTimeout
  /\ age \in 0..StableSession
  /\ left \in Nat
  /\ batch \in Seq(Messages)
  /\ held \in 0..setup.hold
  /\ inbox \in Seq(Frames) /\ Len(inbox) <= InboxCap + 1
  /\ sent \in 0..SessionCap
  /\ silence \in 0..DataTimeout
  /\ ripe \in BOOLEAN
  /\ pinged \in BOOLEAN
  /\ got \in Nat

Init ==
  /\ setup \in Setups
  /\ phase = "start"
  /\ retries = 0
  /\ verdict = "reconnect"
  /\ heard = FALSE
  /\ delivered = FALSE /\ sinceData = 0 /\ age = 0
  /\ left = 0
  /\ batch = <<>>
  /\ held = 0
  /\ inbox = <<>> /\ sent = 0 /\ silence = 0 /\ ripe = FALSE /\ pinged = FALSE
  /\ got = 0

(***************************************************************************)
(* Connecting.                                                             *)
(***************************************************************************)
\* The attempt ends with an error, which is handed to the consumer; the socket
\* is dropped with it.
Fail(fatal) ==
  /\ phase' = "failed"
  /\ verdict' = IF fatal THEN "fatal" ELSE "reconnect"
  /\ heard' = (heard \/ fatal)
  /\ held' = 0
  /\ UNCHANGED <<setup, retries, session, left, batch, network, got>>

Advance(to) ==
  /\ phase' = to
  /\ UNCHANGED <<setup, retries, verdict, heard, session, left, batch, held, network, got>>

\* Without a subscription the socket is never opened.
Start == /\ phase = "start"
         /\ IF setup.subscribed THEN Advance("opening") ELSE Fail(TRUE)

Open == phase = "opening" /\ Advance("greeting")
OpenFails == phase = "opening" /\ Fail(FALSE)

\* expect_control("connected"); the kind of credentials is looked at after it.
Greet == /\ phase = "greeting"
         /\ IF setup.oauth THEN Fail(TRUE) ELSE Advance("authenticating")

\* expect_control("authenticated"), and the subscribe payloads are sent, which
\* nothing acknowledges.
Authenticate ==
  /\ phase = "authenticating"
  /\ phase' = "top"
  /\ delivered' = FALSE /\ sinceData' = 0 /\ age' = 0
  /\ inbox' = <<>> /\ sent' = 0 /\ silence' = 0 /\ ripe' = FALSE /\ pinged' = FALSE
  /\ got' = 0
  /\ UNCHANGED <<setup, retries, verdict, heard, left, batch, held>>

\* Anything but the expected acknowledgement, a send that fails, or the end of
\* the connection; only an error message of a fatal kind is final.
HandshakeFails ==
  /\ phase \in {"greeting", "authenticating"}
  /\ \E fatal \in BOOLEAN : Fail(fatal)

\* The count of failures becomes n and the stream sleeps on the curve.
SleepBackoff(n) ==
  /\ retries' = n
  /\ left' \in ReconnectDelays(n, MinBackoff, MaxBackoff)
  /\ phase' = "sleeping"

\* The consumer has seen the error and polls again.
AfterFailure ==
  /\ phase = "failed"
  /\ \/ verdict = "fatal" /\ Advance("over")
     \/ /\ verdict = "reconnect"
        /\ SleepBackoff(SaturatingInc(retries, MaxU32))
        /\ UNCHANGED <<setup, verdict, heard, session, batch, held, network, got>>

\* A bug to catch: the stream stops trying once the count sticks.
Wake_GivesUp == /\ phase = "sleeping"
                /\ left = 0
                /\ retries < MaxU32
                /\ Advance("opening")

Wake == /\ phase = "sleeping"
        /\ left = 0
        /\ Advance("opening")

(***************************************************************************)
(* A session.                                                              *)
(***************************************************************************)
EndSession(v) ==
  /\ phase' = "closing"
  /\ verdict' = v
  /\ UNCHANGED <<setup, retries, heard, session, left, got>>

\* A bug to catch: a connection that has delivered is trusted from then on.
Stale_Unproven == DataTimeout > 0 /\ sinceData >= DataTimeout /\ ~delivered

Stale == DataTimeout > 0 /\ sinceData >= DataTimeout

\* A bug to catch: the poll ignores the deadline.
Poll_Fixed == ReceivePoll

\* The next read waits until the poll interval or the deadline, whichever is
\* first.
Poll == IF DataTimeout = 0 THEN ReceivePoll
        ELSE Least(ReceivePoll, DataTimeout - sinceData)

GoStale == /\ phase = "top"
           /\ Stale
           /\ EndSession("reconnect")
           /\ UNCHANGED <<batch, held, network>>

StartRead == /\ phase = "top"
             /\ ~Stale
             /\ phase' = "reading"
             /\ left' = Poll
             /\ UNCHANGED <<setup, retries, verdict, heard, session, batch, held, network, got>>

\* timeout() polls the socket first: it only elapses when nothing is there.
PollElapses == /\ phase = "reading"
               /\ inbox = <<>>
               /\ left = 0
               /\ Advance("top")

\* The consumer is handed the first message of b, after the bookkeeping for
\* it; when nothing is left the loop goes round.
HandOut(b) ==
  /\ batch' = b
  /\ held' = 0
  /\ \/ /\ b = <<>>
        /\ phase' = "top"
        /\ UNCHANGED <<verdict, heard, delivered, sinceData, got>>
     \/ /\ b # <<>>
        /\ phase' = "yielded"
        /\ got' = got + 1
        /\ verdict' = IF IsFatal(Head(b)) THEN "fatal" ELSE verdict
        /\ heard' = (heard \/ Head(b) = "fatal")
        /\ delivered' = (delivered \/ IsMarketData(Head(b)))
        /\ sinceData' = IF IsMarketData(Head(b)) THEN 0 ELSE sinceData
  /\ UNCHANGED <<setup, retries, age, left>>

Read ==
  /\ phase = "reading"
  /\ inbox # <<>>
  /\ inbox' = Tail(inbox)
  /\ ripe' = (ripe /\ HasData(Tail(inbox)))
  /\ UNCHANGED <<sent, silence, pinged>>
  /\ \/ Head(inbox) = Ping /\ HandOut(<<>>)
     \/ Head(inbox) = End /\ EndSession("reconnect") /\ UNCHANGED <<batch, held>>
     \/ \E b \in Batches : Head(inbox) = Frame(b) /\ HandOut(b)

\* A bug to catch: a message that fails to decode takes the rest of its batch
\* with it.
Rest_EndsAtGarbled(b) == IF Head(b) = "garbled" THEN <<>> ELSE Tail(b)

Rest(b) == Tail(b)

\* The consumer polls again.  A fatal message ends the session with the rest of
\* its batch unseen.
Resume ==
  /\ phase = "yielded"
  /\ UNCHANGED network
  /\ \/ /\ verdict = "fatal"
        /\ EndSession("fatal")
        /\ UNCHANGED <<batch, held>>
     \/ /\ verdict = "reconnect"
        /\ HandOut(Rest(batch))

\* A bug to catch: only data clears the count.
Healthy_DataOnly == delivered

Healthy == delivered \/ age >= StableSession

\* The socket is closed, and the session judged.
Close ==
  /\ phase = "closing"
  /\ batch' = <<>>
  /\ \/ /\ verdict = "fatal"
        /\ phase' = "over"
        /\ UNCHANGED <<retries, left>>
     \/ /\ verdict = "reconnect"
        /\ SleepBackoff(SaturatingInc(IF Healthy THEN 0 ELSE retries, MaxU32))
  /\ UNCHANGED <<setup, verdict, heard, session, held, network, got>>

(***************************************************************************)
(* The server's side of a session, and time.                               *)
(***************************************************************************)
Live == phase \in {"top", "reading", "yielded"}

Push(f) ==
  /\ Live
  /\ ~Contains(inbox, End)
  /\ Len(inbox) < InboxCap + (IF f = End THEN 1 ELSE 0)
  /\ sent + MessagesOf(f) <= SessionCap
  /\ f = Ping => ~pinged
  /\ pinged' = (pinged \/ f = Ping)
  /\ inbox' = Append(inbox, f)
  /\ sent' = sent + MessagesOf(f)
  /\ silence' = IF HasData(<<f>>) THEN 0 ELSE silence
  /\ UNCHANGED <<setup, phase, retries, verdict, heard, session, left, batch, held, ripe, got>>

\* Time passes while the client waits for a timer, or for its consumer.  What
\* is due is done before time goes on.
Tick ==
  /\ \/ phase = "yielded" /\ held < setup.hold /\ held' = held + 1
     \/ phase = "reading" /\ inbox = <<>> /\ left > 0 /\ held' = held
     \/ phase = "sleeping" /\ left > 0 /\ held' = held
  /\ left' = IF phase = "yielded" THEN left ELSE left - 1
  /\ IF phase = "sleeping" THEN UNCHANGED <<session, silence>>
     ELSE /\ sinceData' = Least(sinceData + 1, DataTimeout)
          /\ age' = Least(age + 1, StableSession)
          /\ silence' = Least(silence + 1, DataTimeout)
          /\ UNCHANGED delivered
  /\ ripe' = HasData(inbox)
  /\ pinged' = FALSE
  /\ UNCHANGED <<setup, phase, retries, verdict, heard, batch, inbox, sent, got>>

Client == \/ Start \/ AfterFailure \/ Wake \/ GoStale \/ StartRead
          \/ PollElapses \/ Read \/ Resume \/ Close
Server == \/ Greet \/ Authenticate \/ HandshakeFails
          \/ \E f \in Frames : Push(f)

Next == Client \/ Open \/ OpenFails \/ Server \/ Tick

Spec == Init /\ [][Next]_vars

\* The executor polls a task that can go on, the consumer comes back for the
\* next item, time goes on, and the operating system settles a TCP connect.
\* Nothing is assumed of the server.
ClientFairness == /\ WF_vars(Client)
                  /\ SF_vars(Tick)
                  /\ WF_vars(Open \/ OpenFails)

FairSpec == Spec /\ ClientFairness

\* A server that does not refuse, in the end, a client that keeps trying; only
\* ComesBack assumes it.
ServerLetsIn == SF_vars(Open) /\ SF_vars(Greet) /\ SF_vars(Authenticate)

(***************************************************************************)
(* Properties.                                                             *)
(***************************************************************************)
\* What the server sends in a session reaches the consumer complete and once:
\* handed out, decoded, or still unread, whatever cannot be decoded included.
NothingLost ==
  Live => sent = got + Unread + (IF phase = "yielded" THEN Len(batch) - 1 ELSE 0)

\* The stream never sleeps in a read past its own deadline, even when the poll
\* interval is the longer of the two.
PollMeetsDeadline ==
  phase = "reading" /\ DataTimeout > 0 => sinceData + left <= DataTimeout

\* With a consumer that does not sit on messages the stream never waits for
\* longer than data_timeout on a server that sends no market data, whatever
\* else it sends.
SilenceNoticed ==
  setup.hold = 0 /\ phase = "reading" /\ DataTimeout > 0 => silence + left <= DataTimeout

\* The count of failures, and the conditions for giving up, are those of
\* Reconnect; a session proves itself by data or by age.
Mode == IF phase \in {"start", "opening", "greeting", "authenticating", "failed"} THEN "trying"
        ELSE IF Live \/ phase = "closing" THEN "up"
        ELSE IF phase = "sleeping" THEN "pausing" ELSE "over"

Supervision == INSTANCE Reconnect WITH
                 MaxCount <- MaxU32, mode <- Mode,
                 proved <- (Mode = "up" /\ (delivered \/ age >= StableSession)),
                 failures <- retries, useless <- heard

ImplementsReconnect == Supervision!RecSpec

\* With data_timeout set, no session outlives a server that has gone silent:
\* either data comes or the session ends.
SilentSessionsEnd == []<>(silence = 0 \/ ~Live)

\* After any failure that is not final a server that lets the client in gets
\* it back.
ComesBack == ServerLetsIn => (phase = "sleeping") ~> (Live \/ phase = "over")

(***************************************************************************)
(* Stated by the documentation, and not so (see the findings).             *)
(***************************************************************************)
\* A connection is treated as stale only for want of market data.
StaleOnlyWithoutData == [][GoStale => ~ripe]_vars

\* A connection that goes stale while it is being set up is given up as well.
HandshakeEnds ==
  (phase \in {"greeting", "authenticating"}) ~> (phase \in {"failed", "over"} \/ Live)
=============================================================================
