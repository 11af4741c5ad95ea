----------------------------- MODULE TradingStream -----------------------------
(***************************************************************************)
(* The trade update stream, TradingStream::run in src/trading/stream.rs.   *)
(* The supervision is that of the market data stream, the protocol is not: *)
(* no greeting, one reply that decides about the credentials, one message  *)
(* per frame, and no message that is fatal once a session is up.           *)
(***************************************************************************)
EXTENDS Integers, Sequences, SequencesExt, FiniteSets, Backoff

CONSTANTS
  DataTimeout,    \* data_timeout, or 0 for None
  ReceivePoll,    \* RECEIVE_POLL
  MinBackoff,     \* min_backoff
  MaxBackoff,     \* max_backoff
  StableSession,  \* stable_session
  MaxU32,         \* u32::MAX in small, where the failure count sticks
  InboxCap,       \* bound: frames the client has not read yet
  SessionCap,     \* bound: frames the server sends in one session
  MaxHold         \* bound: ticks a consumer sits on one item

\* A trade update, a message of another stream, a frame without a stream such
\* as the listen acknowledgement, a frame that fails to decode; a ping, and the
\* end of the connection.
Frames == {"update", "other", "ack", "garbled", "ping", "end"}

\* The one reply of the handshake: "authorized", any other reply of the server
\* that is JSON - a refusal or a passing error - and everything that is none.
Replies == {"authorized", "refusal", "trouble", "broken"}

ASSUME TradingAssumption ==
  /\ DataTimeout \in Nat
  /\ ReceivePoll \in Nat \ {0}
  /\ MinBackoff \in Nat /\ MaxBackoff \in Nat /\ CheckWindow(MinBackoff, MaxBackoff)
  /\ StableSession \in Nat /\ CheckStableSession(StableSession)
  /\ MaxU32 \in Nat \ {0}
  /\ InboxCap \in Nat /\ SessionCap \in Nat /\ MaxHold \in Nat

VARIABLES
  oauth,      \* the credentials are an OAuth token, which this stream refuses
  phase,      \* where run stands
  retries,    \* its count of consecutive failures
  reply,      \* what came of the last attempt to connect
  delivered,  \* delivered_update of this session
  sinceData,  \* time since last_update, as far as data_timeout cares
  age,        \* time since session_start, as far as stable_session cares
  left,       \* what is left of the poll or of the backoff sleep
  held,       \* ticks the consumer has sat on the item in hand
  inbox,      \* frames that have arrived and were not read
  sent,       \* frames the server has sent in this session
  due         \* of those, the items the consumer is still to be handed

session == <<delivered, sinceData, age>>
vars == <<oauth, phase, retries, reply, session, left, held, inbox, sent, due>>

\* What decode and run make an item for the consumer of.
Yields(f) == f \in {"update", "other", "garbled"}

\* TradeStreamMessage::is_trade_update
IsTradeUpdate(f) == f = "update"

\* A bug to catch: a broken handshake is taken for a refusal.
Rejected_AnyFailure(r) == r # "authorized"

\* connect's Error::Credentials, the only fatal error: the wrong kind of
\* credentials, or any reply other than "authorized".
Rejected(r) == r \in {"oauth", "refusal", "trouble"}

Init ==
  /\ oauth \in BOOLEAN
  /\ phase = "opening"
  /\ retries = 0
  /\ reply = "none"
  /\ delivered = FALSE /\ sinceData = 0 /\ age = 0
  /\ left = 0 /\ held = 0
  /\ inbox = <<>> /\ sent = 0 /\ due = 0

(***************************************************************************)
(* Connecting.                                                             *)
(***************************************************************************)
\* connect_async; an OAuth token is only noticed, and is final, after it.
Open == /\ phase = "opening"
        /\ phase' = IF oauth THEN "failed" ELSE "authenticating"
        /\ reply' = IF oauth THEN "oauth" ELSE reply
        /\ UNCHANGED <<oauth, retries, session, left, held, inbox, sent, due>>

OpenFails == /\ phase = "opening"
             /\ phase' = "failed"
             /\ reply' = "broken"
             /\ UNCHANGED <<oauth, retries, session, left, held, inbox, sent, due>>

\* "authenticate" is sent at once and one frame is read; only if it authorizes
\* is "listen" sent, and the session begins.
Authenticate ==
  /\ phase = "authenticating"
  /\ reply' \in Replies
  /\ phase' = IF reply' = "authorized" THEN "top" ELSE "failed"
  /\ delivered' = FALSE /\ sinceData' = 0 /\ age' = 0
  /\ inbox' = <<>> /\ sent' = 0 /\ due' = 0
  /\ UNCHANGED <<oauth, retries, left, held>>

SleepBackoff(n) ==
  /\ retries' = n
  /\ left' \in ReconnectDelays(n, MinBackoff, MaxBackoff)
  /\ phase' = "sleeping"

\* The consumer has seen the error and polls again.
AfterFailure ==
  /\ phase = "failed"
  /\ \/ Rejected(reply) /\ phase' = "over" /\ UNCHANGED <<retries, left>>
     \/ ~Rejected(reply) /\ SleepBackoff(SaturatingInc(retries, MaxU32))
  /\ UNCHANGED <<oauth, reply, session, held, inbox, sent, due>>

\* A bug to catch: the stream stops trying once the count sticks.
Wake_GivesUp == /\ phase = "sleeping"
                /\ left = 0
                /\ retries < MaxU32
                /\ phase' = "opening"
                /\ UNCHANGED <<oauth, retries, reply, session, left, held, inbox, sent, due>>

Wake == /\ phase = "sleeping"
        /\ left = 0
        /\ phase' = "opening"
        /\ UNCHANGED <<oauth, retries, reply, session, left, held, inbox, sent, due>>

(***************************************************************************)
(* A session.                                                              *)
(***************************************************************************)
Healthy == delivered \/ age >= StableSession

\* A bug to catch: the count is cleared only by an update, as it once was.
NextRetries_UpdatesOnly == SaturatingInc(IF delivered THEN 0 ELSE retries, MaxU32)

NextRetries == SaturatingInc(IF Healthy THEN 0 ELSE retries, MaxU32)

\* The socket is closed, the session judged, the stream backs off.
EndSession == SleepBackoff(NextRetries) /\ UNCHANGED <<oauth, reply, session, held>>

Stale == DataTimeout > 0 /\ sinceData >= DataTimeout

Poll == IF DataTimeout = 0 THEN ReceivePoll
        ELSE Least(ReceivePoll, DataTimeout - sinceData)

GoStale == /\ phase = "top"
           /\ Stale
           /\ EndSession
           /\ UNCHANGED <<inbox, sent, due>>

StartRead == /\ phase = "top"
             /\ ~Stale
             /\ phase' = "reading"
             /\ left' = Poll
             /\ UNCHANGED <<oauth, retries, reply, session, held, inbox, sent, due>>

PollElapses == /\ phase = "reading"
               /\ inbox = <<>>
               /\ left = 0
               /\ phase' = "top"
               /\ UNCHANGED <<oauth, retries, reply, session, left, held, inbox, sent, due>>

\* A bug to catch: what cannot be decoded is dropped without a word.
Handed_GarbledDropped(f) == f \in {"update", "other"}

Handed(f) == Yields(f)

ReadEnd == /\ phase = "reading"
           /\ inbox # <<>> /\ Head(inbox) = "end"
           /\ inbox' = Tail(inbox)
           /\ EndSession
           /\ UNCHANGED <<sent, due>>

ReadFrame ==
  /\ phase = "reading"
  /\ inbox # <<>> /\ Head(inbox) # "end"
  /\ inbox' = Tail(inbox)
  /\ delivered' = (delivered \/ IsTradeUpdate(Head(inbox)))
  /\ sinceData' = IF IsTradeUpdate(Head(inbox)) THEN 0 ELSE sinceData
  /\ phase' = IF Handed(Head(inbox)) THEN "yielded" ELSE "top"
  /\ due' = IF Handed(Head(inbox)) THEN due - 1 ELSE due
  /\ held' = 0
  /\ UNCHANGED <<oauth, retries, reply, age, left, sent>>

Resume == /\ phase = "yielded"
          /\ phase' = "top"
          /\ UNCHANGED <<oauth, retries, reply, session, left, held, inbox, sent, due>>

(***************************************************************************)
(* The server's side of a session, and time.                               *)
(***************************************************************************)
Live == phase \in {"top", "reading", "yielded"}

Push(f) ==
  /\ Live
  /\ ~Contains(inbox, "end")
  /\ Len(inbox) < InboxCap + (IF f = "end" THEN 1 ELSE 0)
  /\ f # "end" => sent < SessionCap
  /\ inbox' = Append(inbox, f)
  /\ sent' = IF f = "end" THEN sent ELSE sent + 1
  /\ due' = IF Yields(f) THEN due + 1 ELSE due
  /\ UNCHANGED <<oauth, phase, retries, reply, session, left, held>>

Tick ==
  /\ \/ phase = "yielded" /\ held < MaxHold /\ held' = held + 1
     \/ phase = "reading" /\ inbox = <<>> /\ left > 0 /\ held' = held
     \/ phase = "sleeping" /\ left > 0 /\ held' = held
  /\ left' = IF phase = "yielded" THEN left ELSE left - 1
  /\ IF phase = "sleeping" THEN UNCHANGED session
     ELSE /\ sinceData' = Least(sinceData + 1, DataTimeout)
          /\ age' = Least(age + 1, StableSession)
          /\ UNCHANGED delivered
  /\ UNCHANGED <<oauth, phase, retries, reply, inbox, sent, due>>

Client == \/ AfterFailure \/ Wake \/ GoStale \/ StartRead \/ PollElapses
          \/ ReadEnd \/ ReadFrame \/ Resume

Next == Client \/ Open \/ OpenFails \/ Authenticate \/ Tick
        \/ \E f \in Frames : Push(f)

Spec == Init /\ [][Next]_vars

\* As for the market data stream: the executor, the consumer, the clock and the
\* operating system go on; nothing is assumed of the server,
FairSpec == Spec /\ WF_vars(Client) /\ SF_vars(Tick) /\ WF_vars(Open \/ OpenFails)

\* except, by ComesBack, that it lets in a client that keeps trying.
LetsIn == Authenticate /\ reply' = "authorized"
ServerLetsIn == SF_vars(Open) /\ SF_vars(LetsIn)

(***************************************************************************)
(* Properties.                                                             *)
(***************************************************************************)
\* Every update, and every frame that cannot be decoded, that arrived in a
\* session is handed to the consumer or still unread.
NothingLost == Live => due = Cardinality({i \in DOMAIN inbox : Yields(inbox[i])})

\* The same supervision as the market data stream's.
Mode == IF phase \in {"opening", "authenticating", "failed"} THEN "trying"
        ELSE IF Live THEN "up"
        ELSE IF phase = "sleeping" THEN "pausing" ELSE "over"

Supervision == INSTANCE Reconnect WITH
                 MaxCount <- MaxU32, mode <- Mode, failures <- retries,
                 proved <- (Live /\ Healthy),
                 useless <- reply \in {"oauth", "refusal", "trouble"}

ImplementsReconnect == Supervision!RecSpec

\* A quiet account does not leave the stream at its longest backoff: a session
\* that ends after stable_session, with or without an update, is followed by a
\* pause of at most min_backoff.
QuietSessionForgiven ==
  [][Live /\ age >= StableSession /\ phase' = "sleeping" => left' <= MinBackoff]_vars

\* After a failure that is not final a server that lets the client in gets it
\* back.
ComesBack == ServerLetsIn => (phase = "sleeping") ~> (Live \/ phase = "over")

(***************************************************************************)
(* Stated by the documentation of run, and not so (see the findings).      *)
(***************************************************************************)
\* The stream ends only for credentials that were refused.
EndsOnlyOnRefusal == phase = "over" => reply \in {"oauth", "refusal"}
=============================================================================
