-------------------------- MODULE TradingStreamProofs --------------------------
(***************************************************************************)
(* What the trade update stream promises, and that it supervises its       *)
(* connection as Reconnect says, for every window, timeout and bound.      *)
(***************************************************************************)
EXTENDS TradingStream, DataLemmas

(***************************************************************************)
(* Types, and what is known of a refusal.                                  *)
(***************************************************************************)
Phases == {"opening", "authenticating", "failed", "top", "reading", "yielded",
           "sleeping", "over"}

Flags == /\ phase \in Phases
         /\ reply \in Replies \cup {"none", "oauth"}
         /\ delivered \in BOOLEAN

Clocks == /\ retries \in 0..MaxU32
          /\ sinceData \in 0..DataTimeout
          /\ age \in 0..StableSession
          /\ left \in Nat

Queues == /\ inbox \in Seq(Frames)
          /\ due \in Int

\* A stream that was refused has failed, and stays so.
Refusals == Rejected(reply) => phase \in {"failed", "over"}

Sound == Flags /\ Clocks /\ Queues /\ Refusals

\* The bounds and durations are numbers, and those that are checked are positive.
LEMMA Numbers ==
  /\ DataTimeout \in Nat /\ ReceivePoll \in Nat /\ ReceivePoll > 0
  /\ StableSession \in Nat /\ StableSession > 0
  /\ MaxU32 \in Nat /\ MaxU32 > 0
BY TradingAssumption DEF CheckStableSession

LEMMA SleepsAreTimes ==
  ASSUME NEW n PROVE ReconnectDelays(n, MinBackoff, MaxBackoff) \subseteq Nat
BY TradingAssumption DEF ReconnectDelays

LEMMA InitSound == Init => Sound
<1> SUFFICES ASSUME Init PROVE Sound
  OBVIOUS
<1>1. Flags
  BY DEF Init, Flags, Phases
<1>2. Clocks
  BY Numbers DEF Init, Clocks
<1>3. Queues
  BY DEF Init, Queues
<1>4. Refusals
  BY DEF Init, Refusals, Rejected
<1> QED
  BY <1>1, <1>2, <1>3, <1>4 DEF Sound

LEMMA FlagsKept == Sound /\ [Next]_vars => Flags'
<1> SUFFICES ASSUME Sound, [Next]_vars PROVE Flags'
  OBVIOUS
<1> USE DEF Sound, Flags, Phases
<1>1. CASE Open \/ OpenFails \/ Authenticate
  BY <1>1 DEF Open, OpenFails, Authenticate, Replies, session
<1>2. CASE AfterFailure \/ Wake \/ GoStale \/ StartRead \/ PollElapses \/ ReadEnd
  BY <1>2 DEF AfterFailure, Wake, GoStale, StartRead, PollElapses, ReadEnd, EndSession,
       SleepBackoff, session
<1>3. CASE ReadFrame \/ Resume
  BY <1>3 DEF ReadFrame, Resume, IsTradeUpdate, session
<1>4. CASE Tick \/ UNCHANGED vars \/ \E f \in Frames : Push(f)
  BY <1>4 DEF Tick, Push, vars, session
<1> QED
  BY <1>1, <1>2, <1>3, <1>4 DEF Next, Client

LEMMA ClocksKept == Sound /\ [Next]_vars => Clocks'
<1> SUFFICES ASSUME Sound, [Next]_vars PROVE Clocks'
  OBVIOUS
<1> USE Numbers, SleepsAreTimes DEF Sound, Flags, Clocks
<1>1. CASE Open \/ OpenFails \/ Authenticate
  BY <1>1 DEF Open, OpenFails, Authenticate, session
<1>2. CASE AfterFailure
  BY <1>2 DEF AfterFailure, SleepBackoff, SaturatingInc, session
<1>3. CASE GoStale \/ ReadEnd
  BY <1>3 DEF GoStale, ReadEnd, EndSession, SleepBackoff, NextRetries, SaturatingInc, session
<1>4. CASE StartRead
  BY <1>4 DEF StartRead, Stale, Poll, Least, session
<1>5. CASE Wake \/ PollElapses \/ Resume
  BY <1>5 DEF Wake, PollElapses, Resume, session
<1>6. CASE ReadFrame
  BY <1>6 DEF ReadFrame
<1>7. CASE Tick
  BY <1>7 DEF Tick, Least, session
<1>8. CASE UNCHANGED vars \/ \E f \in Frames : Push(f)
  BY <1>8 DEF Push, vars, session
<1> QED
  BY <1>1, <1>2, <1>3, <1>4, <1>5, <1>6, <1>7, <1>8 DEF Next, Client

LEMMA QueuesKept == Sound /\ [Next]_vars => Queues'
<1> SUFFICES ASSUME Sound, [Next]_vars PROVE Queues'
  OBVIOUS
<1> USE DEF Sound, Queues
<1>1. CASE ReadEnd \/ ReadFrame
  BY <1>1 DEF ReadEnd, ReadFrame
<1>2. CASE Authenticate
  BY <1>2 DEF Authenticate
<1>5. ASSUME NEW f \in Frames, Push(f) PROVE Queues'
  <2>1. inbox' = Append(inbox, f) /\ due' = IF Yields(f) THEN due + 1 ELSE due
    BY <1>5 DEF Push
  <2>2. inbox' \in Seq(Frames)
    BY <2>1
  <2>3. due' \in Int
    BY <2>1
  <2> QED
    BY <2>2, <2>3
<1>3. CASE UNCHANGED <<inbox, due>>
  BY <1>3
<1>4. CASE \/ Open \/ OpenFails \/ AfterFailure \/ Wake \/ GoStale \/ StartRead \/ PollElapses
           \/ Resume \/ Tick \/ UNCHANGED vars
  BY <1>3, <1>4 DEF Open, OpenFails, AfterFailure, Wake, GoStale, StartRead, PollElapses,
       Resume, Tick, vars
<1> QED
  BY <1>1, <1>2, <1>4, <1>5 DEF Next, Client

LEMMA RefusalsKept == Sound /\ [Next]_vars => Refusals'
<1> SUFFICES ASSUME Sound, [Next]_vars PROVE Refusals'
  OBVIOUS
<1> USE DEF Sound, Flags, Phases, Refusals, Rejected
<1>1. CASE Open \/ OpenFails \/ Authenticate
  BY <1>1 DEF Open, OpenFails, Authenticate, Replies
<1>2. CASE AfterFailure \/ Wake \/ GoStale \/ StartRead \/ PollElapses
  BY <1>2 DEF AfterFailure, Wake, GoStale, StartRead, PollElapses, EndSession, SleepBackoff
<1>3. CASE ReadEnd \/ ReadFrame \/ Resume
  BY <1>3 DEF ReadEnd, EndSession, SleepBackoff, ReadFrame, Resume
<1>4. CASE Tick \/ UNCHANGED vars \/ \E f \in Frames : Push(f)
  BY <1>4 DEF Tick, Push, vars
<1> QED
  BY <1>1, <1>2, <1>3, <1>4 DEF Next, Client

LEMMA SoundKept == Sound /\ [Next]_vars => Sound'
BY FlagsKept, ClocksKept, QueuesKept, RefusalsKept DEF Sound

LEMMA AlwaysSound == Spec => []Sound
BY InitSound, SoundKept, PTL DEF Spec

(***************************************************************************)
(* Nothing that arrived is lost.                                           *)
(***************************************************************************)
\* The frames the consumer is to be handed something for.
Kinds == {"update", "other", "garbled"}

LEMMA WaitingPlaces == {i \in DOMAIN inbox : Yields(inbox[i])} = Places(inbox, Kinds)
BY DEF Places, Yields, Kinds

Counted == Live => due = Cardinality(Places(inbox, Kinds))

LEMMA CountedKept == Sound /\ Counted /\ [Next]_vars => Counted'
<1> SUFFICES ASSUME Sound, Counted, [Next]_vars PROVE Counted'
  OBVIOUS
<1>1. inbox \in Seq(Frames) /\ due \in Int
  BY DEF Sound, Queues
<1>2. CASE Authenticate
  <2>1. inbox' = <<>> /\ due' = 0
    BY <1>2 DEF Authenticate
  <2> QED
    BY <2>1, PlacesOfNone DEF Counted
<1>3. CASE ReadFrame
  <2>1. /\ inbox # <<>> /\ inbox' = Tail(inbox) /\ Live
        /\ due' = IF Head(inbox) \in Kinds THEN due - 1 ELSE due
    BY <1>3 DEF ReadFrame, Live, Handed, Yields, Kinds
  <2>2. Cardinality(Places(inbox, Kinds))
          = Cardinality(Places(inbox', Kinds)) + IF Head(inbox) \in Kinds THEN 1 ELSE 0
    BY <1>1, <2>1, PlacesTail
  <2>3. Cardinality(Places(inbox', Kinds)) \in Nat
    <3>1. inbox' \in Seq(Frames)
      BY <1>1, <2>1
    <3> QED
      BY <3>1, PlacesFinite
  <2>4. due = Cardinality(Places(inbox, Kinds))
    BY <2>1 DEF Counted
  <2>5. due' = Cardinality(Places(inbox', Kinds))
    BY <1>1, <2>1, <2>2, <2>3, <2>4
  <2> QED
    BY <2>5 DEF Counted
<1>4. ASSUME NEW f \in Frames, Push(f) PROVE Counted'
  <2>1. /\ inbox' = Append(inbox, f) /\ Live
        /\ due' = IF f \in Kinds THEN due + 1 ELSE due
    BY <1>4 DEF Push, Yields, Kinds
  <2>2. Cardinality(Places(inbox', Kinds))
          = Cardinality(Places(inbox, Kinds)) + IF f \in Kinds THEN 1 ELSE 0
    BY <1>1, <2>1, PlacesAppend
  <2>3. due = Cardinality(Places(inbox, Kinds))
    BY <2>1 DEF Counted
  <2>4. due' = Cardinality(Places(inbox', Kinds))
    BY <1>1, <2>1, <2>2, <2>3
  <2> QED
    BY <2>4 DEF Counted
<1>5. CASE Open \/ OpenFails \/ AfterFailure \/ Wake \/ GoStale \/ ReadEnd
  BY <1>5 DEF Open, OpenFails, AfterFailure, Wake, GoStale, ReadEnd, EndSession,
       SleepBackoff, Counted, Live
<1>6. CASE StartRead \/ PollElapses \/ Resume \/ Tick \/ UNCHANGED vars
  <2>1. UNCHANGED <<inbox, due>> /\ (Live' => Live)
    BY <1>6 DEF StartRead, PollElapses, Resume, Tick, vars, Live
  <2> QED
    BY <2>1 DEF Counted
<1> QED
  BY <1>2, <1>3, <1>4, <1>5, <1>6 DEF Next, Client

\* Every update, every message of another stream and every frame that cannot be
\* decoded is handed to the consumer or still unread, however frames and reads
\* interleave.
THEOREM UpdatesAreNotLost == Spec => []NothingLost
<1>1. Init => Counted
  BY DEF Init, Counted, Live
<1>2. Counted => NothingLost
  BY WaitingPlaces DEF Counted, NothingLost
<1> QED
  BY <1>1, <1>2, AlwaysSound, CountedKept, PTL DEF Spec

(***************************************************************************)
(* A quiet session is forgiven.                                            *)
(***************************************************************************)
\* The first failure of a row waits for no more than the shortest backoff.
LEMMA FirstWaitIsShort ==
  ASSUME NEW d \in ReconnectDelays(1, MinBackoff, MaxBackoff)
  PROVE  d <= MinBackoff
<1>1. MinBackoff \in Nat /\ MaxBackoff \in Nat /\ MaxBackoff >= MinBackoff
  BY TradingAssumption DEF CheckWindow
<1>2. 2 ^ (1 - 1) = 1
  OBVIOUS
<1>3. CappedDelay(1, MinBackoff, MaxBackoff) = Least(MinBackoff, MaxBackoff)
  <2>1. CappedDelay(1, MinBackoff, MaxBackoff) = Least(MinBackoff * 2 ^ (1 - 1), MaxBackoff)
    <3>1. 1 \in Nat \ {0}
      OBVIOUS
    <3> QED
      BY <1>1, <3>1, CappedDoubling, Zenon
  <2>2. MinBackoff * 2 ^ (1 - 1) = MinBackoff
    BY <1>1, <1>2
  <2> QED
    BY <2>1, <2>2, Zenon
<1>4. CappedDelay(1, MinBackoff, MaxBackoff) = MinBackoff
  BY <1>1, <1>3 DEF Least
<1> QED
  BY <1>4 DEF ReconnectDelays

\* Whatever ended it and however often the stream had failed before, a session
\* that lasted is followed by a pause of at most min_backoff.
THEOREM LongSessionsAreForgiven == Spec => QuietSessionForgiven
<1>1. ASSUME Sound, [Next]_vars, Live, age >= StableSession, phase' = "sleeping"
      PROVE  left' <= MinBackoff
  <2>1. GoStale \/ ReadEnd
    <3>1. phase # "sleeping" /\ phase # "failed" /\ phase' # phase
      BY <1>1 DEF Live
    <3>2. ~(\E f \in Frames : Push(f)) /\ ~Tick /\ ~UNCHANGED vars
      BY <3>1 DEF Push, Tick, vars
    <3>3. ~(Open \/ OpenFails \/ Authenticate \/ AfterFailure \/ Wake \/ StartRead
            \/ PollElapses \/ ReadFrame \/ Resume)
      BY <1>1, <3>1 DEF Open, OpenFails, Authenticate, AfterFailure, Wake, StartRead,
           PollElapses, ReadFrame, Resume
    <3> QED
      BY <1>1, <3>2, <3>3 DEF Next, Client
  <2>2. NextRetries = 1
    BY <1>1, Numbers DEF NextRetries, Healthy, SaturatingInc
  <2>3. left' \in ReconnectDelays(1, MinBackoff, MaxBackoff)
    BY <2>1, <2>2 DEF GoStale, ReadEnd, EndSession, SleepBackoff
  <2> QED
    BY <2>3, FirstWaitIsShort
<1>2. Sound /\ [Next]_vars => [Live /\ age >= StableSession /\ phase' = "sleeping"
                                 => left' <= MinBackoff]_vars
  BY <1>1
<1> QED
  BY <1>2, AlwaysSound, PTL DEF Spec, QuietSessionForgiven

(***************************************************************************)
(* The supervision is Reconnect's.                                         *)
(***************************************************************************)
LEMMA AttemptsAreSupervised ==
  ASSUME Sound, Open \/ OpenFails \/ Authenticate \/ AfterFailure \/ Wake
  PROVE  [Supervision!RecNext]_(Supervision!recVars)
<1> USE DEF Mode, Live, Supervision!recVars
<1>1. phase \in {"opening", "authenticating"} => ~Rejected(reply)
  BY DEF Sound, Refusals
<1>2. CASE Open \/ OpenFails
  <2>1. CASE Open /\ oauth
    <3>1. Supervision!Learn
      BY <1>2, <2>1 DEF Open, session, Supervision!Learn
    <3> QED
      BY <3>1 DEF Supervision!RecNext
  <2>2. CASE OpenFails \/ ~oauth
    BY <1>1, <1>2, <2>2 DEF Open, OpenFails, Rejected, session
  <2> QED
    BY <1>2, <2>1, <2>2
<1>3. CASE Authenticate
  <2>1. CASE reply' = "authorized"
    <3>1. Supervision!ComeUp
      BY <1>1, <1>3, <2>1, Numbers
         DEF Authenticate, Rejected, Healthy, Supervision!ComeUp
    <3> QED
      BY <3>1 DEF Supervision!RecNext
  <2>2. CASE Rejected(reply')
    <3>1. Supervision!Learn
      BY <1>3, <2>2 DEF Authenticate, Rejected, Supervision!Learn
    <3> QED
      BY <3>1 DEF Supervision!RecNext
  <2>3. CASE reply' = "broken"
    BY <1>1, <1>3, <2>3 DEF Authenticate, Rejected
  <2> QED
    BY <1>3, <2>1, <2>2, <2>3 DEF Authenticate, Replies, Rejected
<1>4. CASE AfterFailure
  <2>1. CASE Rejected(reply)
    <3>1. Supervision!GiveUp
      BY <1>4, <2>1 DEF AfterFailure, Rejected, session, Supervision!GiveUp
    <3> QED
      BY <3>1 DEF Supervision!RecNext
  <2>2. CASE ~Rejected(reply)
    <3>1. Supervision!FailToConnect
      BY <1>4, <2>2, Numbers
         DEF AfterFailure, Rejected, SleepBackoff, SaturatingInc, session, Sound, Clocks,
             Supervision!FailToConnect, Supervision!OneMore
    <3> QED
      BY <3>1 DEF Supervision!RecNext
  <2> QED
    BY <2>1, <2>2
<1>5. CASE Wake
  <2>1. Supervision!TryAgain
    BY <1>5 DEF Wake, session, Supervision!TryAgain
  <2> QED
    BY <2>1 DEF Supervision!RecNext
<1> QED
  BY <1>2, <1>3, <1>4, <1>5

LEMMA SessionsAreSupervised ==
  ASSUME Sound,
         \/ GoStale \/ StartRead \/ PollElapses \/ ReadEnd \/ ReadFrame \/ Resume \/ Tick
         \/ \E f \in Frames : Push(f)
  PROVE  [Supervision!RecNext]_(Supervision!recVars)
<1> USE DEF Mode, Live, Supervision!recVars
<1>1. CASE StartRead \/ PollElapses \/ Resume \/ \E f \in Frames : Push(f)
  <2>1. \A f \in Frames : Push(f) => UNCHANGED <<phase, retries, reply, delivered, age>>
    BY DEF Push, session
  <2> QED
    BY <1>1, <2>1 DEF StartRead, PollElapses, Resume, Healthy, session
<1>2. CASE GoStale \/ ReadEnd
  <2>1. retries' = IF Healthy THEN 1 ELSE Supervision!OneMore(retries)
    BY <1>2, Numbers
       DEF GoStale, ReadEnd, EndSession, SleepBackoff, NextRetries, SaturatingInc, Sound,
           Clocks, Supervision!OneMore
  <2>2. ~Rejected(reply)
    BY <1>2 DEF GoStale, ReadEnd, Sound, Refusals
  <2>3. Supervision!GoDown
    BY <1>2, <2>1, <2>2
       DEF GoStale, ReadEnd, EndSession, SleepBackoff, Rejected, Supervision!GoDown
  <2> QED
    BY <2>3 DEF Supervision!RecNext
<1>3. CASE ReadFrame
  <2>1. /\ UNCHANGED <<Mode, retries, reply>> /\ Mode = "up" /\ Live'
        /\ Healthy => Healthy'
    BY <1>3 DEF ReadFrame, Healthy
  <2>2. CASE Healthy'
    <3>1. Supervision!Prove
      BY <2>1, <2>2 DEF Supervision!Prove
    <3> QED
      BY <3>1 DEF Supervision!RecNext
  <2>3. CASE ~Healthy'
    BY <2>1, <2>3
  <2> QED
    BY <2>2, <2>3
<1>4. CASE Tick
  <2>1. UNCHANGED <<Mode, retries, reply, phase>> /\ Mode \in {"up", "pausing"}
    BY <1>4 DEF Tick
  <2>2. CASE phase = "sleeping"
    BY <1>4, <2>1, <2>2 DEF Tick, session
  <2>3. CASE phase # "sleeping"
    <3>1. /\ delivered' = delivered /\ Mode = "up" /\ Live'
          /\ age >= StableSession => age' >= StableSession
      BY <1>4, <2>1, <2>3, Numbers DEF Tick, Least, Sound, Clocks
    <3>2. CASE Healthy'
      <4>1. Supervision!Prove
        BY <2>1, <3>1, <3>2 DEF Supervision!Prove
      <4> QED
        BY <4>1 DEF Supervision!RecNext
    <3>3. CASE ~Healthy'
      BY <2>1, <3>1, <3>3 DEF Healthy
    <3> QED
      BY <3>2, <3>3
  <2> QED
    BY <2>2, <2>3
<1> QED
  BY <1>1, <1>2, <1>3, <1>4

\* The trade stream supervises its connection exactly as the market data stream
\* does, although what refuses it and what proves a session are its own.
THEOREM TradingSupervises == Spec => ImplementsReconnect
<1>1. Init => Supervision!RecInit
  BY DEF Init, Mode, Live, Supervision!RecInit
<1>2. Sound /\ [Next]_vars => [Supervision!RecNext]_(Supervision!recVars)
  <2>1. UNCHANGED vars => UNCHANGED Supervision!recVars
    BY DEF vars, session, Mode, Live, Healthy, Supervision!recVars
  <2> QED
    BY <2>1, AttemptsAreSupervised, SessionsAreSupervised DEF Next, Client
<1> QED
  BY <1>1, <1>2, AlwaysSound, PTL DEF Spec, ImplementsReconnect, Supervision!RecSpec
=============================================================================
