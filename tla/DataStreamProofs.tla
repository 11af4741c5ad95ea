---------------------------- MODULE DataStreamProofs ----------------------------
(***************************************************************************)
(* What the market data stream promises in a session, and that it          *)
(* supervises its connection as Reconnect says, for every window, timeout, *)
(* batch and bound.                                                        *)
(***************************************************************************)
EXTENDS DataStream, DataLemmas

(***************************************************************************)
(* Counting what lies unread.                                              *)
(***************************************************************************)
\* The three kinds of frame are apart, and each holds a number of messages.
LEMMA FrameKinds ==
  /\ Ping \in Frames /\ MessagesOf(Ping) = 0
  /\ End \in Frames /\ MessagesOf(End) = 0
  /\ Ping # End
  /\ \A b \in Batches : /\ Frame(b) \in Frames
                        /\ Frame(b).kind = "batch"
                        /\ Frame(b).messages = b
                        /\ MessagesOf(Frame(b)) = Len(b)
                        /\ Frame(b) # Ping /\ Frame(b) # End
                        /\ Len(b) \in Nat
  /\ \A f \in Frames : f = Ping \/ f = End \/ \E b \in Batches : f = Frame(b)
  /\ \A f \in Frames : MessagesOf(f) \in Nat
<1>1. \A b \in Batches : Len(b) \in Nat
  BY StreamAssumption
<1>2. /\ Ping.kind = "ping" /\ End.kind = "end"
      /\ \A b : Frame(b).kind = "batch" /\ Frame(b).messages = b
  BY DEF Ping, End, Frame
<1>3. Ping \in Frames /\ End \in Frames /\ \A b \in Batches : Frame(b) \in Frames
  BY DEF Frames
<1>4. \A f \in Frames : f = Ping \/ f = End \/ \E b \in Batches : f = Frame(b)
  BY DEF Frames
<1>5. /\ MessagesOf(Ping) = 0 /\ MessagesOf(End) = 0
      /\ \A b \in Batches : MessagesOf(Frame(b)) = Len(b)
  BY <1>2 DEF MessagesOf
<1>6. Ping # End /\ \A b \in Batches : Frame(b) # Ping /\ Frame(b) # End
  BY <1>2
<1>7. \A f \in Frames : MessagesOf(f) \in Nat
  BY <1>1, <1>4, <1>5
<1> QED
  BY <1>1, <1>2, <1>3, <1>4, <1>5, <1>6, <1>7

LEMMA SizesAreNumbers == ASSUME NEW q \in Seq(Frames) PROVE Sizes(q) \in Seq(Nat)
<1>1. \A i \in DOMAIN q : MessagesOf(q[i]) \in Nat
  <2>1. \A i \in DOMAIN q : q[i] \in Frames
    OBVIOUS
  <2> QED
    BY <2>1, FrameKinds
<1>2. DOMAIN q = 1..Len(q) /\ Len(q) \in Nat
  OBVIOUS
<1> QED
  BY <1>1, <1>2 DEF Sizes

\* Nothing lies unread in an empty inbox.
LEMMA NothingWaiting == SumFunction(Sizes(<<>>)) = 0
<1>1. DOMAIN Sizes(<<>>) = {}
  BY DEF Sizes
<1> QED
  BY <1>1, SumOfNone DEF SumFunction

\* A frame that arrives adds its messages to those that lie unread.
LEMMA ArrivalAdds ==
  ASSUME NEW q \in Seq(Frames), NEW f \in Frames
  PROVE  SumFunction(Sizes(Append(q, f))) = SumFunction(Sizes(q)) + MessagesOf(f)
<1>1. Sizes(Append(q, f)) = Append(Sizes(q), MessagesOf(f))
  BY DEF Sizes
<1> QED
  BY <1>1, SizesAreNumbers, SumAppend, FrameKinds

\* A frame that is read takes its messages from those that lie unread.
LEMMA ReadingTakes ==
  ASSUME NEW q \in Seq(Frames), q # <<>>
  PROVE  /\ SumFunction(Sizes(q)) = MessagesOf(Head(q)) + SumFunction(Sizes(Tail(q)))
         /\ SumFunction(Sizes(Tail(q))) \in Nat
<1>1. Sizes(q) # <<>> /\ Head(Sizes(q)) = MessagesOf(Head(q)) /\ Sizes(Tail(q)) = Tail(Sizes(q))
  BY DEF Sizes
<1> QED
  BY <1>1, SizesAreNumbers, SumTail

(***************************************************************************)
(* Types, and what a session has come to.                                  *)
(***************************************************************************)
\* The consumer that has been handed an item has it; the stream gives up when
\* and only when it knows better, and it is not connected for long after that.
Coherent ==
  /\ phase = "yielded" => batch # <<>>
  /\ heard <=> verdict = "fatal"
  /\ heard => phase \in {"failed", "yielded", "closing", "over"}

Flags == /\ setup \in Setups
         /\ phase \in Phases
         /\ verdict \in {"reconnect", "fatal"}
         /\ heard \in BOOLEAN
         /\ delivered \in BOOLEAN
         /\ ripe \in BOOLEAN
         /\ pinged \in BOOLEAN

Clocks == /\ retries \in 0..MaxU32
          /\ sinceData \in 0..DataTimeout
          /\ age \in 0..StableSession
          /\ left \in Nat
          /\ held \in 0..setup.hold
          /\ silence \in 0..DataTimeout

Queues == /\ batch \in Seq(Messages)
          /\ inbox \in Seq(Frames)
          /\ Len(inbox) <= InboxCap + 1
          /\ sent \in 0..SessionCap
          /\ got \in Nat

Sound == Flags /\ Clocks /\ Queues /\ Coherent

LEMMA SoundIsTyped == Sound => TypeOK
BY DEF Sound, Flags, Clocks, Queues, TypeOK

\* The bounds and durations are numbers, and those that are checked are positive.
LEMMA Numbers ==
  /\ DataTimeout \in Nat /\ ReceivePoll \in Nat /\ ReceivePoll > 0
  /\ StableSession \in Nat /\ StableSession > 0
  /\ MaxU32 \in Nat /\ MaxU32 > 0
  /\ InboxCap \in Nat /\ SessionCap \in Nat
BY StreamAssumption DEF CheckStableSession

LEMMA HoldIsATime == \A s \in Setups : s.hold \in Nat
<1>1. \A s \in Setups : s.hold \in Patience
  BY DEF Setups
<1> QED
  BY <1>1, StreamAssumption

LEMMA InitSound == Init => Sound
<1> SUFFICES ASSUME Init PROVE Sound
  OBVIOUS
<1>1. Flags
  BY DEF Init, Flags, Phases
<1>2. Clocks
  BY Numbers, HoldIsATime DEF Init, Clocks
<1>3. Queues
  BY Numbers DEF Init, Queues
<1>4. Coherent
  BY DEF Init, Coherent
<1> QED
  BY <1>1, <1>2, <1>3, <1>4 DEF Sound

\* What the two sleeps last.
LEMMA SleepsAreTimes ==
  ASSUME NEW n PROVE ReconnectDelays(n, MinBackoff, MaxBackoff) \subseteq Nat
BY StreamAssumption DEF ReconnectDelays

\* The steps that neither read nor wait keep a sound state sound.
LEMMA ControlKeepsSound ==
  ASSUME Sound,
         \/ Start \/ AfterFailure \/ Wake \/ GoStale \/ StartRead \/ PollElapses \/ Close
         \/ Open \/ OpenFails \/ Greet \/ HandshakeFails \/ Authenticate
  PROVE  Sound'
<1> USE DEF Start, AfterFailure, Wake, GoStale, StartRead, PollElapses, Close, Open, OpenFails,
            Greet, HandshakeFails, Authenticate, Advance, Fail, SleepBackoff, EndSession,
            session, network
<1>1. Flags'
  BY DEF Sound, Flags, Phases
<1>2. Clocks'
  <2>1. UNCHANGED setup
    OBVIOUS
  <2>2. retries' \in 0..MaxU32
    BY Numbers DEF SaturatingInc, Sound, Clocks
  <2>3. left' \in Nat
    BY Numbers, SleepsAreTimes DEF Sound, Clocks, Poll, Stale, Least
  <2>4. held' \in 0..setup.hold
    BY HoldIsATime DEF Sound, Flags, Clocks
  <2>5. sinceData' \in 0..DataTimeout /\ age' \in 0..StableSession /\ silence' \in 0..DataTimeout
    BY Numbers DEF Sound, Clocks
  <2> QED
    BY <2>1, <2>2, <2>3, <2>4, <2>5 DEF Clocks
<1>3. Queues'
  <2>1. CASE Authenticate
    BY <2>1, Numbers DEF Sound, Queues
  <2>2. CASE Close
    BY <2>2, Numbers DEF Sound, Queues
  <2>3. CASE ~Authenticate /\ ~Close
    <3>1. UNCHANGED <<batch, inbox, sent, got>>
      BY <2>3
    <3> QED
      BY <3>1 DEF Sound, Queues
  <2> QED
    BY <2>1, <2>2, <2>3
<1>4. Coherent'
  <2>1. CASE \/ /\ phase \in {"start", "opening", "greeting"}
                /\ \E to \in Phases \ {"yielded"} : Advance(to)
             \/ \E fatal \in BOOLEAN : Fail(fatal)
    BY <2>1 DEF Sound, Flags, Coherent
  <2>2. CASE Start \/ Open \/ OpenFails \/ Greet \/ HandshakeFails
    BY <2>1, <2>2 DEF Phases
  <2>3. CASE AfterFailure \/ Wake \/ Close \/ Authenticate
    BY <2>3 DEF Sound, Flags, Coherent
  <2>4. CASE GoStale \/ StartRead \/ PollElapses
    BY <2>4 DEF Sound, Flags, Coherent
  <2> QED
    BY <2>1, <2>2, <2>3, <2>4
<1> QED
  BY <1>1, <1>2, <1>3, <1>4 DEF Sound

\* The rest of a batch may be handed out, and so may a batch or nothing.
LEMMA HandOutKeepsSound ==
  ASSUME Sound, NEW b \in Seq(Messages), HandOut(b),
         ~heard, inbox' \in Seq(Frames), Len(inbox') <= Len(inbox), ripe' \in BOOLEAN,
         UNCHANGED <<sent, silence, pinged>>
  PROVE  Sound'
<1> USE DEF HandOut, IsFatal, IsMarketData
<1>1. Flags'
  <2>1. CASE b = <<>>
    BY <2>1 DEF Sound, Flags, Phases
  <2>2. CASE b # <<>>
    BY <2>2 DEF Sound, Flags, Phases
  <2> QED
    BY <2>1, <2>2
<1>2. Clocks'
  <2>1. UNCHANGED setup /\ held' \in 0..setup.hold
    BY HoldIsATime DEF Sound, Flags
  <2>2. sinceData' \in 0..DataTimeout
    BY Numbers DEF Sound, Clocks
  <2> QED
    BY <2>1, <2>2 DEF Sound, Clocks
<1>3. Queues'
  <2>1. Len(inbox) \in Nat /\ Len(inbox') \in Nat
    BY DEF Sound, Queues
  <2> QED
    BY <2>1, Numbers DEF Sound, Queues
<1>4. Coherent'
  <2>1. CASE b = <<>>
    BY <2>1 DEF Sound, Flags, Coherent
  <2>2. CASE b # <<>>
    BY <2>2 DEF Sound, Flags, Coherent
  <2> QED
    BY <2>1, <2>2
<1> QED
  BY <1>1, <1>2, <1>3, <1>4 DEF Sound

LEMMA ReadKeepsSound == ASSUME Sound, Read PROVE Sound'
<1>1. /\ inbox \in Seq(Frames) /\ inbox # <<>>
      /\ inbox' = Tail(inbox) /\ ripe' \in BOOLEAN
      /\ UNCHANGED <<sent, silence, pinged>>
  BY DEF Read, Sound, Queues, Flags, HasData
<1>2. ~heard
  BY DEF Read, Sound, Coherent
<1>3. inbox' \in Seq(Frames) /\ Len(inbox') <= Len(inbox) /\ Len(inbox) \in Nat
  BY <1>1
<1>4. ASSUME NEW b \in Seq(Messages), HandOut(b) PROVE Sound'
  BY <1>1, <1>2, <1>3, <1>4, HandOutKeepsSound
<1>5. CASE EndSession("reconnect") /\ UNCHANGED <<batch, held>>
  <2> USE <1>1, <1>2, <1>3, <1>5 DEF EndSession, Sound, session
  <2>1. Flags'
    BY DEF Flags, Phases
  <2>2. Clocks'
    BY DEF Clocks
  <2>3. Queues'
    BY Numbers DEF Queues
  <2>4. Coherent'
    BY DEF Coherent, Flags
  <2> QED
    BY <2>1, <2>2, <2>3, <2>4
<1>6. <<>> \in Seq(Messages) /\ Batches \subseteq Seq(Messages)
  BY StreamAssumption
<1> QED
  BY <1>4, <1>5, <1>6 DEF Read

LEMMA ResumeKeepsSound == ASSUME Sound, Resume PROVE Sound'
<1>1. CASE verdict = "fatal"
  <2> USE <1>1 DEF Resume, EndSession, Sound, session, network
  <2>1. Flags'
    BY DEF Flags, Phases
  <2>2. Clocks' /\ Queues'
    BY DEF Clocks, Queues
  <2>3. Coherent'
    BY DEF Coherent, Flags
  <2> QED
    BY <2>1, <2>2, <2>3
<1>2. CASE verdict # "fatal"
  <2>1. HandOut(Rest(batch)) /\ UNCHANGED network /\ batch # <<>> /\ ~heard
    BY <1>2 DEF Resume, Sound, Coherent
  <2>2. Rest(batch) \in Seq(Messages)
    BY <2>1 DEF Rest, Sound, Queues
  <2>3. /\ inbox' \in Seq(Frames) /\ Len(inbox') <= Len(inbox) /\ ripe' \in BOOLEAN
        /\ UNCHANGED <<sent, silence, pinged>>
    BY <2>1 DEF network, Sound, Queues, Flags
  <2> QED
    BY <2>1, <2>2, <2>3, HandOutKeepsSound
<1> QED
  BY <1>1, <1>2

LEMMA PushKeepsSound == ASSUME Sound, NEW f \in Frames, Push(f) PROVE Sound'
<1> USE DEF Push, Sound, session
<1>1. Flags'
  BY DEF Flags
<1>2. Clocks'
  BY Numbers DEF Clocks
<1>3. Queues'
  <2>1. MessagesOf(f) \in Nat
    BY FrameKinds
  <2>2. inbox' \in Seq(Frames) /\ Len(inbox') = Len(inbox) + 1 /\ Len(inbox) \in Nat
    BY DEF Queues
  <2>3. Len(inbox') <= InboxCap + 1
    BY <2>2, Numbers
  <2>4. sent' \in 0..SessionCap
    BY <2>1, Numbers DEF Queues
  <2> QED
    BY <2>2, <2>3, <2>4 DEF Queues
<1>4. Coherent'
  BY DEF Coherent, Flags
<1> QED
  BY <1>1, <1>2, <1>3, <1>4

LEMMA TickKeepsSound == ASSUME Sound, Tick PROVE Sound'
<1> USE DEF Tick, Sound, session
<1>1. Flags'
  BY DEF Flags, HasData
<1>2. Clocks'
  <2>1. UNCHANGED setup /\ held' \in 0..setup.hold
    BY HoldIsATime DEF Flags, Clocks
  <2>2. left' \in Nat
    BY DEF Clocks
  <2>3. /\ sinceData' \in 0..DataTimeout /\ age' \in 0..StableSession
        /\ silence' \in 0..DataTimeout
    BY Numbers DEF Clocks, Least
  <2> QED
    BY <2>1, <2>2, <2>3 DEF Clocks
<1>3. Queues' /\ Coherent'
  BY DEF Queues, Coherent
<1> QED
  BY <1>1, <1>2, <1>3

LEMMA SoundKept == Sound /\ [Next]_vars => Sound'
<1> SUFFICES ASSUME Sound, [Next]_vars PROVE Sound'
  OBVIOUS
<1>1. CASE UNCHANGED vars
  BY <1>1 DEF Sound, Flags, Clocks, Queues, Coherent, vars, session, network
<1>2. CASE Next
  BY <1>2, ControlKeepsSound, ReadKeepsSound, ResumeKeepsSound, PushKeepsSound, TickKeepsSound
     DEF Next, Client, Server
<1> QED
  BY <1>1, <1>2

LEMMA AlwaysSound == Spec => []Sound
BY InitSound, SoundKept, PTL DEF Spec

\* Every variable keeps to its type whatever the window, the timeout, the
\* batches and the bounds: the count of failures stays within its width, and no
\* clock outruns the point past which it does not matter.
THEOREM StreamTypes == Spec => []TypeOK
BY AlwaysSound, SoundIsTyped, PTL

(***************************************************************************)
(* Nothing that arrives is lost.                                           *)
(***************************************************************************)
\* What is decoded and still to be handed out, the item in hand excepted.
InHand == IF phase = "yielded" THEN Len(batch) - 1 ELSE 0

\* Handing out a batch puts its first message in the consumer's hand, and the
\* rest behind it.
LEMMA HandOutCounts ==
  ASSUME NEW b \in Seq(Messages), HandOut(b), got \in Nat
  PROVE  got' + InHand' = got + Len(b)
<1>1. Len(b) \in Nat
  OBVIOUS
<1>2. CASE b = <<>>
  BY <1>2 DEF HandOut, InHand
<1>3. CASE b # <<>>
  BY <1>1, <1>3 DEF HandOut, InHand
<1> QED
  BY <1>2, <1>3

\* What was read is what was at the head of the inbox.
LEMMA ReadLosesNothing ==
  ASSUME Sound, NothingLost, Read
  PROVE  NothingLost'
<1>1. inbox \in Seq(Frames) /\ inbox # <<>> /\ got \in Nat
  BY DEF Read, Sound, Queues
<1>2. /\ Unread = MessagesOf(Head(inbox)) + Unread'
      /\ Unread' \in Nat
  <2>1. Unread' = SumFunction(Sizes(Tail(inbox)))
    BY DEF Read, Unread
  <2> QED
    BY <1>1, <2>1, ReadingTakes DEF Unread
<1>3. sent = got + Unread /\ sent' = sent
  <2>1. MessagesOf(Head(inbox)) \in Nat
    BY <1>1, FrameKinds
  <2> QED
    BY <1>1, <1>2, <2>1 DEF Read, NothingLost, Live
<1>4. ASSUME NEW b \in Seq(Messages), HandOut(b), MessagesOf(Head(inbox)) = Len(b)
      PROVE  NothingLost'
  <2>1. got' + InHand' = got + Len(b)
    BY <1>1, <1>4, HandOutCounts
  <2>2. got' \in Nat /\ InHand' \in Int
    BY <1>1, <1>4, ReadKeepsSound DEF Sound, Queues, InHand
  <2>3. sent' = got' + Unread' + InHand'
    <3>1. Len(b) \in Nat
      OBVIOUS
    <3>2. sent' = (got + Len(b)) + Unread'
      BY <1>1, <1>2, <1>3, <1>4, <3>1
    <3>3. Unread' \in Nat
      BY <1>2
    <3> QED
      BY <2>1, <2>2, <3>2, <3>3
  <2> QED
    BY <2>3 DEF NothingLost, InHand
<1>5. CASE EndSession("reconnect")
  BY <1>5 DEF EndSession, NothingLost, Live
<1>6. <<>> \in Seq(Messages) /\ Len(<<>>) = 0
  OBVIOUS
<1>7. ASSUME NEW b \in Batches, Head(inbox) = Frame(b), HandOut(b) PROVE NothingLost'
  <2>1. b \in Seq(Messages)
    BY StreamAssumption
  <2>2. MessagesOf(Head(inbox)) = Len(b)
    BY <1>7, FrameKinds
  <2> QED
    BY <1>4, <1>7, <2>1, <2>2
<1>8. CASE Head(inbox) = Ping /\ HandOut(<<>>)
  BY <1>4, <1>6, <1>8, FrameKinds
<1> QED
  BY <1>5, <1>7, <1>8 DEF Read

LEMMA ResumeLosesNothing ==
  ASSUME Sound, NothingLost, Resume
  PROVE  NothingLost'
<1>1. CASE verdict = "fatal"
  BY <1>1 DEF Resume, EndSession, NothingLost, Live
<1>2. CASE verdict # "fatal"
  <2>1. batch \in Seq(Messages) /\ batch # <<>> /\ got \in Nat /\ HandOut(Rest(batch))
    BY <1>2 DEF Resume, Sound, Queues, Coherent
  <2>2. Rest(batch) \in Seq(Messages) /\ Len(Rest(batch)) = Len(batch) - 1 /\ Len(batch) \in Nat
    BY <2>1 DEF Rest
  <2>3. got' + InHand' = got + (Len(batch) - 1)
    BY <2>1, <2>2, HandOutCounts
  <2>4. sent = got + Unread + (Len(batch) - 1) /\ sent' = sent /\ Unread' = Unread
    BY DEF Resume, network, NothingLost, Live, Unread
  <2>5. got' \in Nat /\ InHand' \in Int /\ Unread \in Nat
    <3>1. Unread \in Nat
      BY SizesAreNumbers, SequenceSums DEF Unread, Sound, Queues
    <3> QED
      BY <3>1, ResumeKeepsSound DEF Sound, Queues, InHand
  <2>6. sent' = got' + Unread' + InHand'
    <3>1. got \in Nat /\ Len(batch) - 1 \in Int
      BY <2>1, <2>2
    <3> QED
      BY <2>3, <2>4, <2>5, <3>1
  <2> QED
    BY <2>6 DEF NothingLost, InHand
<1> QED
  BY <1>1, <1>2

LEMMA PushLosesNothing ==
  ASSUME Sound, NothingLost, NEW f \in Frames, Push(f)
  PROVE  NothingLost'
<1>1. Unread' = Unread + MessagesOf(f)
  BY ArrivalAdds DEF Push, Sound, Queues, Unread
<1>2. Unread \in Nat /\ MessagesOf(f) \in Nat
  BY FrameKinds, SizesAreNumbers, SequenceSums DEF Unread, Sound, Queues
<1>3. sent' = sent + MessagesOf(f) /\ got' = got /\ InHand' = InHand /\ Live
  BY DEF Push, InHand
<1>4. sent = got + Unread + InHand
  BY <1>3 DEF NothingLost, InHand
<1>5. got \in Nat /\ InHand \in Int
  BY DEF Sound, Queues, InHand
<1>6. sent' = got' + Unread' + InHand'
  BY <1>1, <1>2, <1>3, <1>4, <1>5
<1> QED
  BY <1>6 DEF NothingLost, InHand

LEMMA ControlLosesNothing ==
  ASSUME NothingLost,
         \/ Start \/ AfterFailure \/ Wake \/ GoStale \/ StartRead \/ PollElapses \/ Close
         \/ Open \/ OpenFails \/ Greet \/ HandshakeFails \/ Authenticate \/ Tick
         \/ UNCHANGED vars
  PROVE  NothingLost'
<1> USE DEF NothingLost, Live
<1>1. CASE \/ Start \/ AfterFailure \/ Wake \/ GoStale \/ Close
           \/ Open \/ OpenFails \/ Greet \/ HandshakeFails
  BY <1>1 DEF Start, AfterFailure, Wake, GoStale, Close, Open, OpenFails, Greet,
       HandshakeFails, Advance, Fail, SleepBackoff, EndSession
<1>2. CASE StartRead \/ PollElapses \/ Tick \/ UNCHANGED vars
  <2>1. /\ UNCHANGED <<sent, got, inbox, batch>>
        /\ phase' = "yielded" <=> phase = "yielded"
        /\ Live' => Live
    BY <1>2 DEF StartRead, PollElapses, Tick, Advance, network, vars
  <2> QED
    BY <2>1 DEF Unread
<1>3. CASE Authenticate
  BY <1>3, NothingWaiting DEF Authenticate, Unread
<1> QED
  BY <1>1, <1>2, <1>3

\* What the server sends in a session reaches the consumer complete and once,
\* whatever the batches, however long the consumer sits on an item.
THEOREM StreamLosesNothing == Spec => []NothingLost
<1>1. Init => NothingLost
  BY DEF Init, NothingLost, Live
<1>2. Sound /\ NothingLost /\ [Next]_vars => NothingLost'
  BY ControlLosesNothing, ReadLosesNothing, ResumeLosesNothing, PushLosesNothing
     DEF Next, Client, Server
<1> QED
  BY <1>1, <1>2, AlwaysSound, PTL DEF Spec

(***************************************************************************)
(* No read outlasts the deadline, and no silence goes unnoticed.           *)
(***************************************************************************)
\* The poll is cut to what data_timeout leaves, and time takes from both alike.
LEMMA DeadlineKept ==
  ASSUME Sound, PollMeetsDeadline, [Next]_vars
  PROVE  PollMeetsDeadline'
<1> USE Numbers DEF PollMeetsDeadline
<1>1. left \in Nat /\ sinceData \in 0..DataTimeout
  BY DEF Sound, Clocks
<1>2. CASE StartRead
  BY <1>1, <1>2 DEF StartRead, Stale, Poll, Least, session
<1>3. CASE Tick
  BY <1>1, <1>3 DEF Tick, Least, session
<1>4. CASE UNCHANGED vars \/ \E f \in Frames : Push(f)
  BY <1>4 DEF Push, vars, session
<1>5. CASE Read \/ Resume
  BY <1>5 DEF Read, Resume, HandOut, EndSession
<1>6. CASE \/ Start \/ AfterFailure \/ Wake \/ GoStale \/ PollElapses \/ Close
           \/ Open \/ OpenFails \/ Greet \/ HandshakeFails \/ Authenticate
  BY <1>6 DEF Start, AfterFailure, Wake, GoStale, PollElapses, Close, Open, OpenFails,
       Greet, HandshakeFails, Authenticate, Advance, Fail, SleepBackoff, EndSession
<1> QED
  BY <1>2, <1>3, <1>4, <1>5, <1>6 DEF Next, Client, Server

\* No read sleeps past the moment the session counts as stale, even when the
\* poll interval is the longer of the two, and however time is spent between.
THEOREM ReadsMeetDeadline == Spec => []PollMeetsDeadline
<1>1. Init => PollMeetsDeadline
  BY DEF Init, PollMeetsDeadline
<1> QED
  BY <1>1, AlwaysSound, DeadlineKept, PTL DEF Spec

\* Where market data lies in the inbox, as it is filled and read.
LEMMA WhereDataIs ==
  /\ ~HasData(<<>>)
  /\ \A q \in Seq(Frames), f \in Frames :
       HasData(Append(q, f)) => HasData(q) \/ HasData(<<f>>)
  /\ \A q \in Seq(Frames) : q # <<>> =>
       /\ HasData(Tail(q)) => HasData(q)
       /\ \A b \in Batches : Head(q) = Frame(b) /\ Contains(b, "data") => HasData(q)
<1> USE DEF HasData
<1>1. ~HasData(<<>>)
  OBVIOUS
<1>2. ASSUME NEW q \in Seq(Frames), NEW f \in Frames, HasData(Append(q, f))
      PROVE  HasData(q) \/ HasData(<<f>>)
  <2>1. PICK i \in DOMAIN Append(q, f) : /\ Append(q, f)[i].kind = "batch"
                                        /\ Contains(Append(q, f)[i].messages, "data")
    BY <1>2
  <2>2. (i \in DOMAIN q /\ Append(q, f)[i] = q[i]) \/ Append(q, f)[i] = f
    OBVIOUS
  <2>3. 1 \in DOMAIN <<f>> /\ <<f>>[1] = f
    OBVIOUS
  <2> QED
    BY <2>1, <2>2, <2>3
<1>3. ASSUME NEW q \in Seq(Frames), q # <<>>
      PROVE  /\ HasData(Tail(q)) => HasData(q)
             /\ \A b \in Batches : Head(q) = Frame(b) /\ Contains(b, "data") => HasData(q)
  <2>1. \A i \in DOMAIN Tail(q) : i + 1 \in DOMAIN q /\ Tail(q)[i] = q[i + 1]
    BY <1>3
  <2>2. 1 \in DOMAIN q /\ Head(q) = q[1]
    BY <1>3
  <2> QED
    BY <2>1, <2>2, FrameKinds
<1> QED
  BY <1>1, <1>2, <1>3

\* What the client's clock says of a silence, when its consumer does not hold
\* it up: it is at least as long, because time passes only when all that has
\* arrived has been handed out.
SilenceTracked ==
  setup.hold = 0 /\ Live =>
    /\ silence <= sinceData
    /\ HasData(inbox) => silence = 0
    /\ phase = "yielded" /\ Contains(batch, "data") => silence = 0

LEMMA HandOutTracks ==
  ASSUME Sound, NEW b \in Seq(Messages), HandOut(b), UNCHANGED silence,
         silence <= sinceData, HasData(inbox') => silence = 0,
         Contains(b, "data") => silence = 0
  PROVE  SilenceTracked'
<1>1. b # <<>> /\ Head(b) = "data" => Contains(b, "data")
  <2>1. b # <<>> => 1 \in 1..Len(b) /\ Head(b) = b[1]
    OBVIOUS
  <2> QED
    BY <2>1 DEF Contains
<1>2. silence \in Nat /\ sinceData \in Nat
  BY Numbers DEF Sound, Clocks
<1>3. silence' <= sinceData'
  BY <1>1, <1>2 DEF HandOut, IsMarketData
<1> QED
  BY <1>3 DEF HandOut, SilenceTracked

LEMMA SilenceKept ==
  ASSUME Sound, SilenceTracked, [Next]_vars
  PROVE  SilenceTracked'
<1>1. /\ inbox \in Seq(Frames) /\ batch \in Seq(Messages)
      /\ silence \in 0..DataTimeout /\ sinceData \in 0..DataTimeout
      /\ phase = "yielded" => batch # <<>>
  BY DEF Sound, Clocks, Queues, Coherent
<1>2. UNCHANGED setup
  BY DEF Next, Client, Server, Start, AfterFailure, Wake, GoStale, PollElapses, Close, Open,
     OpenFails, Greet, HandshakeFails, Authenticate, Advance, Fail, SleepBackoff, EndSession,
     StartRead, Read, Resume, HandOut, Push, Tick, vars
<1>3. CASE Read
  <2> SUFFICES ASSUME setup.hold = 0, Live PROVE SilenceTracked'
    BY <1>2, <1>3 DEF Read, SilenceTracked, Live
  <2>1. /\ inbox # <<>> /\ inbox' = Tail(inbox) /\ UNCHANGED silence
        /\ silence <= sinceData
        /\ HasData(inbox) => silence = 0
    BY <1>3 DEF Read, SilenceTracked
  <2>2. HasData(inbox') => silence = 0
    BY <1>1, <2>1, WhereDataIs
  <2>3. CASE Head(inbox) = Ping /\ HandOut(<<>>)
    <3>1. <<>> \in Seq(Messages) /\ ~Contains(<<>>, "data")
      BY DEF Contains
    <3> QED
      BY <2>1, <2>2, <2>3, <3>1, HandOutTracks
  <2>4. CASE EndSession("reconnect")
    BY <2>4 DEF EndSession, SilenceTracked, Live
  <2>5. ASSUME NEW b \in Batches, Head(inbox) = Frame(b), HandOut(b) PROVE SilenceTracked'
    <3>1. Contains(b, "data") => silence = 0
      BY <1>1, <2>1, <2>5, WhereDataIs
    <3>2. b \in Seq(Messages)
      BY StreamAssumption
    <3> QED
      BY <2>1, <2>2, <2>5, <3>1, <3>2, HandOutTracks
  <2> QED
    BY <1>3, <2>3, <2>4, <2>5 DEF Read
<1>4. CASE Resume
  <2>1. CASE EndSession("fatal")
    BY <2>1 DEF EndSession, SilenceTracked, Live
  <2>2. CASE HandOut(Rest(batch))
    <3> SUFFICES ASSUME setup.hold = 0 PROVE SilenceTracked'
      BY <1>2 DEF SilenceTracked
    <3>1. /\ phase = "yielded" /\ UNCHANGED <<inbox, silence>>
          /\ silence <= sinceData
          /\ HasData(inbox) => silence = 0
          /\ Contains(batch, "data") => silence = 0
      BY <1>4 DEF Resume, network, SilenceTracked, Live
    <3>2. Rest(batch) \in Seq(Messages)
      BY <1>1, <3>1 DEF Rest
    <3>3. Contains(Rest(batch), "data") => Contains(batch, "data")
      <4>1. \A i \in 1..Len(Tail(batch)) : i + 1 \in 1..Len(batch) /\ Tail(batch)[i] = batch[i + 1]
        BY <1>1, <3>1
      <4> QED
        BY <4>1 DEF Rest, Contains
    <3> QED
      BY <2>2, <3>1, <3>2, <3>3, HandOutTracks
  <2> QED
    BY <1>4, <2>1, <2>2 DEF Resume
<1>5. ASSUME NEW f \in Frames, Push(f) PROVE SilenceTracked'
  <2>1. HasData(Append(inbox, f)) => HasData(inbox) \/ HasData(<<f>>)
    BY <1>1, WhereDataIs
  <2>2. /\ UNCHANGED <<setup, phase, batch, sinceData>> /\ inbox' = Append(inbox, f)
        /\ silence' = IF HasData(<<f>>) THEN 0 ELSE silence
    BY <1>5 DEF Push, session
  <2> QED
    BY <1>1, <2>1, <2>2, Numbers DEF SilenceTracked, Live
<1>6. CASE Tick
  <2> SUFFICES ASSUME setup.hold = 0, Live PROVE SilenceTracked'
    BY <1>2, <1>6 DEF Tick, SilenceTracked, Live
  <2>1. phase = "reading" /\ inbox = <<>> /\ UNCHANGED <<phase, inbox>>
    BY <1>6 DEF Tick, Live, Sound, Clocks
  <2>2. /\ sinceData' = Least(sinceData + 1, DataTimeout)
        /\ silence' = Least(silence + 1, DataTimeout)
    BY <1>6, <2>1 DEF Tick
  <2>3. silence <= sinceData
    BY DEF SilenceTracked
  <2> QED
    BY <1>1, <2>1, <2>2, <2>3, Numbers, WhereDataIs DEF Least, SilenceTracked
<1>7. CASE Authenticate
  BY <1>7, WhereDataIs DEF Authenticate, SilenceTracked
<1>8. CASE StartRead \/ PollElapses \/ UNCHANGED vars
  BY <1>8 DEF StartRead, PollElapses, Advance, session, network, vars, SilenceTracked, Live
<1>9. CASE \/ Start \/ AfterFailure \/ Wake \/ GoStale \/ Close
           \/ Open \/ OpenFails \/ Greet \/ HandshakeFails
  BY <1>9 DEF Start, AfterFailure, Wake, GoStale, Close, Open, OpenFails, Greet,
       HandshakeFails, Advance, Fail, SleepBackoff, EndSession, SilenceTracked, Live
<1> QED
  BY <1>3, <1>4, <1>5, <1>6, <1>7, <1>8, <1>9 DEF Next, Client, Server

\* A consumer that comes back at once never has the stream wait for longer than
\* data_timeout on a server that sends no market data, whatever else it sends.
THEOREM SilenceIsNoticed == Spec => []SilenceNoticed
<1>1. Init => SilenceTracked
  BY DEF Init, SilenceTracked, Live
<1>2. Sound /\ SilenceTracked /\ PollMeetsDeadline => SilenceNoticed
  <2> SUFFICES ASSUME Sound, SilenceTracked, PollMeetsDeadline,
                      setup.hold = 0, phase = "reading", DataTimeout > 0
               PROVE  silence + left <= DataTimeout
    BY DEF SilenceNoticed
  <2>1. silence \in Nat /\ sinceData \in Nat /\ left \in Nat
    BY Numbers DEF Sound, Clocks
  <2>2. silence <= sinceData /\ sinceData + left <= DataTimeout
    BY DEF SilenceTracked, PollMeetsDeadline, Live
  <2> QED
    BY <2>1, <2>2, Numbers
<1> QED
  BY <1>1, <1>2, AlwaysSound, ReadsMeetDeadline, SilenceKept, PTL DEF Spec

(***************************************************************************)
(* The supervision is Reconnect's.                                         *)
(***************************************************************************)
LEMMA AttemptsAreSupervised ==
  ASSUME Sound,
         \/ Start \/ Open \/ OpenFails \/ Greet \/ HandshakeFails \/ Authenticate
         \/ AfterFailure \/ Wake
  PROVE  [Supervision!RecNext]_(Supervision!recVars)
<1> USE DEF Mode, Live, Supervision!recVars
<1>1. ASSUME NEW fatal \in BOOLEAN, phase \in {"start", "opening", "greeting", "authenticating"},
             Fail(fatal)
      PROVE  [Supervision!RecNext]_(Supervision!recVars)
  <2>1. CASE fatal = TRUE
    <3>1. Supervision!Learn
      BY <1>1, <2>1 DEF Fail, session, Supervision!Learn
    <3> QED
      BY <3>1 DEF Supervision!RecNext
  <2>2. CASE fatal = FALSE
    <3>1. heard' = heard
      BY <1>1, <2>2 DEF Fail, Sound, Flags
    <3> QED
      BY <1>1, <3>1 DEF Fail, session
  <2> QED
    BY <2>1, <2>2
<1>2. ASSUME NEW to \in {"opening", "greeting", "authenticating"}, Advance(to),
             phase \in {"start", "opening", "greeting"}
      PROVE  UNCHANGED Supervision!recVars
  BY <1>2 DEF Advance, session
<1>3. CASE Start \/ Open \/ OpenFails \/ Greet \/ HandshakeFails
  BY <1>1, <1>2, <1>3 DEF Start, Open, OpenFails, Greet, HandshakeFails
<1>4. CASE Authenticate
  <2>1. Supervision!ComeUp
    BY <1>4, Numbers DEF Authenticate, Supervision!ComeUp, Sound, Flags, Coherent
  <2> QED
    BY <2>1 DEF Supervision!RecNext
<1>5. CASE AfterFailure
  <2>1. CASE verdict = "fatal"
    <3>1. Supervision!GiveUp
      BY <1>5, <2>1 DEF AfterFailure, Advance, session, Supervision!GiveUp, Sound, Coherent
    <3> QED
      BY <3>1 DEF Supervision!RecNext
  <2>2. CASE verdict = "reconnect"
    <3>1. Supervision!FailToConnect
      BY <1>5, <2>2, Numbers
         DEF AfterFailure, SleepBackoff, SaturatingInc, session, Sound, Clocks, Coherent,
             Supervision!FailToConnect, Supervision!OneMore
    <3> QED
      BY <3>1 DEF Supervision!RecNext
  <2> QED
    BY <1>5, <2>1, <2>2 DEF AfterFailure
<1>6. CASE Wake
  <2>1. Supervision!TryAgain
    BY <1>6 DEF Wake, Advance, session, Supervision!TryAgain
  <2> QED
    BY <2>1 DEF Supervision!RecNext
<1> QED
  BY <1>3, <1>4, <1>5, <1>6

\* A message in hand proves the session, or tells that it is useless to go on,
\* or neither.
LEMMA MessagesAreSupervised ==
  ASSUME Sound, NEW b \in Seq(Messages), HandOut(b), phase \in {"reading", "yielded"}
  PROVE  [Supervision!RecNext]_(Supervision!recVars)
<1> USE DEF Mode, Live, Supervision!recVars, HandOut, IsMarketData, IsFatal
<1>1. CASE b = <<>>
  BY <1>1
<1>2. CASE b # <<>> /\ Head(b) = "data"
  <2>1. Supervision!Prove
    BY <1>2 DEF Supervision!Prove, Sound, Flags
  <2> QED
    BY <2>1 DEF Supervision!RecNext
<1>3. CASE b # <<>> /\ Head(b) = "fatal"
  <2>1. Supervision!Learn
    BY <1>3 DEF Supervision!Learn, Sound, Flags
  <2> QED
    BY <2>1 DEF Supervision!RecNext
<1>4. CASE b # <<>> /\ Head(b) \notin {"data", "fatal"}
  BY <1>4 DEF Sound, Flags
<1> QED
  BY <1>1, <1>2, <1>3, <1>4

LEMMA SessionsAreSupervised ==
  ASSUME Sound,
         \/ GoStale \/ StartRead \/ PollElapses \/ Read \/ Resume \/ Close \/ Tick
         \/ \E f \in Frames : Push(f)
  PROVE  [Supervision!RecNext]_(Supervision!recVars)
<1> USE DEF Mode, Live, Supervision!recVars
<1>1. CASE GoStale \/ StartRead \/ PollElapses \/ \E f \in Frames : Push(f)
  <2>1. \A f \in Frames : Push(f) => UNCHANGED <<phase, retries, heard, delivered, age>>
    BY DEF Push, session
  <2>2. CASE StartRead \/ PollElapses \/ GoStale
    BY <2>2 DEF StartRead, PollElapses, GoStale, EndSession, Advance, session
  <2> QED
    BY <1>1, <2>1, <2>2
<1>2. ASSUME NEW v, EndSession(v), phase \in {"reading", "yielded"}
      PROVE  UNCHANGED Supervision!recVars
  BY <1>2 DEF EndSession, session
<1>3. CASE Read
  <2>1. <<>> \in Seq(Messages) /\ Batches \subseteq Seq(Messages)
    BY StreamAssumption
  <2>2. phase = "reading"
    BY <1>3 DEF Read
  <2> QED
    BY <1>2, <1>3, <2>1, <2>2, MessagesAreSupervised DEF Read
<1>4. CASE Resume
  <2>1. phase = "yielded"
    BY <1>4 DEF Resume
  <2>2. Rest(batch) \in Seq(Messages)
    BY <2>1 DEF Rest, Sound, Queues, Coherent
  <2> QED
    BY <1>2, <1>4, <2>1, <2>2, MessagesAreSupervised DEF Resume
<1>5. CASE Close
  <2>1. CASE verdict = "fatal"
    <3>1. Supervision!GiveUp
      BY <1>5, <2>1 DEF Close, session, Supervision!GiveUp, Sound, Coherent
    <3> QED
      BY <3>1 DEF Supervision!RecNext
  <2>2. CASE verdict = "reconnect"
    <3>1. retries' = IF Healthy THEN 1 ELSE Supervision!OneMore(retries)
      BY <1>5, <2>2, Numbers
         DEF Close, SleepBackoff, SaturatingInc, Sound, Clocks, Supervision!OneMore
    <3>2. Supervision!GoDown
      BY <1>5, <2>2, <3>1
         DEF Close, SleepBackoff, Healthy, session, Sound, Coherent, Supervision!GoDown
    <3> QED
      BY <3>2 DEF Supervision!RecNext
  <2> QED
    BY <1>5, <2>1, <2>2 DEF Close
<1>6. CASE Tick
  <2>1. UNCHANGED <<Mode, retries, heard>> /\ Mode \in {"up", "pausing"}
    BY <1>6 DEF Tick
  <2>2. CASE phase = "sleeping"
    BY <1>6, <2>2 DEF Tick, session
  <2>3. CASE phase # "sleeping"
    <3>1. /\ delivered' = delivered /\ Mode = "up"
          /\ age >= StableSession => age' >= StableSession
      BY <1>6, <2>3, Numbers DEF Tick, Least, Sound, Clocks
    <3>2. CASE delivered' \/ age' >= StableSession
      <4>1. Supervision!Prove
        BY <2>1, <3>1, <3>2 DEF Supervision!Prove
      <4> QED
        BY <4>1 DEF Supervision!RecNext
    <3>3. CASE ~(delivered' \/ age' >= StableSession)
      BY <2>1, <3>1, <3>3
    <3> QED
      BY <3>2, <3>3
  <2> QED
    BY <2>2, <2>3
<1> QED
  BY <1>1, <1>3, <1>4, <1>5, <1>6

\* The count of failures grows by one for every attempt that fails and every
\* session that proved nothing, starts again after one that did, sticks at its
\* limit, and the stream gives up when and only when it has learnt that trying
\* again is useless.
THEOREM StreamSupervises == Spec => ImplementsReconnect
<1>1. Init => Supervision!RecInit
  BY DEF Init, Mode, Live, Supervision!RecInit
<1>2. Sound /\ [Next]_vars => [Supervision!RecNext]_(Supervision!recVars)
  <2>1. UNCHANGED vars => UNCHANGED Supervision!recVars
    BY DEF vars, session, Mode, Live, Supervision!recVars
  <2> QED
    BY <2>1, AttemptsAreSupervised, SessionsAreSupervised DEF Next, Client, Server
<1> QED
  BY <1>1, <1>2, AlwaysSound, PTL DEF Spec, ImplementsReconnect, Supervision!RecSpec
=============================================================================
