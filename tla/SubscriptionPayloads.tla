-------------------------- MODULE SubscriptionPayloads --------------------------
(***************************************************************************)
(* SubscriptionSet in src/data/live/mod.rs: which symbols are subscribed   *)
(* on which channels, and how payloads() packs them into messages that     *)
(* keep under the largest frame.  One step packs one symbol.               *)
(***************************************************************************)
EXTENDS Integers, Sequences, FiniteSets, Functions

CONSTANTS
  Channels,      \* the channels, as the numbers of their order
  Subscribable,  \* those that may be named in a payload
  Symbols,       \* the symbols, as the numbers of their order
  KeySize,       \* KeySize[c]: the length of a channel's wire name
  SymbolSize,    \* SymbolSize[s]: the length of a symbol as JSON
  Overhead,      \* what estimated_batch adds for the key and the brackets
  MaxFrame       \* MAX_FRAME_SIZE

ASSUME PayloadAssumption ==
  /\ Channels \subseteq Nat /\ IsFiniteSet(Channels)
  /\ Subscribable \subseteq Channels
  /\ Symbols \subseteq Nat /\ IsFiniteSet(Symbols)
  /\ KeySize \in [Channels -> Nat] /\ SymbolSize \in [Symbols -> Nat]
  /\ Overhead \in Nat /\ MaxFrame \in Nat
  /\ \A c \in Channels : KeySize[c] + 2 <= Overhead

VARIABLES
  channels,  \* channels[c]: the symbols subscribed on c
  phase,     \* "registering", "packing" or "packed"
  todo,      \* todo[c]: those not yet packed
  batch,     \* the symbols of the channel at hand that are in no message yet
  current,   \* current[c]: the symbols for c in the message being built
  payloads   \* the messages built

packingVars == <<channels, phase, todo, batch, current, payloads>>

Nothing == [c \in Channels |-> {}]
Sets == [Channels -> SUBSET Symbols]

PackingInit ==
  /\ channels = Nothing
  /\ phase = "registering"
  /\ todo = Nothing /\ batch = {} /\ current = Nothing /\ payloads = <<>>

\* SubscriptionSet::add and remove, as DataStream::subscribe and unsubscribe
\* call them.
Add(c, s) == /\ phase = "registering"
             /\ channels' = [channels EXCEPT ![c] = @ \cup {s}]
             /\ UNCHANGED <<phase, todo, batch, current, payloads>>

Remove(c, s) == /\ phase = "registering"
                /\ channels' = [channels EXCEPT ![c] = @ \ {s}]
                /\ UNCHANGED <<phase, todo, batch, current, payloads>>

\* A bug to catch: what only arrives with the trades counts as subscribed.
IsEmpty_OfAny == \A c \in Channels : channels[c] = {}

\* SubscriptionSet::is_empty, which run asks before it connects.
IsEmpty == \A c \in Subscribable : channels[c] = {}

(***************************************************************************)
(* Sizes.                                                                  *)
(***************************************************************************)
EstimatedBatch(b) == SumFunctionOnSet(SymbolSize, b) + Overhead

\* What each channel of a message takes, with its key and its brackets.
ChannelSizes(m) == [c \in Channels |-> KeySize[c] + SumFunctionOnSet(SymbolSize, m[c]) + 2]

EstimatedSize(m) == SumFunctionOnSet(ChannelSizes(m), {c \in Channels : m[c] # {}})

\* A bug to catch: only the channel at hand is measured.
Overflows_BatchAlone(b) == EstimatedBatch(b) > MaxFrame

Overflows(b) == EstimatedSize(current) + EstimatedBatch(b) > MaxFrame

(***************************************************************************)
(* payloads().                                                             *)
(***************************************************************************)
Named(c) == IF c \in Subscribable THEN channels[c] ELSE {}

Pack == /\ phase = "registering"
        /\ phase' = "packing"
        /\ todo' = [c \in Channels |-> Named(c)]
        /\ UNCHANGED <<channels, batch, current, payloads>>

\* The channel at hand, and its next symbol.
Unpacked == {c \in Channels : todo[c] # {}}
FirstOf(S) == CHOOSE x \in S : \A y \in S : x <= y

\* The message being built with batch b for channel c in it.
With(c, b) == IF b = {} THEN current ELSE [current EXCEPT ![c] = b]

Sent(m) == IF m = Nothing THEN payloads ELSE Append(payloads, m)

\* A bug to catch: the symbol that did not fit is dropped.
Overflow_Dropped(s) == {}

Overflow(s) == {s}

\* A symbol joins the batch; if that is too much, what came before it is sent
\* and the symbol starts the next batch.  After a channel's last symbol its
\* batch joins the message.
PackSymbol ==
  /\ phase = "packing"
  /\ Unpacked # {}
  /\ LET c == FirstOf(Unpacked)
         s == FirstOf(todo[c])
         over == Overflows(batch \cup {s})
         b == IF over THEN Overflow(s) ELSE batch \cup {s}
         base == IF over THEN Nothing ELSE current
     IN  /\ todo' = [todo EXCEPT ![c] = @ \ {s}]
         /\ payloads' = IF over THEN Sent(With(c, batch)) ELSE payloads
         /\ IF todo[c] = {s}
            THEN batch' = {} /\ current' = [base EXCEPT ![c] = b]
            ELSE batch' = b /\ current' = base
  /\ UNCHANGED <<channels, phase>>

FinishPacking ==
  /\ phase = "packing"
  /\ Unpacked = {}
  /\ phase' = "packed"
  /\ payloads' = Sent(current)
  /\ UNCHANGED <<channels, todo, batch, current>>

PackingNext == \/ \E c \in Channels, s \in Symbols : Add(c, s) \/ Remove(c, s)
               \/ Pack \/ PackSymbol \/ FinishPacking

PackingSpec == PackingInit /\ [][PackingNext]_packingVars

(***************************************************************************)
(* Properties.                                                             *)
(***************************************************************************)
\* Every symbol subscribed on a channel that may be named is in exactly one
\* message, and nothing else is, so the server ends with the whole set.
EverySymbolOnce ==
  phase = "packed" =>
    \A c \in Channels, s \in Symbols :
      Cardinality({i \in DOMAIN payloads : s \in payloads[i][c]})
        = IF c \in Subscribable /\ s \in channels[c] THEN 1 ELSE 0

\* No message is estimated above the largest frame, unless a single symbol is.
FramesFit ==
  \A i \in DOMAIN payloads :
    \/ EstimatedSize(payloads[i]) <= MaxFrame
    \/ \E c \in Channels, s \in Symbols : payloads[i] = [Nothing EXCEPT ![c] = {s}]

\* The socket is opened exactly when there is something to subscribe to: run
\* refuses a set for which payloads() would send nothing, and no message is
\* without symbols.
OpensForSomething ==
  /\ phase = "packed" => (IsEmpty <=> payloads = <<>>)
  /\ \A i \in DOMAIN payloads : payloads[i] # Nothing
=============================================================================
