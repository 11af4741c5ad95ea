----------------------------- MODULE StreamSettings -----------------------------
(***************************************************************************)
(* How a live stream is set up before it runs: the settings of             *)
(* StreamConfig in src/data/live/mod.rs, set by value, in place, or in     *)
(* place through one of the streams of src/data/live/streams.rs, and those *)
(* of TradingStream in src/trading/stream.rs, set by value.  Each is       *)
(* checked when it is set and never again.                                 *)
(***************************************************************************)
EXTENDS Integers, Backoff

CONSTANTS
  Durations,         \* the durations a caller may pass
  DefaultMinBackoff, \* DEFAULT_MIN_BACKOFF
  DefaultMaxBackoff, \* DEFAULT_MAX_BACKOFF
  DefaultStable      \* DEFAULT_STABLE_SESSION

ASSUME SettingsAssumption ==
  /\ Durations \subseteq Nat
  /\ {DefaultMinBackoff, DefaultMaxBackoff, DefaultStable} \subseteq Nat
  /\ CheckWindow(DefaultMinBackoff, DefaultMaxBackoff) /\ CheckStableSession(DefaultStable)

VARIABLES
  owner,     \* what the settings are set on
  settings,  \* their values
  holding    \* the caller holds it, has lost it to a refusal, or runs it

settingsVars == <<owner, settings, holding>>

None == -1

\* Whether setters take the owner by value, in place, or come in both forms.
Setters == [StreamConfig |-> {"by value", "in place"}, StockDataStream |-> {"in place"},
            TradingStream |-> {"by value"}]

\* The same for both kinds of stream.
Defaults == [min |-> DefaultMinBackoff, max |-> DefaultMaxBackoff,
             timeout |-> None, stable |-> DefaultStable]

SettingsInit ==
  /\ owner \in DOMAIN Setters
  /\ settings = Defaults
  /\ holding = "held"

\* A bug to catch: set_backoff stores min, then looks at max.
WithBackoff_OneByOne(s, min, max) ==
  CASE CheckWindow(min, max) -> [s EXCEPT !.min = min, !.max = max]
    [] ~CheckWindow(min, max) /\ min > 0 -> [s EXCEPT !.min = min]
    [] OTHER -> s

\* StreamConfig::set_backoff: both ends or neither.
WithBackoff(s, min, max) ==
  IF CheckWindow(min, max) THEN [s EXCEPT !.min = min, !.max = max] ELSE s

WithDataTimeout(s, timeout) == IF CheckDataTimeout(timeout) THEN [s EXCEPT !.timeout = timeout] ELSE s

WithStableSession(s, after) == IF CheckStableSession(after) THEN [s EXCEPT !.stable = after] ELSE s

\* A setter that took its owner by value and refuses does not give it back; one
\* that works in place leaves it with the caller, who may go on all the same.
Answer(form, accepted) ==
  /\ holding = "held" /\ form \in Setters[owner]
  /\ holding' = IF ~accepted /\ form = "by value" THEN "lost" ELSE "held"
  /\ UNCHANGED owner

SetBackoff(form, min, max) == /\ Answer(form, CheckWindow(min, max))
                              /\ settings' = WithBackoff(settings, min, max)

SetDataTimeout(form, timeout) == /\ Answer(form, CheckDataTimeout(timeout))
                                 /\ settings' = WithDataTimeout(settings, timeout)

SetStableSession(form, after) == /\ Answer(form, CheckStableSession(after))
                                 /\ settings' = WithStableSession(settings, after)

\* run takes the stream.
RunStream == /\ holding = "held"
             /\ holding' = "running"
             /\ UNCHANGED <<owner, settings>>

SettingsNext ==
  \/ \E form \in {"by value", "in place"}, d \in Durations :
       \/ \E max \in Durations : SetBackoff(form, d, max)
       \/ SetDataTimeout(form, d)
       \/ SetStableSession(form, d)
  \/ RunStream

SettingsSpec == SettingsInit /\ [][SettingsNext]_settingsVars

\* Whatever setters were called, in whatever order, and whichever refusals their
\* caller passed over, a stream runs with settings under which it neither spins
\* nor takes every session for stale or for healthy: what DataStream and
\* TradingStream assume of theirs.
RunsSoundly ==
  holding = "running" =>
    /\ CheckWindow(settings.min, settings.max)
    /\ settings.timeout # None => CheckDataTimeout(settings.timeout)
    /\ CheckStableSession(settings.stable)
=============================================================================
