------------------------------ MODULE Connections ------------------------------
(***************************************************************************)
(* What the SDK does around the state machine of a live stream: an         *)
(* exchange (Exchanges), reading an event stream that is open              *)
(* (EventStreams), the settings of a live stream (StreamSettings) and its  *)
(* subscribe messages (SubscriptionPayloads).  They share no state but the *)
(* HTTP clients of Endpoints, so a behaviour is one of one of them and     *)
(* leaves the others where they begin.                                     *)
(***************************************************************************)
EXTENDS Exchanges, EventStreams, StreamSettings, SubscriptionPayloads

VARIABLE subject  \* the part that this is a behaviour of

connectionVars == <<subject, xvars, evars, settingsVars, packingVars>>

\* The parts that are not the subject keep one initial state.
Init ==
  /\ subject \in {"exchange", "events", "settings", "packing"}
  /\ XInit
  /\ subject # "exchange" => use = CHOOSE u \in Uses : TRUE
  /\ EInit
  /\ subject # "events" => route.name = "trades" /\ ~inclusive /\ ~window
  /\ SettingsInit
  /\ subject # "settings" => owner = "StreamConfig"
  /\ PackingInit

Exchange(step) == subject = "exchange" /\ step /\ UNCHANGED <<subject, evars, settingsVars, packingVars>>
ReadEvents(step) == subject = "events" /\ step /\ UNCHANGED <<subject, xvars, settingsVars, packingVars>>
SetUp == subject = "settings" /\ SettingsNext /\ UNCHANGED <<subject, xvars, evars, packingVars>>
PackSymbols == subject = "packing" /\ PackingNext /\ UNCHANGED <<subject, xvars, evars, settingsVars>>

Next == Exchange(XNext) \/ ReadEvents(ENext) \/ SetUp \/ PackSymbols

\* Of an exchange, what the SDK, its runtime and its timers do: nothing is
\* assumed of the server.  Of an event stream, a caller that subscribes again
\* and a server that sends what is due and closes when it has.
Fairness == /\ WF_connectionVars(Exchange(Own))
            /\ WF_connectionVars(ReadEvents(Subscribe))
            /\ WF_connectionVars(ReadEvents(Deliver))
            /\ WF_connectionVars(ReadEvents(Close))

Spec == Init /\ [][Next]_connectionVars /\ Fairness
=============================================================================
