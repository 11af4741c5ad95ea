------------------------------- MODULE Reconnect -------------------------------
(***************************************************************************)
(* What both websocket streams promise their caller about reconnecting.    *)
(* They try until a session is up; a failed attempt or a session that did  *)
(* nothing useful makes the count of failures, which the backoff curve is  *)
(* indexed by, grow by one; a session that proved itself starts the count  *)
(* again.  They give up only when told that trying again is useless, and   *)
(* then for good.                                                          *)
(***************************************************************************)
EXTENDS Naturals

CONSTANT MaxCount   \* where the count of failures sticks

VARIABLES mode,      \* "trying", "up", "pausing" or "over"
          proved,    \* the session that is up has proved itself
          failures,  \* consecutive failures
          useless    \* trying again is known to be useless

recVars == <<mode, proved, failures, useless>>

OneMore(n) == IF n < MaxCount THEN n + 1 ELSE n

RecInit == /\ mode = "trying"
           /\ proved = FALSE
           /\ failures = 0
           /\ useless = FALSE

Learn == /\ mode # "over"
         /\ useless' = TRUE
         /\ UNCHANGED <<mode, proved, failures>>

ComeUp == /\ mode = "trying"
          /\ ~useless
          /\ mode' = "up"
          /\ proved' = FALSE
          /\ UNCHANGED <<failures, useless>>

Prove == /\ mode = "up"
         /\ proved' = TRUE
         /\ UNCHANGED <<mode, failures, useless>>

FailToConnect == /\ mode = "trying"
                 /\ ~useless
                 /\ mode' = "pausing"
                 /\ failures' = OneMore(failures)
                 /\ UNCHANGED <<proved, useless>>

GoDown == /\ mode = "up"
          /\ ~useless
          /\ mode' = "pausing"
          /\ failures' = IF proved THEN 1 ELSE OneMore(failures)
          /\ proved' = FALSE
          /\ UNCHANGED useless

TryAgain == /\ mode = "pausing"
            /\ mode' = "trying"
            /\ UNCHANGED <<proved, failures, useless>>

GiveUp == /\ mode \in {"trying", "up"}
          /\ useless
          /\ mode' = "over"
          /\ proved' = FALSE
          /\ UNCHANGED <<failures, useless>>

RecNext == \/ Learn \/ ComeUp \/ Prove \/ FailToConnect \/ GoDown
           \/ TryAgain \/ GiveUp

RecSpec == RecInit /\ [][RecNext]_recVars
=============================================================================
