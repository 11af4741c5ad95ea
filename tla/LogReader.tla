------------------------------- MODULE LogReader -------------------------------
(***************************************************************************)
(* What a reader of an event stream may rely on: once it has a place in    *)
(* the log, it takes the events from there on in order, again perhaps, but *)
(* passes over none that the server did not drop itself.                   *)
(***************************************************************************)
EXTENDS Naturals, Sequences

VARIABLES log,    \* the events emitted: whether each brings an id
          taken,  \* those handed to the caller
          lost,   \* those the server dropped
          anchor  \* the place of the first event promised; 0 for none

logVars == <<log, taken, lost, anchor>>

LogInit == log = <<>> /\ taken = {} /\ lost = {} /\ anchor \in {0, 1}

Append1(id) == log' = Append(log, id) /\ UNCHANGED <<taken, lost, anchor>>

Take(p) == /\ anchor # 0 => (anchor..p - 1) \subseteq taken \cup lost
           /\ taken' = taken \cup {p}
           /\ anchor' = IF anchor = 0 /\ log[p] THEN p ELSE anchor
           /\ UNCHANGED <<log, lost>>

Lose(p) == lost' = lost \cup {p} /\ UNCHANGED <<log, taken, anchor>>

LogNext == \/ \E id \in BOOLEAN : Append1(id)
           \/ \E p \in 1..Len(log) : Take(p) \/ Lose(p)

LogSpec == LogInit /\ [][LogNext]_logVars
=============================================================================
