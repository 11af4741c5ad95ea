------------------------------ MODULE EffectOnce ------------------------------
(***************************************************************************)
(* What a caller of the SDK is promised about its REST calls, whatever the *)
(* network does: the server may carry a request out at any moment, also    *)
(* after the call has returned, but a call that must not be replayed is    *)
(* carried out at most once, and one that was reported as refused is never *)
(* carried out at all.                                                     *)
(***************************************************************************)
EXTENDS Naturals

CONSTANT Calls

VARIABLES once,     \* once[c]: call c must not be carried out twice
          effects,  \* effects[c]: how often the server has carried it out
          result    \* result[c]: what the caller has been told

absVars == <<once, effects, result>>

AbsInit == /\ once \in [Calls -> BOOLEAN]
           /\ effects = [c \in Calls |-> 0]
           /\ result = [c \in Calls |-> "none"]

CarryOut(c) == /\ result[c] # "refused"
               /\ once[c] => effects[c] = 0
               /\ effects' = [effects EXCEPT ![c] = @ + 1]
               /\ UNCHANGED <<once, result>>

Return(c, r) == /\ result[c] = "none"
                /\ r = "refused" => effects[c] = 0
                /\ result' = [result EXCEPT ![c] = r]
                /\ UNCHANGED <<once, effects>>

AbsNext == \E c \in Calls : \/ CarryOut(c)
                            \/ \E r \in {"refused", "unknown", "ok"} : Return(c, r)

AbsSpec == AbsInit /\ [][AbsNext]_absVars
=============================================================================
