----------------------------- MODULE MCSubmissions -----------------------------
(***************************************************************************)
(* An instance of Submissions: lists of parts of every length the checks   *)
(* tell apart, with a repeated contract and a bad part behind good ones.   *)
(***************************************************************************)
EXTENDS Submissions

UpTo(n, S) == UNION {[1..k -> S] : k \in 0..n}

MCLists ==
  [order |-> {<<>>, <<1>>, <<1, 2>>, <<1, 1>>, <<1, 2, 1>>, <<1, 2, 3, 4>>, <<1, 2, 3, 4, 5>>},
   account |-> UpTo(2, BOOLEAN),
   documents |-> UpTo(2, Files \cup W8Bens),
   weights |-> UpTo(2, Weights),
   advances |-> UpTo(1, {"transfer"}),
   settlement |-> UpTo(2, Sign),
   batch |-> UpTo(2, Sign)]
=============================================================================
