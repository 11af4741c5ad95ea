------------------------------ MODULE WalksProofs ------------------------------
(***************************************************************************)
(* Proofs about Walks, for every page size, every max_items, every server  *)
(* however it pages and every listing however it grows.  They rest on      *)
(* WalkAssumption alone.                                                   *)
(***************************************************************************)
EXTENDS Walks, FiniteSetTheorems, SequenceTheorems, TLAPS

(***************************************************************************)
(* The inductive invariant.  Beyond the properties it says that the walk   *)
(* only comes to ask again after a page that brought something new, while  *)
(* the cap was not reached.                                                *)
(***************************************************************************)
Shape ==
  /\ walk \in Walks /\ maxItems \in Nat \cup {NoCap}
  /\ server \in [pages : Paging, cap : Nat \ {0}]
  /\ newest \in Nat
  /\ phase \in {"asking", "filing", "done", "failed"}
  /\ size \in Nat /\ rows \in Nat
  /\ position \in Nat /\ (walk # "transfers" => position <= newest)
  /\ page \in Seq(1..newest) /\ next \in 0..newest
  /\ collected \in Seq(1..newest)
  /\ held \in Nat /\ requests \in Nat

Learning ==
  /\ phase = "asking" => requests <= Len(collected)
  /\ phase = "filing" => requests <= held + 1 /\ held <= Len(collected)

Wanting ==
  /\ phase = "asking" /\ maxItems # NoCap => Len(collected) <= maxItems
  /\ CapHonoured

IInv == Shape /\ NoDuplicates /\ BoundedRequests /\ Learning /\ Wanting

LEMMA FunctionsAreSequences ==
  ASSUME NEW S, NEW n \in Nat, NEW f \in [1..n -> S]
  PROVE  f \in Seq(S)
OBVIOUS

\* A sequence of distinct items is no longer than there are items.
LEMMA NoMoreThanThereAre ==
  ASSUME NEW n \in Nat, NEW s \in Seq(1..n), IsInjective(s)
  PROVE  Len(s) <= n
<1>0. Len(s) \in Nat /\ s \in [1..Len(s) -> 1..n] BY LenProperties
<1>1. s \in Injection(1..Len(s), 1..n) BY <1>0 DEF Injection
<1>2. IsFiniteSet(1..n) /\ Cardinality(1..n) = n BY FS_Interval
<1>3. Cardinality(1..Len(s)) = Len(s)
  <2> DEFINE m == Len(s)
  <2>1. m \in Nat BY <1>0
  <2> HIDE DEF m
  <2>2. Cardinality(1..m) = m BY <2>1, FS_Interval
  <2> QED BY <2>2 DEF m
<1>4. Cardinality(1..Len(s)) <= Cardinality(1..n) BY <1>1, <1>2, FS_Injection
<1> QED BY <1>2, <1>3, <1>4

LEMMA ItemsHaveComeToExist ==
  ASSUME NEW n, NEW s \in Seq(1..n) PROVE \A a \in DOMAIN s : s[a] \in 1..n
<1>1. DOMAIN s = 1..Len(s) BY LenProperties
<1> QED BY <1>1, ElementOfSeq

\* What the server lists has come to exist, whatever the page.
LEMMA PageType ==
  ASSUME Shape, NEW at \in Nat, walk # "transfers" => at <= newest,
         NEW n \in Nat, NEW p \in Pages(at, n)
  PROVE  /\ p \in Seq(1..newest)
         /\ \A t \in Onwards(at, p) : t \in 0..newest
<1>1. \A top \in Int, k \in Nat :
        top <= newest => NewestFirst(top, k) \in Seq(1..newest)
  <2> SUFFICES ASSUME NEW top \in Int, NEW k \in Nat, top <= newest
               PROVE  NewestFirst(top, k) \in Seq(1..newest)
    OBVIOUS
  <2> DEFINE m == IF top < 0 THEN 0 ELSE Least(k, top)
  <2>1. m \in Nat /\ (m > 0 => m <= top) BY DEF Least
  <2>2. \A i \in 1..m : top + 1 - i \in 1..newest BY <2>1 DEF Shape
  <2>3. NewestFirst(top, k) \in [1..m -> 1..newest] BY <2>2 DEF NewestFirst
  <2> QED BY <2>1, <2>3, FunctionsAreSequences
<1>2. Top(at) \in Int /\ Top(at) <= newest BY DEF Top, Shape
<1>3. Least(n, server.cap) \in Nat BY DEF Least, Shape
<1>4. p \in Seq(1..newest)
  <2>1. CASE server.pages \in {"exclusive", "inclusive"}
    BY <2>1, <1>1, <1>2, <1>3 DEF Pages
  <2>2. CASE server.pages = "deaf"
    <3>1. newest \in Int /\ newest \in Nat /\ newest <= newest BY DEF Shape
    <3>2. p = NewestFirst(newest, newest) BY <2>2 DEF Pages
    <3> QED BY <3>1, <3>2, <1>1
  <2>3. CASE server.pages = "erratic"
    <3>1. PICK k \in 0..server.cap : p \in [1..k -> 1..newest] BY <2>3 DEF Pages
    <3>2. k \in Nat BY DEF Shape
    <3> QED BY <3>1, <3>2, FunctionsAreSequences
  <2> QED BY <2>1, <2>2, <2>3 DEF Shape, Paging
<1>5. p # <<>> => p[Len(p)] \in 1..newest
  <2> SUFFICES ASSUME p # <<>> PROVE p[Len(p)] \in 1..newest OBVIOUS
  <2>1. Len(p) \in 1..Len(p) BY <1>4, EmptySeq
  <2> QED BY <2>1, <1>4, ElementOfSeq
<1>6. \A t \in Onwards(at, p) : t \in 0..newest
  BY <1>5 DEF Onwards, Shape
<1> QED BY <1>4, <1>6

(***************************************************************************)
(* The invariant holds at first, and every step preserves it.              *)
(***************************************************************************)
LEMMA InitInv == Init => IInv
<1> SUFFICES ASSUME Init PROVE IInv OBVIOUS
<1> USE WalkAssumption
<1>1. Shape BY DEF Init, Shape, Walks
<1>2. NoDuplicates BY DEF Init, NoDuplicates, IsInjective
<1> QED BY <1>1, <1>2 DEF Init, IInv, Shape, BoundedRequests, Learning, Wanting, CapHonoured

\* Stopping where the cap is not passed.
LEMMA StopInv ==
  ASSUME IInv, NEW how \in {"done", "failed"}, Stop(how), UNCHANGED collected,
         maxItems # NoCap => Len(collected) <= maxItems
  PROVE  IInv'
BY DEF IInv, Stop, given, Shape, NoDuplicates, BoundedRequests, Learning, Wanting, CapHonoured

LEMMA FetchInv == IInv /\ Fetch => IInv'
<1> SUFFICES ASSUME IInv, Fetch PROVE IInv' OBVIOUS
<1>1. PICK p \in Pages(position', size') :
        /\ page' = IF EndsWith(p, size') THEN <<>> ELSE p
        /\ phase' = IF EndsWith(p, size') THEN "done" ELSE "filing"
        /\ rows' = rows + Len(p)
        /\ next' \in Onwards(position', p)
  BY DEF Fetch
<1>2. size' \in Nat BY DEF Fetch, Narrowed, IInv, Shape, Least
<1>3. position' \in Nat /\ (walk # "transfers" => position' <= newest)
  BY DEF Fetch, Offset, IInv, Shape
<1>4. p \in Seq(1..newest) /\ next' \in 0..newest
  BY <1>1, <1>2, <1>3, PageType DEF IInv
<1>5. Shape'
  <2>1. page' \in Seq(1..newest) /\ Len(p) \in Nat
    BY <1>1, <1>4, EmptySeq, LenProperties
  <2>2. phase' \in {"done", "filing"} BY <1>1
  <2>3. /\ UNCHANGED <<walk, maxItems, server, newest, collected>>
        /\ requests' = requests + 1 /\ rows' = rows + Len(p) /\ held' = Len(collected)
    BY <1>1 DEF Fetch, given
  <2>4. Len(collected) \in Nat BY LenProperties DEF IInv, Shape
  <2> QED BY <1>2, <1>3, <1>4, <2>1, <2>2, <2>3, <2>4 DEF IInv, Shape
<1>6. Len(collected) <= newest BY NoMoreThanThereAre DEF IInv, Shape, NoDuplicates
<1>7. requests <= Len(collected) BY DEF Fetch, IInv, Learning
<1>8. BoundedRequests' BY <1>6, <1>7 DEF Fetch, IInv, Shape, BoundedRequests
<1>9. Learning' BY <1>1, <1>7 DEF Fetch, IInv, Shape, Learning
<1>10. Wanting' BY <1>1 DEF Fetch, given, IInv, Shape, Wanting, CapHonoured
<1>11. NoDuplicates' BY DEF Fetch, IInv, NoDuplicates
<1> QED BY <1>5, <1>8, <1>9, <1>10, <1>11 DEF IInv

LEMMA FileInv == IInv /\ File => IInv'
<1> SUFFICES ASSUME IInv, File PROVE IInv' OBVIOUS
<1>1. Head(page) \in 1..newest /\ Tail(page) \in Seq(1..newest)
  BY HeadTailProperties DEF File, IInv, Shape
<1>1a. /\ Len(collected) \in Nat /\ DOMAIN collected = 1..Len(collected)
      /\ Append(collected, Head(page)) \in Seq(1..newest)
      /\ Len(Append(collected, Head(page))) = Len(collected) + 1
      /\ \A i \in 1..Len(collected) : Append(collected, Head(page))[i] = collected[i]
      /\ Append(collected, Head(page))[Len(collected) + 1] = Head(page)
  BY <1>1, LenProperties, AppendProperties DEF IInv, Shape
<1>2. collected' \in Seq(1..newest) /\ Len(collected) <= Len(collected')
  <2>1. collected' = collected \/ collected' = Append(collected, Head(page))
    BY DEF File, Filed
  <2>2. CASE collected' = collected BY <2>2, <1>1a DEF IInv, Shape
  <2>3. CASE collected' = Append(collected, Head(page)) BY <2>3, <1>1a
  <2> QED BY <2>1, <2>2, <2>3
<1>3. NoDuplicates'
  <2>1. CASE Head(page) \in Range(collected)
    BY <2>1 DEF File, Filed, IInv, NoDuplicates
  <2>2. CASE Head(page) \notin Range(collected)
    <3> SUFFICES ASSUME NEW a \in DOMAIN collected', NEW b \in DOMAIN collected',
                        collected'[a] = collected'[b]
                 PROVE  a = b
      BY DEF NoDuplicates, IsInjective
    <3> DEFINE n == Len(collected)
    <3>1. collected' = Append(collected, Head(page)) BY <2>2 DEF File, Filed
    <3>2. DOMAIN collected' = 1..(n + 1) /\ n \in Nat /\ DOMAIN collected = 1..n
      BY <3>1, <1>2, <1>1a, LenProperties
    <3>3. \A i \in 1..n : collected'[i] = collected[i] /\ collected[i] \in Range(collected)
      BY <3>1, <3>2, <1>1a DEF Range
    <3>4. collected'[n + 1] = Head(page) BY <3>1, <1>1a
    <3> QED BY <2>2, <3>2, <3>3, <3>4 DEF IInv, NoDuplicates, IsInjective
  <2> QED BY <2>1, <2>2
<1>4. Shape' BY <1>1, <1>2 DEF File, given, IInv, Shape
<1>5. BoundedRequests' /\ Wanting'
  BY DEF File, given, IInv, BoundedRequests, Wanting, CapHonoured
<1>6. Learning' BY <1>2 DEF File, IInv, Shape, Learning
<1> QED BY <1>3, <1>4, <1>5, <1>6 DEF IInv

LEMMA ReachesCapInv == IInv /\ ReachesCap => IInv'
<1> SUFFICES ASSUME IInv, ReachesCap PROVE IInv' OBVIOUS
<1>1. maxItems \in Nat /\ maxItems <= Len(collected)
  BY DEF ReachesCap, Full, IInv, Shape
<1>2. /\ collected' = SubSeq(collected, 1, maxItems)
      /\ collected' \in Seq(1..newest) /\ Len(collected') = maxItems
      /\ \A i \in 1..maxItems : collected'[i] = collected[i]
  <2>1. Len(collected) \in Nat BY LenProperties DEF IInv, Shape
  <2>2. \A i \in 1..maxItems : collected[i] \in 1..newest
    BY <1>1, <2>1, ElementOfSeq DEF IInv, Shape
  <2>3. collected' = SubSeq(collected, 1, maxItems) BY DEF ReachesCap, Truncated
  <2> QED BY <1>1, <2>2, <2>3, SubSeqProperties
<1>3. NoDuplicates'
  <2>1. DOMAIN collected' = 1..maxItems /\ 1..maxItems \subseteq DOMAIN collected
    BY <1>1, <1>2, LenProperties DEF IInv, Shape
  <2> QED BY <1>2, <2>1 DEF IInv, NoDuplicates, IsInjective
<1>4. Shape' BY <1>2 DEF ReachesCap, Stop, given, IInv, Shape
<1> QED BY <1>1, <1>2, <1>3, <1>4
        DEF ReachesCap, Stop, given, IInv, BoundedRequests, Learning, Wanting, CapHonoured

LEMMA GoOnInv == IInv /\ GoOn => IInv'
<1> SUFFICES ASSUME IInv, GoOn PROVE IInv' OBVIOUS
<1>1. requests <= Len(collected)
  BY DEF GoOn, Progressed, IInv, Shape, Learning
<1>2. maxItems # NoCap => Len(collected) <= maxItems BY DEF GoOn, Full, IInv, Shape
<1>3. Shape' BY DEF GoOn, given, IInv, Shape
<1> QED BY <1>1, <1>2, <1>3
        DEF GoOn, given, IInv, NoDuplicates, BoundedRequests, Learning, Wanting, CapHonoured

LEMMA ArriveInv == IInv /\ Arrive => IInv'
<1> SUFFICES ASSUME IInv, Arrive PROVE IInv' OBVIOUS
<1>1. 1..newest \subseteq 1..newest' /\ newest' = newest + 1 BY DEF Arrive, IInv, Shape
<1>2. Seq(1..newest) \subseteq Seq(1..newest') BY <1>1, SeqMonotonic
<1>3. Shape' BY <1>1, <1>2 DEF Arrive, given, IInv, Shape
<1> QED BY <1>1, <1>3 DEF Arrive, given, IInv, Shape, NoDuplicates, BoundedRequests,
                          Learning, Wanting, CapHonoured

LEMMA NextInv == IInv /\ [Next]_vars => IInv'
<1> SUFFICES ASSUME IInv, [Next]_vars PROVE IInv' OBVIOUS
<1>1. CASE AskForNothing
  BY <1>1, StopInv DEF AskForNothing, WantsNothing, IInv, Wanting
<1>2. CASE OffsetTooFar BY <1>2, StopInv DEF OffsetTooFar, IInv, Wanting
<1>3. CASE FetchFails BY <1>3, StopInv DEF FetchFails, IInv, Wanting
<1>4. CASE Fetch BY <1>4, FetchInv
<1>5. CASE File BY <1>5, FileInv
<1>6. CASE ReachesCap BY <1>6, ReachesCapInv
<1>7. CASE LearnsNothing BY <1>7, StopInv DEF LearnsNothing, Full, IInv, Shape
<1>8. CASE LastToken BY <1>8, StopInv DEF LastToken, Full, IInv, Shape
<1>9. CASE GoOn BY <1>9, GoOnInv
<1>10. CASE Arrive BY <1>10, ArriveInv
<1>11. CASE UNCHANGED vars
  BY <1>11 DEF vars, given, IInv, Shape, NoDuplicates, BoundedRequests, Learning,
               Wanting, CapHonoured
<1> QED BY <1>1, <1>2, <1>3, <1>4, <1>5, <1>6, <1>7, <1>8, <1>9, <1>10, <1>11
        DEF Next, Walker

\* The invariant holds in every state of every walk.
THEOREM Inductive == Spec => []IInv
BY InitInv, NextInv, PTL DEF Spec

\* extend_with_new and walk_orders: a walk's result has no item twice, whatever
\* the server answers.
THEOREM EveryItemOnce == Spec => []NoDuplicates
<1>1. IInv => NoDuplicates BY DEF IInv
<1> QED BY <1>1, Inductive, PTL

\* max_items is never exceeded, whatever the server answers.
THEOREM CapIsKept == Spec => []CapHonoured
<1>1. IInv => CapHonoured BY DEF IInv, Wanting
<1> QED BY <1>1, Inductive, PTL

\* A walk sends at most one request more than there are items: the progress
\* check ends it, whatever cursors, tokens and pages the server makes up.
THEOREM RequestsAreBounded == Spec => []BoundedRequests
<1>1. IInv => BoundedRequests BY DEF IInv
<1> QED BY <1>1, Inductive, PTL

(***************************************************************************)
(* Types.                                                                  *)
(***************************************************************************)
\* What Shape leaves open: what a walk was given, and the bounds of its filter.
Given == /\ walk \in Walkers /\ maxItems \in Caps /\ server \in Servers
         /\ first \in 0..Before
         /\ size \in 0..PageSize
         /\ walk = "transfers" => position <= MaxU32

LEMMA NarrowedIsLess ==
  ASSUME Shape PROVE Narrowed \in 0..size
<1>1. Len(collected) \in Nat
  BY LenProperties DEF Shape
<1>2. maxItems # NoCap => maxItems \in Nat
  BY DEF Shape
<1> QED
  BY <1>1, <1>2 DEF Shape, Narrowed, Least

LEMMA GivenKept == IInv /\ Given /\ [Next]_vars => Given'
<1> SUFFICES ASSUME IInv, Given, [Next]_vars PROVE Given'
  OBVIOUS
<1> USE WalkAssumption DEF Given
<1>1. CASE Fetch
  <2>1. UNCHANGED <<walk, maxItems, server, first>> /\ size' = Narrowed
    BY <1>1 DEF Fetch, given
  <2>2. walk = "transfers" => position' <= MaxU32
    BY <1>1 DEF Fetch, TooFar, Offset, IInv, Shape
  <2>3. size' \in 0..PageSize
    <3>1. size' \in 0..size
      BY <2>1, NarrowedIsLess DEF IInv
    <3>2. size \in 0..PageSize /\ PageSize \in Nat
      OBVIOUS
    <3> HIDE DEF Given
    <3> QED
      BY <3>1, <3>2
  <2> QED
    BY <2>1, <2>2, <2>3
<1>2. CASE GoOn
  BY <1>2 DEF GoOn, given
<1>3. UNCHANGED <<given, size, position>> => Given'
  BY DEF given
<1>4. CASE AskForNothing \/ OffsetTooFar \/ FetchFails \/ ReachesCap \/ LearnsNothing \/ LastToken
  BY <1>3, <1>4 DEF AskForNothing, OffsetTooFar, FetchFails, ReachesCap, LearnsNothing,
       LastToken, Stop
<1>5. CASE File \/ Arrive \/ UNCHANGED vars
  BY <1>3, <1>5 DEF File, Arrive, vars
<1> QED
  BY <1>1, <1>2, <1>4, <1>5 DEF Next, Walker

\* The filter of a walk never leaves its types: in particular no offset passes
\* the width it is sent in.
THEOREM WalksAreTyped == Spec => []TypeOK
<1>1. Init => Given
  BY WalkAssumption DEF Init, Given
<1>2. IInv /\ Given => TypeOK
  BY DEF IInv, Shape, Given, TypeOK
<1> QED
  BY <1>1, <1>2, GivenKept, Inductive, PTL DEF Spec

(***************************************************************************)
(* Servers that page as documented.  Above LowWater, where the next page   *)
(* begins, everything that was listed when the walk began has come.        *)
(***************************************************************************)
Going == phase \in {"asking", "filing"}

Got == Range(collected) \cup Range(page)

LowWater == IF walk = "transfers" THEN newest - rows
            ELSE IF phase = "asking" THEN IF position = 0 THEN newest ELSE position - 1
            ELSE IF next = 0 THEN 0 ELSE next - 1

Covering == Going => \A i \in 1..first : i > LowWater => i \in Got

\* An item is taken after all that are newer, of those listed at first.
InOrder == \A a \in DOMAIN collected : \A i \in (collected[a] + 1)..first :
             \E b \in 1..(a - 1) : collected[b] = i

PageInOrder == \A k \in DOMAIN page : \A i \in (page[k] + 1)..first :
                 i \in Range(collected) \/ \E l \in 1..(k - 1) : page[l] = i

\* A walk that goes on asks for something, and from somewhere.
Moving == /\ first \in Nat /\ first <= newest
          /\ phase = "asking" => page = <<>>
          /\ Sound /\ Going => size > 0
          /\ Sound /\ phase = "filing" /\ walk \notin {"tokens", "transfers"} => next # 0

Gapless == Moving /\ (Sound => Covering /\ InOrder /\ PageInOrder)

\* Where nothing moves the listing under an offset, every row is new.
Steady == Sound /\ (walk = "transfers" => newest = first)

Fresh == Steady /\ Going =>
           /\ \A j \in Got : j > LowWater
           /\ \A k \in DOMAIN page : page[k] \notin Range(collected)
           /\ IsInjective(page)
           /\ rows = Len(collected) + Len(page)
           /\ phase = "filing" => rows > held

\* What a server that pages as documented answers: the newest items that the
\* position leaves, and nothing only to a request for nothing or at the end.
LEMMA SoundFetch ==
  ASSUME IInv, Moving, Sound, Fetch
  PROVE  \E k \in Nat, p \in Seq(1..newest) :
           /\ Len(p) = k /\ \A i \in 1..k : p[i] = LowWater + 1 - i
           /\ k <= size' /\ rows' = rows + k
           /\ k = 0 => /\ phase' = "done" /\ page' = <<>>
                       /\ size' = 0 \/ LowWater <= 0
           /\ k # 0 => /\ phase' = "filing" /\ page' = p
                       /\ k <= LowWater /\ LowWater' = LowWater - k
                       /\ walk \notin {"tokens", "transfers"} => next' # 0
<1>1. PICK p \in Pages(position', size') :
        /\ page' = IF p = <<>> THEN <<>> ELSE p
        /\ phase' = IF p = <<>> THEN "done" ELSE "filing"
        /\ rows' = rows + Len(p)
        /\ next' \in Onwards(position', p)
  BY DEF Fetch, EndsWith
<1>2. /\ phase = "asking" /\ UNCHANGED <<walk, server, newest>>
      /\ position' = IF walk = "transfers" THEN rows ELSE position
  BY DEF Fetch, given, Offset
<1>3. size' \in Nat
  BY DEF Fetch, Narrowed, IInv, Shape, Least
<1>4. position' \in Nat /\ (walk # "transfers" => position' <= newest)
  BY <1>2 DEF IInv, Shape
<1>5. Top(position') = LowWater /\ LowWater \in Int /\ LowWater <= newest
  BY <1>2 DEF Top, LowWater, Sound, IInv, Shape
<1> DEFINE m == Least(size', server.cap)
           k == IF LowWater < 0 THEN 0 ELSE Least(m, LowWater)
<1>6. m \in Nat /\ m <= size' /\ (m = 0 => size' = 0)
  BY <1>3 DEF Least, IInv, Shape
<1>7. p = NewestFirst(LowWater, m)
  BY <1>1, <1>5 DEF Pages, Sound
<1> HIDE DEF m
<1>8. /\ k \in Nat /\ k <= size' /\ (k # 0 => k <= LowWater)
      /\ k = 0 => size' = 0 \/ LowWater <= 0
  BY <1>3, <1>5, <1>6 DEF Least
<1>9. p = [i \in 1..k |-> LowWater + 1 - i]
  BY <1>7 DEF NewestFirst
<1> HIDE DEF k
<1>10. p \in Seq(1..newest)
  BY <1>1, <1>3, <1>4, PageType DEF IInv
<1>11. Len(p) = k /\ \A i \in 1..k : p[i] = LowWater + 1 - i
  BY <1>8, <1>9, <1>10
<1>12. p = <<>> <=> k = 0
  BY <1>8, <1>10, <1>11
<1>13. CASE k = 0
  BY <1>1, <1>8, <1>10, <1>11, <1>12, <1>13
<1>14. CASE k # 0
  <2>1. p[Len(p)] = LowWater + 1 - k /\ p[Len(p)] >= 1
    BY <1>5, <1>8, <1>11, <1>14
  <2>2. next' = IF walk = "tokens" /\ p[Len(p)] <= 1 THEN 0 ELSE p[Len(p)]
    BY <1>1, <1>5, <1>8, <1>12, <1>14, <2>1 DEF Onwards, Sound
  <2>3. phase' = "filing" /\ page' = p /\ rows' = rows + k
    BY <1>1, <1>11, <1>12, <1>14
  <2>4. LowWater' = LowWater - k
    <3>1. CASE walk = "transfers"
      BY <1>2, <1>8, <2>3, <3>1 DEF LowWater, IInv, Shape
    <3>2. CASE walk # "transfers"
      BY <1>2, <1>5, <1>8, <2>1, <2>2, <2>3, <3>2 DEF LowWater
    <3> QED
      BY <3>1, <3>2
  <2> QED
    BY <1>8, <1>10, <1>11, <1>14, <2>1, <2>2, <2>3, <2>4
<1> QED
  BY <1>13, <1>14

LEMMA FetchGapless == ASSUME IInv, Gapless, Fetch PROVE Gapless'
<1>1. /\ phase = "asking" /\ page = <<>>
      /\ UNCHANGED <<walk, maxItems, server, first, newest, collected>>
      /\ phase' \in {"filing", "done"}
  BY DEF Fetch, given, Gapless, Moving
<1>2. CASE ~Sound
  BY <1>1, <1>2 DEF Gapless, Moving, Sound
<1>3. CASE Sound
  <2>1. PICK k \in Nat, p \in Seq(1..newest) :
          /\ Len(p) = k /\ \A i \in 1..k : p[i] = LowWater + 1 - i
          /\ k <= size' /\ rows' = rows + k
          /\ k = 0 => /\ phase' = "done" /\ page' = <<>>
                      /\ size' = 0 \/ LowWater <= 0
          /\ k # 0 => /\ phase' = "filing" /\ page' = p
                      /\ k <= LowWater /\ LowWater' = LowWater - k
                      /\ walk \notin {"tokens", "transfers"} => next' # 0
    BY <1>3, SoundFetch DEF Gapless
  <2>2. LowWater \in Int
    BY <1>1 DEF LowWater, IInv, Shape
  <2>3. \A i \in 1..first : i > LowWater => i \in Range(collected)
    BY <1>1, <1>3 DEF Gapless, Covering, Going, Got, Range
  <2>4. Moving'
    <3>1. size' \in Nat
      BY FetchInv DEF IInv, Shape
    <3> QED
      BY <1>1, <2>1, <3>1 DEF Gapless, Moving, Going, Sound
  <2>5. InOrder'
    BY <1>1, <1>3 DEF Gapless, InOrder
  <2>6. CASE k = 0
    <3>1. Covering' /\ PageInOrder'
      BY <2>1, <2>6 DEF Covering, Going, PageInOrder
    <3> QED
      BY <2>4, <2>5, <3>1 DEF Gapless
  <2>7. CASE k # 0
    <3>1. page' = p /\ DOMAIN p = 1..k /\ LowWater' = LowWater - k
      BY <2>1, <2>7
    <3>2. \A l \in 1..k : p[l] \in Range(p)
      BY <3>1 DEF Range
    <3>3. Covering'
      <4> SUFFICES ASSUME NEW i \in 1..first, i > LowWater - k, i <= LowWater
                   PROVE  i \in Range(p)
        BY <1>1, <2>2, <2>3, <3>1 DEF Covering, Got
      <4>1. LowWater + 1 - i \in 1..k
        BY <2>2
      <4>2. p[LowWater + 1 - i] = i
        BY <2>1, <2>2, <4>1
      <4> QED
        BY <3>2, <4>1, <4>2
    <3>4. PageInOrder'
      <4> SUFFICES ASSUME NEW l \in 1..k, NEW i \in (p[l] + 1)..first, i \notin Range(collected)
                   PROVE  \E h \in 1..(l - 1) : p[h] = i
        BY <1>1, <3>1 DEF PageInOrder
      <4>0. p[l] = LowWater + 1 - l
        BY <2>1
      <4>1. p[l] = LowWater + 1 - l /\ p[l] \in 1..newest
        BY <2>1, <4>0, ElementOfSeq
      <4>2. i \in 1..first /\ i > LowWater + 1 - l
        BY <2>2, <4>1 DEF Gapless, Moving
      <4>3. i <= LowWater
        BY <2>2, <2>3, <4>2
      <4>4. LowWater + 1 - i \in 1..(l - 1) /\ LowWater + 1 - i \in 1..k
        BY <2>2, <4>2, <4>3
      <4>5. p[LowWater + 1 - i] = LowWater + 1 - (LowWater + 1 - i)
        BY <2>1, <4>4
      <4>6. p[LowWater + 1 - i] = i
        BY <2>2, <4>5
      <4> QED
        BY <4>4, <4>6
    <3> QED
      BY <2>4, <2>5, <3>3, <3>4 DEF Gapless
  <2> QED
    BY <2>6, <2>7
<1> QED
  BY <1>2, <1>3

\* Filing takes the first row of the page, which moves or goes.
LEMMA FileFacts ==
  ASSUME IInv, File
  PROVE  /\ page # <<>> /\ Len(page) \in Nat \ {0} /\ Len(page') = Len(page) - 1
         /\ DOMAIN page = 1..Len(page) /\ DOMAIN page' = 1..(Len(page) - 1)
         /\ \A k \in 1..(Len(page) - 1) : page'[k] = page[k + 1]
         /\ Range(collected') = Range(collected) \cup {page[1]}
         /\ Got' = Got
         /\ page[1] \in Range(collected) => collected' = collected
         /\ page[1] \notin Range(collected) =>
              /\ Len(collected') = Len(collected) + 1
              /\ DOMAIN collected' = 1..(Len(collected) + 1)
              /\ collected'[Len(collected) + 1] = page[1]
              /\ \A a \in 1..Len(collected) : collected'[a] = collected[a]
<1>1. page \in Seq(1..newest) /\ collected \in Seq(1..newest) /\ page # <<>>
  BY DEF IInv, Shape, File
<1>2. page' = Tail(page) /\ Head(page) = page[1]
  BY <1>1 DEF File
<1>3. /\ Len(page) \in Nat \ {0} /\ Len(page') = Len(page) - 1
      /\ DOMAIN page = 1..Len(page) /\ DOMAIN page' = 1..(Len(page) - 1)
      /\ \A k \in 1..(Len(page) - 1) : page'[k] = page[k + 1]
  BY <1>1, <1>2
<1>4. Range(page) = Range(page') \cup {page[1]}
  <2>1. Range(page') \cup {page[1]} \subseteq Range(page)
    <3>1. \A k \in DOMAIN page : page[k] \in Range(page)
      BY DEF Range
    <3>2. \A k \in DOMAIN page' : page'[k] = page[k + 1] /\ k + 1 \in DOMAIN page
      BY <1>3
    <3>3. 1 \in DOMAIN page
      BY <1>3
    <3> QED
      BY <3>1, <3>2, <3>3 DEF Range
  <2>2. ASSUME NEW k \in DOMAIN page PROVE page[k] \in Range(page') \cup {page[1]}
    <3>1. CASE k = 1
      BY <3>1
    <3>2. CASE k # 1
      <4>1. k - 1 \in DOMAIN page' /\ page'[k - 1] = page[k]
        BY <1>3, <3>2
      <4> QED
        BY <4>1 DEF Range
    <3> QED
      BY <3>1, <3>2
  <2> QED
    BY <2>1, <2>2 DEF Range
<1>5. CASE page[1] \in Range(collected)
  <2>1. collected' = collected
    BY <1>2, <1>5 DEF File, Filed
  <2>2. Got' = Got
    BY <1>4, <1>5, <2>1 DEF Got
  <2>3. Range(collected') = Range(collected) \cup {page[1]}
    BY <1>5, <2>1
  <2> QED
    BY <1>1, <1>3, <1>5, <2>1, <2>2, <2>3
<1>6. CASE page[1] \notin Range(collected)
  <2>1. page[1] \in 1..newest
    <3>1. 1 \in DOMAIN page BY <1>3
    <3> QED BY <1>1, <3>1, ItemsHaveComeToExist
  <2>2. collected' = Append(collected, page[1])
    BY <1>2, <1>6 DEF File, Filed
  <2>3. /\ Len(collected') = Len(collected) + 1 /\ Len(collected) \in Nat
        /\ DOMAIN collected = 1..Len(collected)
        /\ DOMAIN collected' = 1..(Len(collected) + 1)
        /\ collected'[Len(collected) + 1] = page[1]
        /\ \A a \in 1..Len(collected) : collected'[a] = collected[a]
    BY <1>1, <2>1, <2>2
  <2>4. Range(collected') = Range(collected) \cup {page[1]}
    BY <2>3 DEF Range
  <2> QED
    BY <1>1, <1>3, <1>4, <1>6, <2>3, <2>4 DEF Got
<1> QED
  BY <1>5, <1>6

LEMMA FileGapless == ASSUME IInv, Gapless, File PROVE Gapless'
<1>1. UNCHANGED <<walk, server, first, newest, phase, size, position, rows, next>>
  BY DEF File, given
<1>2. phase = "filing"
  BY DEF File
<1>3. Moving'
  BY <1>1, <1>2 DEF Gapless, Moving, Going, Sound
<1>4. CASE ~Sound
  BY <1>1, <1>3, <1>4 DEF Gapless, Sound
<1>5. CASE Sound
  <2>1. Covering'
    BY <1>1, <1>5, FileFacts DEF Gapless, Covering, Going, LowWater
  <2>2. ASSUME NEW i \in (page[1] + 1)..first PROVE i \in Range(collected)
    <3>1. 1 \in DOMAIN page
      BY FileFacts
    <3> QED
      BY <1>5, <3>1 DEF Gapless, PageInOrder
  <2>3. InOrder'
    <3>1. CASE page[1] \in Range(collected)
      BY <1>1, <1>5, <3>1, FileFacts DEF Gapless, InOrder
    <3>2. CASE page[1] \notin Range(collected)
      <4> DEFINE n == Len(collected)
      <4>1. n \in Nat /\ DOMAIN collected = 1..n
        BY DEF IInv, Shape
      <4>2. /\ DOMAIN collected' = 1..(n + 1) /\ collected'[n + 1] = page[1]
            /\ \A a \in 1..n : collected'[a] = collected[a]
        BY <3>2, FileFacts
      <4> HIDE DEF n
      <4> SUFFICES ASSUME NEW a \in 1..(n + 1), NEW i \in (collected'[a] + 1)..first
                   PROVE  \E b \in 1..(a - 1) : collected'[b] = i
        BY <1>1, <4>2 DEF InOrder
      <4>3. CASE a = n + 1
        <5>1. i \in Range(collected)
          BY <2>2, <4>2, <4>3
        <5>2. PICK b \in 1..n : collected[b] = i
          BY <4>1, <5>1 DEF Range
        <5> QED
          BY <4>1, <4>2, <4>3, <5>2
      <4>4. CASE a \in 1..n
        <5>1. PICK b \in 1..(a - 1) : collected[b] = i
          BY <1>5, <4>1, <4>2, <4>4 DEF Gapless, InOrder
        <5>2. b \in 1..n
          BY <4>1, <4>4, <5>1
        <5> QED
          BY <4>2, <5>1, <5>2
      <4> QED
        BY <4>1, <4>3, <4>4
    <3> QED
      BY <3>1, <3>2
  <2>4. PageInOrder'
    <3> SUFFICES ASSUME NEW k \in 1..(Len(page) - 1), NEW i \in (page[k + 1] + 1)..first,
                        i \notin Range(collected')
                 PROVE  \E l \in 1..(k - 1) : page'[l] = i
      <4>1. DOMAIN page' = 1..(Len(page) - 1) /\ first' = first
        BY <1>1, FileFacts
      <4>2. \A k \in 1..(Len(page) - 1) : page'[k] = page[k + 1]
        BY FileFacts
      <4> QED
        BY <4>1, <4>2 DEF PageInOrder
    <3>1. Len(page) \in Nat /\ k + 1 \in DOMAIN page /\ i \notin Range(collected) /\ i # page[1]
      BY FileFacts
    <3>2. PICK l \in 1..k : page[l] = i
      <4>1. (k + 1) - 1 = k
        OBVIOUS
      <4> QED
        BY <1>5, <3>1, <4>1 DEF Gapless, PageInOrder
    <3>3. l # 1 /\ l - 1 \in 1..(k - 1) /\ l - 1 \in 1..(Len(page) - 1)
      BY <3>1, <3>2
    <3>4. page'[l - 1] = page[(l - 1) + 1]
      BY <3>3, FileFacts
    <3>5. page'[l - 1] = i
      BY <3>2, <3>4
    <3> QED
      BY <3>3, <3>5
  <2> QED
    BY <1>3, <2>1, <2>3, <2>4 DEF Gapless
<1> QED
  BY <1>4, <1>5

\* What is cut off at the cap is the oldest.
LEMMA ReachesCapGapless == ASSUME IInv, Gapless, ReachesCap PROVE Gapless'
<1>1. /\ phase' = "done" /\ page' = <<>> /\ page = <<>>
      /\ UNCHANGED <<walk, server, first, newest>>
  BY DEF ReachesCap, Stop, given
<1>2. Moving' /\ Covering' /\ PageInOrder'
  BY <1>1 DEF Gapless, Moving, Covering, PageInOrder, Going
<1>3. Sound => InOrder'
  <2> SUFFICES ASSUME Sound PROVE InOrder'
    OBVIOUS
  <2>1. maxItems \in Nat /\ maxItems <= Len(collected) /\ Len(collected) \in Nat
    BY LenProperties DEF ReachesCap, Full, IInv, Shape
  <2>2. /\ DOMAIN collected = 1..Len(collected)
        /\ DOMAIN collected' = 1..maxItems
        /\ \A a \in 1..maxItems : collected'[a] = collected[a]
    <3>1. collected \in Seq(1..newest) /\ collected' = SubSeq(collected, 1, maxItems)
      BY DEF ReachesCap, Truncated, IInv, Shape
    <3> QED
      BY <2>1, <3>1
  <2> SUFFICES ASSUME NEW a \in 1..maxItems, NEW i \in (collected[a] + 1)..first
               PROVE  \E b \in 1..(a - 1) : collected'[b] = i
    BY <1>1, <2>2 DEF InOrder
  <2>3. a \in DOMAIN collected
    BY <2>1, <2>2
  <2>4. PICK b \in 1..(a - 1) : collected[b] = i
    BY <2>3 DEF Gapless, InOrder
  <2>5. b \in 1..maxItems
    BY <2>1, <2>4
  <2> QED
    BY <2>2, <2>4, <2>5
<1> QED
  BY <1>1, <1>2, <1>3 DEF Gapless, Sound

LEMMA GaplessKept == IInv /\ Gapless /\ [Next]_vars => Gapless'
<1> SUFFICES ASSUME IInv, Gapless, [Next]_vars PROVE Gapless'
  OBVIOUS
<1>1. ASSUME NEW how \in {"done", "failed"}, Stop(how), UNCHANGED collected
      PROVE  Gapless'
  BY <1>1 DEF Stop, given, Gapless, Moving, Sound, Going, Covering, InOrder, PageInOrder
<1>2. CASE AskForNothing \/ OffsetTooFar \/ FetchFails \/ LearnsNothing \/ LastToken
  BY <1>1, <1>2 DEF AskForNothing, OffsetTooFar, FetchFails, LearnsNothing, LastToken
<1>3. CASE GoOn
  <2>1. /\ phase = "filing" /\ phase' = "asking" /\ page = <<>>
        /\ UNCHANGED <<walk, server, first, newest, size, rows, page, collected>>
        /\ position' = IF walk = "transfers" THEN position ELSE next
        /\ walk = "tokens" => next # 0
    BY <1>3 DEF GoOn, given
  <2>2. Sound => LowWater' = LowWater
    BY <2>1 DEF LowWater, Gapless, Moving, Going, Sound
  <2>3. Sound => Covering'
    BY <2>1, <2>2 DEF Gapless, Covering, Going, Got
  <2> QED
    BY <2>1, <2>3 DEF Gapless, Moving, Going, Sound, InOrder, PageInOrder
<1>4. CASE Arrive
  <2>1. /\ newest' = newest + 1 /\ newest \in Nat
        /\ UNCHANGED <<walk, server, first, phase, size, position, rows, page, next, collected>>
    BY <1>4 DEF Arrive, given, IInv, Shape
  <2>2. LowWater \in Int /\ LowWater' \in Int /\ LowWater' >= LowWater
    BY <2>1 DEF LowWater, IInv, Shape
  <2>3. Sound => Covering'
    BY <2>1, <2>2 DEF Gapless, Covering, Going, Got
  <2> QED
    BY <2>1, <2>3 DEF Gapless, Moving, Going, Sound, InOrder, PageInOrder
<1>5. CASE UNCHANGED vars
  BY <1>5 DEF vars, given, Gapless, Moving, Sound, Going, Covering, Got, LowWater, InOrder,
       PageInOrder
<1> QED
  BY <1>2, <1>3, <1>4, <1>5, FetchGapless, FileGapless, ReachesCapGapless DEF Next, Walker

LEMMA InitGapless == Init => Gapless
<1> SUFFICES ASSUME Init PROVE Gapless
  OBVIOUS
<1>1. Moving
  BY WalkAssumption DEF Init, Moving, Going
<1>2. Covering
  BY WalkAssumption DEF Init, Covering, LowWater, Going
<1>3. InOrder /\ PageInOrder
  BY DEF Init, InOrder, PageInOrder
<1> QED
  BY <1>1, <1>2, <1>3 DEF Gapless

\* From a server that pages as documented, by cursor, token or offset and
\* however short its pages, no item that was there when the walk began is
\* passed over, whatever arrives meanwhile.
THEOREM NothingIsPassedOver == Spec => []NoGaps
<1>1. IInv /\ Gapless => NoGaps
  <2> SUFFICES ASSUME IInv, Gapless, Sound, NEW i \in 1..first, NEW j \in Range(collected), i > j
               PROVE  i \in Range(collected)
    BY DEF NoGaps
  <2>1. PICK a \in DOMAIN collected : collected[a] = j
    BY DEF Range
  <2>2. j \in Nat /\ i \in (j + 1)..first /\ DOMAIN collected = 1..Len(collected)
    BY <2>1, ElementOfSeq DEF IInv, Shape
  <2>3. PICK b \in 1..(a - 1) : collected[b] = i
    BY <2>1, <2>2 DEF Gapless, InOrder
  <2>4. b \in DOMAIN collected
    BY <2>1, <2>2, <2>3 DEF IInv, Shape
  <2> QED
    BY <2>3, <2>4 DEF Range
<1> QED
  BY <1>1, InitGapless, GaplessKept, Inductive, PTL DEF Spec

(***************************************************************************)
(* Nothing twice, where the listing stands still under an offset: every    *)
(* page then brings something new, and a walk ends for no other reason     *)
(* than that it has everything.                                            *)
(***************************************************************************)
LEMMA FetchFresh == ASSUME IInv, Gapless, Fresh, Fetch PROVE Fresh'
<1>1. /\ phase = "asking" /\ page = <<>> /\ held' = Len(collected)
      /\ UNCHANGED <<walk, maxItems, server, first, newest, collected>>
  BY DEF Fetch, given, Gapless, Moving
<1> SUFFICES ASSUME Steady, phase' = "filing" PROVE Fresh'
  <2>1. phase' \in {"filing", "done"}
    BY DEF Fetch
  <2> QED
    BY <1>1, <2>1 DEF Fresh, Steady, Sound, Going
<1>2. PICK k \in Nat, p \in Seq(1..newest) :
        /\ Len(p) = k /\ \A i \in 1..k : p[i] = LowWater + 1 - i
        /\ k <= size' /\ rows' = rows + k
        /\ k = 0 => /\ phase' = "done" /\ page' = <<>>
                    /\ size' = 0 \/ LowWater <= 0
        /\ k # 0 => /\ phase' = "filing" /\ page' = p
                    /\ k <= LowWater /\ LowWater' = LowWater - k
                    /\ walk \notin {"tokens", "transfers"} => next' # 0
  BY SoundFetch DEF Gapless, Steady
<1>3. k # 0 /\ page' = p /\ DOMAIN p = 1..k /\ LowWater' = LowWater - k
  BY <1>2
<1>4. LowWater \in Int /\ \A j \in Range(collected) : j \in Int
  <2>1. collected \in Seq(1..newest)
    BY DEF IInv, Shape
  <2>2. \A a \in DOMAIN collected : collected[a] \in 1..newest
    BY <2>1, ItemsHaveComeToExist
  <2> QED
    BY <1>1, <2>2 DEF LowWater, IInv, Shape, Range
<1>5. /\ \A j \in Range(collected) : j > LowWater
      /\ rows = Len(collected)
  BY <1>1 DEF Fresh, Going, Got
<1>6. \A i \in 1..k : p[i] = LowWater + 1 - i /\ p[i] \in Int /\ p[i] <= LowWater
                      /\ p[i] > LowWater - k
  BY <1>2, <1>4
<1>7. \A j \in Range(p) : j > LowWater - k
  BY <1>3, <1>6 DEF Range
<1>8. \A j \in Got' : j > LowWater'
  BY <1>1, <1>3, <1>4, <1>5, <1>7 DEF Got
<1>9. \A i \in DOMAIN page' : page'[i] \notin Range(collected')
  BY <1>1, <1>3, <1>4, <1>5, <1>6
<1>10. IsInjective(page')
  <2> SUFFICES ASSUME NEW a \in 1..k, NEW b \in 1..k, p[a] = p[b] PROVE a = b
    BY <1>3 DEF IsInjective
  <2> QED
    BY <1>4, <1>6
<1>11. rows' = Len(collected') + Len(page') /\ rows' > held'
  <2>1. Len(collected) \in Nat
    BY LenProperties DEF IInv, Shape
  <2> QED
    BY <1>1, <1>2, <1>3, <1>5, <2>1
<1> QED
  BY <1>8, <1>9, <1>10, <1>11 DEF Fresh

LEMMA FileFresh == ASSUME IInv, Gapless, Fresh, File PROVE Fresh'
<1>1. UNCHANGED <<walk, server, first, newest, phase, size, position, rows, next, held>>
  BY DEF File, given
<1> SUFFICES ASSUME Steady PROVE Fresh'
  BY <1>1 DEF Fresh, Steady, Sound
<1>2. /\ \A j \in Got : j > LowWater
      /\ \A k \in DOMAIN page : page[k] \notin Range(collected)
      /\ IsInjective(page)
      /\ rows = Len(collected) + Len(page)
      /\ phase = "filing" /\ rows > held
  BY DEF Fresh, Going, File
<1>3. Len(collected) \in Nat /\ Len(page) \in Nat \ {0} /\ page[1] \notin Range(collected)
  <2>1. 1 \in DOMAIN page /\ Len(page) \in Nat \ {0}
    BY FileFacts
  <2> QED
    BY <1>2, <2>1, LenProperties DEF IInv, Shape
<1>4. \A j \in Got' : j > LowWater'
  BY <1>1, <1>2, FileFacts DEF LowWater
<1>5. \A k \in 1..(Len(page) - 1) :
        page'[k] = page[k + 1] /\ k + 1 \in DOMAIN page /\ k + 1 # 1
  BY <1>3, FileFacts
<1>6. \A k \in DOMAIN page' : page'[k] \notin Range(collected')
  <2>1. DOMAIN page' = 1..(Len(page) - 1) /\ 1 \in DOMAIN page
    BY FileFacts
  <2>2. Range(collected') = Range(collected) \cup {page[1]}
    BY FileFacts
  <2> QED
    BY <1>2, <1>5, <2>1, <2>2 DEF IsInjective
<1>7. IsInjective(page')
  <2>1. DOMAIN page' = 1..(Len(page) - 1)
    BY FileFacts
  <2> SUFFICES ASSUME NEW a \in 1..(Len(page) - 1), NEW b \in 1..(Len(page) - 1),
                      page'[a] = page'[b]
               PROVE  a = b
    BY <2>1 DEF IsInjective
  <2>2. page[a + 1] = page[b + 1] /\ a + 1 \in DOMAIN page /\ b + 1 \in DOMAIN page
    BY <1>5
  <2>3. a + 1 = b + 1
    BY <1>2, <2>2 DEF IsInjective
  <2> QED
    BY <1>3, <2>3
<1>8. rows' = Len(collected') + Len(page') /\ rows' > held'
  <2>1. Len(collected') = Len(collected) + 1 /\ Len(page') = Len(page) - 1
    BY <1>3, FileFacts
  <2> QED
    BY <1>1, <1>2, <1>3, <2>1
<1> QED
  BY <1>4, <1>6, <1>7, <1>8 DEF Fresh

LEMMA FreshKept == IInv /\ Gapless /\ Fresh /\ [Next]_vars => Fresh'
<1> SUFFICES ASSUME IInv, Gapless, Fresh, [Next]_vars PROVE Fresh'
  OBVIOUS
<1>1. ASSUME NEW how \in {"done", "failed"}, Stop(how) PROVE Fresh'
  BY <1>1 DEF Stop, Fresh, Going
<1>2. CASE AskForNothing \/ OffsetTooFar \/ FetchFails \/ LearnsNothing \/ LastToken \/ ReachesCap
  BY <1>1, <1>2 DEF AskForNothing, OffsetTooFar, FetchFails, LearnsNothing, LastToken, ReachesCap
<1>3. CASE GoOn
  <2>1. /\ phase = "filing" /\ phase' = "asking"
        /\ UNCHANGED <<walk, server, first, newest, rows, page, collected, held>>
        /\ position' = IF walk = "transfers" THEN position ELSE next
        /\ walk = "tokens" => next # 0
    BY <1>3 DEF GoOn, given
  <2>2. Sound => LowWater' = LowWater
    BY <2>1 DEF LowWater, Gapless, Moving, Going, Sound
  <2> QED
    BY <2>1, <2>2 DEF Fresh, Steady, Sound, Going, Got
<1>4. CASE Arrive
  <2>1. /\ newest' = newest + 1 /\ newest \in Nat
        /\ UNCHANGED <<walk, server, first, phase, position, rows, page, next, collected, held>>
    BY <1>4 DEF Arrive, given, IInv, Shape
  <2> SUFFICES ASSUME Steady', Going PROVE Fresh'
    BY <2>1 DEF Fresh, Going
  <2>2. walk # "transfers" /\ Steady
    BY <2>1 DEF Steady, Sound, Gapless, Moving
  <2>3. \A j \in Got' : j > LowWater'
    <3>1. CASE phase = "asking" /\ position = 0
      <4>1. \A j \in Got : j > newest
        BY <2>2, <3>1 DEF Fresh, LowWater
      <4>2. \A j \in Got : j \in 1..newest
        <5>1. page \in Seq(1..newest) /\ collected \in Seq(1..newest)
          BY DEF IInv, Shape
        <5>2. /\ \A a \in DOMAIN collected : collected[a] \in 1..newest
              /\ \A a \in DOMAIN page : page[a] \in 1..newest
          BY <5>1, ItemsHaveComeToExist
        <5> QED
          BY <5>2 DEF Got, Range
      <4>3. Got = {}
        BY <2>1, <4>1, <4>2
      <4> QED
        BY <2>1, <4>3 DEF Got
    <3>2. CASE ~(phase = "asking" /\ position = 0)
      BY <2>1, <2>2, <3>2 DEF Fresh, LowWater, Got
    <3> QED
      BY <3>1, <3>2
  <2> QED
    BY <2>1, <2>2, <2>3 DEF Fresh
<1>5. CASE UNCHANGED vars
  BY <1>5 DEF vars, given, Fresh, Steady, Sound, Going, Got, LowWater
<1> QED
  BY <1>2, <1>3, <1>4, <1>5, FetchFresh, FileFresh DEF Next, Walker

LEMMA InitFresh == Init => Fresh
<1> SUFFICES ASSUME Init PROVE Fresh
  OBVIOUS
<1>1. Got = {} /\ rows = Len(collected) + Len(page) /\ phase # "filing"
  BY DEF Init, Got, Range
<1>2. IsInjective(page) /\ DOMAIN page = {}
  BY DEF Init, IsInjective
<1> QED
  BY <1>1, <1>2 DEF Fresh

\* What the two properties need of the state they were true of.
Thrifty == NothingWasted /\ Complete

LEMMA FetchThrifty == ASSUME IInv, Gapless, Fresh, Thrifty, Fetch PROVE Thrifty'
<1>1. /\ phase = "asking" /\ page = <<>> /\ size' = Narrowed
      /\ UNCHANGED <<walk, maxItems, server, first, newest, collected>>
  BY DEF Fetch, given, Gapless, Moving
<1> SUFFICES ASSUME Sound PROVE Thrifty'
  BY <1>1 DEF Thrifty, NothingWasted, Complete, Sound
<1>2. PICK k \in Nat, p \in Seq(1..newest) :
        /\ Len(p) = k /\ \A i \in 1..k : p[i] = LowWater + 1 - i
        /\ k <= size' /\ rows' = rows + k
        /\ k = 0 => /\ phase' = "done" /\ page' = <<>>
                    /\ size' = 0 \/ LowWater <= 0
        /\ k # 0 => /\ phase' = "filing" /\ page' = p
                    /\ k <= LowWater /\ LowWater' = LowWater - k
                    /\ walk \notin {"tokens", "transfers"} => next' # 0
  BY SoundFetch DEF Gapless
<1>3. Len(collected) \in Nat /\ size \in Nat /\ rows \in Nat /\ size > 0
  BY <1>1, LenProperties DEF IInv, Shape, Gapless, Moving, Going
<1>4. maxItems # NoCap => maxItems \in Nat /\ Len(collected) <= maxItems
  BY <1>1 DEF IInv, Shape, Wanting
<1>5. ASSUME walk # "transfers", maxItems # NoCap
      PROVE  size' <= maxItems - Len(collected) /\ size' \in Nat
  BY <1>1, <1>3, <1>4, <1>5 DEF Narrowed, Least
<1>6. NothingWasted'
  <2> SUFFICES ASSUME walk # "transfers", maxItems # NoCap PROVE rows + k <= maxItems
    BY <1>1, <1>2 DEF NothingWasted
  <2>1. rows = Len(collected)
    BY <1>1 DEF Fresh, Steady, Going
  <2> QED
    BY <1>2, <1>3, <1>4, <1>5, <2>1
<1>7. Complete'
  <2> SUFFICES ASSUME phase' = "done" PROVE 1..first \subseteq Range(collected) \/ Full'
    BY <1>1 DEF Complete
  <2>1. k = 0
    BY <1>2
  <2>2. CASE size' = 0
    <3>1. maxItems # NoCap /\ walk # "transfers" /\ ~(maxItems > Len(collected))
      BY <1>1, <1>3, <1>4, <2>2 DEF Narrowed, Least
    <3> QED
      BY <1>1, <1>3, <1>4, <3>1 DEF Full
  <2>3. CASE LowWater <= 0
    <3>1. LowWater \in Int
      BY <1>1 DEF LowWater, IInv, Shape
    <3>2. \A i \in 1..first : i > LowWater
      BY <2>3, <3>1
    <3>3. Got = Range(collected)
      BY <1>1 DEF Got, Range
    <3> QED
      BY <1>1, <3>2, <3>3 DEF Gapless, Covering, Going
  <2> QED
    BY <1>2, <2>1, <2>2, <2>3
<1> QED
  BY <1>6, <1>7 DEF Thrifty

LEMMA ThriftyKept == IInv /\ Gapless /\ Fresh /\ Thrifty /\ [Next]_vars => Thrifty'
<1> SUFFICES ASSUME IInv, Gapless, Fresh, Thrifty, [Next]_vars PROVE Thrifty'
  OBVIOUS
<1>1. Len(collected) \in Nat /\ (maxItems # NoCap => maxItems \in Nat)
  BY LenProperties DEF IInv, Shape
<1>2. ASSUME NEW how \in {"done", "failed"}, Stop(how), UNCHANGED collected,
             how = "done" /\ Sound /\ (walk = "transfers" => newest = first) =>
               1..first \subseteq Range(collected) \/ Full
      PROVE  Thrifty'
  BY <1>2 DEF Stop, given, Thrifty, NothingWasted, Complete, Sound, Full
<1>3. CASE OffsetTooFar \/ FetchFails
  BY <1>2, <1>3 DEF OffsetTooFar, FetchFails
<1>4. CASE AskForNothing
  <2>1. Full
    BY <1>1, <1>4, WalkAssumption DEF AskForNothing, WantsNothing, Full
  <2> QED
    BY <1>2, <1>4, <2>1 DEF AskForNothing
<1>5. CASE LearnsNothing
  <2>1. page = <<>> /\ phase = "filing" /\ Len(collected) = held
    BY <1>5 DEF LearnsNothing, Progressed
  <2>2. ~Steady
    <3>1. Len(page) = 0
      BY <2>1
    <3> QED
      BY <1>1, <2>1, <3>1 DEF Fresh, Going
  <2> QED
    BY <1>2, <1>5, <2>2 DEF LearnsNothing, Steady
<1>6. CASE LastToken
  <2>1. page = <<>> /\ phase = "filing" /\ walk = "tokens" /\ next = 0
    BY <1>6 DEF LastToken
  <2>2. Sound => 1..first \subseteq Range(collected)
    <3>1. Got = Range(collected) /\ LowWater = 0
      BY <2>1 DEF Got, Range, LowWater
    <3> QED
      BY <2>1, <3>1 DEF Gapless, Covering, Going
  <2> QED
    BY <1>2, <1>6, <2>2 DEF LastToken
<1>7. CASE ReachesCap
  <2>1. /\ phase' = "done" /\ UNCHANGED <<walk, maxItems, server, first, newest, rows>>
    BY <1>7 DEF ReachesCap, Stop, given
  <2>2. Full'
    <3>1. maxItems \in Nat /\ maxItems <= Len(collected) /\ maxItems # NoCap
      BY <1>1, <1>7 DEF ReachesCap, Full
    <3>2. Len(collected') = maxItems
      <4>1. collected' = SubSeq(collected, 1, maxItems) /\ collected \in Seq(1..newest)
        BY <1>7 DEF ReachesCap, Truncated, IInv, Shape
      <4> QED
        BY <1>1, <3>1, <4>1
    <3> QED
      BY <2>1, <3>1, <3>2 DEF Full
  <2> QED
    BY <2>1, <2>2 DEF Thrifty, NothingWasted, Complete, Sound
<1>8. CASE File \/ GoOn \/ Arrive
  <2>1. phase' # "done" /\ UNCHANGED <<walk, maxItems, server, rows>>
    BY <1>8 DEF File, GoOn, Arrive, given
  <2> QED
    BY <2>1 DEF Thrifty, NothingWasted, Complete, Sound
<1>9. CASE UNCHANGED vars
  BY <1>9 DEF vars, given, Thrifty, NothingWasted, Complete, Sound, Full
<1> QED
  BY <1>3, <1>4, <1>5, <1>6, <1>7, <1>8, <1>9, FetchThrifty DEF Next, Walker

LEMMA AlwaysThrifty == Spec => []Thrifty
<1>1. Init => Thrifty
  <2> SUFFICES ASSUME Init PROVE Thrifty
    OBVIOUS
  <2>1. maxItems # NoCap => maxItems \in Nat
    BY WalkAssumption DEF Init
  <2> QED
    BY <2>1 DEF Init, Thrifty, NothingWasted, Complete
<1> QED
  BY <1>1, InitGapless, GaplessKept, InitFresh, FreshKept, ThriftyKept, Inductive, PTL DEF Spec

\* A walk with max_items narrows every page to what is still wanted, so a server
\* that honours page sizes never sends a row too many.
THEOREM NoRowIsWasted == Spec => []NothingWasted
<1>1. Thrifty => NothingWasted
  BY DEF Thrifty
<1> QED
  BY <1>1, AlwaysThrifty, PTL

\* Against a server that pages as documented a walk that ends without an error
\* has everything that was listed when it began, or all that was asked for.
THEOREM WalksAreComplete == Spec => []Complete
<1>1. Thrifty => Complete
  BY DEF Thrifty
<1> QED
  BY <1>1, AlwaysThrifty, PTL
=============================================================================
