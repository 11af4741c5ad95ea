------------------------- MODULE MarketDataPagesProofs -------------------------
(***************************************************************************)
(* Proofs about MarketDataPages, for every set of symbols, page size,      *)
(* listing, limit and starting token: seen_tokens does what it is there    *)
(* for, against any server, and a server that pages as documented is read  *)
(* exactly as far as the caller asked.                                     *)
(***************************************************************************)
EXTENDS MarketDataPages, DataLemmas

(***************************************************************************)
(* The order of a listing.                                                 *)
(***************************************************************************)
Increasing(s) == \A i, j \in DOMAIN s : i < j => s[i] < s[j]

Before(S, i) == {x \in S : x < i}

LEMMA BeforeFinite ==
  ASSUME NEW S \in SUBSET Nat, IsFiniteSet(S), NEW i \in S
  PROVE  /\ IsFiniteSet(Before(S, i))
         /\ Cardinality(Before(S, i)) \in 0..(Cardinality(S) - 1)
<1>1. Before(S, i) \in SUBSET S /\ Before(S, i) # S
  BY DEF Before
<1>2. IsFiniteSet(Before(S, i)) /\ Cardinality(Before(S, i)) < Cardinality(S)
  BY <1>1, FS_Subset, FS_CardinalityType
<1> QED
  BY <1>2, FS_CardinalityType

LEMMA BeforeGrows ==
  ASSUME NEW S \in SUBSET Nat, IsFiniteSet(S), NEW i \in S, NEW j \in S
  PROVE  i < j <=> Cardinality(Before(S, i)) < Cardinality(Before(S, j))
<1>1. ASSUME NEW x \in S, NEW y \in S, x < y
      PROVE  Cardinality(Before(S, x)) < Cardinality(Before(S, y))
  <2>1. Before(S, x) \in SUBSET Before(S, y) /\ x \in Before(S, y) /\ x \notin Before(S, x)
    <3>1. \A z \in S : z \in Int /\ (z < x => z < y) /\ ~(x < x)
      BY <1>1
    <3> QED
      BY <1>1, <3>1 DEF Before
  <2> QED
    BY <2>1, BeforeFinite, FS_Subset, FS_CardinalityType
<1>2. /\ Cardinality(Before(S, i)) \in Int /\ Cardinality(Before(S, j)) \in Int
      /\ i \in Int /\ j \in Int
  BY BeforeFinite
<1>3. i < j => Cardinality(Before(S, i)) < Cardinality(Before(S, j))
  BY <1>1
<1>4. j < i => Cardinality(Before(S, j)) < Cardinality(Before(S, i))
  BY <1>1
<1> QED
  BY <1>2, <1>3, <1>4

\* Every place below the size is the place of one member.
LEMMA BeforeReaches ==
  ASSUME NEW S \in SUBSET Nat, IsFiniteSet(S), NEW j \in 1..Cardinality(S)
  PROVE  \E i \in S : Cardinality(Before(S, i)) = j - 1
<1> DEFINE n == Cardinality(S)
           place == [i \in S |-> Cardinality(Before(S, i))]
<1>1. n \in Nat
  BY FS_CardinalityType
<1>2. place \in [S -> 0..(n - 1)]
  BY BeforeFinite
<1>3. \A x, y \in S : place[x] = place[y] => x = y
  <2>1. ASSUME NEW x \in S, NEW y \in S, place[x] = place[y] PROVE x = y
    <3>1. ~(x < y) /\ ~(y < x) /\ x \in Int /\ y \in Int
      BY <2>1, BeforeGrows, BeforeFinite
    <3> QED
      BY <3>1
  <2> QED
    BY <2>1
<1>4. place \in Injection(S, 0..(n - 1))
  <2> HIDE DEF place
  <2> QED
    BY <1>2, <1>3 DEF Injection, IsInjective
<1>5. IsFiniteSet(0..(n - 1)) /\ Cardinality(0..(n - 1)) = n
  <2>1. 0 \in Int /\ n - 1 \in Int /\ n - 1 >= 0
    BY <1>1
  <2> HIDE DEF n
  <2>2. IsFiniteSet(0..(n - 1)) /\ Cardinality(0..(n - 1)) = (n - 1) - 0 + 1
    BY <2>1, FS_Interval
  <2> QED
    BY <1>1, <2>2
<1>6. place \in Surjection(S, 0..(n - 1))
  BY <1>4, <1>5, FS_Injection
<1>7. j - 1 \in 0..(n - 1)
  BY <1>1
<1> QED
  BY <1>6, <1>7 DEF Surjection

LEMMA AscendingSorts ==
  ASSUME NEW S \in SUBSET Nat, IsFiniteSet(S)
  PROVE  /\ Cardinality(S) \in Nat
         /\ Ascending(S) \in [1..Cardinality(S) -> S]
         /\ Increasing(Ascending(S))
         /\ \A i \in S : \E j \in 1..Cardinality(S) : Ascending(S)[j] = i
<1> DEFINE n == Cardinality(S)
           a == Ascending(S)
<1>1. n \in Nat
  BY FS_CardinalityType
<1>2. ASSUME NEW j \in 1..n PROVE a[j] \in S /\ Cardinality(Before(S, a[j])) = j - 1
  <2>1. a[j] = CHOOSE i \in S : Cardinality(Before(S, i)) = j - 1
    BY DEF Ascending, Nth, Before
  <2> QED
    BY <2>1, BeforeReaches
<1>3. DOMAIN a = 1..n /\ a = [j \in 1..n |-> a[j]]
  BY DEF Ascending
<1> HIDE DEF a
<1>4. Increasing(a)
  <2>1. ASSUME NEW i \in 1..n, NEW j \in 1..n, i < j PROVE a[i] < a[j]
    <3>1. a[i] \in S /\ a[j] \in S
      BY <1>2
    <3>2. Cardinality(Before(S, a[i])) < Cardinality(Before(S, a[j]))
      BY <1>2, <2>1
    <3> QED
      BY <3>1, <3>2, BeforeGrows
  <2> QED
    BY <1>3, <2>1 DEF Increasing
<1>5. ASSUME NEW i \in S PROVE \E j \in 1..n : a[j] = i
  <2> DEFINE j == Cardinality(Before(S, i)) + 1
  <2>1. j \in 1..n
    BY <1>1, BeforeFinite
  <2>2. a[j] \in S /\ Cardinality(Before(S, a[j])) = Cardinality(Before(S, i))
    BY <1>2, <2>1, BeforeFinite
  <2>3. ~(a[j] < i) /\ ~(i < a[j])
    <3>1. Cardinality(Before(S, i)) \in Int
      BY BeforeFinite
    <3>2. ~(Cardinality(Before(S, a[j])) < Cardinality(Before(S, i)))
            /\ ~(Cardinality(Before(S, i)) < Cardinality(Before(S, a[j])))
      BY <2>2, <3>1
    <3> HIDE DEF j
    <3> QED
      BY <2>2, <3>2, BeforeGrows
  <2>4. a[j] \in Int /\ i \in Int
    <3>1. \A x \in S : x \in Int
      OBVIOUS
    <3> HIDE DEF j
    <3> QED
      BY <2>2, <3>1, Zenon
  <2>5. a[j] = i
    <3> HIDE DEF j
    <3> QED
      BY <2>3, <2>4
  <2> QED
    BY <2>1, <2>5
<1>6. a \in [1..n -> S]
  BY <1>2, <1>3
<1> QED
  BY <1>1, <1>4, <1>5, <1>6 DEF a

\* There is one way to put a set in order.
LEMMA AscendingIsTheOnly ==
  ASSUME NEW S \in SUBSET Nat, IsFiniteSet(S), NEW n \in Nat, NEW s \in [1..n -> S],
         Increasing(s), \A i \in S : \E j \in 1..n : s[j] = i
  PROVE  s = Ascending(S)
<1>0. \A x \in S : x \in Int
  OBVIOUS
<1>1. ASSUME NEW i \in 1..n, NEW j \in 1..n PROVE i < j <=> s[i] < s[j]
  <2>1. s[i] \in S /\ s[j] \in S
    OBVIOUS
  <2>3. s[i] \in Int /\ s[j] \in Int
    BY <2>1, <1>0, Zenon
  <2>2. (i < j => s[i] < s[j]) /\ (j < i => s[j] < s[i])
    BY DEF Increasing
  <2> HIDE DEF Increasing
  <2> QED
    BY <2>2, <2>3
<1>2. s \in Bijection(1..n, S)
  <2>1. \A i, j \in 1..n : s[i] = s[j] => i = j
    <3>1. ASSUME NEW i \in 1..n, NEW j \in 1..n, s[i] = s[j] PROVE i = j
      <4>1. ~(i < j) /\ ~(j < i)
        BY <1>1, <3>1
      <4> QED
        BY <4>1
    <3> QED
      BY <3>1
  <2> QED
    BY <2>1 DEF Bijection, Injection, Surjection, IsInjective
<1>3. Cardinality(S) = n
  <2>1. IsFiniteSet(1..n) /\ Cardinality(1..n) = n
    BY FS_Interval
  <2> QED
    BY <1>2, <2>1, FS_Bijection DEF ExistsBijection
<1>4. ASSUME NEW j \in 1..n PROVE Cardinality(Before(S, s[j])) = j - 1
  <2> DEFINE b == [i \in 1..(j - 1) |-> s[i]]
  <2>1. \A i \in 1..(j - 1) : i \in 1..n /\ s[i] \in Before(S, s[j])
    BY <1>1 DEF Before
  <2>2. b \in [1..(j - 1) -> Before(S, s[j])]
    BY <2>1
  <2>3. \A x, y \in 1..(j - 1) : b[x] = b[y] => x = y
    BY <1>2, <2>1 DEF Bijection, Injection, IsInjective
  <2>4. ASSUME NEW x \in Before(S, s[j]) PROVE \E i \in 1..(j - 1) : b[i] = x
    <3>1. x \in S /\ x < s[j]
      BY DEF Before
    <3>2. PICK i \in 1..n : s[i] = x
      BY <3>1
    <3>3. i < j
      BY <1>1, <3>1, <3>2
    <3>4. i \in 1..(j - 1)
      BY <3>3
    <3> QED
      BY <3>2, <3>4
  <2> HIDE DEF b
  <2>5. b \in Bijection(1..(j - 1), Before(S, s[j]))
    BY <2>2, <2>3, <2>4 DEF Bijection, Injection, Surjection, IsInjective
  <2>6. IsFiniteSet(1..(j - 1)) /\ Cardinality(1..(j - 1)) = j - 1
    BY FS_Interval
  <2> QED
    BY <2>5, <2>6, FS_Bijection DEF ExistsBijection
<1>5. ASSUME NEW j \in 1..n PROVE Ascending(S)[j] = s[j]
  <2>1. Ascending(S)[j] = CHOOSE i \in S : Cardinality(Before(S, i)) = j - 1
    BY <1>3 DEF Ascending, Nth, Before
  <2>2. \A i \in S : Cardinality(Before(S, i)) = j - 1 => i = s[j]
    <3>1. ASSUME NEW i \in S, Cardinality(Before(S, i)) = j - 1 PROVE i = s[j]
      <4>1. s[j] \in S /\ Cardinality(Before(S, s[j])) = j - 1
        BY <1>4
      <4>2. j - 1 \in Int /\ ~(j - 1 < j - 1)
        OBVIOUS
      <4>3. ~(i < s[j]) /\ ~(s[j] < i)
        <5>1. i < s[j] <=> Cardinality(Before(S, i)) < Cardinality(Before(S, s[j]))
          BY <4>1, BeforeGrows, Zenon
        <5>2. s[j] < i <=> Cardinality(Before(S, s[j])) < Cardinality(Before(S, i))
          BY <4>1, BeforeGrows, Zenon
        <5> QED
          BY <3>1, <4>1, <4>2, <5>1, <5>2, Zenon
      <4>4. i \in Int /\ s[j] \in Int
        BY <1>0, <4>1, Zenon
      <4> QED
        BY <4>3, <4>4
    <3> QED
      BY <3>1
  <2>3. s[j] \in S
    OBVIOUS
  <2> QED
    BY <1>4, <2>1, <2>2, <2>3
<1> QED
  BY <1>3, <1>5, AscendingSorts

LEMMA AscendingOfNone == Ascending({}) = <<>>
<1>1. IsFiniteSet({}) /\ Cardinality({}) = 0
  BY FS_EmptySet
<1> QED
  BY <1>1, AscendingSorts

LEMMA AscendingOfOne == ASSUME NEW x \in Nat PROVE Ascending({x}) = <<x>>
<1>1. IsFiniteSet({x})
  BY FS_Singleton
<1>2. <<x>> \in [1..1 -> {x}] /\ Increasing(<<x>>) /\ <<x>>[1] = x
  BY DEF Increasing
<1>3. {x} \in SUBSET Nat /\ \A i \in {x} : \E j \in 1..1 : <<x>>[j] = i
  OBVIOUS
<1> QED
  BY <1>1, <1>2, <1>3, AscendingIsTheOnly

\* What comes after is put after.
LEMMA AscendingJoins ==
  ASSUME NEW S \in SUBSET Nat, IsFiniteSet(S), NEW T \in SUBSET Nat, IsFiniteSet(T),
         \A x \in S, y \in T : x < y
  PROVE  Ascending(S \cup T) = Ascending(S) \o Ascending(T)
<1> DEFINE s == Ascending(S)
           t == Ascending(T)
           m == Cardinality(S)
           n == Cardinality(T)
           j == s \o t
<1>1. /\ m \in Nat /\ s \in [1..m -> S] /\ Increasing(s)
      /\ \A i \in S : \E k \in 1..m : s[k] = i
  BY AscendingSorts
<1>2. /\ n \in Nat /\ t \in [1..n -> T] /\ Increasing(t)
      /\ \A i \in T : \E k \in 1..n : t[k] = i
  BY AscendingSorts
<1> HIDE DEF s, t, m, n
<1>3. s \in Seq(S) /\ Len(s) = m /\ t \in Seq(T) /\ Len(t) = n
  BY <1>1, <1>2
<1>4. /\ DOMAIN j = 1..(m + n)
      /\ \A i \in 1..m : j[i] = s[i]
      /\ \A i \in (m + 1)..(m + n) : i - m \in 1..n /\ j[i] = t[i - m]
  BY <1>1, <1>2, <1>3
<1> HIDE DEF j
<1>5. j \in [1..(m + n) -> S \cup T]
  <2>1. \A i \in 1..(m + n) : j[i] \in S \cup T
    BY <1>1, <1>2, <1>4
  <2>2. j = [i \in 1..(m + n) |-> j[i]]
    <3>1. j \in Seq(S \cup T) /\ Len(j) = m + n
      <4>1. s \in Seq(S \cup T) /\ t \in Seq(S \cup T)
        BY <1>3
      <4> QED
        BY <1>3, <4>1 DEF j
    <3> QED
      BY <3>1
  <2> QED
    BY <2>1, <2>2
<1>6. Increasing(j)
  <2> SUFFICES ASSUME NEW i \in 1..(m + n), NEW k \in 1..(m + n), i < k PROVE j[i] < j[k]
    BY <1>4 DEF Increasing
  <2>1. CASE k <= m
    BY <1>1, <1>2, <1>4, <2>1 DEF Increasing
  <2>2. CASE i <= m /\ k > m
    <3>1. i \in 1..m /\ k \in (m + 1)..(m + n)
      BY <1>1, <1>2, <2>2
    <3>2. j[i] = s[i] /\ j[k] = t[k - m] /\ k - m \in 1..n
      BY <1>4, <3>1
    <3>3. s[i] \in S /\ t[k - m] \in T
      BY <1>1, <1>2, <3>1, <3>2
    <3> QED
      BY <3>2, <3>3
  <2>3. CASE i > m
    <3>1. i - m \in 1..n /\ k - m \in 1..n /\ i - m < k - m /\ DOMAIN t = 1..n
      BY <1>1, <1>2, <2>3
    <3>2. t[i - m] < t[k - m]
      BY <1>2, <3>1 DEF Increasing
    <3>3. j[i] = t[i - m] /\ j[k] = t[k - m]
      BY <1>1, <1>2, <1>4, <2>3
    <3> QED
      BY <3>2, <3>3
  <2> QED
    BY <1>1, <1>2, <2>1, <2>2, <2>3
<1>7. \A i \in S \cup T : \E k \in 1..(m + n) : j[k] = i
  <2>1. ASSUME NEW i \in S PROVE \E k \in 1..(m + n) : j[k] = i
    <3>1. PICK k \in 1..m : s[k] = i
      BY <1>1
    <3> QED
      BY <1>1, <1>2, <1>4, <3>1
  <2>2. ASSUME NEW i \in T PROVE \E k \in 1..(m + n) : j[k] = i
    <3>1. PICK k \in 1..n : t[k] = i
      BY <1>2
    <3>2. k + m \in (m + 1)..(m + n) /\ (k + m) - m = k
      BY <1>1, <1>2
    <3>3. k + m \in 1..(m + n)
      BY <1>1, <1>2
    <3>4. j[k + m] = t[(k + m) - m]
      BY <1>4, <3>2
    <3> QED
      BY <3>1, <3>2, <3>3, <3>4
  <2> QED
    BY <2>1, <2>2
<1>8. IsFiniteSet(S \cup T) /\ S \cup T \in SUBSET Nat /\ m + n \in Nat
  <2>1. IsFiniteSet(S \cup T)
    BY FS_Union
  <2> QED
    BY <1>1, <1>2, <2>1
<1> QED
  BY <1>5, <1>6, <1>7, <1>8, AscendingIsTheOnly DEF j, s, t

(***************************************************************************)
(* No page twice.                                                          *)
(***************************************************************************)
\* Every token asked with is remembered, and the one to ask with next is new.
Fresh ==
  /\ asked \ {None} \subseteq seen
  /\ phase = "checking" => asked = {} /\ (token # None => token \in seen)
  /\ phase = "asking" => token \notin asked /\ (token # None => token \in seen)

LEMMA InitFresh == Init => Fresh
BY DEF Init, Fresh, Seeded

LEMMA FetchFresh == Fresh /\ Fetch => Fresh'
<1> SUFFICES ASSUME Fresh, Fetch PROVE Fresh' OBVIOUS
<1>1. PICK a \in Answers :
        IF a.next = None \/ Repeated(a.next)
        THEN phase' = "done" /\ UNCHANGED <<token, seen>>
        ELSE phase' = phase /\ token' = a.next /\ seen' = seen \cup {a.next}
  BY DEF Fetch
<1>2. asked' = asked \cup {token} /\ phase = "asking" BY DEF Fetch
<1>3. CASE a.next = None \/ Repeated(a.next) BY <1>1, <1>2, <1>3 DEF Fresh
<1>4. CASE a.next # None /\ a.next \notin seen
  BY <1>1, <1>2, <1>4 DEF Fresh, Repeated
<1> QED BY <1>3, <1>4 DEF Repeated

LEMMA NextFresh == Fresh /\ [Next]_vars => Fresh'
<1> SUFFICES ASSUME Fresh, [Next]_vars PROVE Fresh' OBVIOUS
<1>1. CASE Fetch BY <1>1, FetchFresh
<1>2. CASE RefuseBlank BY <1>2 DEF RefuseBlank, Stop, Fresh
<1>3. CASE Begin BY <1>3 DEF Begin, Stop, Fresh
<1>4. CASE ReachLimit BY <1>4 DEF ReachLimit, Stop, Fresh
<1>5. CASE FetchFails BY <1>5 DEF FetchFails, Stop, Fresh
<1>6. CASE UNCHANGED vars BY <1>6 DEF vars, Fresh
<1> QED BY <1>1, <1>2, <1>3, <1>4, <1>5, <1>6 DEF Next

\* get_marketdata: no page is asked for twice, the caller's own included, so a
\* server that stops advancing is left after one page more.
THEOREM NoTokenIsFollowedTwice == Spec => NoPageTwice
<1>1. Fresh /\ [Next]_vars => [Fetch => token \notin asked]_vars
  BY DEF Fresh, Fetch
<1> QED BY <1>1, InitFresh, NextFresh, PTL DEF Spec, NoPageTwice

(***************************************************************************)
(* Exactly what was asked.                                                 *)
(***************************************************************************)
From == Skipped(query.start)
At == Skipped(token)

\* Where what the caller asked for ends.
To == IF UserLimit = None THEN Len(server.listing)
      ELSE Least(From + UserLimit, Len(server.listing))

Under(l, k, items) == {i \in items \cap DOMAIN l : l[i] = k}

\* What the caller and the server come with.
InputsSound ==
  /\ query \in Queries /\ route \in Shapes
  /\ Limitless(route) => query.limit = None
  /\ route.payload = "values" => query.start = None
  /\ server.orderly \in Orderly
  /\ Len(server.listing) \in 0..Longest
  /\ server.listing \in [1..Len(server.listing) -> Keys]
  /\ route.payload = "values" => IsInjective(server.listing)

ResultTyped ==
  /\ phase \in {"checking", "asking", "done", "failed"}
  /\ token \in Tokens \cup {None}
  /\ seen \subseteq Tokens
  /\ lists \in [Keys -> Seq(1..Longest)]
  /\ merged \in [Keys -> (1..Longest) \cup {None, Null}]
  /\ asked \subseteq Tokens \cup {None}

\* The next page starts past every page there was, and within what was asked for.
Advancing ==
  /\ From <= At
  /\ At = From \/ At <= Len(server.listing)
  /\ seen \subseteq 0..At
  /\ UserLimit # None => At <= From + UserLimit

\* What is held is what is listed from the caller's token up to m.
HoldingTo(m) ==
  \A k \in Keys :
    IF route.payload = "lists"
    THEN /\ lists[k] = Ascending(Under(server.listing, k, (From + 1)..m))
         /\ merged[k] \in {None, Null}
    ELSE /\ lists[k] = <<>>
         /\ IF Under(server.listing, k, 1..m) = {} THEN merged[k] \in {None, Null}
            ELSE merged[k] \in Under(server.listing, k, 1..m)

Holding == HoldingTo(At)

Faithful == server.orderly /\ phase \in {"checking", "asking"} => Advancing /\ Holding

Ended == server.orderly /\ phase = "done" => HoldingTo(To)

\* Every listing a server may have is a sequence of keys.
LEMMA UnderFinite ==
  ASSUME NEW n \in Nat, NEW l \in [1..n -> Keys], NEW k, NEW items
  PROVE  /\ Under(l, k, items) \in SUBSET Nat
         /\ Under(l, k, items) \subseteq 1..n
         /\ IsFiniteSet(Under(l, k, items))
         /\ Ascending(Under(l, k, items)) \in Seq(1..n)
         /\ Len(Ascending(Under(l, k, items))) = Cardinality(Under(l, k, items))
<1> DEFINE u == Under(l, k, items)
<1>1. u \in SUBSET (1..n)
  BY DEF Under
<1>2. IsFiniteSet(1..n) /\ u \in SUBSET Nat
  BY <1>1, FS_Interval
<1>3. IsFiniteSet(u)
  BY <1>1, <1>2, FS_Subset
<1> HIDE DEF u
<1>4. /\ Cardinality(u) \in Nat
      /\ Ascending(u) \in [1..Cardinality(u) -> u]
  BY <1>2, <1>3, AscendingSorts
<1>5. Ascending(u) \in [1..Cardinality(u) -> 1..n]
  BY <1>1, <1>4
<1>6. Ascending(u) \in Seq(1..n) /\ Len(Ascending(u)) = Cardinality(u)
  BY <1>4, <1>5
<1> QED
  BY <1>1, <1>2, <1>3, <1>6 DEF u

\* A page holds something for a key just if the key is among its items.
LEMMA UnderEmpty ==
  ASSUME NEW n \in Nat, NEW l \in [1..n -> Keys], NEW k, NEW items
  PROVE  /\ Ascending(Under(l, k, items)) = <<>> <=> Under(l, k, items) = {}
         /\ Under(l, k, items) # {} =>
              Ascending(Under(l, k, items))[1] \in Under(l, k, items)
<1> DEFINE u == Under(l, k, items)
<1>1. u \in SUBSET Nat /\ IsFiniteSet(u)
  BY UnderFinite
<1> HIDE DEF u
<1>2. /\ Cardinality(u) \in Nat
      /\ Ascending(u) \in [1..Cardinality(u) -> u]
  BY <1>1, AscendingSorts
<1>3. Cardinality(u) = 0 <=> u = {}
  BY <1>1, FS_EmptySet
<1>4. u # {} => 1 \in 1..Cardinality(u)
  BY <1>2, <1>3
<1>5. u # {} => Ascending(u)[1] \in u /\ Ascending(u) # <<>>
  BY <1>2, <1>4
<1> QED
  BY <1>5, AscendingOfNone DEF u

\* Every item is under one key, so the keys share a stretch of the listing out.
LEMMA UnderShares ==
  ASSUME NEW n \in Nat, NEW l \in [1..n -> Keys],
         NEW a \in Nat, NEW b \in Nat, a <= b, a = b \/ b <= n
  PROVE  SumFunctionOnSet([k \in Keys |-> Cardinality(Under(l, k, (a + 1)..b))], Keys) = b - a
<1> DEFINE I == (a + 1)..b
           u == [k \in Keys |-> Under(l, k, I)]
           f == [k \in Keys |-> Cardinality(Under(l, k, I))]
           o == [k \in Keys |-> Ascending(Under(l, k, I))]
           place == [p \in Cells(f, Keys) |-> o[p[1]][p[2]]]
<1>1. I \in SUBSET DOMAIN l
  OBVIOUS
<1>2. ASSUME NEW k \in Keys
      PROVE  /\ f[k] = Cardinality(u[k]) /\ f[k] \in Nat
             /\ o[k] \in [1..f[k] -> u[k]]
             /\ Increasing(o[k])
             /\ \A i \in u[k] : \E j \in 1..f[k] : o[k][j] = i
             /\ \A i : i \in u[k] <=> i \in I /\ l[i] = k
  <2>1. Under(l, k, I) \in SUBSET Nat /\ IsFiniteSet(Under(l, k, I))
    BY UnderFinite
  <2>2. \A i : i \in Under(l, k, I) <=> i \in I /\ l[i] = k
    BY <1>1 DEF Under
  <2> HIDE DEF I
  <2>3. /\ Cardinality(Under(l, k, I)) \in Nat
        /\ Ascending(Under(l, k, I)) \in [1..Cardinality(Under(l, k, I)) -> Under(l, k, I)]
        /\ Increasing(Ascending(Under(l, k, I)))
        /\ \A i \in Under(l, k, I) :
             \E j \in 1..Cardinality(Under(l, k, I)) : Ascending(Under(l, k, I))[j] = i
    BY <2>1, AscendingSorts
  <2> QED
    BY <2>2, <2>3
<1>3. \A i \in I : l[i] \in Keys /\ i \in Int
  BY <1>1
<1>4. IsFiniteSet(Keys)
  BY PagesAssumption
<1>5. IsFiniteSet(I) /\ Cardinality(I) = b - a
  <2>1. a + 1 \in Int /\ b \in Int
    OBVIOUS
  <2>2. IsFiniteSet(I) /\ Cardinality(I) = IF a + 1 > b THEN 0 ELSE b - (a + 1) + 1
    BY <2>1, FS_Interval
  <2> QED
    BY <2>2
<1> HIDE DEF I, u, f, o
<1>6. \A p : p \in Cells(f, Keys) <=> \E k \in Keys : \E j \in 1..f[k] : p = <<k, j>>
  BY DEF Cells
<1>7. ASSUME NEW p \in Cells(f, Keys)
      PROVE  p[1] \in Keys /\ p[2] \in 1..f[p[1]] /\ p = <<p[1], p[2]>> /\ place[p] \in u[p[1]]
  <2>1. PICK k \in Keys : \E j \in 1..f[k] : p = <<k, j>>
    BY <1>6
  <2>2. PICK j \in 1..f[k] : p = <<k, j>>
    BY <2>1
  <2>3. place[p] = o[k][j] /\ o[k][j] \in u[k]
    BY <1>2, <2>2
  <2> HIDE DEF place
  <2> QED
    BY <2>2, <2>3
<1>8. place \in [Cells(f, Keys) -> I]
  <2>1. \A p \in Cells(f, Keys) : o[p[1]][p[2]] \in I
    BY <1>2, <1>7
  <2> QED
    BY <2>1
<1>9. ASSUME NEW p \in Cells(f, Keys), NEW q \in Cells(f, Keys), place[p] = place[q]
      PROVE  p = q
  <2>1. p[1] = q[1]
    <3>1. l[place[p]] = p[1] /\ l[place[q]] = q[1]
      BY <1>2, <1>7
    <3> QED
      BY <1>9, <3>1
  <2>2. o[p[1]][p[2]] = o[p[1]][q[2]] /\ p[2] \in 1..f[p[1]] /\ q[2] \in 1..f[p[1]]
    BY <1>7, <1>9, <2>1
  <2>3. DOMAIN o[p[1]] = 1..f[p[1]] /\ o[p[1]][p[2]] \in u[p[1]] /\ u[p[1]] \subseteq Int
    BY <1>2, <1>3, <1>7
  <2>4. ~(p[2] < q[2]) /\ ~(q[2] < p[2])
    <3>1. Increasing(o[p[1]])
      BY <1>2, <1>7
    <3> QED
      BY <2>2, <2>3, <3>1 DEF Increasing
  <2>5. p[2] = q[2]
    BY <2>2, <2>4
  <2> QED
    BY <1>7, <2>1, <2>5
<1>10. ASSUME NEW i \in I PROVE \E p \in Cells(f, Keys) : place[p] = i
  <2>1. l[i] \in Keys /\ i \in u[l[i]]
    BY <1>2, <1>3
  <2>2. PICK j \in 1..f[l[i]] : o[l[i]][j] = i
    BY <1>2, <2>1
  <2>3. <<l[i], j>> \in Cells(f, Keys)
    BY <1>6, <2>1
  <2> QED
    BY <2>2, <2>3
<1> HIDE DEF place
<1>11. place \in Bijection(Cells(f, Keys), I)
  BY <1>8, <1>9, <1>10 DEF Bijection, Injection, Surjection, IsInjective
<1>12. Cardinality(Cells(f, Keys)) = Cardinality(I)
  <2>1. IsFiniteSet(Cells(f, Keys))
    BY <1>2, <1>4, CellsFinite
  <2> QED
    BY <1>11, <2>1, FS_Bijection DEF ExistsBijection
<1>13. SumFunctionOnSet(f, Keys) = Cardinality(Cells(f, Keys))
  BY <1>2, <1>4, SumCounts
<1> QED
  BY <1>5, <1>12, <1>13 DEF f, I

LEMMA ItemsAreUnder ==
  ASSUME NEW k, NEW items
  PROVE  ItemsOf(k, items) = Ascending(Under(server.listing, k, items))
BY DEF ItemsOf, Under

LEMMA ShapesOfRoutes ==
  ASSUME NEW r \in Shapes
  PROVE  /\ r.sized \in BOOLEAN /\ r.payload \in {"lists", "values"}
         /\ r.payload = "lists" => r.sized
<1> DEFINE Sound(q) == /\ q.sized \in BOOLEAN /\ q.payload \in {"lists", "values"}
                       /\ q.payload = "lists" => q.sized = TRUE
<1>1. \A names : \A q \in Paged(names) \cup PagedValues(names) \cup Latest(names) : Sound(q)
  BY DEF Paged, PagedValues, Latest
<1> HIDE DEF Sound
<1>2. \A q \in StockRoutes \cup StockSymbolRoutes \cup StockLatestForSymbol \cup CryptoRoutes : Sound(q)
  BY <1>1 DEF StockRoutes, StockSymbolRoutes, StockLatestForSymbol, CryptoRoutes
<1>3. \A q \in OptionRoutes \cup ForexRoutes \cup NewsRoutes \cup CorporateActionRoutes : Sound(q)
  BY <1>1 DEF OptionRoutes, ForexRoutes, NewsRoutes, CorporateActionRoutes
<1>4. PICK q \in StockRoutes \cup StockSymbolRoutes \cup StockLatestForSymbol \cup CryptoRoutes
                  \cup OptionRoutes \cup ForexRoutes \cup NewsRoutes \cup CorporateActionRoutes :
         r = [sized |-> q.sized, payload |-> q.payload]
  BY DEF Shapes
<1>5. Sound(q)
  BY <1>2, <1>3
<1>6. r.sized = q.sized /\ r.payload = q.payload
  BY <1>4
<1> QED
  <2>1. /\ r.sized \in BOOLEAN /\ r.payload \in {"lists", "values"}
        /\ r.payload = "lists" => r.sized = TRUE
    BY <1>5, <1>6 DEF Sound
  <2> QED
    BY <2>1

\* What the inputs come to: where the caller starts, and how much is asked for.
LEMMA InputsMean ==
  ASSUME InputsSound
  PROVE  /\ route.sized \in BOOLEAN /\ route.payload \in {"lists", "values"}
         /\ route.payload = "lists" => route.sized
         /\ route.payload = "values" => UserLimit = None /\ query.start = None
         /\ UserLimit \in Nat \cup {None}
         /\ query.start \in Nat \cup {None} /\ From \in Nat
         /\ query.start \in Tokens \cup {None}
         /\ Len(server.listing) \in Nat
<1>1. /\ route.sized \in BOOLEAN /\ route.payload \in {"lists", "values"}
      /\ route.payload = "lists" => route.sized
  BY ShapesOfRoutes DEF InputsSound
<1>2. query.limit \in Nat \cup {None}
  BY PagesAssumption DEF InputsSound, Queries
<1>3. query.start \in Tokens \cup {None} /\ query.start \in Nat \cup {None}
  <2>1. query.start \in Starts
    BY DEF InputsSound, Queries
  <2>2. query.start \in Tokens \cup {None}
    BY <2>1, PagesAssumption
  <2> QED
    BY <2>2, PagesAssumption DEF Tokens
<1>4. UserLimit \in Nat \cup {None}
  BY <1>2 DEF UserLimit
<1>5. route.payload = "values" => UserLimit = None
  BY <1>1 DEF InputsSound, Limitless, UserLimit
<1>6. From \in Nat
  BY <1>3 DEF From, Skipped
<1> QED
  BY <1>1, <1>3, <1>4, <1>5, <1>6 DEF InputsSound

\* The number sent with a request is right, whatever has been collected.
LEMMA CountedIsNat ==
  ASSUME lists \in [Keys -> Seq(1..Longest)]
  PROVE  Counted \in Nat
<1> DEFINE f == [k \in Keys |-> Len(lists[k])]
<1>1. \A k \in Keys : f[k] \in Nat
  OBVIOUS
<1> HIDE DEF f
<1> QED
  BY <1>1, PagesAssumption, SumIsNat DEF Counted, f

LEMMA AskedForFits ==
  ASSUME InputsSound, ResultTyped, ~Satisfied, route.sized
  PROVE  /\ AskedFor \in 1..PageLimit
         /\ UserLimit # None => AskedFor <= UserLimit - Counted
<1>1. Counted \in Int
  BY CountedIsNat DEF ResultTyped
<1>2. UserLimit \in Nat \cup {None} /\ PageLimit \in Nat \ {0} /\ None \notin Nat
  BY InputsMean, PagesAssumption
<1>3. UserLimit # None => UserLimit \in Int /\ Counted < UserLimit
  BY <1>1, <1>2 DEF Satisfied
<1>4. AskedFor = IF UserLimit = None THEN PageLimit ELSE Least(UserLimit - Counted, PageLimit)
  BY DEF AskedFor
<1> QED
  BY <1>1, <1>2, <1>3, <1>4 DEF Least

LEMMA SequencesWiden ==
  ASSUME NEW S, NEW T, \A x \in S : x \in T
  PROVE  \A s \in Seq(S) : s \in Seq(T) /\ (s # <<>> => s[1] \in T)
<1> SUFFICES ASSUME NEW s \in Seq(S) PROVE s \in Seq(T) /\ (s # <<>> => s[1] \in T)
  OBVIOUS
<1>1. /\ Len(s) \in Nat /\ DOMAIN s = 1..Len(s) /\ s = [i \in 1..Len(s) |-> s[i]]
      /\ \A i \in 1..Len(s) : s[i] \in S
  OBVIOUS
<1>2. \A i \in 1..Len(s) : s[i] \in T
  BY <1>1
<1>3. s \in Seq(T)
  BY <1>1, <1>2
<1>4. s # <<>> => 1 \in 1..Len(s)
  BY <1>1
<1> QED
  BY <1>2, <1>3, <1>4

\* Where the next page starts is where the last one ended.
LEMMA UptoBounds ==
  ASSUME InputsSound, ResultTyped, ~Satisfied
  PROVE  LET end == Len(server.listing)
         IN  /\ At \in Nat /\ Upto(token) \in Nat /\ Upto(token) <= end
             /\ Upto(token) < end => Upto(token) > At
             /\ route.sized => Upto(token) <= At + AskedFor
             /\ At <= end => At <= Upto(token)
<1> DEFINE end == Len(server.listing)
<1>1. end \in Nat /\ None \notin Nat /\ PageLimit \in Nat
  BY InputsMean, PagesAssumption
<1>2. At \in Nat
  BY DEF ResultTyped, Tokens, At, Skipped
<1>3. CASE route.sized
  <2>1. AskedFor \in 1..PageLimit
    BY <1>3, AskedForFits
  <2>2. AskedFor # None
    BY <1>1, <2>1
  <2>3. Upto(token) = Least(At + AskedFor, end)
    BY <2>2 DEF Upto, At
  <2> QED
    BY <1>1, <1>2, <2>1, <2>3 DEF Least
<1>4. CASE ~route.sized
  <2>1. Upto(token) = end
    BY <1>4 DEF Upto, AskedFor
  <2> QED
    BY <1>1, <1>2, <1>4, <2>1
<1> QED
  BY <1>3, <1>4

(***************************************************************************)
(* The parts of the invariant.                                             *)
(***************************************************************************)
LEMMA InitSound == Init => InputsSound /\ ResultTyped
<1> SUFFICES ASSUME Init PROVE InputsSound /\ ResultTyped
  OBVIOUS
<1>1. /\ query \in Queries /\ route \in Shapes
      /\ Limitless(route) => query.limit = None
      /\ route.payload = "values" => query.start = None
  BY DEF Init
<1>2. PICK o \in Orderly : server \in [orderly : {o}, listing : Listings(o)]
  BY DEF Init
<1>3. server.orderly \in Orderly /\ server.listing \in Listings(o)
  BY <1>2
<1>4. PICK n \in 0..(IF o THEN Longest ELSE Erratic) : server.listing \in [1..n -> Keys]
  BY <1>3 DEF Listings
<1>5. n \in 0..Longest
  BY PagesAssumption
<1>6. Len(server.listing) = n
  BY <1>4, <1>5
<1>7. route.payload = "values" => IsInjective(server.listing)
  BY <1>3 DEF Listings
<1>8. InputsSound
  BY <1>1, <1>3, <1>4, <1>5, <1>6, <1>7 DEF InputsSound
<1>9. query.start \in Tokens \cup {None}
  BY <1>8, InputsMean
<1>10. ResultTyped
  BY <1>9 DEF Init, ResultTyped, Seeded
<1> QED
  BY <1>8, <1>10

LEMMA NextInputs == InputsSound /\ [Next]_vars => InputsSound'
<1> SUFFICES ASSUME InputsSound, [Next]_vars PROVE InputsSound'
  OBVIOUS
<1>1. UNCHANGED given
  BY DEF Next, RefuseBlank, Begin, ReachLimit, FetchFails, Fetch, Stop, vars
<1> QED
  BY <1>1 DEF given, InputsSound

LEMMA FetchTyped ==
  ASSUME InputsSound, ResultTyped, Fetch
  PROVE  ResultTyped'
<1>1. PICK a \in Answers :
        /\ lists' = [k \in Keys |-> IF route.payload = "lists" /\ k \notin a.nulls
                                    THEN Extended(k, a.items) ELSE lists[k]]
        /\ merged' = [k \in Keys |-> IF k \in a.nulls THEN Null
                                     ELSE IF route.payload = "values" /\ ItemsOf(k, a.items) # <<>>
                                     THEN ItemsOf(k, a.items)[1] ELSE merged[k]]
        /\ IF a.next = None \/ Repeated(a.next)
           THEN phase' = "done" /\ UNCHANGED <<token, seen>>
           ELSE phase' = phase /\ token' = a.next /\ seen' = seen \cup {a.next}
  BY DEF Fetch
<1>2. asked' = asked \cup {token} /\ phase = "asking" /\ ~Satisfied
  BY DEF Fetch
<1> DEFINE l == server.listing
           n == Len(server.listing)
<1>3. n \in Nat /\ n <= Longest /\ Longest \in Nat /\ l \in [1..n -> Keys]
  BY PagesAssumption DEF InputsSound
<1>4. ASSUME NEW k, NEW items
      PROVE  /\ ItemsOf(k, items) \in Seq(1..Longest)
             /\ ItemsOf(k, items) # <<>> => ItemsOf(k, items)[1] \in 1..Longest
  <2> HIDE DEF l, n
  <2>1. Ascending(Under(l, k, items)) \in Seq(1..n)
    BY <1>3, UnderFinite
  <2>2. \A i \in 1..n : i \in 1..Longest
    BY <1>3
  <2>3. ItemsOf(k, items) = Ascending(Under(l, k, items))
    BY ItemsAreUnder DEF l
  <2>4. \A s \in Seq(1..n) : s \in Seq(1..Longest) /\ (s # <<>> => s[1] \in 1..Longest)
    BY <2>2, SequencesWiden
  <2> QED
    BY <2>1, <2>3, <2>4
<1>5. lists' \in [Keys -> Seq(1..Longest)]
  <2>1. ASSUME NEW k \in Keys PROVE Extended(k, a.items) \in Seq(1..Longest)
    BY <1>4 DEF Extended, ResultTyped
  <2> QED
    BY <1>1, <2>1 DEF ResultTyped
<1>6. merged' \in [Keys -> (1..Longest) \cup {None, Null}]
  BY <1>1, <1>4 DEF ResultTyped
<1>7. a.next \in Tokens \cup {None}
  <2>1. CASE server.orderly
    <3>1. a.next = None \/ a.next = Upto(token)
      BY <2>1 DEF Answers
    <3>2. Upto(token) \in Nat /\ Upto(token) <= n
      BY <1>2, UptoBounds
    <3> QED
      BY <1>3, <3>1, <3>2 DEF Tokens
  <2>2. CASE ~server.orderly
    BY <2>2, PagesAssumption DEF Answers, Tokens
  <2> QED
    BY <2>1, <2>2
<1>8. /\ phase' \in {"checking", "asking", "done", "failed"}
      /\ token' \in Tokens \cup {None} /\ seen' \subseteq Tokens
  BY <1>1, <1>2, <1>7 DEF ResultTyped
<1> QED
  BY <1>2, <1>5, <1>6, <1>8 DEF ResultTyped

LEMMA NextTyped == InputsSound /\ ResultTyped /\ [Next]_vars => ResultTyped'
<1> SUFFICES ASSUME InputsSound, ResultTyped, [Next]_vars PROVE ResultTyped'
  OBVIOUS
<1>1. CASE Fetch
  BY <1>1, FetchTyped
<1>2. CASE RefuseBlank \/ Begin \/ ReachLimit \/ FetchFails
  BY <1>2 DEF RefuseBlank, Begin, ReachLimit, FetchFails, Stop, ResultTyped
<1>3. CASE UNCHANGED vars
  BY <1>3 DEF vars, ResultTyped
<1> QED
  BY <1>1, <1>2, <1>3 DEF Next

LEMMA TypedStates == InputsSound /\ ResultTyped => TypeOK
BY AskedForFits DEF InputsSound, ResultTyped, TypeOK

LEMMA InitFaithful == Init /\ InputsSound => Faithful
<1> SUFFICES ASSUME Init, InputsSound PROVE Advancing /\ Holding
  BY DEF Faithful
<1>1. token = query.start /\ seen = Seeded(query.start)
  BY DEF Init
<1>2. /\ From \in Nat /\ At = From /\ UserLimit \in Nat \cup {None}
      /\ query.start \in Nat \cup {None}
  BY <1>1, InputsMean DEF At, From
<1>3. seen \subseteq {From} /\ From \in 0..At
  BY <1>1, <1>2 DEF Seeded, From, Skipped
<1>4. Advancing
  BY <1>2, <1>3, InputsMean DEF Advancing
<1>5. ASSUME NEW k \in Keys PROVE lists[k] = <<>> /\ merged[k] = None
  BY DEF Init
<1>6. ASSUME NEW k \in Keys, NEW items, items = {} PROVE Under(server.listing, k, items) = {}
  BY <1>6 DEF Under
<1>7. (From + 1)..At = {}
  BY <1>2
<1>8. route.payload = "values" => 1..At = {}
  BY <1>2, InputsMean DEF From, Skipped
<1>9. Holding
  <2> SUFFICES ASSUME NEW k \in Keys
               PROVE  IF route.payload = "lists"
                      THEN /\ lists[k] = Ascending(Under(server.listing, k, (From + 1)..At))
                           /\ merged[k] \in {None, Null}
                      ELSE /\ lists[k] = <<>>
                           /\ IF Under(server.listing, k, 1..At) = {} THEN merged[k] \in {None, Null}
                              ELSE merged[k] \in Under(server.listing, k, 1..At)
    BY DEF Holding, HoldingTo
  <2>1. Ascending(Under(server.listing, k, (From + 1)..At)) = <<>>
    BY <1>6, <1>7, AscendingOfNone
  <2>2. route.payload = "values" => Under(server.listing, k, 1..At) = {}
    BY <1>6, <1>8
  <2>3. route.payload \in {"lists", "values"}
    BY InputsMean
  <2> QED
    BY <1>5, <2>1, <2>2, <2>3
<1> QED
  BY <1>4, <1>9

\* Over all keys the lists hold what is between the caller's token and the next.
LEMMA CountedSoFar ==
  ASSUME InputsSound, ResultTyped, Advancing, Holding, route.payload = "lists"
  PROVE  Counted = At - From
<1> DEFINE l == server.listing
           n == Len(server.listing)
           f == [k \in Keys |-> Len(lists[k])]
           g == [k \in Keys |-> Cardinality(Under(l, k, (From + 1)..At))]
<1>1. n \in Nat /\ l \in [1..n -> Keys] /\ From \in Nat /\ At \in Nat
  BY InputsMean DEF InputsSound, ResultTyped, Tokens, At, Skipped
<1>2. From <= At /\ (From = At \/ At <= n)
  BY DEF Advancing
<1>3. \A k \in Keys : f[k] \in Nat /\ f[k] = g[k]
  <2>1. ASSUME NEW k \in Keys PROVE f[k] \in Nat /\ f[k] = g[k]
    <3>1. f[k] = Len(lists[k]) /\ lists[k] \in Seq(1..Longest)
      BY DEF ResultTyped
    <3>2. lists[k] = Ascending(Under(l, k, (From + 1)..At))
      BY DEF Holding, HoldingTo
    <3> HIDE DEF f, l, n
    <3>3. Len(lists[k]) = Cardinality(Under(l, k, (From + 1)..At))
      BY <1>1, <3>2, UnderFinite
    <3> QED
      BY <3>1, <3>3
  <2> QED
    BY <2>1
<1> HIDE DEF f, g, l, n
<1>4. SumFunctionOnSet(f, Keys) = SumFunctionOnSet(g, Keys)
  BY <1>3, PagesAssumption, SumsAgree
<1>5. SumFunctionOnSet(g, Keys) = At - From
  BY <1>1, <1>2, UnderShares DEF g
<1> QED
  BY <1>4, <1>5 DEF Counted, f

(***************************************************************************)
(* What a page adds.                                                       *)
(***************************************************************************)
\* A server that pages as documented: what it answers.
LEMMA OrderlyAnswer ==
  ASSUME server.orderly, NEW a \in Answers
  PROVE  /\ a.items = (At + 1)..Upto(token)
         /\ a.nulls \subseteq Missing(a.items)
         /\ a.next = IF Upto(token) < Len(server.listing) THEN Upto(token) ELSE None
BY DEF Answers, Items, At

\* The lists are what is listed up to the end of the page, nulls or not.
LEMMA ListsAdd ==
  ASSUME InputsSound, ResultTyped, Advancing, Holding, ~Satisfied, route.payload = "lists",
         NEW nulls, nulls \subseteq Missing((At + 1)..Upto(token)), NEW k \in Keys
  PROVE  (IF k \notin nulls THEN Extended(k, (At + 1)..Upto(token)) ELSE lists[k])
           = Ascending(Under(server.listing, k, (From + 1)..Upto(token)))
<1> DEFINE l == server.listing
           n == Len(server.listing)
           page == (At + 1)..Upto(token)
<1>1. n \in Nat /\ l \in [1..n -> Keys] /\ From \in Nat /\ At \in Nat /\ Upto(token) \in Nat
  BY InputsMean, UptoBounds DEF InputsSound
<1>2. From <= At /\ (From = At \/ At <= Upto(token))
  BY UptoBounds DEF Advancing
<1>3. lists[k] = Ascending(Under(l, k, (From + 1)..At)) /\ lists[k] \in Seq(1..Longest)
  BY DEF Holding, HoldingTo, ResultTyped
<1>4. ItemsOf(k, page) = Ascending(Under(l, k, page))
  BY ItemsAreUnder
<1>5. k \in nulls => ItemsOf(k, page) = <<>>
  BY DEF Missing
<1> HIDE DEF l, n
<1>6. Ascending(Under(l, k, (From + 1)..Upto(token))) = lists[k] \o ItemsOf(k, page)
  <2> DEFINE u == Under(l, k, (From + 1)..At)
             v == Under(l, k, page)
  <2>1. Under(l, k, (From + 1)..Upto(token)) = u \cup v
    <3>1. \A i \in Int : i \in (From + 1)..Upto(token) <=> i \in (From + 1)..At \/ i \in page
      BY <1>1, <1>2
    <3> QED
      BY <1>1, <3>1 DEF Under
  <2>2. \A x \in u, y \in v : x < y
    BY <1>1 DEF Under
  <2>3. u \in SUBSET Nat /\ IsFiniteSet(u) /\ v \in SUBSET Nat /\ IsFiniteSet(v)
    BY <1>1, UnderFinite
  <2> HIDE DEF u, v
  <2>4. Ascending(u \cup v) = Ascending(u) \o Ascending(v)
    BY <2>2, <2>3, AscendingJoins
  <2> QED
    BY <1>3, <1>4, <2>1, <2>4 DEF u, v
<1> HIDE DEF page
<1>7. k \in nulls => lists[k] \o ItemsOf(k, page) = lists[k]
  BY <1>3, <1>5
<1> QED
  BY <1>6, <1>7 DEF Extended, page, l

\* A single value is one that is listed up to the end of the page.
LEMMA ValuesAdd ==
  ASSUME InputsSound, ResultTyped, Advancing, Holding, ~Satisfied, route.payload = "values",
         NEW nulls, nulls \subseteq Missing((At + 1)..Upto(token)), NEW k \in Keys, NEW held,
         held = IF k \in nulls THEN Null
                ELSE IF ItemsOf(k, (At + 1)..Upto(token)) # <<>>
                THEN ItemsOf(k, (At + 1)..Upto(token))[1] ELSE merged[k]
  PROVE  IF Under(server.listing, k, 1..Upto(token)) = {} THEN held \in {None, Null}
         ELSE held \in Under(server.listing, k, 1..Upto(token))
<1> DEFINE l == server.listing
           n == Len(server.listing)
           page == (At + 1)..Upto(token)
<1>1. /\ n \in Nat /\ l \in [1..n -> Keys] /\ At \in Nat /\ Upto(token) \in Nat
      /\ Upto(token) <= n /\ (At <= n => At <= Upto(token))
  BY InputsMean, UptoBounds DEF InputsSound
<1>2. At <= n
  BY <1>1, InputsMean DEF Advancing, From, Skipped
<1>3. IF Under(l, k, 1..At) = {} THEN merged[k] \in {None, Null}
      ELSE merged[k] \in Under(l, k, 1..At)
  BY DEF Holding, HoldingTo
<1>4. ItemsOf(k, page) = Ascending(Under(l, k, page))
  BY ItemsAreUnder
<1>5. k \in nulls => Under(l, k, DOMAIN l) = {}
  <2>1. k \in nulls => ItemsOf(k, DOMAIN server.listing) = <<>>
    BY DEF Missing
  <2>2. ItemsOf(k, DOMAIN l) = Ascending(Under(l, k, DOMAIN l))
    BY ItemsAreUnder
  <2> HIDE DEF n
  <2> QED
    BY <1>1, <2>1, <2>2, UnderEmpty
<1>6. Under(l, k, 1..Upto(token)) = Under(l, k, 1..At) \cup Under(l, k, page)
  <2>1. \A i \in Int : i \in 1..Upto(token) <=> i \in 1..At \/ i \in page
    BY <1>1, <1>2
  <2> HIDE DEF page
  <2>2. DOMAIN l \subseteq Int
    BY <1>1
  <2> QED
    BY <2>1, <2>2 DEF Under
<1>7. Under(l, k, 1..Upto(token)) \subseteq Under(l, k, DOMAIN l)
  BY DEF Under
<1> HIDE DEF l, n, page
<1>8. CASE k \in nulls
  <2>1. held = Null /\ Under(l, k, 1..Upto(token)) = {}
    BY <1>5, <1>7, <1>8
  <2> QED
    BY <2>1 DEF l
<1>9. CASE k \notin nulls /\ Under(l, k, page) # {}
  <2>1. ItemsOf(k, page) # <<>> /\ ItemsOf(k, page)[1] \in Under(l, k, page)
    BY <1>1, <1>4, <1>9, UnderEmpty
  <2>2. held = ItemsOf(k, page)[1]
    BY <1>9, <2>1 DEF page
  <2> QED
    BY <1>6, <2>1, <2>2 DEF l
<1>10. CASE k \notin nulls /\ Under(l, k, page) = {}
  <2>1. ItemsOf(k, page) = <<>>
    BY <1>4, <1>10, AscendingOfNone
  <2>2. held = merged[k]
    BY <1>10, <2>1 DEF page
  <2>3. Under(l, k, 1..Upto(token)) = Under(l, k, 1..At)
    BY <1>6, <1>10
  <2> QED
    BY <1>3, <2>2, <2>3 DEF l
<1> QED
  BY <1>8, <1>9, <1>10

\* So the lists and the values are what is listed up to the end of the page.
LEMMA PageAdds ==
  ASSUME InputsSound, ResultTyped, Advancing, Holding, ~Satisfied, server.orderly,
         NEW a \in Answers,
         lists' = [k \in Keys |-> IF route.payload = "lists" /\ k \notin a.nulls
                                  THEN Extended(k, a.items) ELSE lists[k]],
         merged' = [k \in Keys |-> IF k \in a.nulls THEN Null
                                   ELSE IF route.payload = "values" /\ ItemsOf(k, a.items) # <<>>
                                   THEN ItemsOf(k, a.items)[1] ELSE merged[k]]
  PROVE  \A k \in Keys :
           IF route.payload = "lists"
           THEN /\ lists'[k] = Ascending(Under(server.listing, k, (From + 1)..Upto(token)))
                /\ merged'[k] \in {None, Null}
           ELSE /\ lists'[k] = <<>>
                /\ IF Under(server.listing, k, 1..Upto(token)) = {} THEN merged'[k] \in {None, Null}
                   ELSE merged'[k] \in Under(server.listing, k, 1..Upto(token))
<1> SUFFICES ASSUME NEW k \in Keys
             PROVE  IF route.payload = "lists"
                    THEN /\ lists'[k] = Ascending(Under(server.listing, k, (From + 1)..Upto(token)))
                         /\ merged'[k] \in {None, Null}
                    ELSE /\ lists'[k] = <<>>
                         /\ IF Under(server.listing, k, 1..Upto(token)) = {}
                            THEN merged'[k] \in {None, Null}
                            ELSE merged'[k] \in Under(server.listing, k, 1..Upto(token))
  OBVIOUS
<1> DEFINE page == (At + 1)..Upto(token)
<1>1. a.items = page /\ a.nulls \subseteq Missing(page)
  BY OrderlyAnswer
<1>2. route.payload \in {"lists", "values"}
  BY InputsMean
<1>3. CASE route.payload = "lists"
  <2>1. lists'[k] = IF k \notin a.nulls THEN Extended(k, page) ELSE lists[k]
    BY <1>1, <1>3
  <2>2. lists'[k] = Ascending(Under(server.listing, k, (From + 1)..Upto(token)))
    BY <1>1, <1>3, <2>1, ListsAdd
  <2>3. merged'[k] = IF k \in a.nulls THEN Null ELSE merged[k]
    BY <1>3
  <2>4. merged[k] \in {None, Null}
    BY <1>3 DEF Holding, HoldingTo
  <2> QED
    BY <1>3, <2>2, <2>3, <2>4
<1>4. CASE route.payload = "values"
  <2>1. lists'[k] = <<>>
    BY <1>4 DEF Holding, HoldingTo
  <2>2. merged'[k] = IF k \in a.nulls THEN Null
                     ELSE IF ItemsOf(k, page) # <<>> THEN ItemsOf(k, page)[1] ELSE merged[k]
    BY <1>1, <1>4
  <2>3. IF Under(server.listing, k, 1..Upto(token)) = {} THEN merged'[k] \in {None, Null}
        ELSE merged'[k] \in Under(server.listing, k, 1..Upto(token))
    BY <1>1, <1>4, <2>2, ValuesAdd
  <2> QED
    BY <1>4, <2>1, <2>3
<1> QED
  BY <1>2, <1>3, <1>4

LEMMA FetchFaithful ==
  ASSUME InputsSound, ResultTyped, Faithful, Fetch
  PROVE  Faithful' /\ Ended'
<1>1. UNCHANGED given /\ phase = "asking" /\ ~Satisfied
  BY DEF Fetch
<1>2. server' = server /\ route' = route /\ From' = From /\ UserLimit' = UserLimit /\ To' = To
  BY <1>1 DEF given, From, Skipped, UserLimit, To
<1>3. CASE ~server.orderly
  BY <1>2, <1>3 DEF Faithful, Ended
<1>4. CASE server.orderly
  <2>1. Advancing /\ Holding
    BY <1>1, <1>4 DEF Faithful
  <2>2. PICK a \in Answers :
          /\ lists' = [k \in Keys |-> IF route.payload = "lists" /\ k \notin a.nulls
                                      THEN Extended(k, a.items) ELSE lists[k]]
          /\ merged' = [k \in Keys |-> IF k \in a.nulls THEN Null
                                       ELSE IF route.payload = "values" /\ ItemsOf(k, a.items) # <<>>
                                       THEN ItemsOf(k, a.items)[1] ELSE merged[k]]
          /\ IF a.next = None \/ Repeated(a.next)
             THEN phase' = "done" /\ UNCHANGED <<token, seen>>
             ELSE phase' = phase /\ token' = a.next /\ seen' = seen \cup {a.next}
    BY DEF Fetch
  <2>3. \A k \in Keys :
          IF route.payload = "lists"
          THEN /\ lists'[k] = Ascending(Under(server.listing, k, (From + 1)..Upto(token)))
               /\ merged'[k] \in {None, Null}
          ELSE /\ lists'[k] = <<>>
               /\ IF Under(server.listing, k, 1..Upto(token)) = {} THEN merged'[k] \in {None, Null}
                  ELSE merged'[k] \in Under(server.listing, k, 1..Upto(token))
    BY <1>1, <1>4, <2>1, <2>2, PageAdds
  <2> DEFINE end == Len(server.listing)
  <2>4. /\ At \in Nat /\ Upto(token) \in Nat /\ Upto(token) <= end /\ end \in Nat
        /\ Upto(token) < end => Upto(token) > At
    BY <1>1, UptoBounds, InputsMean
  <2>5. a.next = IF Upto(token) < end THEN Upto(token) ELSE None
    BY <1>4, OrderlyAnswer
  <2>6. UserLimit # None => UserLimit \in Nat /\ Upto(token) <= From + UserLimit
    <3> SUFFICES ASSUME UserLimit # None
                 PROVE  UserLimit \in Nat /\ Upto(token) <= From + UserLimit
      OBVIOUS
    <3>1. route.payload = "lists" /\ route.sized /\ UserLimit \in Nat /\ From \in Nat
      BY InputsMean
    <3>2. Counted = At - From
      BY <2>1, <3>1, CountedSoFar
    <3>3. AskedFor \in 1..PageLimit /\ AskedFor <= UserLimit - Counted
      BY <1>1, <3>1, AskedForFits
    <3>4. Upto(token) <= At + AskedFor
      BY <1>1, <3>1, UptoBounds
    <3>5. AskedFor \in Int
      BY <3>3, PagesAssumption
    <3> QED
      BY <2>4, <3>1, <3>2, <3>3, <3>4, <3>5
  <2>7. From \in Nat /\ From <= At /\ seen \subseteq 0..At
    BY <2>1, InputsMean DEF Advancing
  <2>8. CASE Upto(token) < end
    <3>1. a.next = Upto(token) /\ a.next # None /\ ~Repeated(a.next)
      <4>1. a.next = Upto(token) /\ None \notin Nat
        BY <2>5, <2>8, PagesAssumption
      <4> QED
        BY <2>4, <2>7, <2>8, <4>1 DEF Repeated
    <3>2. phase' = "asking" /\ token' = Upto(token) /\ seen' = seen \cup {Upto(token)}
      BY <1>1, <2>2, <3>1
    <3>3. At' = Upto(token)
      <4>1. Upto(token) # None
        BY <2>4, PagesAssumption
      <4> QED
        BY <3>2, <4>1 DEF At, Skipped
    <3>4. seen' \subseteq 0..Upto(token) /\ From <= Upto(token)
      <4>1. \A x \in 0..At : x \in 0..Upto(token)
        BY <2>4, <2>8
      <4>2. Upto(token) \in 0..Upto(token) /\ From <= Upto(token)
        BY <2>4, <2>7, <2>8
      <4> QED
        BY <2>7, <3>2, <4>1, <4>2
    <3>5. Advancing'
      <4>1. /\ From' <= At' /\ At' <= Len(server'.listing) /\ seen' \subseteq 0..At'
            /\ UserLimit' # None => At' <= From' + UserLimit'
        <5>1. From' <= At' /\ seen' \subseteq 0..At'
          BY <1>2, <3>3, <3>4
        <5>2. At' <= Len(server'.listing)
          BY <1>2, <2>4, <3>3
        <5>3. UserLimit' # None => At' <= From' + UserLimit'
          BY <1>2, <2>6, <3>3
        <5> QED
          BY <5>1, <5>2, <5>3
      <4> QED
        BY <4>1 DEF Advancing
    <3>6. Holding'
      BY <1>2, <2>3, <3>3 DEF Holding, HoldingTo
    <3> QED
      BY <3>2, <3>5, <3>6 DEF Faithful, Ended
  <2>9. CASE Upto(token) = end
    <3>1. phase' = "done"
      BY <2>2, <2>5, <2>9
    <3>2. To = Upto(token)
      <4>1. UserLimit = None => To = Upto(token)
        BY <2>9 DEF To
      <4>2. UserLimit # None => To = Upto(token)
        BY <2>4, <2>6, <2>7, <2>9 DEF To, Least
      <4> QED
        BY <4>1, <4>2
    <3>3. HoldingTo(To)'
      BY <1>2, <2>3, <3>2 DEF HoldingTo
    <3> QED
      BY <3>1, <3>3 DEF Faithful, Ended
  <2> QED
    BY <2>4, <2>8, <2>9
<1> QED
  BY <1>3, <1>4

\* The limit is reached just where it is.
LEMMA LimitReached ==
  ASSUME InputsSound, ResultTyped, Faithful, server.orderly, phase = "asking", Satisfied
  PROVE  HoldingTo(To)
<1> DEFINE end == Len(server.listing)
<1>1. Advancing /\ Holding /\ UserLimit # None /\ UserLimit <= Counted
  BY DEF Faithful, Satisfied
<1>2. route.payload = "lists" /\ UserLimit \in Nat /\ From \in Nat /\ end \in Nat
  BY <1>1, InputsMean
<1>3. Counted = At - From
  BY <1>1, <1>2, CountedSoFar
<1>4. At \in Nat
  BY DEF ResultTyped, Tokens, At, Skipped
<1>5. At = From + UserLimit /\ (At = From \/ At <= end)
  BY <1>1, <1>2, <1>3, <1>4 DEF Advancing
<1>6. To = IF At <= end THEN At ELSE end
  BY <1>1, <1>2, <1>4, <1>5 DEF To, Least
<1>7. (From + 1)..To = (From + 1)..At
  BY <1>2, <1>4, <1>5, <1>6
<1> QED
  BY <1>1, <1>2, <1>7 DEF Holding, HoldingTo

LEMMA NextFaithful ==
  InputsSound /\ ResultTyped /\ Faithful /\ Ended /\ [Next]_vars => Faithful' /\ Ended'
<1> SUFFICES ASSUME InputsSound, ResultTyped, Faithful, Ended, [Next]_vars
             PROVE  Faithful' /\ Ended'
  OBVIOUS
<1>1. CASE Fetch
  BY <1>1, FetchFaithful
<1>2. CASE RefuseBlank \/ FetchFails
  BY <1>2 DEF RefuseBlank, FetchFails, Stop, given, Faithful, Ended
<1>3. CASE Begin
  <2>1. /\ phase = "checking" /\ phase' = "asking"
        /\ UNCHANGED <<given, token, seen, lists, merged, asked>>
    BY <1>3 DEF Begin, Stop
  <2>2. server' = server /\ (Advancing => Advancing') /\ (Holding => Holding')
    BY <2>1 DEF given, Advancing, Holding, HoldingTo, From, At, Skipped, UserLimit
  <2> QED
    BY <2>1, <2>2 DEF Faithful, Ended
<1>4. CASE ReachLimit
  <2>1. /\ phase = "asking" /\ Satisfied /\ phase' = "done"
        /\ UNCHANGED <<given, token, seen, lists, merged, asked>>
    BY <1>4 DEF ReachLimit, Stop
  <2>2. server.orderly => HoldingTo(To)
    BY <2>1, LimitReached
  <2>3. server' = server /\ (HoldingTo(To) => HoldingTo(To)')
    BY <2>1 DEF given, HoldingTo, From, To, Skipped, UserLimit
  <2> QED
    BY <2>1, <2>2, <2>3 DEF Faithful, Ended
<1>5. CASE UNCHANGED vars
  <2>1. /\ server' = server /\ phase' = phase
        /\ (Advancing => Advancing') /\ (Holding => Holding') /\ (HoldingTo(To) => HoldingTo(To)')
    BY <1>5 DEF vars, given, Advancing, Holding, HoldingTo, From, At, To, Skipped, UserLimit
  <2> QED
    BY <2>1 DEF Faithful, Ended
<1> QED
  BY <1>1, <1>2, <1>3, <1>4, <1>5 DEF Next

\* What is held at the end is what the caller is given.
LEMMA ResultIsAsked == InputsSound /\ Ended => ExactlyWhatWasAsked
<1> SUFFICES ASSUME InputsSound, Ended, phase = "done", server.orderly, NEW k \in Keys
             PROVE  Result(k) = ItemsOf(k, (From + 1)..To)
  BY DEF ExactlyWhatWasAsked, From, To
<1> DEFINE l == server.listing
           u == Under(l, k, (From + 1)..To)
<1>1. HoldingTo(To)
  BY DEF Ended
<1>2. ItemsOf(k, (From + 1)..To) = Ascending(u)
  BY ItemsAreUnder
<1>3. CASE route.payload = "lists"
  <2>1. lists[k] = Ascending(u) /\ merged[k] \in {None, Null}
    BY <1>1, <1>3 DEF HoldingTo
  <2> QED
    BY <1>2, <2>1 DEF Result
<1>4. CASE route.payload = "values"
  <2>1. From = 0
    BY <1>4, InputsMean DEF From, Skipped
  <2>2. u = Under(l, k, 1..To)
    BY <2>1
  <2>3. lists[k] = <<>> /\ (u = {} => merged[k] \in {None, Null}) /\ (u # {} => merged[k] \in u)
    BY <1>1, <1>4, <2>2 DEF HoldingTo
  <2>4. CASE u = {}
    BY <1>2, <2>3, <2>4, AscendingOfNone DEF Result
  <2>5. CASE u # {}
    <3>1. merged[k] \in u /\ merged[k] \in Nat
      BY <2>3, <2>5 DEF InputsSound, Under
    <3>2. \A i \in u : i = merged[k]
      <4>1. \A i, j \in DOMAIN l : l[i] = l[j] => i = j
        BY <1>4 DEF InputsSound, IsInjective
      <4> QED
        BY <3>1, <4>1 DEF Under
    <3> HIDE DEF u
    <3>3. u = {merged[k]}
      BY <3>1, <3>2
    <3>4. Result(k) = <<merged[k]>>
      BY <2>3, <3>1, PagesAssumption DEF Result
    <3> QED
      BY <1>2, <3>1, <3>3, <3>4, AscendingOfOne
  <2> QED
    BY <2>4, <2>5
<1> QED
  BY <1>3, <1>4, InputsMean

(***************************************************************************)
(* The theorems.                                                           *)
(***************************************************************************)
IInv == InputsSound /\ ResultTyped /\ Faithful /\ Ended

LEMMA PagesInvariant == Spec => []IInv
<1>1. Init => IInv
  <2>1. Init => Ended
    BY DEF Init, Ended
  <2> QED
    BY <2>1, InitSound, InitFaithful DEF IInv
<1>2. IInv /\ [Next]_vars => IInv'
  BY NextInputs, NextTyped, NextFaithful DEF IInv
<1> QED
  BY <1>1, <1>2, PTL DEF Spec

\* get_marketdata: the state is of its types, and the limit sent is between one
\* and a page, however much the server has sent.
THEOREM PagesAreTyped == Spec => []TypeOK
<1>1. IInv => TypeOK
  BY TypedStates DEF IInv
<1> QED
  BY <1>1, PagesInvariant, PTL

\* get_marketdata: from a server that pages as documented, exactly the items
\* from the caller's token on and up to the limit over all keys, in order for
\* each, whatever the page size, the listing and the nulls on the way.
THEOREM PagesAddUp == Spec => []ExactlyWhatWasAsked
<1>1. IInv => ExactlyWhatWasAsked
  BY ResultIsAsked DEF IInv
<1> QED
  BY <1>1, PagesInvariant, PTL
=============================================================================
