------------------------------ MODULE DataLemmas ------------------------------
(***************************************************************************)
(* What the recursive definitions of the models compute, for every input:  *)
(* the backoff curve is the capped doubling its documentation describes.   *)
(* Induction is over least counterexamples, since every non-empty set of   *)
(* naturals has a least element.                                           *)
(***************************************************************************)
EXTENDS Backoff, Integers, Sequences, FiniteSetTheorems, Functions, TLAPS

LEMMA LeastNumber ==
  ASSUME NEW T \in SUBSET Nat, T # {}
  PROVE  \E n \in T : \A m \in T : n <= m
<1>1. PICK x \in T : \A y \in T : ~(<<y, x>> \in OpToRel(<, Nat))
  BY NatLessThanWellFounded, WFMin
<1>2. \A m \in T : ~(m < x)
  BY <1>1 DEF OpToRel
<1> QED
  BY <1>2

(***************************************************************************)
(* The backoff curve.                                                      *)
(***************************************************************************)
\* A power of two counts the subsets, and one more element doubles them.
LEMMA PowersDouble ==
  ASSUME NEW k \in Nat
  PROVE  2 ^ k \in Nat /\ 2 ^ k >= 1 /\ 2 ^ (k + 1) = 2 * 2 ^ k
<1> DEFINE A == SUBSET (1..k)
           T == SUBSET (1..(k + 1))
           f == [U \in A |-> U \cup {k + 1}]
<1>1. /\ IsFiniteSet(1..k) /\ Cardinality(1..k) = k
      /\ IsFiniteSet(1..(k + 1)) /\ Cardinality(1..(k + 1)) = k + 1
  BY FS_Interval
<1>2. IsFiniteSet(A) /\ Cardinality(A) = 2 ^ k
  BY <1>1, FS_SUBSET
<1>3. IsFiniteSet(T) /\ Cardinality(T) = 2 ^ (k + 1)
  BY <1>1, FS_SUBSET
<1>4. f \in Bijection(A, T \ A)
  <2>1. k + 1 \notin 1..k /\ 1..(k + 1) = (1..k) \cup {k + 1}
    OBVIOUS
  <2>2. f \in [A -> T \ A]
    BY <2>1
  <2>3. ASSUME NEW U \in A, NEW V \in A, f[U] = f[V] PROVE U = V
    <3>1. U = (U \cup {k + 1}) \ {k + 1} /\ V = (V \cup {k + 1}) \ {k + 1}
      BY <2>1
    <3> QED
      BY <2>3, <3>1
  <2>4. ASSUME NEW W \in T \ A PROVE \E U \in A : f[U] = W
    <3>1. k + 1 \in W
      BY <2>1
    <3>2. W \ {k + 1} \in A /\ W = (W \ {k + 1}) \cup {k + 1}
      BY <2>1, <3>1
    <3> QED
      BY <3>2
  <2> QED
    BY <2>2, <2>3, <2>4 DEF Bijection, Injection, Surjection, IsInjective
<1>5. T \cap A = A
  OBVIOUS
<1> HIDE DEF A, T, f
<1>6. Cardinality(T \ A) = Cardinality(A)
  BY <1>2, <1>4, FS_Bijection DEF ExistsBijection
<1>7. Cardinality(T \ A) = Cardinality(T) - Cardinality(A)
  BY <1>3, <1>5, FS_Difference
<1>8. Cardinality(A) \in Nat /\ Cardinality(T) \in Nat
  BY <1>2, <1>3, FS_CardinalityType
<1>9. Cardinality(A) # 0
  <2>1. {} \in A
    BY DEF A
  <2> QED
    BY <1>2, <2>1, FS_EmptySet
<1> QED
  BY <1>2, <1>3, <1>6, <1>7, <1>8, <1>9

\* What the doubling loop has grown to after k passes, uncut.
Grown(n, min, max) ==
  CHOOSE grown : grown = [k \in 0..n |-> IF k <= 1 THEN min ELSE Double(grown[k - 1], max)]

\* What it comes to: the first delay as it is, then the capped power of two.
Doubled(k, min, max) == IF k <= 1 THEN min ELSE Least(min * 2 ^ (k - 1), max)

LEMMA DoublingStep ==
  ASSUME NEW min \in Nat, NEW max \in Nat, NEW k \in Nat, k > 1
  PROVE  Double(Doubled(k - 1, min, max), max) = Doubled(k, min, max)
<1>1. CASE k = 2
  <2>1. 2 ^ 1 = 2
    BY PowersDouble
  <2> QED
    BY <1>1, <2>1 DEF Double, Doubled, Least
<1>2. CASE k > 2
  <2> DEFINE p == 2 ^ (k - 2)
             d == min * p
  <2>1. p \in Nat /\ 2 ^ (k - 1) = 2 * p
    <3>1. k - 2 \in Nat /\ (k - 2) + 1 = k - 1
      BY <1>2
    <3> QED
      BY <3>1, PowersDouble
  <2>2. d \in Nat /\ min * 2 ^ (k - 1) = 2 * d
    <3> HIDE DEF p
    <3> QED
      BY <2>1
  <2>3. Doubled(k - 1, min, max) = Least(d, max) /\ Doubled(k, min, max) = Least(2 * d, max)
    BY <1>2, <2>2 DEF Doubled
  <2> HIDE DEF d
  <2> QED
    BY <2>2, <2>3 DEF Double, Least
<1> QED
  BY <1>1, <1>2

LEMMA GrownIsDoubled ==
  ASSUME NEW n \in Nat, NEW min \in Nat, NEW max \in Nat
  PROVE  \A k \in 0..n : Grown(n, min, max)[k] = Doubled(k, min, max)
<1> DEFINE g == Grown(n, min, max)
           w == [k \in 0..n |-> Doubled(k, min, max)]
<1>1. w = [k \in 0..n |-> IF k <= 1 THEN min ELSE Double(w[k - 1], max)]
  <2>1. \A k \in 0..n : w[k] = IF k <= 1 THEN min ELSE Double(w[k - 1], max)
    BY DoublingStep DEF Doubled
  <2> QED
    BY <2>1
<1>2. g = [k \in 0..n |-> IF k <= 1 THEN min ELSE Double(g[k - 1], max)]
  BY <1>1 DEF Grown
<1> HIDE DEF g, w
<1>3. \A k \in 0..n : g[k] = IF k <= 1 THEN min ELSE Double(g[k - 1], max)
  BY <1>2
<1> DEFINE wrong == {k \in 0..n : g[k] # Doubled(k, min, max)}
<1>4. wrong = {}
  <2> SUFFICES ASSUME wrong # {} PROVE FALSE
    OBVIOUS
  <2>1. PICK k \in wrong : \A m \in wrong : k <= m
    <3>1. wrong \in SUBSET Nat
      OBVIOUS
    <3> HIDE DEF wrong
    <3> QED
      BY <3>1, LeastNumber
  <2>2. k > 1
    BY <1>3 DEF Doubled
  <2>3. k - 1 \in 0..n /\ g[k - 1] = Doubled(k - 1, min, max)
    BY <2>1, <2>2
  <2>4. g[k] = Doubled(k, min, max)
    BY <1>3, <2>2, <2>3, DoublingStep
  <2> QED
    BY <2>4
<1> QED
  BY <1>4 DEF g

\* capped_delay is the capped doubling, at every failure and for every window,
\* the ones no builder lets through included.
THEOREM CappedDoubling ==
  ASSUME NEW n \in Nat \ {0}, NEW min \in Nat, NEW max \in Nat
  PROVE  CappedDelay(n, min, max) = Least(min * 2 ^ (n - 1), max)
<1>1. CappedDelay(n, min, max) = Least(Grown(n, min, max)[n], max)
  BY DEF CappedDelay, Grown
<1>2. CappedDelay(n, min, max) = Least(Doubled(n, min, max), max)
  BY <1>1, GrownIsDoubled
<1>3. n = 1 => min * 2 ^ (n - 1) = min
  OBVIOUS
<1> QED
  BY <1>2, <1>3 DEF Doubled, Least

(***************************************************************************)
(* Sums.  A sum of naturals counts the cells of a bar chart, which turns   *)
(* every fact about sums into one about finite sets.                       *)
(***************************************************************************)
Cells(f, S) == UNION {{s} \X (1..f[s]) : s \in S}

\* One bar of the chart.
LEMMA BarOf ==
  ASSUME NEW x, NEW n \in Nat
  PROVE  /\ IsFiniteSet({x} \X (1..n))
         /\ Cardinality({x} \X (1..n)) = n
<1>1. IsFiniteSet({x}) /\ Cardinality({x}) = 1
  BY FS_Singleton
<1>2. IsFiniteSet(1..n) /\ Cardinality(1..n) = n
  BY FS_Interval
<1>3. /\ IsFiniteSet({x} \X (1..n))
      /\ Cardinality({x} \X (1..n)) = Cardinality({x}) * Cardinality(1..n)
  BY <1>1, <1>2, FS_Product
<1> QED
  BY <1>1, <1>2, <1>3

LEMMA CellsFinite ==
  ASSUME NEW f, NEW S, IsFiniteSet(S), \A s \in S : f[s] \in Nat
  PROVE  IsFiniteSet(Cells(f, S))
<1> DEFINE bar == [s \in S |-> {s} \X (1..f[s])]
           bars == {{s} \X (1..f[s]) : s \in S}
<1>1. bar \in Surjection(S, bars)
  BY DEF Surjection
<1>2. IsFiniteSet(bars)
  BY <1>1, FS_Surjection
<1>3. ASSUME NEW T \in bars PROVE IsFiniteSet(T)
  <2>1. PICK x \in S : T = {x} \X (1..f[x])
    OBVIOUS
  <2> QED
    BY <2>1, BarOf
<1> QED
  BY <1>2, <1>3, FS_UNION DEF Cells

LEMMA CellsSplit ==
  ASSUME NEW f, NEW S, IsFiniteSet(S), \A s \in S : f[s] \in Nat, NEW x \in S
  PROVE  /\ Cardinality(Cells(f, S)) = f[x] + Cardinality(Cells(f, S \ {x}))
         /\ Cardinality(Cells(f, S \ {x})) \in Nat
<1> DEFINE bar == {x} \X (1..f[x])
           rest == Cells(f, S \ {x})
<1>1. Cells(f, S) = rest \cup bar
  BY DEF Cells
<1>2. rest \cap bar = {}
  BY DEF Cells
<1>3. IsFiniteSet(rest)
  <2>1. IsFiniteSet(S \ {x})
    BY FS_RemoveElement
  <2> QED
    BY <2>1, CellsFinite
<1>4. IsFiniteSet(bar) /\ Cardinality(bar) = f[x]
  BY BarOf
<1> HIDE DEF bar, rest
<1>5. Cardinality(rest \cup bar) = Cardinality(rest) + Cardinality(bar) - Cardinality(rest \cap bar)
  BY <1>3, <1>4, FS_Union
<1>6. Cardinality(rest \cap bar) = 0
  BY <1>2, FS_EmptySet
<1>7. Cardinality(rest) \in Nat
  BY <1>3, FS_CardinalityType
<1> QED
  BY <1>1, <1>4, <1>5, <1>6, <1>7 DEF rest

\* A minimal member of a set of subsets of a finite set.
LEMMA SmallestSubset ==
  ASSUME NEW S, IsFiniteSet(S), NEW T \in SUBSET SUBSET S, T # {}
  PROVE  \E x \in T : \A y \in T : ~(y \subseteq x /\ y # x)
<1>1. T \subseteq FiniteSubsetsOf(S)
  BY FS_FiniteSubsetsOfFinite
<1>2. PICK x \in T : \A y \in T : ~(<<y, x>> \in StrictSubsetOrdering(S))
  BY <1>1, FS_StrictSubsetOrderingWellFounded, WFMin
<1> QED
  BY <1>2 DEF StrictSubsetOrdering

\* The library's definition of a sum over S, with its recursive function named.
Pick(s) == CHOOSE x \in s : TRUE

Summed(f, S) ==
  CHOOSE iter : iter = [s \in SUBSET S |-> IF s = {} THEN 0 ELSE f[Pick(s)] + iter[s \ {Pick(s)}]]

LEMMA SumUnfolds == ASSUME NEW f, NEW S PROVE SumFunctionOnSet(f, S) = Summed(f, S)[S]
BY Zenon DEF SumFunctionOnSet, FoldFunctionOnSet, MapThenFoldSet, Summed, Pick

\* The sum counts the cells, whichever order the library adds in.
LEMMA SumCounts ==
  ASSUME NEW f, NEW S, IsFiniteSet(S), \A s \in S : f[s] \in Nat
  PROVE  SumFunctionOnSet(f, S) = Cardinality(Cells(f, S))
<1> DEFINE count(s) == Cardinality(Cells(f, s))
           g == Summed(f, S)
           w == [s \in SUBSET S |-> count(s)]
<1>1. count({}) = 0
  <2>1. Cells(f, {}) = {}
    BY DEF Cells
  <2> QED
    BY <2>1, FS_EmptySet
<1>2. ASSUME NEW s \in SUBSET S, s # {}
      PROVE  Pick(s) \in s /\ count(s) = f[Pick(s)] + count(s \ {Pick(s)})
  <2>1. Pick(s) \in s
    BY <1>2 DEF Pick
  <2>2. IsFiniteSet(s)
    BY FS_Subset
  <2> QED
    BY <2>1, <2>2, CellsSplit
<1> HIDE DEF count
<1>3. w = [s \in SUBSET S |-> IF s = {} THEN 0 ELSE f[Pick(s)] + w[s \ {Pick(s)}]]
  <2>1. \A s \in SUBSET S : w[s] = IF s = {} THEN 0 ELSE f[Pick(s)] + w[s \ {Pick(s)}]
    BY <1>1, <1>2
  <2> QED
    BY <2>1
<1>4. g = [s \in SUBSET S |-> IF s = {} THEN 0 ELSE f[Pick(s)] + g[s \ {Pick(s)}]]
  BY <1>3 DEF Summed
<1> HIDE DEF g, w
<1>5. \A s \in SUBSET S : g[s] = IF s = {} THEN 0 ELSE f[Pick(s)] + g[s \ {Pick(s)}]
  BY <1>4
<1> DEFINE wrong == {s \in SUBSET S : g[s] # count(s)}
<1>6. wrong = {}
  <2> SUFFICES ASSUME wrong # {} PROVE FALSE
    OBVIOUS
  <2>1. PICK s \in wrong : \A y \in wrong : ~(y \subseteq s /\ y # s)
    <3>1. wrong \in SUBSET SUBSET S
      OBVIOUS
    <3> HIDE DEF wrong
    <3> QED
      BY <3>1, SmallestSubset
  <2>2. s # {}
    BY <1>1, <1>5
  <2>3. s \ {Pick(s)} \in SUBSET S /\ s \ {Pick(s)} # s
    BY <1>2, <2>2
  <2>4. g[s \ {Pick(s)}] = count(s \ {Pick(s)})
    BY <2>1, <2>3
  <2> QED
    BY <1>2, <1>5, <2>2, <2>4
<1>7. g[S] = count(S)
  BY <1>6
<1> QED
  BY <1>7, SumUnfolds DEF g, count

\* What the models use of it.
LEMMA SumOfNone == ASSUME NEW f PROVE SumFunctionOnSet(f, {}) = 0
<1>1. Cells(f, {}) = {}
  BY DEF Cells
<1>2. IsFiniteSet({}) /\ Cardinality({}) = 0
  BY FS_EmptySet
<1> QED
  BY <1>1, <1>2, SumCounts

LEMMA SumSplit ==
  ASSUME NEW f, NEW S, IsFiniteSet(S), \A s \in S : f[s] \in Nat, NEW x \in S
  PROVE  /\ SumFunctionOnSet(f, S) = f[x] + SumFunctionOnSet(f, S \ {x})
         /\ SumFunctionOnSet(f, S) \in Nat
         /\ SumFunctionOnSet(f, S \ {x}) \in Nat
<1>1. IsFiniteSet(S \ {x})
  BY FS_RemoveElement
<1>2. /\ SumFunctionOnSet(f, S) = Cardinality(Cells(f, S))
      /\ SumFunctionOnSet(f, S \ {x}) = Cardinality(Cells(f, S \ {x}))
  BY <1>1, SumCounts
<1>3. f[x] \in Nat
  OBVIOUS
<1> QED
  BY <1>2, <1>3, CellsSplit

LEMMA SumIsNat ==
  ASSUME NEW f, NEW S, IsFiniteSet(S), \A s \in S : f[s] \in Nat
  PROVE  SumFunctionOnSet(f, S) \in Nat
BY SumCounts, CellsFinite, FS_CardinalityType

LEMMA SumGrows ==
  ASSUME NEW f, NEW S, IsFiniteSet(S), \A s \in S : f[s] \in Nat, NEW T \in SUBSET S
  PROVE  SumFunctionOnSet(f, T) <= SumFunctionOnSet(f, S)
<1>1. IsFiniteSet(T)
  BY FS_Subset
<1>2. /\ SumFunctionOnSet(f, S) = Cardinality(Cells(f, S))
      /\ SumFunctionOnSet(f, T) = Cardinality(Cells(f, T))
  BY <1>1, SumCounts
<1>3. Cells(f, T) \in SUBSET Cells(f, S)
  BY DEF Cells
<1> QED
  BY <1>2, <1>3, CellsFinite, FS_Subset

LEMMA SumsAgree ==
  ASSUME NEW f, NEW g, NEW S, IsFiniteSet(S), \A s \in S : f[s] = g[s] /\ f[s] \in Nat
  PROVE  SumFunctionOnSet(f, S) = SumFunctionOnSet(g, S)
<1>1. Cells(f, S) = Cells(g, S)
  BY DEF Cells
<1> QED
  BY <1>1, SumCounts

(***************************************************************************)
(* Queues: what an arrival adds and a read takes.                          *)
(***************************************************************************)
\* The domain of a sequence of naturals, and of what is left of it.
LEMMA SequenceSums ==
  ASSUME NEW q \in Seq(Nat)
  PROVE  /\ IsFiniteSet(DOMAIN q) /\ \A i \in DOMAIN q : q[i] \in Nat
         /\ SumFunction(q) \in Nat
         /\ SumFunction(q) = Cardinality(Cells(q, DOMAIN q))
<1>1. DOMAIN q = 1..Len(q) /\ Len(q) \in Nat /\ \A i \in DOMAIN q : q[i] \in Nat
  OBVIOUS
<1>2. IsFiniteSet(DOMAIN q)
  BY <1>1, FS_Interval
<1> QED
  BY <1>1, <1>2, SumCounts, SumIsNat DEF SumFunction

LEMMA SumAppend ==
  ASSUME NEW q \in Seq(Nat), NEW n \in Nat
  PROVE  SumFunction(Append(q, n)) = SumFunction(q) + n
<1> DEFINE r == Append(q, n)
           k == Len(q) + 1
<1>1. /\ r \in Seq(Nat) /\ k \in DOMAIN r /\ r[k] = n
      /\ (DOMAIN r) \ {k} = DOMAIN q
      /\ \A i \in DOMAIN q : r[i] = q[i]
  <2>1. /\ r \in Seq(Nat) /\ DOMAIN r = 1..(Len(q) + 1) /\ r[k] = n
        /\ DOMAIN q = 1..Len(q) /\ Len(q) \in Nat
    OBVIOUS
  <2>2. (DOMAIN r) \ {k} = DOMAIN q /\ k \in DOMAIN r
    BY <2>1
  <2>3. \A i \in DOMAIN q : r[i] = q[i]
    OBVIOUS
  <2> QED
    BY <2>1, <2>2, <2>3
<1> HIDE DEF r, k
<1>2. /\ IsFiniteSet(DOMAIN r) /\ \A i \in DOMAIN r : r[i] \in Nat
      /\ IsFiniteSet(DOMAIN q) /\ \A i \in DOMAIN q : q[i] \in Nat
  BY <1>1, SequenceSums
<1>3. SumFunctionOnSet(r, DOMAIN r) = n + SumFunctionOnSet(r, DOMAIN q)
  BY <1>1, <1>2, SumSplit
<1>4. SumFunctionOnSet(r, DOMAIN q) = SumFunctionOnSet(q, DOMAIN q)
  BY <1>1, <1>2, SumsAgree
<1>5. SumFunctionOnSet(q, DOMAIN q) \in Nat
  BY <1>2, SumIsNat
<1> QED
  BY <1>3, <1>4, <1>5 DEF SumFunction, r

\* Reading the head moves every other item one place up.
LEMMA SumTail ==
  ASSUME NEW q \in Seq(Nat), q # <<>>
  PROVE  /\ SumFunction(q) = Head(q) + SumFunction(Tail(q))
         /\ SumFunction(Tail(q)) \in Nat
<1> DEFINE t == Tail(q)
           left == Cells(q, (DOMAIN q) \ {1})
           shift == [p \in Cells(t, DOMAIN t) |-> <<p[1] + 1, p[2]>>]
<1>1. /\ t \in Seq(Nat) /\ Head(q) = q[1] /\ 1 \in DOMAIN q
      /\ \A i \in DOMAIN t : i \in Int /\ i + 1 \in (DOMAIN q) \ {1} /\ t[i] = q[i + 1]
      /\ \A i \in (DOMAIN q) \ {1} : i \in Int /\ i - 1 \in DOMAIN t /\ t[i - 1] = q[i]
  OBVIOUS
<1> HIDE DEF t
<1>2. /\ IsFiniteSet(DOMAIN t) /\ \A i \in DOMAIN t : t[i] \in Nat
      /\ IsFiniteSet(DOMAIN q) /\ \A i \in DOMAIN q : q[i] \in Nat
  BY <1>1, SequenceSums
<1>3. \A p : p \in Cells(t, DOMAIN t) <=> \E i \in DOMAIN t : \E j \in 1..t[i] : p = <<i, j>>
  BY DEF Cells
<1>4. \A p : p \in left <=> \E i \in (DOMAIN q) \ {1} : \E j \in 1..q[i] : p = <<i, j>>
  BY DEF Cells
<1> HIDE DEF left
<1>5. shift \in Bijection(Cells(t, DOMAIN t), left)
  <2>1. ASSUME NEW p \in Cells(t, DOMAIN t) PROVE <<p[1] + 1, p[2]>> \in left
    <3>1. PICK i \in DOMAIN t : \E j \in 1..t[i] : p = <<i, j>>
      BY <1>3
    <3>2. PICK j \in 1..t[i] : p = <<i, j>>
      BY <3>1
    <3>3. i + 1 \in (DOMAIN q) \ {1} /\ j \in 1..q[i + 1] /\ <<p[1] + 1, p[2]>> = <<i + 1, j>>
      BY <1>1, <3>2
    <3> QED
      BY <1>4, <3>3
  <2>2. ASSUME NEW p \in Cells(t, DOMAIN t), NEW r \in Cells(t, DOMAIN t), shift[p] = shift[r]
        PROVE  p = r
    <3>1. PICK i \in DOMAIN t : \E j \in 1..t[i] : p = <<i, j>>
      BY <1>3
    <3>2. PICK k \in DOMAIN t : \E j \in 1..t[k] : r = <<k, j>>
      BY <1>3
    <3>3. i + 1 = k + 1 /\ p[2] = r[2]
      BY <2>2, <3>1, <3>2
    <3> QED
      BY <1>1, <3>1, <3>2, <3>3
  <2>3. ASSUME NEW r \in left PROVE \E p \in Cells(t, DOMAIN t) : shift[p] = r
    <3>1. PICK i \in (DOMAIN q) \ {1} : \E j \in 1..q[i] : r = <<i, j>>
      BY <1>4
    <3>2. PICK j \in 1..q[i] : r = <<i, j>>
      BY <3>1
    <3>3. i - 1 \in DOMAIN t /\ (i - 1) + 1 = i /\ j \in 1..t[i - 1]
      BY <1>1
    <3>4. <<i - 1, j>> \in Cells(t, DOMAIN t)
      BY <1>3, <3>3
    <3>5. shift[<<i - 1, j>>] = r
      BY <3>2, <3>3, <3>4
    <3> QED
      BY <3>4, <3>5
  <2>4. shift \in [Cells(t, DOMAIN t) -> left]
    BY <2>1
  <2> QED
    BY <2>2, <2>3, <2>4 DEF Bijection, Injection, Surjection, IsInjective
<1> HIDE DEF shift
<1>6. Cardinality(Cells(t, DOMAIN t)) = Cardinality(left)
  BY <1>2, <1>5, CellsFinite, FS_Bijection DEF ExistsBijection
<1>7. Cardinality(Cells(q, DOMAIN q)) = q[1] + Cardinality(left)
  <2>1. 1 \in DOMAIN q
    BY <1>1
  <2>2. Cardinality(Cells(q, DOMAIN q)) = q[1] + Cardinality(Cells(q, (DOMAIN q) \ {1}))
    BY <1>2, <2>1, CellsSplit
  <2> QED
    BY <2>2 DEF left
<1> QED
  BY <1>1, <1>6, <1>7, SequenceSums DEF t

\* The places of a queue that hold something of a kind.
Places(q, K) == {i \in DOMAIN q : q[i] \in K}

LEMMA PlacesFinite ==
  ASSUME NEW E, NEW K, NEW q \in Seq(E)
  PROVE  IsFiniteSet(Places(q, K)) /\ Cardinality(Places(q, K)) \in Nat
<1>1. DOMAIN q = 1..Len(q) /\ Len(q) \in Nat
  OBVIOUS
<1>2. IsFiniteSet(DOMAIN q)
  BY <1>1, FS_Interval
<1>3. Places(q, K) \in SUBSET DOMAIN q
  BY DEF Places
<1> QED
  BY <1>2, <1>3, FS_Subset, FS_CardinalityType

LEMMA PlacesOfNone == ASSUME NEW K PROVE Cardinality(Places(<<>>, K)) = 0
<1>1. Places(<<>>, K) = {}
  BY DEF Places
<1> QED
  BY <1>1, FS_EmptySet

LEMMA PlacesAppend ==
  ASSUME NEW E, NEW K, NEW q \in Seq(E), NEW e \in E
  PROVE  Cardinality(Places(Append(q, e), K))
           = Cardinality(Places(q, K)) + IF e \in K THEN 1 ELSE 0
<1>1. /\ DOMAIN Append(q, e) = (DOMAIN q) \cup {Len(q) + 1} /\ Len(q) + 1 \notin DOMAIN q
      /\ Append(q, e)[Len(q) + 1] = e
      /\ \A i \in DOMAIN q : Append(q, e)[i] = q[i]
  OBVIOUS
<1>2. IsFiniteSet(Places(q, K)) /\ Cardinality(Places(q, K)) \in Nat
  BY PlacesFinite
<1>3. CASE e \in K
  <2>1. Places(Append(q, e), K) = Places(q, K) \cup {Len(q) + 1} /\ Len(q) + 1 \notin Places(q, K)
    BY <1>1, <1>3 DEF Places
  <2> QED
    BY <1>2, <1>3, <2>1, FS_AddElement
<1>4. CASE e \notin K
  <2>1. Places(Append(q, e), K) = Places(q, K)
    BY <1>1, <1>4 DEF Places
  <2> QED
    BY <1>2, <1>4, <2>1
<1> QED
  BY <1>3, <1>4

LEMMA PlacesTail ==
  ASSUME NEW E, NEW K, NEW q \in Seq(E), q # <<>>
  PROVE  Cardinality(Places(q, K))
           = Cardinality(Places(Tail(q), K)) + IF Head(q) \in K THEN 1 ELSE 0
<1> DEFINE t == Tail(q)
           rest == Places(q, K) \ {1}
           shift == [i \in Places(t, K) |-> i + 1]
<1>1. /\ t \in Seq(E) /\ Head(q) = q[1] /\ 1 \in DOMAIN q
      /\ \A i \in DOMAIN t : i \in Nat \ {0} /\ i + 1 \in DOMAIN q /\ t[i] = q[i + 1]
      /\ \A i \in (DOMAIN q) \ {1} : i \in Nat /\ i - 1 \in DOMAIN t /\ t[i - 1] = q[i]
  OBVIOUS
<1> HIDE DEF t
<1>2. shift \in Bijection(Places(t, K), rest)
  <2>1. \A i \in Places(t, K) : i \in Nat /\ i + 1 \in rest
    BY <1>1 DEF Places
  <2>2. \A i \in rest : i \in Nat /\ i - 1 \in Places(t, K) /\ (i - 1) + 1 = i
    BY <1>1 DEF Places
  <2>3. shift \in [Places(t, K) -> rest]
    BY <2>1
  <2>4. \A i, j \in Places(t, K) : shift[i] = shift[j] => i = j
    BY <2>1
  <2>5. \A i \in rest : shift[i - 1] = i
    BY <2>2
  <2> HIDE DEF shift, rest
  <2> QED
    BY <2>2, <2>3, <2>4, <2>5 DEF Bijection, Injection, Surjection, IsInjective
<1>3. /\ IsFiniteSet(Places(t, K)) /\ IsFiniteSet(Places(q, K))
      /\ Cardinality(Places(t, K)) \in Nat /\ Cardinality(Places(q, K)) \in Nat
  BY <1>1, PlacesFinite
<1>4. Cardinality(rest) = Cardinality(Places(t, K))
  BY <1>2, <1>3, FS_Bijection DEF ExistsBijection
<1>5. 1 \in Places(q, K) <=> Head(q) \in K
  BY <1>1 DEF Places
<1>6. Cardinality(rest) = IF 1 \in Places(q, K) THEN Cardinality(Places(q, K)) - 1
                          ELSE Cardinality(Places(q, K))
  BY <1>3, FS_RemoveElement
<1> HIDE DEF rest
<1> QED
  BY <1>3, <1>4, <1>5, <1>6 DEF t
===============================================================================
