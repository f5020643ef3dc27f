----------------------- MODULE AdaptiveSessionProofs -----------------------
(***************************************************************************)
(* What a session returns, for any views, components, controller and number*)
(* of reacquisitions, and whatever the decoder reports: a final request    *)
(* that is the product of the decisions before it; accepted, a tail within *)
(* the budget but for what the two quantiles leave out; and not accepted,  *)
(* a cause for each reacquisition that was spent.                          *)
(***************************************************************************)
EXTENDS AdaptiveSession, FiniteSetTheorems, TLAPS

(* Induction over the naturals, in the form of least elements.             *)
LEMMA LeastElement ==
    ASSUME NEW B \in SUBSET Nat, B # {}
    PROVE  \E m \in B : \A k \in B : m <= k
<1> DEFINE T == {0..k : k \in B}
<1>1. IsWellFoundedOn(StrictSubsetOrdering(Nat), FiniteSubsetsOf(Nat))
  BY FS_StrictSubsetOrderingWellFounded
<1>2. T \subseteq FiniteSubsetsOf(Nat) /\ T # {}
  <2>1. ASSUME NEW k \in B PROVE 0..k \in FiniteSubsetsOf(Nat)
    BY FS_Interval DEF FiniteSubsetsOf
  <2> QED BY <2>1
<1>3. \E x \in T : \A y \in T : <<y, x>> \notin StrictSubsetOrdering(Nat)
  <2> HIDE DEF T
  <2> QED BY <1>1, <1>2, WFMin
<1>4. PICK m \in B : \A k \in B : <<0..k, 0..m>> \notin StrictSubsetOrdering(Nat)
  BY <1>3
<1>5. ASSUME NEW k \in B, k < m PROVE FALSE
  <2>1. 0..k \subseteq 0..m /\ m \in 0..m /\ m \notin 0..k
    BY <1>5
  <2>2. <<0..k, 0..m>> \in StrictSubsetOrdering(Nat)
    BY <2>1 DEF StrictSubsetOrdering
  <2> QED BY <1>4, <2>2
<1> QED BY <1>5

LEMMA SetInduction ==
    ASSUME NEW S, 0 \in S, \A n \in Nat : n \in S => n + 1 \in S
    PROVE  Nat \subseteq S
<1> SUFFICES ASSUME Nat \ S # {} PROVE FALSE
  OBVIOUS
<1>1. PICK m \in Nat \ S : \A k \in Nat \ S : m <= k
  BY LeastElement
<1> QED BY <1>1

-----------------------------------------------------------------------------
(* The scale that the factors of a session multiply up to.                 *)
Products(ds, f, N) ==
    f = [n \in 0..N |-> IF n = 0 THEN One ELSE Times(f[n - 1], ds[n].factor)]

LEMMA ProductsExist == ASSUME NEW ds, NEW N \in Nat PROVE \E f : Products(ds, f, N)
<1> DEFINE Defined == {N0 \in Nat : \E f : Products(ds, f, N0)}
<1>1. 0 \in Defined
  <2> DEFINE f == [n \in 0..0 |-> One]
  <2>1. f = [n \in 0..0 |-> IF n = 0 THEN One ELSE Times(f[n - 1], ds[n].factor)]
    OBVIOUS
  <2> QED BY <2>1 DEF Products
<1>2. ASSUME NEW m \in Nat, m \in Defined PROVE m + 1 \in Defined
  <2>1. PICK f : Products(ds, f, m)
    BY <1>2
  <2>2. \A n \in 0..m : f[n] = IF n = 0 THEN One ELSE Times(f[n - 1], ds[n].factor)
    BY <2>1 DEF Products
  <2> DEFINE g == [n \in 0..m+1 |-> IF n = m + 1 THEN Times(f[m], ds[m + 1].factor) ELSE f[n]]
  <2>3. \A n \in 0..m : g[n] = f[n]
    OBVIOUS
  <2>4. \A n \in 0..m+1 : g[n] = IF n = 0 THEN One ELSE Times(g[n - 1], ds[n].factor)
    <3> TAKE n \in 0..m+1
    <3>1. CASE n = m + 1
      BY <2>3, <3>1
    <3>2. CASE n \in 1..m
      <4>1. n - 1 \in 0..m /\ n \in 0..m
        BY <3>2
      <4> HIDE DEF g
      <4> QED BY <2>2, <2>3, <3>2, <4>1
    <3>3. CASE n = 0
      BY <2>2, <2>3, <3>3
    <3> QED BY <3>1, <3>2, <3>3
  <2>5. g = [n \in 0..m+1 |-> g[n]]
    OBVIOUS
  <2> HIDE DEF g
  <2>6. Products(ds, g, m + 1)
    BY <2>4, <2>5 DEF Products
  <2> QED BY <2>6
<1>3. Nat \subseteq Defined
  <2> HIDE DEF Defined
  <2> QED BY <1>1, <1>2, SetInduction
<1> QED BY <1>3

(* ProductOf is the last of such products, and they are the only ones.     *)
LEMMA ProductOfChain ==
    ASSUME NEW ds, Len(ds) \in Nat
    PROVE  \E f : Products(ds, f, Len(ds)) /\ ProductOf(ds) = f[Len(ds)]
<1> DEFINE chosen == CHOOSE f : Products(ds, f, Len(ds))
<1>1. Products(ds, chosen, Len(ds))
  BY ProductsExist
<1>2. ProductOf(ds) = chosen[Len(ds)]
  BY DEF ProductOf, Products
<1> QED BY <1>1, <1>2

LEMMA ProductsAgree ==
    ASSUME NEW ds, NEW es, NEW f, NEW g, NEW M \in Nat, NEW N \in Nat, M <= N,
           Products(ds, f, M), Products(es, g, N), \A n \in 1..M : ds[n] = es[n]
    PROVE  f[M] = g[M]
<1> DEFINE Same == {n \in Nat : n <= M => f[n] = g[n]}
<1>1. \A n \in 0..M : f[n] = IF n = 0 THEN One ELSE Times(f[n - 1], ds[n].factor)
  BY DEF Products
<1>2. \A n \in 0..N : g[n] = IF n = 0 THEN One ELSE Times(g[n - 1], es[n].factor)
  BY DEF Products
<1>3. 0 \in Same
  BY <1>1, <1>2
<1>4. ASSUME NEW n \in Nat, n \in Same PROVE n + 1 \in Same
  <2> SUFFICES ASSUME n + 1 <= M PROVE f[n + 1] = g[n + 1]
    OBVIOUS
  <2>1. n + 1 \in 0..M /\ n + 1 \in 0..N /\ n + 1 \in 1..M /\ n + 1 # 0 /\ (n + 1) - 1 = n
    OBVIOUS
  <2>2. f[n] = g[n]
    BY <1>4
  <2>3. f[n + 1] = Times(f[n], ds[n + 1].factor)
    BY <1>1, <2>1
  <2>4. g[n + 1] = Times(g[n], es[n + 1].factor)
    BY <1>2, <2>1
  <2> QED BY <2>1, <2>2, <2>3, <2>4
<1>5. Nat \subseteq Same
  <2> HIDE DEF Same
  <2> QED BY <1>3, <1>4, SetInduction
<1> QED BY <1>5

LEMMA ProductOfNothing == ProductOf(<<>>) = One
<1>1. PICK f : Products(<<>>, f, 0) /\ ProductOf(<<>>) = f[0]
  BY ProductOfChain
<1> QED BY <1>1 DEF Products

LEMMA ProductOfAppend ==
    ASSUME NEW D, NEW ds \in Seq(D), NEW d \in D
    PROVE  ProductOf(Append(ds, d)) = Times(ProductOf(ds), d.factor)
<1> DEFINE es == Append(ds, d)
<1> DEFINE M == Len(ds)
<1>1. /\ M \in Nat /\ Len(es) = M + 1 /\ es[M + 1] = d
      /\ \A n \in 1..M : ds[n] = es[n]
  OBVIOUS
<1> HIDE DEF es
<1>2. PICK f : Products(ds, f, M) /\ ProductOf(ds) = f[M]
  BY <1>1, ProductOfChain
<1>3. PICK g : Products(es, g, M + 1) /\ ProductOf(es) = g[M + 1]
  BY <1>1, ProductOfChain
<1>4. f[M] = g[M]
  <2> DEFINE N == M + 1
  <2>1. M \in Nat /\ N \in Nat /\ M <= N /\ \A n \in 1..M : ds[n] = es[n]
    BY <1>1
  <2>2. Products(ds, f, M) /\ Products(es, g, N)
    BY <1>2, <1>3
  <2> HIDE DEF M, N
  <2> QED BY <2>1, <2>2, ProductsAgree
<1>5. g[M + 1] = Times(g[M], es[M + 1].factor)
  <2>1. M + 1 \in 0..M+1 /\ M + 1 # 0 /\ (M + 1) - 1 = M
    BY <1>1
  <2> QED BY <1>3, <2>1 DEF Products
<1>6. ProductOf(es) = Times(ProductOf(ds), d.factor)
  BY <1>1, <1>2, <1>3, <1>4, <1>5
<1> QED BY <1>6 DEF es
-----------------------------------------------------------------------------
(* Spans, the decisions on them, and the quantile.                         *)
Decisions == [action : {"accept", "compress"}, factor : Fraction, span : Nat]

LEMMA MinOfTwo ==
    ASSUME NEW x \in Nat, NEW y \in Nat
    PROVE  Min({x, y}) \in Nat /\ Min({x, y}) = (IF x <= y THEN x ELSE y)
  BY DEF Min

LEMMA NaturalProduct == ASSUME NEW x \in Nat, NEW y \in Nat PROVE x * y \in Nat
  BY SMT
LEMMA PositiveProduct ==
    ASSUME NEW x \in Nat \ {0}, NEW y \in Nat \ {0}
    PROVE  x * y \in Nat \ {0}
  BY SMT

LEMMA TimesFraction ==
    ASSUME NEW x \in Fraction, NEW y \in Fraction
    PROVE  Times(x, y) \in Fraction
  BY PositiveProduct DEF Fraction, Times

LEMMA DecisionTyped ==
    ASSUME NEW span \in Nat
    PROVE  /\ decide(span) \in Decisions
           /\ decide(span).span = span
           /\ decide(span).action = "accept" <=> span <= Allowed
<1>1. /\ Allowed \in Nat /\ Unit \in Nat \ {0} /\ Safety \in Nat \ {0}
      /\ MinScale \in Nat \ {0}
  BY ControllerAssumption
<1>2. One \in Fraction
  BY DEF One, Fraction
<1>3. CASE WithinBudget(span)
  BY <1>1, <1>2, <1>3 DEF decide, WithinBudget, Decisions
<1>4. CASE ~WithinBudget(span)
  <2>1. span \in Nat \ {0} /\ ~(span <= Allowed)
    BY <1>4 DEF WithinBudget
  <2>2. /\ MinScale * span \in Nat \ {0} /\ Unit * span \in Nat \ {0}
        /\ Safety * Allowed \in Nat
    BY <1>1, <2>1, PositiveProduct, NaturalProduct
  <2>3. CompressionFactor(span) \in Fraction
    <3>1. CASE Safety * Allowed < MinScale * span
      BY <1>1, <3>1 DEF CompressionFactor, Fraction
    <3>2. CASE ~(Safety * Allowed < MinScale * span)
      <4>1. Safety * Allowed \in Nat \ {0}
        BY <2>2, <3>2
      <4> QED BY <1>2, <2>2, <3>2, <4>1 DEF CompressionFactor, Fraction
    <3> QED BY <3>1, <3>2
  <2>4. decide(span) = [action |-> "compress", factor |-> CompressionFactor(span),
                        span |-> span]
    BY <1>4 DEF decide
  <2> QED BY <2>1, <2>3, <2>4 DEF Decisions
<1> QED BY <1>3, <1>4

-----------------------------------------------------------------------------
(* Spans can be sorted: the members of a finite set in an order in which   *)
(* their spans ascend, by induction on their number.  The set is that of   *)
(* the views, or of the buckets of a view's strong components.             *)
Ascends(spans, p, n) == \A i, j \in 0..n-1 : i <= j => spans[p[i]] <= spans[p[j]]
Sortable(spans, n) ==
    \A T \in SUBSET DOMAIN spans : IsFiniteSet(T) /\ Cardinality(T) = n =>
        \E p \in Bijection(0..n-1, T) : Ascends(spans, p, n)

LEMMA LeastSpan ==
    ASSUME NEW S, NEW spans \in [S -> Nat], NEW T \in SUBSET S, T # {}
    PROVE  \E v \in T : \A w \in T : spans[v] <= spans[w]
<1> DEFINE B == {spans[v] : v \in T}
<1>1. B \in SUBSET Nat /\ B # {}
  OBVIOUS
<1>2. PICK m \in B : \A k \in B : m <= k
  <2> HIDE DEF B
  <2> QED BY <1>1, LeastElement
<1> QED BY <1>2

LEMMA SortOneMore ==
    ASSUME NEW S, NEW spans \in [S -> Nat], NEW n \in Nat, Sortable(spans, n)
    PROVE  Sortable(spans, n + 1)
<1> SUFFICES ASSUME NEW T \in SUBSET S, IsFiniteSet(T), Cardinality(T) = n + 1
             PROVE  \E p \in Bijection(0..n, T) : Ascends(spans, p, n + 1)
  BY DEF Sortable
<1>1. T # {}
  BY FS_EmptySet
<1>2. PICK v \in T : \A w \in T : spans[v] <= spans[w]
  BY <1>1, LeastSpan
<1>3. IsFiniteSet(T \ {v}) /\ Cardinality(T \ {v}) = n
  BY FS_RemoveElement
<1>4. PICK p \in Bijection(0..n-1, T \ {v}) : Ascends(spans, p, n)
  BY <1>3 DEF Sortable
<1>5. /\ p \in [0..n-1 -> T \ {v}]
      /\ \A a, b \in 0..n-1 : p[a] = p[b] => a = b
      /\ \A t \in T \ {v} : \E s \in 0..n-1 : p[s] = t
  BY <1>4 DEF Bijection, Injection, Surjection, IsInjective
<1> DEFINE q == [i \in 0..n |-> IF i = 0 THEN v ELSE p[i - 1]]
<1>6. /\ q \in [0..n -> T] /\ q[0] = v
      /\ \A i \in 1..n : q[i] = p[i - 1] /\ i - 1 \in 0..n-1 /\ q[i] # v
  <2>1. \A i \in 0..n : i = 0 \/ i \in 1..n
    OBVIOUS
  <2>2. \A i \in 1..n : i - 1 \in 0..n-1
    OBVIOUS
  <2> QED BY <1>5, <2>1, <2>2
<1> HIDE DEF q
<1>7. \A a, b \in 0..n : q[a] = q[b] => a = b
  <2> SUFFICES ASSUME NEW a \in 0..n, NEW b \in 0..n, q[a] = q[b] PROVE a = b
    OBVIOUS
  <2>1. CASE a = 0 \/ b = 0
    BY <1>6, <2>1
  <2>2. CASE a \in 1..n /\ b \in 1..n
    <3>1. a - 1 = b - 1
      BY <1>5, <1>6, <2>2
    <3> QED BY <3>1
  <2> QED BY <2>1, <2>2
<1>8. \A t \in T : \E s \in 0..n : q[s] = t
  <2> SUFFICES ASSUME NEW t \in T \ {v} PROVE \E s \in 0..n : q[s] = t
    BY <1>6
  <2>1. PICK s \in 0..n-1 : p[s] = t
    BY <1>5
  <2>2. s + 1 \in 1..n /\ (s + 1) - 1 = s /\ s + 1 \in 0..n
    OBVIOUS
  <2> QED BY <1>6, <2>1, <2>2
<1>9. Ascends(spans, q, n + 1)
  <2> SUFFICES ASSUME NEW i \in 0..n, NEW j \in 0..n, i <= j
               PROVE  spans[q[i]] <= spans[q[j]]
    BY DEF Ascends
  <2>1. CASE i = 0
    BY <1>2, <1>6, <2>1
  <2>2. CASE i # 0
    <3>1. i \in 1..n /\ j \in 1..n /\ i - 1 \in 0..n-1 /\ j - 1 \in 0..n-1 /\ i - 1 <= j - 1
      BY <2>2
    <3> QED BY <1>4, <1>6, <3>1 DEF Ascends
  <2> QED BY <2>1, <2>2
<1>10. q \in Bijection(0..n, T)
  BY <1>6, <1>7, <1>8 DEF Bijection, Injection, Surjection, IsInjective
<1> QED BY <1>9, <1>10

LEMMA AllSortable ==
    ASSUME NEW S, NEW spans \in [S -> Nat], NEW n \in Nat
    PROVE  Sortable(spans, n)
<1> DEFINE Good == {m \in Nat : Sortable(spans, m)}
<1>1. 0 \in Good
  <2> SUFFICES ASSUME NEW T \in SUBSET S, IsFiniteSet(T), Cardinality(T) = 0
               PROVE  \E p \in Bijection(0..0-1, T) : Ascends(spans, p, 0)
    BY DEF Sortable
  <2>1. T = {} /\ 0..0-1 = {}
    BY FS_EmptySet
  <2> DEFINE p == [i \in {} |-> 0]
  <2>2. p \in Bijection({}, {})
    BY DEF Bijection, Injection, Surjection, IsInjective
  <2> QED BY <2>1, <2>2 DEF Ascends
<1>2. ASSUME NEW m \in Nat, m \in Good PROVE m + 1 \in Good
  BY <1>2, SortOneMore
<1>3. Nat \subseteq Good
  <2> HIDE DEF Good
  <2> QED BY <1>1, <1>2, SetInduction
<1> QED BY <1>3

(* The sorted spans are those of the members in some order, and ascend.    *)
LEMMA SortedSpans ==
    ASSUME NEW S, IsFiniteSet(S), S # {}, NEW spans \in [S -> Nat]
    PROVE  LET last == Cardinality(S) - 1 IN
           /\ last \in Nat
           /\ Sorted(spans) \in [0..last -> Nat]
           /\ \A i, j \in 0..last : i <= j => Sorted(spans)[i] <= Sorted(spans)[j]
           /\ \E p \in [0..last -> S] :
                /\ \A v \in S : \E i \in 0..last : p[i] = v
                /\ \A i \in 0..last : Sorted(spans)[i] = spans[p[i]]
<1> DEFINE last == Cardinality(S) - 1
<1>1. last \in Nat /\ DOMAIN spans = S
  BY FS_CardinalityType, FS_EmptySet
<1>2. \E p \in Bijection(0..last, S) :
         \A i, j \in 0..last : i <= j => spans[p[i]] <= spans[p[j]]
  <2>1. Cardinality(S) \in Nat /\ S \in SUBSET DOMAIN spans
    BY <1>1, FS_CardinalityType
  <2> QED BY <2>1, AllSortable DEF Sortable, Ascends
<1> DEFINE p == CHOOSE p \in Bijection(0..last, S) :
                    \A i, j \in 0..last : i <= j => spans[p[i]] <= spans[p[j]]
<1>3. /\ p \in Bijection(0..last, S)
      /\ \A i, j \in 0..last : i <= j => spans[p[i]] <= spans[p[j]]
  BY <1>2
<1>4. Sorted(spans) = [i \in 0..last |-> spans[p[i]]]
  BY <1>1 DEF Sorted
<1> HIDE DEF p, last
<1>5. p \in [0..last -> S] /\ \A v \in S : \E i \in 0..last : p[i] = v
  BY <1>3 DEF Bijection, Surjection, Injection, IsInjective
<1>6. Sorted(spans) \in [0..last -> Nat] /\ \A i \in 0..last : Sorted(spans)[i] = spans[p[i]]
  BY <1>4, <1>5
<1> QED BY <1>1, <1>3, <1>5, <1>6 DEF last

LEMMA Weighted ==
    ASSUME NEW a \in Nat, NEW b \in Nat, a <= b, NEW part \in 0..9
    PROVE  /\ ((10 - part) * a + part * b) \div 10 \in Nat
           /\ a <= ((10 - part) * a + part * b) \div 10
<1>1. part * a <= part * b /\ part * a \in Nat /\ part * b \in Nat
  BY SMT
<1>2. (10 - part) * a = 10 * a - part * a
  BY SMT
<1> QED BY <1>1, <1>2

(* The quantile is no less than the span at its place.                     *)
Low(n) == (9 * (n - 1)) \div 10

LEMMA QuantileAbove ==
    ASSUME NEW S, IsFiniteSet(S), S # {}, NEW spans \in [S -> Nat]
    PROVE  /\ Low(Cardinality(S)) \in 0..Cardinality(S)-1
           /\ quantile(spans) \in Nat
           /\ Sorted(spans)[Low(Cardinality(S))] <= quantile(spans)
<1> DEFINE last == Cardinality(S) - 1
<1> DEFINE low == Low(Cardinality(S))
<1> DEFINE part == (9 * last) % 10
<1> DEFINE high == Min({low + 1, last})
<1>1. /\ last \in Nat
      /\ Sorted(spans) \in [0..last -> Nat]
      /\ \A i, j \in 0..last : i <= j => Sorted(spans)[i] <= Sorted(spans)[j]
  BY SortedSpans
<1>2. low = (9 * last) \div 10
  BY DEF Low
<1>3. quantile(spans)
        = ((10 - part) * Sorted(spans)[low] + part * Sorted(spans)[high]) \div 10
  BY <1>2 DEF quantile, Interpolated
<1> HIDE DEF last, low
<1>4. low \in 0..last /\ part \in 0..9
  BY <1>1, <1>2
<1>5. high \in 0..last /\ low <= high
  BY <1>1, <1>4, MinOfTwo
<1> HIDE DEF part, high
<1>6. /\ Sorted(spans)[low] \in Nat /\ Sorted(spans)[high] \in Nat
      /\ Sorted(spans)[low] <= Sorted(spans)[high]
  BY <1>1, <1>4, <1>5
<1> QED BY <1>3, <1>4, <1>6, Weighted DEF last, low

(* Members above what is accepted come after the place of the quantile.    *)
LEMMA FewAbove ==
    ASSUME NEW S, IsFiniteSet(S), S # {}, NEW spans \in [S -> Nat],
           NEW bound \in Nat, quantile(spans) <= bound,
           NEW Over \in SUBSET S, \A v \in Over : spans[v] > bound
    PROVE  Cardinality(Over) <= Few(Cardinality(S))
<1> DEFINE last == Cardinality(S) - 1
<1> DEFINE low == Low(Cardinality(S))
<1>1. /\ last \in Nat
      /\ Sorted(spans) \in [0..last -> Nat]
      /\ \A i, j \in 0..last : i <= j => Sorted(spans)[i] <= Sorted(spans)[j]
  BY SortedSpans
<1>2. PICK p \in [0..last -> S] :
          /\ \A v \in S : \E i \in 0..last : p[i] = v
          /\ \A i \in 0..last : Sorted(spans)[i] = spans[p[i]]
  BY SortedSpans
<1>3. low \in 0..last /\ quantile(spans) \in Nat /\ Sorted(spans)[low] <= quantile(spans)
  BY QuantileAbove
<1>4. Few(Cardinality(S)) = last - low
  BY DEF Few, Low
<1> HIDE DEF last, low
<1> DEFINE Late == {i \in low+1..last : p[i] \in Over}
<1> DEFINE f == [i \in Late |-> p[i]]
<1>5. ASSUME NEW v \in Over PROVE \E i \in Late : f[i] = v
  <2>1. PICK i \in 0..last : p[i] = v
    BY <1>2
  <2>2. Sorted(spans)[i] = spans[v] /\ spans[v] > bound
    BY <1>2, <1>5, <2>1
  <2>3. ~(i <= low)
    <3> SUFFICES ASSUME i <= low PROVE FALSE
      OBVIOUS
    <3>1. Sorted(spans)[i] <= Sorted(spans)[low]
      BY <1>1, <1>3
    <3>2. Sorted(spans)[i] \in Nat /\ Sorted(spans)[low] \in Nat
      BY <1>1, <1>3
    <3> QED BY <1>3, <2>2, <3>1, <3>2
  <2>4. i \in low+1..last
    BY <1>1, <1>3, <2>3
  <2> QED BY <1>5, <2>1, <2>4
<1>6. f \in Surjection(Late, Over)
  BY <1>5 DEF Surjection
<1>7. IsFiniteSet(low+1..last) /\ Cardinality(low+1..last) = last - low
  <2> DEFINE a == low + 1
  <2>1. /\ a \in Int /\ last \in Int
        /\ (IF a > last THEN 0 ELSE last - a + 1) = last - low
    BY <1>1, <1>3
  <2>2. IsFiniteSet(a..last) /\ Cardinality(a..last) = IF a > last THEN 0 ELSE last - a + 1
    <3> HIDE DEF a
    <3> QED BY <2>1, FS_Interval
  <2> QED BY <2>1, <2>2
<1>8. IsFiniteSet(Late) /\ Cardinality(Late) <= Cardinality(low+1..last)
  BY <1>7, FS_Subset
<1>9. IsFiniteSet(Over) /\ Cardinality(Over) <= Cardinality(Late)
  <2> HIDE DEF f, Late
  <2> QED BY <1>6, <1>8, FS_Surjection
<1>10. /\ Cardinality(Over) \in Nat /\ Cardinality(Late) \in Nat
       /\ last - low \in Nat
  <2>1. last - low \in Nat
    BY <1>1, <1>3
  <2> QED BY <1>8, <1>9, <2>1, FS_CardinalityType
<1> HIDE DEF Late
<1> QED BY <1>4, <1>7, <1>8, <1>9, <1>10

(* What a view reports is a span, within the budget only if few of its     *)
(* components exceed it.                                                   *)
LEMMA DiagnosedSpan ==
    ASSUME strong \in Reports, NEW v \in Views
    PROVE  /\ Diagnosed(strong[v]) \in Nat
           /\ Diagnosed(strong[v]) <= Allowed => ~Spread(v)
<1> DEFINE S == DOMAIN strong[v]
<1> DEFINE above == {b \in S : strong[v][b] > Allowed}
<1>1. S \in SUBSET Buckets /\ strong[v] \in [S -> Nat]
  BY SessionAssumption DEF Reports
<1>2. IsFiniteSet(S) /\ Allowed \in Nat
  BY <1>1, SessionAssumption, ControllerAssumption, FS_Subset
<1>3. CASE S = {}
  <2>1. above = {} /\ Cardinality(above) = 0 /\ Cardinality(S) = 0
    BY <1>3, FS_EmptySet
  <2>2. Few(Cardinality(S)) = 0
    BY <2>1 DEF Few
  <2> QED BY <1>3, <2>1, <2>2 DEF Diagnosed, Spread
<1>4. CASE S # {}
  <2>1. Diagnosed(strong[v]) = quantile(strong[v]) /\ quantile(strong[v]) \in Nat
    BY <1>1, <1>2, <1>4, QuantileAbove DEF Diagnosed
  <2>2. quantile(strong[v]) <= Allowed => Cardinality(above) <= Few(Cardinality(S))
    <3>1. above \in SUBSET S /\ \A b \in above : strong[v][b] > Allowed
      OBVIOUS
    <3> HIDE DEF S, above
    <3> QED BY <1>1, <1>2, <1>4, <3>1, FewAbove
  <2>3. Cardinality(above) \in Nat /\ Few(Cardinality(S)) \in Int
    <3>1. IsFiniteSet(above)
      BY <1>2, FS_Subset
    <3>2. Cardinality(S) \in Nat
      BY <1>2, FS_CardinalityType
    <3> QED BY <3>1, <3>2, FS_CardinalityType DEF Few
  <2> QED BY <2>1, <2>2, <2>3 DEF Spread
<1> QED BY <1>3, <1>4

-----------------------------------------------------------------------------
(* The inductive invariant: the request and the scale acquired with are    *)
(* the product of the factors so far, and once the session has returned,   *)
(* of those before the last decision, which was taken on the result's own  *)
(* spans.  No decision but the last accepts, and the session goes on until *)
(* one does or the reacquisitions are spent.                               *)
Typed ==
    /\ place \in {"acquiring", "deciding", "returned"}
    /\ request \in Fraction /\ acquired \in Fraction
    /\ strong \in Reports
    /\ decisions \in Seq(Decisions)

Asked ==
    /\ place \in {"acquiring", "deciding"} => request = ProductOf(decisions)
    /\ place \in {"deciding", "returned"} => request = acquired

Judged == quantile([v \in Views |-> Diagnosed(strong[v])])
Before == SubSeq(decisions, 1, Len(decisions) - 1)
Closed ==
    place = "returned" =>
        /\ decisions # <<>>
        /\ request = ProductOf(Before)
        /\ Last.action = "accept" => Judged <= Allowed

Earlier == IF place = "returned" THEN Len(decisions) - 1 ELSE Len(decisions)
Spent ==
    /\ \A k \in 1..Len(decisions) : decisions[k] = decide(decisions[k].span)
    /\ \A k \in 1..Earlier : decisions[k].action # "accept"
    /\ Earlier <= MaxReacquisitions
    /\ place = "returned" => Last.action = "accept" \/ Earlier = MaxReacquisitions

SessionInv == Typed /\ Asked /\ Closed /\ Spent

LEMMA JudgedNatural ==
    ASSUME strong \in Reports
    PROVE  [v \in Views |-> Diagnosed(strong[v])] \in [Views -> Nat] /\ Judged \in Nat
<1>1. [v \in Views |-> Diagnosed(strong[v])] \in [Views -> Nat]
  BY DiagnosedSpan
<1> QED BY <1>1, QuantileAbove, SessionAssumption DEF Judged

LEMMA InitInv == Init => SessionInv
<1> SUFFICES ASSUME Init PROVE SessionInv
  OBVIOUS
<1>1. strong \in Reports
  <2>1. \A B : <<>> \in [{} -> B]
    OBVIOUS
  <2>2. {} \in SUBSET Buckets
    OBVIOUS
  <2> QED BY <2>1, <2>2 DEF Init, Reports
<1>2. One \in Fraction
  BY DEF One, Fraction
<1>3. Len(decisions) = 0
  BY DEF Init
<1>4. Spent
  BY <1>3, SessionAssumption DEF Init, Spent, Earlier
<1> QED BY <1>1, <1>2, <1>4, ProductOfNothing DEF Init, SessionInv, Typed, Asked, Closed

LEMMA AcquireKeeps == SessionInv /\ Acquire => SessionInv'
<1> SUFFICES ASSUME SessionInv, Acquire PROVE SessionInv'
  OBVIOUS
<1>1. strong' \in Reports
  BY DEF Acquire
<1>2. Typed'
  BY <1>1 DEF SessionInv, Typed, Acquire, Reports
<1>3. Asked' /\ Closed'
  BY DEF SessionInv, Asked, Closed, Acquire
<1>4. Spent'
  BY DEF SessionInv, Spent, Earlier, Acquire, Last
<1> QED BY <1>2, <1>3, <1>4 DEF SessionInv

LEMMA DecideKeeps == SessionInv /\ Decide => SessionInv'
<1> SUFFICES ASSUME SessionInv, Decide PROVE SessionInv'
  OBVIOUS
<1> DEFINE d == decide(Judged)
<1>1. /\ d \in Decisions /\ d = decide(d.span)
      /\ (d.action = "accept" => Judged <= Allowed)
  <2>1. Judged \in Nat
    BY JudgedNatural DEF SessionInv, Typed
  <2> QED BY <2>1, DecisionTyped
<1> DEFINE stop == d.action = "accept" \/ LastTurn(Len(decisions) + 1)
<1>2. /\ decisions' = Append(decisions, d)
      /\ place' = IF stop THEN "returned" ELSE "acquiring"
      /\ request' = IF stop THEN request ELSE Times(request, d.factor)
  BY DEF Decide, NextRequest, Judged
<1> HIDE DEF d
<1>3. /\ place = "deciding" /\ decisions \in Seq(Decisions)
      /\ request = acquired /\ request = ProductOf(decisions)
      /\ UNCHANGED <<acquired, strong>>
  BY DEF SessionInv, Typed, Asked, Decide
<1>4. /\ decisions' \in Seq(Decisions) /\ decisions' # <<>>
      /\ Len(decisions) \in Nat /\ Len(decisions') = Len(decisions) + 1
      /\ decisions'[Len(decisions) + 1] = d
      /\ \A k \in 1..Len(decisions) : decisions'[k] = decisions[k]
      /\ SubSeq(decisions', 1, Len(decisions') - 1) = decisions
  BY <1>1, <1>2, <1>3
<1>5. request' \in Fraction
  <2>1. d.factor \in Fraction
    BY <1>1 DEF Decisions
  <2> QED BY <1>2, <2>1, TimesFraction DEF SessionInv, Typed
<1>6. Typed'
  <2>1. Reports' = Reports
    BY DEF Reports
  <2> QED BY <1>2, <1>3, <1>4, <1>5, <2>1 DEF SessionInv, Typed
<1>7. Judged' = Judged
  BY <1>3 DEF Judged, Diagnosed, quantile, Interpolated, Sorted
<1>8. Asked'
  <2>1. CASE stop
    BY <1>2, <1>3, <2>1 DEF Asked
  <2>2. CASE ~stop
    <3>1. ProductOf(decisions') = Times(ProductOf(decisions), d.factor)
      BY <1>1, <1>2, <1>3, ProductOfAppend
    <3> QED BY <1>2, <1>3, <2>2, <3>1 DEF Asked
  <2> QED BY <2>1, <2>2
<1>9. Before' = decisions /\ Last' = d
  BY <1>4 DEF Before, Last
<1>10. Closed'
  <2> SUFFICES ASSUME stop
               PROVE  /\ decisions' # <<>>
                      /\ request' = ProductOf(Before')
                      /\ Last'.action = "accept" => Judged' <= Allowed
    BY <1>2 DEF Closed
  <2> QED BY <1>1, <1>2, <1>3, <1>4, <1>7, <1>9
<1>11. Spent'
  <2>1. /\ Earlier = Len(decisions) /\ Earlier <= MaxReacquisitions
        /\ MaxReacquisitions \in Nat
        /\ \A k \in 1..Len(decisions) : /\ decisions[k] = decide(decisions[k].span)
                                        /\ decisions[k].action # "accept"
    BY <1>3, SessionAssumption DEF SessionInv, Spent, Earlier
  <2>2. \A k \in 1..Len(decisions') : decisions'[k] = decide(decisions'[k].span)
    BY <1>1, <1>4, <2>1
  <2>3. CASE stop
    <3>0. place' = "returned" /\ Len(decisions') - 1 = Len(decisions)
      BY <1>2, <1>4, <2>3
    <3>1. Earlier' = Len(decisions)
      BY <3>0 DEF Earlier
    <3>2. d.action = "accept" \/ Earlier' = MaxReacquisitions
      <4> SUFFICES ASSUME d.action # "accept" PROVE Len(decisions) = MaxReacquisitions
        BY <3>1
      <4>1. Len(decisions) + 1 > MaxReacquisitions
        BY <2>3 DEF LastTurn
      <4>2. Len(decisions) <= MaxReacquisitions
        BY <2>1
      <4> QED BY <1>4, <2>1, <4>1, <4>2
    <3> QED BY <1>4, <1>9, <2>1, <2>2, <3>1, <3>2 DEF Spent
  <2>4. CASE ~stop
    <3>1. Earlier' = Len(decisions) + 1 /\ place' # "returned"
      BY <1>2, <1>4, <2>4 DEF Earlier
    <3>2. d.action # "accept" /\ Len(decisions) + 1 <= MaxReacquisitions
      BY <1>4, <2>1, <2>4 DEF LastTurn
    <3>3. \A k \in 1..Len(decisions) + 1 : decisions'[k].action # "accept"
      BY <1>4, <2>1, <3>2
    <3> QED BY <2>2, <3>1, <3>2, <3>3 DEF Spent
  <2> QED BY <2>3, <2>4
<1> QED BY <1>6, <1>8, <1>10, <1>11 DEF SessionInv

THEOREM SessionInvariant == Spec => []SessionInv
<1>1. SessionInv /\ [Next]_vars => SessionInv'
  <2>1. ASSUME SessionInv, UNCHANGED vars PROVE SessionInv'
    <3> USE <2>1 DEF vars
    <3>1. Typed' = Typed
      BY DEF Typed, Reports
    <3>2. Asked' = Asked
      BY DEF Asked
    <3>3. Judged' = Judged /\ Last' = Last /\ Before' = Before /\ Earlier' = Earlier
      BY DEF Judged, Diagnosed, quantile, Interpolated, Sorted, Last, Before, Earlier
    <3>4. Closed' = Closed /\ Spent' = Spent
      BY <3>3 DEF Closed, Spent
    <3> QED BY <3>1, <3>2, <3>4 DEF SessionInv
  <2> QED BY <2>1, AcquireKeeps, DecideKeeps DEF Next
<1> QED BY InitInv, <1>1, PTL DEF Spec

(* The final request is the one the final result was acquired with, and    *)
(* its scale the product of the factors decided before it.                 *)
THEOREM FinalRequestTold == Spec => []FinalMatchesRequest
<1>1. SessionInv => FinalMatchesRequest
  BY DEF SessionInv, Asked, Closed, Before, FinalMatchesRequest
<1> QED BY <1>1, SessionInvariant, PTL

(* Accepted, no more views than the quantile over views leaves out have    *)
(* more components above the budget than the quantile over components      *)
(* leaves out, whatever the decoder reports and however many views and     *)
(* components there are.                                                   *)
THEOREM AcceptedSpans == Spec => []AcceptedWithinBudget
<1>1. SessionInv => AcceptedWithinBudget
  <2> DEFINE Over == {v \in Views : Spread(v)}
  <2> DEFINE spans == [v \in Views |-> Diagnosed(strong[v])]
  <2> SUFFICES ASSUME SessionInv, place = "returned", Last.action = "accept"
               PROVE  Cardinality(Over) <= Few(Cardinality(Views))
    BY DEF AcceptedWithinBudget
  <2>1. strong \in Reports /\ quantile(spans) <= Allowed /\ Allowed \in Nat
    BY ControllerAssumption DEF SessionInv, Typed, Closed, Judged
  <2>2. spans \in [Views -> Nat]
    BY <2>1, JudgedNatural
  <2>3. Over \in SUBSET Views /\ \A v \in Over : spans[v] > Allowed
    <3> SUFFICES ASSUME NEW v \in Over PROVE Diagnosed(strong[v]) > Allowed
      OBVIOUS
    <3>1. Diagnosed(strong[v]) \in Nat /\ ~(Diagnosed(strong[v]) <= Allowed)
      BY <2>1, DiagnosedSpan
    <3> QED BY <2>1, <3>1
  <2> HIDE DEF Over, spans
  <2> QED BY <2>1, <2>2, <2>3, FewAbove, SessionAssumption
<1> QED BY <1>1, SessionInvariant, PTL

-----------------------------------------------------------------------------
(* The factor of a decision aims at Safety / Unit of the budget or below,  *)
(* unless it is the least one; so a report that is not accepted after it is*)
(* above that by more than the rest of the budget.                         *)
LEMMA CompressionMissed ==
    ASSUME NEW span \in Nat, NEW next \in Nat,
           decide(span).action # "accept", decide(next).action # "accept",
           ~(Safety * Allowed < MinScale * span)
    PROVE  Missed(decide(span), next)
<1>1. /\ Allowed \in Nat /\ Unit \in Nat \ {0} /\ Safety \in Nat \ {0}
      /\ MinScale \in Nat \ {0} /\ next > Allowed /\ span > Allowed
  BY DecisionTyped, ControllerAssumption
<1>2. /\ decide(span).span = span
      /\ decide(span).factor = CompressionFactor(span)
  BY DEF decide
<1> DEFINE a == Safety * Allowed
<1> DEFINE b == Unit * Allowed
<1>3. a \in Nat /\ b \in Nat /\ (Unit - Safety) * Allowed = b - a
  BY <1>1
<1>4. Unit * next \in Nat /\ Unit * next > b
  <2>1. \A x, y \in Nat : x > y => Unit * x > Unit * y
    BY <1>1
  <2> QED BY <1>1, <2>1
<1>5. CASE Safety * Allowed > Unit * span
  <2>1. decide(span).factor = One
    BY <1>2, <1>5 DEF CompressionFactor
  <2>2. Unit * (next * 1 - span * 1) = Unit * next - Unit * span
    BY <1>1
  <2>3. Unit * span \in Nat
    BY <1>1
  <2>4. Unit * (next * 1 - span * 1) > (Unit - Safety) * Allowed * 1
    <3>1. (Unit - Safety) * Allowed * 1 = b - a
      BY <1>1, <1>3
    <3>2. a > Unit * span
      BY <1>5
    <3> HIDE DEF a, b
    <3> QED BY <1>3, <1>4, <2>2, <2>3, <3>1, <3>2
  <2> QED BY <1>2, <2>1, <2>4 DEF Missed, One
<1>6. CASE ~(Safety * Allowed > Unit * span)
  <2> DEFINE D == Unit * span
  <2>1. decide(span).factor = [num |-> a, den |-> D]
    BY <1>2, <1>6 DEF CompressionFactor
  <2>2. D \in Nat \ {0}
    <3>1. span \in Nat \ {0}
      BY <1>1
    <3> QED BY <1>1, <3>1, PositiveProduct
  <2>3. span * a \in Nat /\ Unit * (span * a) = D * a
    BY <1>1, <1>3
  <2> HIDE DEF a, D
  <2>4. Unit * (next * D - span * a) = (Unit * next) * D - D * a
    <3>1. Unit * (next * D - span * a) = Unit * (next * D) - Unit * (span * a)
      BY <1>1, <1>3, <2>2
    <3>2. Unit * (next * D) = (Unit * next) * D
      BY <1>1, <2>2
    <3> QED BY <2>3, <3>1, <3>2
  <2>5. (Unit - Safety) * Allowed * D = b * D - D * a
    <3> HIDE DEF b
    <3>1. (b - a) * D = b * D - D * a
      BY <1>3, <2>2
    <3> QED BY <1>3, <3>1
  <2>6. (Unit * next) * D > b * D
    <3>1. \A x, y \in Nat : x > y => x * D > y * D
      BY <2>2
    <3> HIDE DEF b
    <3> QED BY <1>3, <1>4, <3>1
  <2>7. (Unit * next) * D \in Nat /\ b * D \in Nat /\ D * a \in Nat
    <3> HIDE DEF b
    <3> QED BY <1>3, <1>4, <2>2, NaturalProduct
  <2>8. Unit * (next * D - span * a) > (Unit - Safety) * Allowed * D
    <3> HIDE DEF b
    <3> QED BY <2>4, <2>5, <2>6, <2>7
  <2> QED BY <1>2, <2>1, <2>8 DEF Missed
<1> QED BY <1>5, <1>6

(* A session that is not accepted has spent its reacquisitions, and each of*)
(* them for a cause: the least factor was not enough, or the next report   *)
(* was further above the aim than the safety factor allows for.            *)
THEOREM ExhaustionExplained == Spec => []ExhaustedForCause
<1>1. SessionInv => ExhaustedForCause
  <2> SUFFICES ASSUME SessionInv, place = "returned", Last.action # "accept"
               PROVE  /\ Len(decisions) = MaxReacquisitions + 1
                      /\ \A k \in 1..MaxReacquisitions :
                            \/ Safety * Allowed < MinScale * decisions[k].span
                            \/ Missed(decisions[k], decisions[k + 1].span)
    BY DEF ExhaustedForCause
  <2>1. /\ decisions \in Seq(Decisions) /\ Len(decisions) \in Nat
        /\ MaxReacquisitions \in Nat /\ Len(decisions) = MaxReacquisitions + 1
    BY SessionAssumption DEF SessionInv, Typed, Spent, Earlier
  <2>2. \A k \in 1..Len(decisions) :
            /\ decisions[k].span \in Nat
            /\ decisions[k] = decide(decisions[k].span)
            /\ decisions[k].action # "accept"
    <3> TAKE k \in 1..Len(decisions)
    <3>1. decisions[k] \in Decisions /\ decisions[k] = decide(decisions[k].span)
      BY <2>1 DEF SessionInv, Spent
    <3>2. CASE k \in 1..MaxReacquisitions
      BY <2>1, <3>1, <3>2 DEF SessionInv, Spent, Earlier, Decisions
    <3>3. CASE k = Len(decisions)
      BY <3>1, <3>3 DEF Last, Decisions
    <3> QED BY <2>1, <3>2, <3>3
  <2>3. ASSUME NEW k \in 1..MaxReacquisitions,
               ~(Safety * Allowed < MinScale * decisions[k].span)
        PROVE  Missed(decisions[k], decisions[k + 1].span)
    <3>1. k \in 1..Len(decisions) /\ k + 1 \in 1..Len(decisions)
      BY <2>1
    <3>2. /\ decisions[k].span \in Nat /\ decisions[k + 1].span \in Nat
          /\ decisions[k] = decide(decisions[k].span)
          /\ decide(decisions[k].span).action # "accept"
          /\ decide(decisions[k + 1].span).action # "accept"
      BY <2>2, <3>1
    <3> QED BY <2>3, <3>2, CompressionMissed
  <2> QED BY <2>1, <2>3
<1> QED BY <1>1, SessionInvariant, PTL
=============================================================================
