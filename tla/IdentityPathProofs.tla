------------------------ MODULE IdentityPathProofs ------------------------
(***************************************************************************)
(* The plan that acquisition and engine share, for any widths, numbers of  *)
(* views, generators and orders of the queries.                            *)
(***************************************************************************)
EXTENDS IdentityPath, FiniteSetTheorems, TLAPS

(* Induction over the naturals, in the form of least elements.             *)
LEMMA LeastElement ==
    ASSUME NEW B \in SUBSET Nat, B # {}
    PROVE  \E m \in B : \A k \in B : m <= k
<1> DEFINE T == {0..k : k \in B}
<1>1. IsWellFoundedOn(StrictSubsetOrdering(Nat), FiniteSubsetsOf(Nat))
  BY FS_StrictSubsetOrderingWellFounded
<1>2. T \subseteq FiniteSubsetsOf(Nat) /\ T # {}
  <2>1. ASSUME NEW k \in B PROVE 0..k \in FiniteSubsetsOf(Nat)
    BY FS_Interval DEF FiniteSubsetsOf
  <2> QED BY <2>1
<1>3. \E x \in T : \A y \in T : <<y, x>> \notin StrictSubsetOrdering(Nat)
  <2> HIDE DEF T
  <2> QED BY <1>1, <1>2, WFMin
<1>4. PICK m \in B : \A k \in B : <<0..k, 0..m>> \notin StrictSubsetOrdering(Nat)
  BY <1>3
<1>5. ASSUME NEW k \in B, k < m PROVE FALSE
  <2>1. 0..k \subseteq 0..m /\ m \in 0..m /\ m \notin 0..k
    BY <1>5
  <2>2. <<0..k, 0..m>> \in StrictSubsetOrdering(Nat)
    BY <2>1 DEF StrictSubsetOrdering
  <2> QED BY <1>4, <2>2
<1> QED BY <1>5

LEMMA SetInduction ==
    ASSUME NEW S, 0 \in S, \A n \in Nat : n \in S => n + 1 \in S
    PROVE  Nat \subseteq S
<1> SUFFICES ASSUME Nat \ S # {} PROVE FALSE
  OBVIOUS
<1>1. PICK m \in Nat \ S : \A k \in Nat \ S : m <= k
  BY LeastElement
<1> QED BY <1>1

(* 2^n counts the subsets of n elements.                                   *)
LEMMA PowerOfTwo == ASSUME NEW n \in Nat PROVE 2^n \in Nat
<1>1. IsFiniteSet(1..n) /\ Cardinality(1..n) = n
  BY FS_Interval
<1>2. IsFiniteSet(SUBSET (1..n)) /\ Cardinality(SUBSET (1..n)) = 2^n
  BY <1>1, FS_SUBSET
<1> QED BY <1>2, FS_CardinalityType
-----------------------------------------------------------------------------
(* Places of the challenges: views, passes and slots.                      *)
LEMMA Quotient ==
    ASSUME NEW x \in Nat, NEW d \in Nat \ {0}
    PROVE  /\ x \div d \in Nat /\ x % d \in 0..d-1
           /\ x % d = x - d * (x \div d)
  BY SMT

LEMMA QuotientBelow ==
    ASSUME NEW n \in Nat, NEW d \in Nat \ {0}, NEW i \in Nat, i < n * d
    PROVE  i \div d \in 0..n-1
<1> DEFINE q == i \div d
<1> DEFINE r == i % d
<1>1. q \in Nat /\ r \in 0..d-1 /\ r = i - d * q
  BY Quotient
<1> HIDE DEF q, r
<1>2. ASSUME q >= n PROVE FALSE
  <2>1. d * q >= d * n /\ d * n = n * d /\ d * n \in Nat /\ d * q \in Nat
    BY <1>1, <1>2
  <2>2. i >= d * q
    BY <1>1, <2>1
  <2> QED BY <1>1, <2>1, <2>2
<1>3. q \in 0..n-1
  BY <1>1, <1>2
<1> QED BY <1>3 DEF q

LEMMA PlaceOf ==
    ASSUME NEW b \in Nat \ {0}, NEW n \in Nat, NEW v \in 0..n-1, NEW s \in 0..b-1
    PROVE  /\ v * b + s \in 0..n*b-1
           /\ (v * b + s) \div b = v
           /\ (v * b + s) % b = s
<1> DEFINE x == v * b + s
<1> DEFINE q == x \div b
<1> DEFINE r == x % b
<1>1. v * b \in Nat /\ v * b <= (n - 1) * b /\ (n - 1) * b = n * b - b /\ n * b \in Nat
  BY SMT
<1>2. x \in Nat /\ x \in 0..n*b-1
  BY <1>1
<1>3. q \in Nat /\ r \in 0..b-1 /\ r = x - b * q
  <2> HIDE DEF x
  <2> QED BY <1>2, Quotient
<1>4. x = v * b + s
  OBVIOUS
<1> HIDE DEF x, q, r
<1>5. b * q \in Nat /\ b * q <= x /\ x < b * q + b
  BY <1>2, <1>3
<1>6. ASSUME q < v PROVE FALSE
  <2>1. b * (q + 1) <= b * v /\ b * (q + 1) = b * q + b /\ b * v = v * b
    BY <1>3, <1>6
  <2> QED BY <1>1, <1>4, <1>5, <2>1
<1>7. ASSUME q > v PROVE FALSE
  <2>1. b * (v + 1) <= b * q /\ b * (v + 1) = v * b + b
    BY <1>3, <1>7
  <2> QED BY <1>1, <1>4, <1>5, <2>1
<1>8. q = v
  BY <1>3, <1>6, <1>7
<1>9. b * q = v * b
  BY <1>8
<1>10. r = s
  BY <1>1, <1>3, <1>4, <1>9
<1> QED BY <1>2, <1>8, <1>10 DEF x, q, r

LEMMA SlotCount == 2^LocalBits \in Nat \ {0}
<1>1. 2^LocalBits \in Nat
  BY PowerOfTwo, LocalBitsAssumption
<1>2. IsFiniteSet(1..LocalBits) /\ Cardinality(1..LocalBits) = LocalBits
  BY FS_Interval, LocalBitsAssumption
<1>3. IsFiniteSet(SUBSET (1..LocalBits)) /\ Cardinality(SUBSET (1..LocalBits)) = 2^LocalBits
  BY <1>2, FS_SUBSET
<1>4. SUBSET (1..LocalBits) # {}
  OBVIOUS
<1> QED BY <1>1, <1>3, <1>4, FS_EmptySet

-----------------------------------------------------------------------------
(* The fingerprint covers the challenges of every view and slot once...    *)
LEMMA FingerprintTellsSlots ==
    ASSUME NEW p, NEW q, fingerprint(p) = fingerprint(q),
           NEW v \in ViewIndices, NEW s \in Slots
    PROVE  /\ p.local_order = q.local_order
           /\ challenge(p.views[v], p.local_order[s]) = challenge(q.views[v], q.local_order[s])
<1> DEFINE b == 2^LocalBits
<1> DEFINE i == v * b + s
<1>1. p.local_order = q.local_order /\ expanded_challenges(p, 1) = expanded_challenges(q, 1)
  BY DEF fingerprint
<1>2. b \in Nat \ {0} /\ NViews \in Nat /\ v \in 0..NViews-1 /\ s \in 0..b-1
  BY SlotCount, PlanAssumption DEF ViewIndices, Slots
<1>3. /\ i \in 0..NViews * b - 1 /\ i \div b = v /\ i % b = s
  <2> HIDE DEF b
  <2> QED BY <1>2, PlaceOf
<1>4. i \in 0..NViews * 1 * b - 1 /\ i \div (1 * b) = v /\ i % b = s /\ (i \div b) % 1 = 0
  <2>1. NViews * 1 * b = NViews * b /\ 1 * b = b
    <3> HIDE DEF b
    <3> QED BY <1>2
  <2>2. v % 1 = 0
    BY <1>2
  <2> HIDE DEF b, i
  <2> QED BY <1>3, <2>1, <2>2
<1>5. ASSUME NEW plan
      PROVE  expanded_challenges(plan, 1)[i] = challenge(plan.views[v], plan.local_order[s])
  <2>1. pass_orders(plan.local_order, 1)[0] = plan.local_order
    BY DEF pass_orders
  <2>2. expanded_challenges(plan, 1) =
            [k \in 0..NViews * 1 * b - 1 |->
                challenge(plan.views[k \div (1 * b)],
                          pass_orders(plan.local_order, 1)[(k \div b) % 1][k % b])]
    BY DEF expanded_challenges
  <2> HIDE DEF b, i
  <2> QED BY <1>4, <2>1, <2>2
<1> QED BY <1>1, <1>5

(* ... from which the expansions of all passes follow.                     *)
LEMMA PassesAgree ==
    ASSUME NEW p, NEW q, fingerprint(p) = fingerprint(q), NEW pass_count \in PassCounts
    PROVE  expanded_challenges(p, pass_count) = expanded_challenges(q, pass_count)
<1> DEFINE b == 2^LocalBits
<1>1. b \in Nat \ {0} /\ NViews \in Nat /\ pass_count \in Nat \ {0}
  BY SlotCount, PlanAssumption DEF PassCounts
<1>2. 0 \in ViewIndices /\ 0 \in Slots
  BY <1>1, PlanAssumption DEF ViewIndices, Slots
<1>3. p.local_order = q.local_order
  BY <1>2, FingerprintTellsSlots
<1> DEFINE sent(plan, i) ==
        challenge(plan.views[i \div (pass_count * b)],
                  pass_orders(plan.local_order, pass_count)[(i \div b) % pass_count][i % b])
<1>4. ASSUME NEW i \in 0..NViews * pass_count * b - 1 PROVE sent(p, i) = sent(q, i)
  <2> DEFINE v == i \div (pass_count * b)
  <2> DEFINE turn == (i \div b) % pass_count
  <2> DEFINE s == i % b
  <2>1. pass_count * b \in Nat \ {0} /\ i \in Nat /\ i < NViews * (pass_count * b)
    <3> HIDE DEF b
    <3>1. NViews * pass_count * b = NViews * (pass_count * b) /\ pass_count * b \in Nat \ {0}
      BY <1>1
    <3>2. NViews * (pass_count * b) \in Nat
      BY <1>1, <3>1
    <3> HIDE DEF sent
    <3> QED BY <3>1, <3>2
  <2>2. v \in ViewIndices
    <3> DEFINE d == pass_count * b
    <3> HIDE DEF b, d, sent
    <3>1. d \in Nat \ {0} /\ i < NViews * d
      BY <2>1 DEF d
    <3>2. i \div d \in 0..NViews-1
      BY <1>1, <2>1, <3>1, QuotientBelow
    <3> QED BY <3>2 DEF d, ViewIndices
  <2>3. s \in 0..b-1 /\ turn \in 0..pass_count-1
    <3> HIDE DEF b, sent
    <3>1. i \div b \in Nat /\ s \in 0..b-1
      BY <1>1, <2>1, Quotient
    <3> QED BY <1>1, <3>1, Quotient
  <2>4. s \in Slots /\ b - 1 - s \in Slots
    <3> HIDE DEF sent, s
    <3> QED BY <1>1, <2>3 DEF Slots
  <2> HIDE DEF v, turn, s
  <2>5. \E t \in Slots : \A order : pass_orders(order, pass_count)[turn][s] = order[t]
    <3>1. \A order : pass_orders(order, pass_count)[turn]
                        = IF turn % 2 = 0 THEN order ELSE Reversed(order)
      <4> HIDE DEF sent
      <4> QED BY <2>3 DEF pass_orders
    <3>2. \A order : Reversed(order)[s] = order[b - 1 - s]
      <4> HIDE DEF sent
      <4> QED BY <2>4 DEF Reversed
    <3>3. CASE turn % 2 = 0
      BY <2>4, <3>1, <3>3
    <3>4. CASE turn % 2 # 0
      BY <2>4, <3>1, <3>2, <3>4
    <3> QED BY <3>3, <3>4
  <2>6. PICK t \in Slots : \A order : pass_orders(order, pass_count)[turn][s] = order[t]
    BY <2>5
  <2>7. challenge(p.views[v], p.local_order[t]) = challenge(q.views[v], q.local_order[t])
    BY <2>2, FingerprintTellsSlots
  <2> QED BY <2>6, <2>7 DEF v, turn, s
<1>5. \A plan : expanded_challenges(plan, pass_count)
                  = [i \in 0..NViews * pass_count * b - 1 |-> sent(plan, i)]
  BY DEF expanded_challenges
<1> HIDE DEF b, sent
<1> QED BY <1>4, <1>5

(* Frames are observed only under a plan with the engine's fingerprint.    *)
Accepted ==
    stage \in {"observing", "recovering"} => fingerprint(acquired) = fingerprint(engine)

(* A frame that is accepted was acquired with the challenges the engine    *)
(* decodes it by, for every number of passes.                              *)
THEOREM AcceptedPlansAgree == Spec => MatchingPlansAgree
<1>1. Init => Accepted
  BY DEF Init, Accepted
<1>2. Accepted /\ [Next]_vars => Accepted'
  <2> SUFFICES ASSUME Accepted, [Next]_vars PROVE Accepted'
    OBVIOUS
  <2>1. acquired' = acquired /\ engine' = engine
    BY DEF Next, AcceptFrame, RefuseFrame, Observe, Recover, vars
  <2>2. stage' \in {"observing", "recovering"} => fingerprint(acquired) = fingerprint(engine)
    BY DEF Accepted, Next, AcceptFrame, RefuseFrame, Observe, Recover, vars
  <2> QED BY <2>1, <2>2 DEF Accepted
<1>3. Accepted /\ [Next]_vars =>
        [stage' = "observing" =>
            \A pass_count \in PassCounts :
                expanded_challenges(acquired, pass_count)
                    = expanded_challenges(engine, pass_count)]_vars
  <2> SUFFICES ASSUME Accepted, Next, stage' = "observing"
               PROVE  \A pass_count \in PassCounts :
                          expanded_challenges(acquired, pass_count)
                              = expanded_challenges(engine, pass_count)
    OBVIOUS
  <2>1. fingerprint(acquired) = fingerprint(engine)
    BY DEF Accepted, Next, AcceptFrame, RefuseFrame, Observe, Recover
  <2> QED BY <2>1, PassesAgree
<1>4. Spec => []Accepted
  BY <1>1, <1>2, PTL DEF Spec
<1> QED BY <1>3, <1>4, PTL DEF Spec, MatchingPlansAgree
-----------------------------------------------------------------------------
(* Parities of finite sets, which is what arithmetic over GF(2) comes to.  *)
LEMMA FiniteInduction ==
    ASSUME NEW S, IsFiniteSet(S), NEW G, {} \in G,
           \A T \in SUBSET S, x \in S : T \in G /\ x \notin T => T \cup {x} \in G
    PROVE  S \in G
<1> DEFINE Good == {n \in Nat : \A T \in SUBSET S : Cardinality(T) = n => T \in G}
<1>1. 0 \in Good
  <2> SUFFICES ASSUME NEW T \in SUBSET S, Cardinality(T) = 0 PROVE T \in G
    OBVIOUS
  <2> QED BY FS_Subset, FS_EmptySet
<1>2. ASSUME NEW n \in Nat, n \in Good PROVE n + 1 \in Good
  <2> SUFFICES ASSUME NEW T \in SUBSET S, Cardinality(T) = n + 1 PROVE T \in G
    OBVIOUS
  <2>1. IsFiniteSet(T) /\ T # {}
    BY FS_Subset, FS_EmptySet
  <2>2. PICK x \in T : TRUE
    BY <2>1
  <2>3. Cardinality(T \ {x}) = n
    <3>1. Cardinality(T \ {x}) = Cardinality(T) - 1
      BY <2>1, FS_RemoveElement
    <3> QED BY <3>1
  <2>4. T \ {x} \in G
    BY <1>2, <2>3
  <2>5. (T \ {x}) \cup {x} = T
    OBVIOUS
  <2>6. T \ {x} \in SUBSET S /\ x \in S /\ x \notin T \ {x}
    OBVIOUS
  <2>7. (T \ {x}) \cup {x} \in G
    BY <2>4, <2>6
  <2> QED BY <2>5, <2>7
<1>3. Nat \subseteq Good
  <2> HIDE DEF Good
  <2> QED BY <1>1, <1>2, SetInduction
<1>4. Cardinality(S) \in Nat
  BY FS_CardinalityType
<1> QED BY <1>3, <1>4

LEMMA OddFew == ~Odd({}) /\ \A x : Odd({x})
<1>1. Cardinality({}) = 0 /\ \A x : Cardinality({x}) = 1
  BY FS_EmptySet, FS_Singleton
<1>2. 0 % 2 # 1 /\ 1 % 2 = 1
  OBVIOUS
<1> QED BY <1>1, <1>2 DEF Odd

LEMMA OddXor ==
    ASSUME NEW X, IsFiniteSet(X), NEW Y, IsFiniteSet(Y)
    PROVE  IsFiniteSet(Xor(X, Y)) /\ (Odd(Xor(X, Y)) <=> ~(Odd(X) <=> Odd(Y)))
<1> DEFINE x == Cardinality(X)
<1> DEFINE y == Cardinality(Y)
<1> DEFINE c == Cardinality(X \cap Y)
<1>1. /\ IsFiniteSet(X \ Y) /\ Cardinality(X \ Y) = x - c
      /\ IsFiniteSet(Y \ X) /\ Cardinality(Y \ X) = y - c
  <2>1. Y \cap X = X \cap Y
    OBVIOUS
  <2> QED BY <2>1, FS_Difference
<1>2. x \in Nat /\ y \in Nat /\ c \in Nat
  BY FS_Intersection, FS_CardinalityType
<1>3. (X \ Y) \cap (Y \ X) = {}
  OBVIOUS
<1>4. /\ IsFiniteSet(Xor(X, Y))
      /\ Cardinality(Xor(X, Y)) = (x - c) + (y - c) - 0
  BY <1>1, <1>3, FS_Union, FS_EmptySet DEF Xor
<1> HIDE DEF x, y, c
<1>5. Cardinality(Xor(X, Y)) = x + y - 2 * c
  BY <1>2, <1>4
<1>6. (x + y - 2 * c) % 2 = 1 <=> ~(x % 2 = 1 <=> y % 2 = 1)
  BY <1>2
<1> QED BY <1>4, <1>5, <1>6 DEF Odd, x, y

(* Counted by rows or by columns, the ones of a matrix have one parity.    *)
LEMMA DoubleParity ==
    ASSUME NEW A, IsFiniteSet(A), NEW B, IsFiniteSet(B), NEW f \in [A -> SUBSET B]
    PROVE  Odd({a \in A : Odd(f[a])}) <=> Odd({b \in B : Odd({a \in A : b \in f[a]})})
<1> DEFINE Rows(T) == {a \in T : Odd(f[a])}
<1> DEFINE Column(T, b) == {a \in T : b \in f[a]}
<1> DEFINE Columns_(T) == {b \in B : Odd(Column(T, b))}
<1> DEFINE G == {T \in SUBSET A : Odd(Rows(T)) <=> Odd(Columns_(T))}
<1>1. {} \in G
  <2>1. Rows({}) = {} /\ \A b : Column({}, b) = {}
    OBVIOUS
  <2>2. Columns_({}) = {}
    BY <2>1, OddFew
  <2> QED BY <2>1, <2>2
<1>2. ASSUME NEW T \in SUBSET A, NEW x \in A, T \in G, x \notin T
      PROVE  T \cup {x} \in G
  <2>1. IsFiniteSet(T) /\ IsFiniteSet(f[x]) /\ IsFiniteSet(Columns_(T)) /\ IsFiniteSet(Rows(T))
    <3>1. T \subseteq A /\ f[x] \subseteq B /\ Columns_(T) \subseteq B /\ Rows(T) \subseteq A
      OBVIOUS
    <3> HIDE DEF Columns_, Rows
    <3> QED BY <3>1, FS_Subset
  <2>2. Odd(Rows(T \cup {x})) <=> ~(Odd(Rows(T)) <=> Odd(f[x]))
    <3>1. CASE Odd(f[x])
      <4>1. Rows(T \cup {x}) = Xor(Rows(T), {x})
        BY <1>2, <3>1 DEF Xor
      <4>2. IsFiniteSet({x}) /\ Odd({x})
        BY FS_Singleton, OddFew
      <4> HIDE DEF Rows
      <4> QED BY <2>1, <3>1, <4>1, <4>2, OddXor
    <3>2. CASE ~Odd(f[x])
      <4>1. Rows(T \cup {x}) = Rows(T)
        BY <3>2
      <4> HIDE DEF Rows
      <4> QED BY <3>2, <4>1
    <3> QED BY <3>1, <3>2
  <2>3. ASSUME NEW b \in B
        PROVE  Odd(Column(T \cup {x}, b)) <=> ~(Odd(Column(T, b)) <=> b \in f[x])
    <3>1. IsFiniteSet(Column(T, b))
      <4>1. Column(T, b) \subseteq A
        OBVIOUS
      <4> HIDE DEF Column
      <4> QED BY <4>1, FS_Subset
    <3>2. CASE b \in f[x]
      <4>1. Column(T \cup {x}, b) = Xor(Column(T, b), {x})
        BY <1>2, <3>2 DEF Xor
      <4>2. IsFiniteSet({x}) /\ Odd({x})
        BY FS_Singleton, OddFew
      <4> HIDE DEF Column
      <4> QED BY <3>1, <3>2, <4>1, <4>2, OddXor
    <3>3. CASE b \notin f[x]
      <4>1. Column(T \cup {x}, b) = Column(T, b)
        BY <3>3
      <4> HIDE DEF Column
      <4> QED BY <3>3, <4>1
    <3> QED BY <3>2, <3>3
  <2>4. Columns_(T \cup {x}) = Xor(Columns_(T), f[x])
    <3>1. f[x] \subseteq B
      OBVIOUS
    <3> HIDE DEF Column
    <3> QED BY <2>3, <3>1 DEF Xor
  <2>5. Odd(Columns_(T \cup {x})) <=> ~(Odd(Columns_(T)) <=> Odd(f[x]))
    <3> HIDE DEF Columns_
    <3> QED BY <2>1, <2>4, OddXor
  <2>6. Odd(Rows(T)) <=> Odd(Columns_(T))
    BY <1>2
  <2> HIDE DEF Rows, Columns_
  <2> QED BY <2>2, <2>5, <2>6
<1>3. A \in G
  <2> HIDE DEF G
  <2> QED BY <1>1, <1>2, FiniteInduction
<1> QED BY <1>3

(* The xor of vectors holds what an odd number of them hold.               *)
LEMMA XorOfHolds ==
    ASSUME NEW f, NEW x
    PROVE  x \in XorOf(f) <=> Odd({i \in DOMAIN f : x \in f[i]})
<1> DEFINE at == {i \in DOMAIN f : x \in f[i]}
<1>1. Odd(at) => \E i \in DOMAIN f : x \in f[i]
  <2>1. at = {} => ~Odd(at)
    BY OddFew
  <2> QED BY <2>1
<1> QED BY <1>1 DEF XorOf

-----------------------------------------------------------------------------
(* The matrices of the views, and what hashing and challenges make of them.*)
LEMMA Widths ==
    /\ LocalBits \in Nat \ {0} /\ IdentityBits \in Nat \ {0} /\ NViews \in Nat
    /\ IsFiniteSet(0..LocalBits-1) /\ IsFiniteSet(0..IdentityBits-1)
  BY LocalBitsAssumption, PlanAssumption, FS_Interval DEF IdentityBits

LEMMA StructuredInMatrices == ASSUME NEW k \in 0..6 PROVE StructuredView(k) \in Matrices
<1>1. coefficient_rows[k] \in SUBSET (0..3)
  BY DEF coefficient_rows
<1>2. ASSUME NEW block \in 0..3, NEW bit \in 0..LocalBits-1
      PROVE  block * LocalBits + bit \in 0..IdentityBits-1
  <2>1. block * LocalBits \in Nat /\ block * LocalBits <= 3 * LocalBits
    BY Widths
  <2> QED BY <2>1, Widths DEF IdentityBits
<1> QED BY <1>1, <1>2 DEF StructuredView, Matrices, Identities

LEMMA RandomViewDrawn ==
    ASSUME NEW seed \in Seeds, NEW n \in 1..NViews-7
    PROVE  \E k \in DOMAIN Draws[seed] :
              RandomView(seed, n) = Draws[seed][k] /\ FullRank(Draws[seed][k])
<1> DEFINE chosen == CHOOSE k \in DOMAIN Draws[seed] : IsRandomView(seed, n, k)
<1>1. chosen \in DOMAIN Draws[seed] /\ IsRandomView(seed, n, chosen)
  BY GeneratorAssumption
<1> QED BY <1>1 DEF RandomView, IsRandomView

(* A view is structured, or drawn and of full rank.                        *)
LEMMA ViewsOfPlan ==
    ASSUME NEW plan \in Plans, NEW v \in ViewIndices
    PROVE  /\ plan.views[v] \in ViewMatrices /\ plan.views[v] \in Matrices
           /\ \/ \E k \in 0..6 : plan.views[v] = StructuredView(k)
              \/ FullRank(plan.views[v])
<1>1. PICK seed \in Seeds, ordering \in Orderings : plan \in compile_query_plan(seed, ordering)
  BY DEF Plans
<1>2. plan.views = default_hash_views(seed)
  BY <1>1 DEF compile_query_plan
<1>3. plan.views[v] = IF v < 7 THEN StructuredView(v) ELSE RandomView(seed, v - 6)
  BY <1>2 DEF default_hash_views
<1>4. CASE v < 7
  <2>1. v \in 0..6
    BY <1>4, Widths DEF ViewIndices
  <2> QED BY <1>3, <1>4, <2>1, StructuredInMatrices DEF ViewMatrices
<1>5. CASE ~(v < 7)
  <2>1. v - 6 \in 1..NViews-7
    BY <1>5, Widths DEF ViewIndices
  <2>2. PICK k \in DOMAIN Draws[seed] :
            RandomView(seed, v - 6) = Draws[seed][k] /\ FullRank(Draws[seed][k])
    BY <2>1, RandomViewDrawn
  <2> QED BY <1>3, <1>5, <2>2, PlanAssumption DEF ViewMatrices
<1> QED BY <1>4, <1>5

(* Every digit of the identity is in one byte, and in no other's columns.  *)
LEMMA OneByte ==
    ASSUME NEW x \in 0..IdentityBits-1
    PROVE  {byte \in Bytes : x \in Columns(byte)} = {x \div ByteBits}
<1> DEFINE d == ByteBits
<1> DEFINE n == IdentityBits
<1>1. d \in Nat \ {0} /\ n \in Nat \ {0} /\ x \in 0..n-1
  BY PlanAssumption, Widths
<1>2. ASSUME NEW byte \in Nat
      PROVE  x \in Columns(byte) <=> byte * d <= x /\ x < (byte + 1) * d
  <2>1. byte * d \in Nat /\ (byte + 1) * d \in Nat
    BY <1>1
  <2>2. Min({(byte + 1) * d, n}) \in Nat
        /\ Min({(byte + 1) * d, n}) = IF (byte + 1) * d <= n THEN (byte + 1) * d ELSE n
    <3> DEFINE m == (byte + 1) * d
    <3>1. m \in Nat
      BY <2>1
    <3> HIDE DEF m, n
    <3>2. Min({m, n}) \in Nat /\ Min({m, n}) = IF m <= n THEN m ELSE n
      BY <1>1, <3>1 DEF Min
    <3> QED BY <3>2 DEF m
  <2>3. Columns(byte) = byte * d .. Min({(byte + 1) * d, n}) - 1
    BY DEF Columns
  <2> HIDE DEF d, n
  <2> QED BY <1>1, <2>1, <2>2, <2>3
<1> DEFINE q == x \div d
<1>3. q \in Nat /\ d * q <= x /\ x < d * q + d /\ d * q \in Nat
  <2> DEFINE r == x % d
  <2>1. q \in Nat /\ r \in 0..d-1 /\ r = x - d * q
    <3>1. x \in Nat
      BY <1>1
    <3> HIDE DEF d, n
    <3> QED BY <1>1, <3>1, Quotient
  <2> HIDE DEF q, d, r, n
  <2>2. d * q \in Nat
    BY <1>1, <2>1
  <2> QED BY <1>1, <2>1, <2>2
<1>4. q \in Bytes
  <2> DEFINE top == (n - 1) \div d
  <2> DEFINE r == (n - 1) % d
  <2>1. n - 1 \in Nat
    BY <1>1
  <2>2. top \in Nat /\ r \in 0..d-1 /\ r = (n - 1) - d * top
    <3> HIDE DEF d, n
    <3> QED BY <1>1, <2>1, Quotient
  <2> HIDE DEF q, d, n, top, r
  <2>3. ASSUME q > top PROVE FALSE
    <3>1. d * (top + 1) <= d * q /\ d * (top + 1) = d * top + d /\ d * top \in Nat
      BY <1>1, <1>3, <2>2, <2>3
    <3> QED BY <1>1, <1>3, <2>2, <3>1
  <2> QED BY <1>3, <2>2, <2>3 DEF Bytes, top, d, n
<1>5. x \in Columns(q)
  <2>1. q * d = d * q /\ (q + 1) * d = d * q + d
    <3> HIDE DEF q, d
    <3> QED BY <1>1, <1>3
  <2> HIDE DEF q, d, n
  <2> QED BY <1>2, <1>3, <2>1
<1>6. ASSUME NEW byte \in Nat, x \in Columns(byte) PROVE byte = q
  <2>1. byte * d <= x /\ x < (byte + 1) * d
    BY <1>2, <1>6
  <2> HIDE DEF q, d, n
  <2>2. ASSUME byte < q PROVE FALSE
    <3>1. (byte + 1) * d <= d * q
      BY <1>1, <1>3, <2>2
    <3>2. (byte + 1) * d \in Nat
      BY <1>1
    <3> QED BY <1>1, <1>3, <2>1, <3>1, <3>2
  <2>3. ASSUME byte > q PROVE FALSE
    <3>1. d * q + d <= byte * d
      <4>1. d * (q + 1) <= d * byte /\ d * (q + 1) = d * q + d /\ d * byte = byte * d
        BY <1>1, <1>3, <2>3
      <4> QED BY <4>1
    <3>2. byte * d \in Nat
      BY <1>1
    <3> QED BY <1>1, <1>3, <2>1, <3>1, <3>2
  <2> QED BY <1>3, <2>2, <2>3
<1>7. \A byte \in Bytes : byte \in Nat
  BY DEF Bytes
<1> HIDE DEF q
<1>8. {byte \in Bytes : x \in Columns(byte)} = {q}
  BY <1>4, <1>5, <1>6, <1>7
<1> QED BY <1>8 DEF q

(* What the tables look up byte by byte is the product with the matrix.    *)
LEMMA HashIsProduct ==
    ASSUME NEW matrix \in Matrices, matrix \in ViewMatrices, NEW q \in Identities
    PROVE  hash_ids(matrix, q) = Product(matrix, q)
<1> DEFINE part(byte) == q \cap Columns(byte)
<1>1. /\ DOMAIN matrix = 0..LocalBits-1 /\ q \in SUBSET (0..IdentityBits-1)
      /\ \A r \in 0..LocalBits-1 : matrix[r] \in SUBSET (0..IdentityBits-1)
  BY DEF Matrices, Identities
<1>2. ASSUME NEW byte \in Bytes
      PROVE  byte_luts(matrix)[byte][Byte(q, byte)] = Product(matrix, part(byte))
  <2> DEFINE looked == {byte * ByteBits + i : i \in Byte(q, byte)} \cap Columns(byte)
  <2>1. Byte(q, byte) \in SUBSET (0..ByteBits-1)
    BY DEF Byte
  <2>2. byte_luts(matrix)[byte][Byte(q, byte)] = Product(matrix, looked)
    BY <2>1 DEF byte_luts
  <2>3. ASSUME NEW x \in part(byte) PROVE x \in looked
    <3>1. ByteBits \in Nat \ {0} /\ byte \in Nat /\ IdentityBits \in Nat \ {0}
          /\ x \in 0..IdentityBits-1 /\ x \in Columns(byte)
      BY <1>1, PlanAssumption, Widths DEF Bytes
    <3> DEFINE low == byte * ByteBits
    <3> DEFINE m == (byte + 1) * ByteBits
    <3>2. low \in Nat /\ m \in Nat /\ m = low + ByteBits
      BY <3>1
    <3>3. Columns(byte) = low .. Min({m, IdentityBits}) - 1
      BY DEF Columns
    <3> HIDE DEF low, m
    <3>4. Min({m, IdentityBits}) \in Nat /\ Min({m, IdentityBits}) <= m
      BY <3>1, <3>2 DEF Min
    <3>5. low <= x /\ x < m
      BY <3>1, <3>2, <3>3, <3>4
    <3>6. x - low \in 0..ByteBits-1 /\ low + (x - low) = x
      BY <3>1, <3>2, <3>5
    <3>7. x - low \in Byte(q, byte)
      BY <3>6 DEF Byte, low
    <3> QED BY <3>1, <3>6, <3>7 DEF low
  <2>4. looked = part(byte)
    <3>1. \A i \in Byte(q, byte) : byte * ByteBits + i \in q
      BY DEF Byte
    <3> QED BY <2>3, <3>1
  <2> QED BY <2>2, <2>4
<1>3. IsFiniteSet(Bytes)
  <2>1. (IdentityBits - 1) \div ByteBits \in Int
    <3>1. IdentityBits - 1 \in Nat
      BY Widths
    <3> QED BY <3>1, Quotient, PlanAssumption
  <2> QED BY <2>1, FS_Interval DEF Bytes
<1>4. ASSUME NEW r \in 0..LocalBits-1
      PROVE  Odd({byte \in Bytes : Odd(matrix[r] \cap part(byte))}) <=> Odd(matrix[r] \cap q)
  <2> DEFINE B == matrix[r] \cap q
  <2> DEFINE f == [byte \in Bytes |-> matrix[r] \cap part(byte)]
  <2>1. IsFiniteSet(B)
    <3>1. q \subseteq 0..IdentityBits-1
      BY <1>1
    <3>2. IsFiniteSet(q)
      BY <3>1, Widths, FS_Subset
    <3> QED BY <3>2, FS_Intersection
  <2>2. f \in [Bytes -> SUBSET B]
    OBVIOUS
  <2>3. ASSUME NEW x \in B PROVE Odd({byte \in Bytes : x \in f[byte]})
    <3>1. x \in 0..IdentityBits-1
      BY <1>1
    <3>2. {byte \in Bytes : x \in f[byte]} = {byte \in Bytes : x \in Columns(byte)}
      OBVIOUS
    <3> QED BY <3>1, <3>2, OneByte, OddFew
  <2>4. Odd({byte \in Bytes : Odd(f[byte])})
            <=> Odd({x \in B : Odd({byte \in Bytes : x \in f[byte]})})
    <3> HIDE DEF f, B
    <3> QED BY <1>3, <2>1, <2>2, DoubleParity
  <2>5. {x \in B : Odd({byte \in Bytes : x \in f[byte]})} = B
    BY <2>3
  <2>6. {byte \in Bytes : Odd(f[byte])} = {byte \in Bytes : Odd(matrix[r] \cap part(byte))}
    OBVIOUS
  <2> QED BY <2>4, <2>5, <2>6
<1> DEFINE looks == [byte \in Bytes |-> byte_luts(matrix)[byte][Byte(q, byte)]]
<1>5. hash_ids(matrix, q) = XorOf(looks)
  BY DEF hash_ids, Hashes, HashId
<1>6. ASSUME NEW r PROVE r \in XorOf(looks) <=> r \in Product(matrix, q)
  <2>1. r \in XorOf(looks) <=> Odd({byte \in Bytes : r \in looks[byte]})
    <3>1. DOMAIN looks = Bytes
      OBVIOUS
    <3> HIDE DEF looks
    <3> QED BY <3>1, XorOfHolds
  <2>2. \A byte \in Bytes : looks[byte] = Product(matrix, part(byte))
    BY <1>2
  <2> HIDE DEF looks, part
  <2>3. {byte \in Bytes : r \in looks[byte]} = {byte \in Bytes : r \in Product(matrix, part(byte))}
    BY <2>2
  <2>4. CASE r \in 0..LocalBits-1
    <3>1. \A byte \in Bytes : r \in Product(matrix, part(byte)) <=> Odd(matrix[r] \cap part(byte))
      BY <1>1, <2>4 DEF Product
    <3>2. {byte \in Bytes : r \in looks[byte]}
            = {byte \in Bytes : Odd(matrix[r] \cap part(byte))}
      BY <2>3, <3>1
    <3>3. r \in Product(matrix, q) <=> Odd(matrix[r] \cap q)
      BY <1>1, <2>4 DEF Product
    <3> QED BY <1>4, <2>1, <2>4, <3>2, <3>3
  <2>5. CASE r \notin 0..LocalBits-1
    <3>1. \A x : r \notin Product(matrix, x)
      BY <1>1, <2>5 DEF Product
    <3>2. {byte \in Bytes : r \in looks[byte]} = {}
      BY <2>3, <3>1
    <3> QED BY <2>1, <3>1, <3>2, OddFew
  <2> QED BY <2>4, <2>5
<1>7. XorOf(looks) = Product(matrix, q)
  <2> HIDE DEF looks
  <2> QED BY <1>6
<1> QED BY <1>5, <1>7

(* A challenge asks for the parity of the local query and the product.     *)
LEMMA ChallengeIsCharacter ==
    ASSUME NEW matrix \in Matrices, NEW u \in Buckets, NEW q \in Identities
    PROVE  Odd(challenge(matrix, u) \cap q) <=> Odd(u \cap Product(matrix, q))
<1>1. /\ DOMAIN matrix = 0..LocalBits-1 /\ q \subseteq 0..IdentityBits-1
      /\ u \subseteq 0..LocalBits-1
  BY DEF Matrices, Identities, Buckets, Indices
<1>2. IsFiniteSet(u) /\ IsFiniteSet(q)
  BY <1>1, Widths, FS_Subset
<1> DEFINE rows == [bit \in u |-> matrix[bit]]
<1> DEFINE f == [bit \in u |-> matrix[bit] \cap q]
<1>3. f \in [u -> SUBSET q]
  OBVIOUS
<1>4. Odd({bit \in u : Odd(f[bit])}) <=> Odd({x \in q : Odd({bit \in u : x \in f[bit]})})
  <2> HIDE DEF f
  <2> QED BY <1>2, <1>3, DoubleParity
<1>5. {bit \in u : Odd(f[bit])} = u \cap Product(matrix, q)
  BY <1>1 DEF Product
<1>6. ASSUME NEW x PROVE x \in challenge(matrix, u) <=> Odd({bit \in u : x \in matrix[bit]})
  <2>1. DOMAIN rows = u /\ {bit \in u : x \in rows[bit]} = {bit \in u : x \in matrix[bit]}
    OBVIOUS
  <2>2. x \in XorOf(rows) <=> Odd({bit \in DOMAIN rows : x \in rows[bit]})
    <3> HIDE DEF rows
    <3> QED BY XorOfHolds
  <2> QED BY <2>1, <2>2 DEF challenge
<1>7. ASSUME NEW x \in q
      PROVE  {bit \in u : x \in f[bit]} = {bit \in u : x \in matrix[bit]}
  OBVIOUS
<1>8. {x \in q : Odd({bit \in u : x \in f[bit]})} = challenge(matrix, u) \cap q
  <2> HIDE DEF f
  <2> QED BY <1>6, <1>7
<1> QED BY <1>4, <1>5, <1>8

(* The engine's plan is compiled, and stays.                               *)
LEMMA EnginePlanned == Spec => [](engine \in Plans)
<1>1. Init => engine \in Plans
  BY DEF Init
<1>2. engine \in Plans /\ [Next]_vars => (engine \in Plans)'
  BY DEF Next, AcceptFrame, RefuseFrame, Observe, Recover, vars
<1> QED BY <1>1, <1>2, PTL DEF Spec

(* Every challenge answers with the parity of the local query and of the   *)
(* bucket that the byte tables hash the identity to.                       *)
THEOREM ChallengesAnswerBuckets == Spec => []ChallengesAreCharacters
<1>1. engine \in Plans => ChallengesAreCharacters
  <2> SUFFICES ASSUME engine \in Plans, NEW v \in ViewIndices, NEW u \in Buckets, NEW q \in Identities
               PROVE  Odd(challenge(engine.views[v], u) \cap q)
                          <=> Odd(u \cap hash_ids(engine.views[v], q))
    BY DEF ChallengesAreCharacters
  <2>1. engine.views[v] \in Matrices /\ engine.views[v] \in ViewMatrices
    BY ViewsOfPlan
  <2> QED BY <2>1, HashIsProduct, ChallengeIsCharacter
<1> QED BY <1>1, EnginePlanned, PTL

-----------------------------------------------------------------------------
(* gf2_rank: the elimination loop keeps a pivot for each row that it has   *)
(* counted, and turns a matrix into one that reaches no more buckets, so   *)
(* that one with a pivot in every row reaches all of them.                 *)
Rows == 0..LocalBits-1
Reaches(rows, b) == \E q \in Identities : Product(rows, q) = b
Onto(rows) == \A b \in SUBSET Rows : Reaches(rows, b)

Pivots(s, piv) ==
    /\ piv \in [0..s.rank-1 -> 0..IdentityBits-1]
    /\ \A r \in 0..s.rank-1, other \in Rows : piv[r] \in s.rows[other] <=> other = r
Echelon(s) ==
    /\ s.rows \in Matrices /\ s.rank \in 0..LocalBits
    /\ \E piv : Pivots(s, piv)

LEMMA FiniteIdentities ==
    ASSUME NEW rows \in Matrices, NEW q \in Identities, NEW r \in Rows
    PROVE  /\ IsFiniteSet(q) /\ IsFiniteSet(rows[r] \cap q)
           /\ DOMAIN rows = Rows /\ rows[r] \in Identities
<1>1. IsFiniteSet(q)
  BY Widths, FS_Subset DEF Identities
<1> QED BY <1>1, FS_Intersection DEF Matrices, Rows

LEMMA XorInside ==
    ASSUME NEW a, NEW b, NEW q, IsFiniteSet(q)
    PROVE  Odd(Xor(a, b) \cap q) <=> ~(Odd(a \cap q) <=> Odd(b \cap q))
<1>1. Xor(a, b) \cap q = Xor(a \cap q, b \cap q)
  BY DEF Xor
<1>2. IsFiniteSet(a \cap q) /\ IsFiniteSet(b \cap q)
  BY FS_Intersection
<1> QED BY <1>1, <1>2, OddXor

(* Rows swapped and cleared reach what the rows did.                       *)
LEMMA SwapKeepsOnto ==
    ASSUME NEW rows \in Matrices, NEW swapped \in Matrices, NEW k \in Rows, NEW p \in Rows,
           swapped = [rows EXCEPT ![k] = rows[p], ![p] = rows[k]], Onto(swapped)
    PROVE  Onto(rows)
<1> SUFFICES ASSUME NEW b \in SUBSET Rows PROVE Reaches(rows, b)
  BY DEF Onto
<1> DEFINE other(r) == IF r = k THEN p ELSE IF r = p THEN k ELSE r
<1>1. DOMAIN rows = Rows /\ DOMAIN swapped = Rows
  BY DEF Matrices, Rows
<1>2. \A r \in Rows : other(r) \in Rows /\ rows[r] = swapped[other(r)] /\ other(other(r)) = r
  BY <1>1
<1> DEFINE c == {r \in Rows : other(r) \in b}
<1>3. PICK q \in Identities : Product(swapped, q) = c
  BY DEF Onto, Reaches
<1> HIDE DEF other
<1>4. ASSUME NEW r \in Rows PROVE r \in Product(rows, q) <=> r \in b
  <2>1. r \in Product(rows, q) <=> Odd(swapped[other(r)] \cap q)
    BY <1>1, <1>2 DEF Product
  <2>2. other(r) \in Product(swapped, q) <=> Odd(swapped[other(r)] \cap q)
    BY <1>1, <1>2 DEF Product
  <2>3. other(r) \in c <=> r \in b
    BY <1>2
  <2> QED BY <1>3, <2>1, <2>2, <2>3
<1>5. Product(rows, q) = b
  <2>1. Product(rows, q) \subseteq Rows
    BY <1>1 DEF Product
  <2> QED BY <1>4, <2>1
<1> QED BY <1>5 DEF Reaches

LEMMA ClearKeepsOnto ==
    ASSUME NEW rows \in Matrices, NEW cleared \in Matrices, NEW k \in Rows,
           NEW D \in SUBSET (Rows \ {k}),
           cleared = [r \in Rows |-> IF r \in D THEN Xor(rows[r], rows[k]) ELSE rows[r]],
           Onto(cleared)
    PROVE  Onto(rows)
<1> SUFFICES ASSUME NEW b \in SUBSET Rows PROVE Reaches(rows, b)
  BY DEF Onto
<1>1. DOMAIN rows = Rows /\ DOMAIN cleared = Rows
  BY DEF Matrices, Rows
<1> DEFINE c == {r \in Rows : IF r \in D THEN ~(r \in b <=> k \in b) ELSE r \in b}
<1>2. PICK q \in Identities : Product(cleared, q) = c
  BY DEF Onto, Reaches
<1>3. IsFiniteSet(q)
  BY FiniteIdentities
<1>4. \A r \in Rows : /\ r \in Product(rows, q) <=> Odd(rows[r] \cap q)
                      /\ r \in Product(cleared, q) <=> Odd(cleared[r] \cap q)
  BY <1>1 DEF Product
<1>5. k \in Product(rows, q) <=> k \in b
  <2>1. cleared[k] = rows[k] /\ (k \in c <=> k \in b)
    OBVIOUS
  <2> QED BY <1>2, <1>4, <2>1
<1>6. ASSUME NEW r \in Rows PROVE r \in Product(rows, q) <=> r \in b
  <2>1. CASE r \in D
    <3>1. r \in c <=> ~(r \in b <=> k \in b)
      BY <2>1
    <3>2. Odd(cleared[r] \cap q) <=> ~(Odd(rows[r] \cap q) <=> Odd(rows[k] \cap q))
      BY <1>3, <2>1, XorInside
    <3> QED BY <1>2, <1>4, <1>5, <3>1, <3>2
  <2>2. CASE r \notin D
    <3>1. cleared[r] = rows[r] /\ (r \in c <=> r \in b)
      BY <2>2
    <3> QED BY <1>2, <1>4, <3>1
  <2> QED BY <2>1, <2>2
<1>7. Product(rows, q) = b
  <2>1. Product(rows, q) \subseteq Rows
    BY <1>1 DEF Product
  <2> QED BY <1>6, <2>1
<1> QED BY <1>7 DEF Reaches

(* One turn of the loop.                                                   *)
LEMMA EliminationStep ==
    ASSUME NEW s, Echelon(s), NEW col \in 0..IdentityBits-1
    PROVE  /\ Echelon(EliminateColumn(s, col))
           /\ Onto(EliminateColumn(s, col).rows) => Onto(s.rows)
<1> DEFINE pivots == {r \in DOMAIN s.rows : r >= s.rank /\ col \in s.rows[r]}
<1> DEFINE p == Min(pivots)
<1> DEFINE swapped == [s.rows EXCEPT ![s.rank] = s.rows[p], ![p] = s.rows[s.rank]]
<1> DEFINE cleared == [r \in DOMAIN s.rows |->
                          IF r # s.rank /\ col \in swapped[r]
                          THEN Xor(swapped[r], swapped[s.rank]) ELSE swapped[r]]
<1>1. EliminateColumn(s, col) =
          IF pivots = {} THEN s ELSE [rows |-> cleared, rank |-> s.rank + 1]
  BY DEF EliminateColumn
<1>2. CASE pivots = {}
  BY <1>1, <1>2
<1>3. CASE pivots # {}
  <2>1. /\ DOMAIN s.rows = Rows /\ s.rows \in [Rows -> Identities]
        /\ s.rank \in 0..LocalBits /\ LocalBits \in Nat
    BY Widths DEF Echelon, Matrices, Rows
  <2>2. p \in pivots
    <3>1. pivots \in SUBSET Nat
      BY <2>1 DEF Rows
    <3>2. \E m \in pivots : \A k \in pivots : m <= k
      <4> HIDE DEF pivots
      <4> QED BY <1>3, <3>1, LeastElement
    <3> QED BY <3>2 DEF Min
  <2> HIDE DEF p
  <2>3. p \in Rows /\ p >= s.rank /\ col \in s.rows[p] /\ s.rank \in Rows
    BY <2>1, <2>2 DEF Rows
  <2>4. /\ swapped \in [Rows -> Identities]
        /\ swapped[s.rank] = s.rows[p]
        /\ \A r \in Rows : r # s.rank /\ r # p => swapped[r] = s.rows[r]
        /\ swapped[p] = s.rows[s.rank]
    BY <2>1, <2>3
  <2> HIDE DEF pivots
  <2>5. cleared \in [Rows -> Identities]
    <3>1. \A a, b \in Identities : Xor(a, b) \in Identities
      BY DEF Xor, Identities
    <3> HIDE DEF swapped
    <3> QED BY <2>1, <2>3, <2>4, <3>1
  <2>6. Onto(cleared) => Onto(s.rows)
    <3>1. s.rows \in Matrices /\ swapped \in Matrices /\ cleared \in Matrices
      BY <2>1, <2>4, <2>5 DEF Matrices, Rows
    <3>2. Onto(swapped) => Onto(s.rows)
      BY <2>3, <3>1, SwapKeepsOnto
    <3> DEFINE D == {r \in Rows : r # s.rank /\ col \in swapped[r]}
    <3>3. D \in SUBSET (Rows \ {s.rank})
      OBVIOUS
    <3>4. cleared = [r \in Rows |-> IF r \in D THEN Xor(swapped[r], swapped[s.rank])
                                               ELSE swapped[r]]
      BY <2>1
    <3>5. Onto(cleared) => Onto(swapped)
      <4> HIDE DEF D, swapped, cleared
      <4> QED BY <2>3, <3>1, <3>3, <3>4, ClearKeepsOnto
    <3> HIDE DEF cleared, swapped
    <3> QED BY <3>2, <3>5
  <2>7. PICK piv : Pivots(s, piv)
    BY DEF Echelon
  <2> DEFINE t == [rows |-> cleared, rank |-> s.rank + 1]
  <2> DEFINE next == [r \in 0..s.rank |-> IF r = s.rank THEN col ELSE piv[r]]
  <2>8. /\ piv \in [0..s.rank-1 -> 0..IdentityBits-1]
        /\ \A r \in 0..s.rank-1, other \in Rows : piv[r] \in s.rows[other] <=> other = r
    BY <2>7 DEF Pivots
  <2>9. next \in [0..s.rank -> 0..IdentityBits-1]
    BY <2>1, <2>8
  <2>10. ASSUME NEW other \in Rows PROVE col \in cleared[other] <=> other = s.rank
    <3>1. col \in swapped[s.rank]
      BY <2>3, <2>4
    <3>2. cleared[other] = IF other # s.rank /\ col \in swapped[other]
                           THEN Xor(swapped[other], swapped[s.rank]) ELSE swapped[other]
      BY <2>1
    <3> HIDE DEF swapped, cleared
    <3> QED BY <3>1, <3>2 DEF Xor
  <2>11. ASSUME NEW r \in 0..s.rank-1, NEW other \in Rows
         PROVE  piv[r] \in cleared[other] <=> other = r
    <3>1. r # s.rank /\ r # p /\ r \in Rows
      BY <2>1, <2>3 DEF Rows
    <3>2. \A o \in Rows : piv[r] \in swapped[o] <=> o = r
      <4> SUFFICES ASSUME NEW o \in Rows PROVE piv[r] \in swapped[o] <=> o = r
        OBVIOUS
      <4>1. piv[r] \notin s.rows[p] /\ piv[r] \notin s.rows[s.rank]
        BY <2>3, <2>8, <3>1
      <4> HIDE DEF swapped
      <4> QED BY <2>4, <2>8, <3>1, <4>1
    <3>3. piv[r] \notin swapped[s.rank]
      BY <2>3, <3>1, <3>2
    <3>4. cleared[other] = IF other # s.rank /\ col \in swapped[other]
                           THEN Xor(swapped[other], swapped[s.rank]) ELSE swapped[other]
      BY <2>1
    <3> HIDE DEF swapped, cleared
    <3> QED BY <3>2, <3>3, <3>4 DEF Xor
  <2>12. Pivots(t, next)
    <3>1. (s.rank + 1) - 1 = s.rank
      BY <2>1
    <3>2. \A r \in 0..s.rank : r = s.rank \/ r \in 0..s.rank-1
      BY <2>1
    <3>3. \A r \in 0..s.rank, other \in Rows : next[r] \in cleared[other] <=> other = r
      <4> HIDE DEF cleared
      <4> QED BY <2>10, <2>11, <3>2
    <3>4. t.rows = cleared /\ t.rank - 1 = s.rank
      BY <3>1
    <3> HIDE DEF cleared, next, t
    <3> QED BY <2>9, <3>3, <3>4 DEF Pivots
  <2>13. Echelon(t)
    <3>1. t.rank \in 0..LocalBits
      BY <2>1, <2>3 DEF Rows
    <3>2. t.rows \in Matrices
      BY <2>5 DEF Matrices, Rows
    <3> HIDE DEF t
    <3> QED BY <2>12, <3>1, <3>2 DEF Echelon
  <2>14. EliminateColumn(s, col) = t
    BY <1>1, <1>3
  <2>15. t.rows = cleared
    OBVIOUS
  <2> HIDE DEF t, cleared
  <2> QED BY <2>6, <2>13, <2>14, <2>15
<1> QED BY <1>2, <1>3

(* The whole loop, one column after the other.                             *)
Eliminations(matrix, f, N) ==
    f = [c \in 0..N |-> IF c = 0 THEN [rows |-> matrix, rank |-> 0]
                        ELSE EliminateColumn(f[c - 1], c - 1)]

LEMMA EliminationsExist ==
    ASSUME NEW matrix, NEW N \in Nat
    PROVE  \E f : Eliminations(matrix, f, N)
<1> DEFINE start == [rows |-> matrix, rank |-> 0]
<1> DEFINE Defined == {n \in Nat : \E f : Eliminations(matrix, f, n)}
<1>1. 0 \in Defined
  <2> DEFINE f == [c \in 0..0 |-> start]
  <2>1. f = [c \in 0..0 |-> IF c = 0 THEN start ELSE EliminateColumn(f[c - 1], c - 1)]
    OBVIOUS
  <2> QED BY <2>1 DEF Eliminations
<1>2. ASSUME NEW m \in Nat, m \in Defined PROVE m + 1 \in Defined
  <2>1. PICK f : Eliminations(matrix, f, m)
    BY <1>2
  <2>2. \A c \in 0..m : f[c] = IF c = 0 THEN start ELSE EliminateColumn(f[c - 1], c - 1)
    BY <2>1 DEF Eliminations
  <2> DEFINE g == [c \in 0..m+1 |-> IF c = m + 1 THEN EliminateColumn(f[m], m) ELSE f[c]]
  <2>3. \A c \in 0..m : g[c] = f[c]
    OBVIOUS
  <2>4. g[m + 1] = EliminateColumn(f[m], m)
    OBVIOUS
  <2>5. g = [c \in 0..m+1 |-> g[c]]
    OBVIOUS
  <2> HIDE DEF g, start
  <2>6. \A c \in 0..m+1 : g[c] = IF c = 0 THEN start ELSE EliminateColumn(g[c - 1], c - 1)
    <3> TAKE c \in 0..m+1
    <3>1. CASE c = m + 1
      <4>1. c - 1 = m /\ c # 0 /\ g[m] = f[m]
        BY <2>3, <3>1
      <4> QED BY <2>4, <3>1, <4>1
    <3>2. CASE c \in 1..m
      <4>1. c - 1 \in 0..m /\ c \in 0..m /\ c # 0
        BY <3>2
      <4> QED BY <2>2, <2>3, <4>1
    <3>3. CASE c = 0
      BY <2>2, <2>3, <3>3
    <3> QED BY <3>1, <3>2, <3>3
  <2>7. Eliminations(matrix, g, m + 1)
    BY <2>5, <2>6 DEF Eliminations, start
  <2> QED BY <2>7
<1>3. Nat \subseteq Defined
  <2> HIDE DEF Defined
  <2> QED BY <1>1, <1>2, SetInduction
<1> QED BY <1>3

LEMMA EliminationEnds ==
    ASSUME NEW matrix \in Matrices
    PROVE  LET end == Eliminate(matrix, IdentityBits)
           IN  Echelon(end) /\ (Onto(end.rows) => Onto(matrix))
<1> DEFINE n == IdentityBits
<1> DEFINE f == CHOOSE f : Eliminations(matrix, f, n)
<1>1. n \in Nat
  BY Widths
<1>2. Eliminations(matrix, f, n)
  BY <1>1, EliminationsExist
<1>3. Eliminate(matrix, n) = f[n]
  BY DEF Eliminate, Eliminations
<1> HIDE DEF f
<1>4. \A c \in 0..n : f[c] = IF c = 0 THEN [rows |-> matrix, rank |-> 0]
                             ELSE EliminateColumn(f[c - 1], c - 1)
  BY <1>2 DEF Eliminations
<1> DEFINE Good == {c \in Nat : c <= n => Echelon(f[c]) /\ (Onto(f[c].rows) => Onto(matrix))}
<1>5. 0 \in Good
  <2>1. f[0] = [rows |-> matrix, rank |-> 0]
    BY <1>1, <1>4
  <2>2. f[0].rows = matrix /\ f[0].rank = 0
    BY <2>1
  <2>3. Pivots(f[0], [r \in {} |-> 0])
    <3>1. 0..0-1 = {} /\ [r \in {} |-> 0] \in [{} -> 0..IdentityBits-1]
      OBVIOUS
    <3> QED BY <2>2, <3>1 DEF Pivots
  <2>4. Echelon(f[0])
    BY <2>2, <2>3, Widths DEF Echelon
  <2> QED BY <2>2, <2>4
<1>6. ASSUME NEW c \in Nat, c \in Good PROVE c + 1 \in Good
  <2> SUFFICES ASSUME c + 1 <= n
               PROVE  Echelon(f[c + 1]) /\ (Onto(f[c + 1].rows) => Onto(matrix))
    OBVIOUS
  <2>1. Echelon(f[c]) /\ (Onto(f[c].rows) => Onto(matrix))
    BY <1>1, <1>6
  <2>2. c \in 0..n-1 /\ c + 1 \in 0..n /\ c + 1 # 0 /\ (c + 1) - 1 = c
    BY <1>1
  <2>3. f[c + 1] = EliminateColumn(f[c], c)
    BY <1>4, <2>2
  <2> QED BY <2>1, <2>2, <2>3, EliminationStep
<1>7. Nat \subseteq Good
  <2> HIDE DEF Good
  <2> QED BY <1>5, <1>6, SetInduction
<1>8. Echelon(f[n]) /\ (Onto(f[n].rows) => Onto(matrix))
  BY <1>1, <1>7
<1> QED BY <1>3, <1>8

(* Full rank by gf2_rank is reaching every bucket.                         *)
LEMMA FullRankOnto ==
    ASSUME NEW matrix \in Matrices, FullRank(matrix)
    PROVE  Onto(matrix)
<1> DEFINE end == Eliminate(matrix, IdentityBits)
<1>1. Echelon(end) /\ (Onto(end.rows) => Onto(matrix)) /\ end.rank = LocalBits
  BY EliminationEnds DEF FullRank, gf2_rank
<1> HIDE DEF end
<1>2. PICK piv : Pivots(end, piv)
  BY <1>1 DEF Echelon
<1>3. /\ piv \in [Rows -> 0..IdentityBits-1]
      /\ \A r \in Rows, other \in Rows : piv[r] \in end.rows[other] <=> other = r
  BY <1>1, <1>2 DEF Pivots, Rows
<1>4. DOMAIN end.rows = Rows
  BY <1>1 DEF Echelon, Matrices, Rows
<1>5. ASSUME NEW b \in SUBSET Rows PROVE Reaches(end.rows, b)
  <2> DEFINE q == {piv[r] : r \in b}
  <2>1. q \in Identities
    BY <1>3 DEF Identities
  <2>2. ASSUME NEW other \in Rows PROVE Odd(end.rows[other] \cap q) <=> other \in b
    <3>1. CASE other \in b
      <4>1. end.rows[other] \cap q = {piv[other]}
        BY <1>3, <3>1
      <4> QED BY <3>1, <4>1, OddFew
    <3>2. CASE other \notin b
      <4>1. end.rows[other] \cap q = {}
        BY <1>3, <3>2
      <4> QED BY <3>2, <4>1, OddFew
    <3> QED BY <3>1, <3>2
  <2>3. Product(end.rows, q) = b
    <3> HIDE DEF q
    <3> QED BY <1>4, <2>2 DEF Product
  <2> QED BY <2>1, <2>3 DEF Reaches
<1> QED BY <1>1, <1>5 DEF Onto

(* So do the structured views, whose rows have no digit in common.         *)
LEMMA StructuredOnto == ASSUME NEW k \in 0..6 PROVE Onto(StructuredView(k))
<1> DEFINE matrix == StructuredView(k)
<1>1. coefficient_rows[k] \subseteq 0..3 /\ coefficient_rows[k] # {}
  BY DEF coefficient_rows
<1>2. PICK block \in 0..3 : block \in coefficient_rows[k]
  BY <1>1
<1>3. /\ DOMAIN matrix = Rows
      /\ \A r \in Rows : matrix[r] = {c * LocalBits + r : c \in coefficient_rows[k]}
  BY DEF StructuredView, Rows
<1>4. ASSUME NEW c \in 0..3, NEW r \in Rows
      PROVE  c * LocalBits + r \in 0..IdentityBits-1 /\ (c * LocalBits + r) % LocalBits = r
             /\ (c * LocalBits + r) \div LocalBits = c
  <2>1. LocalBits \in Nat \ {0} /\ 4 \in Nat /\ c \in 0..4-1 /\ r \in 0..LocalBits-1
    BY Widths DEF Rows
  <2> QED BY <2>1, PlaceOf DEF IdentityBits
<1> HIDE DEF matrix
<1>5. ASSUME NEW b \in SUBSET Rows PROVE Reaches(matrix, b)
  <2> DEFINE q == {block * LocalBits + r : r \in b}
  <2>1. q \in Identities
    BY <1>4 DEF Identities
  <2>2. ASSUME NEW r \in Rows PROVE Odd(matrix[r] \cap q) <=> r \in b
    <3>1. ASSUME NEW x \in matrix[r] \cap q PROVE x = block * LocalBits + r /\ r \in b
      <4>1. PICK c \in 0..3 : x = c * LocalBits + r
        BY <1>1, <1>3
      <4>2. PICK s \in b : x = block * LocalBits + s
        OBVIOUS
      <4>3. x % LocalBits = r
        BY <1>4, <4>1
      <4>4. x % LocalBits = s
        BY <1>4, <4>2
      <4> QED BY <4>2, <4>3, <4>4
    <3>2. CASE r \in b
      <4>1. block * LocalBits + r \in matrix[r] /\ block * LocalBits + r \in q
        BY <1>2, <1>3, <3>2
      <4>2. matrix[r] \cap q = {block * LocalBits + r}
        <5> HIDE DEF q
        <5> QED BY <3>1, <4>1
      <4> QED BY <3>2, <4>2, OddFew
    <3>3. CASE r \notin b
      <4>1. matrix[r] \cap q = {}
        <5> HIDE DEF q
        <5> QED BY <3>1, <3>3
      <4> QED BY <3>3, <4>1, OddFew
    <3> QED BY <3>2, <3>3
  <2>3. Product(matrix, q) = b
    <3> HIDE DEF q
    <3> QED BY <1>3, <2>2 DEF Product
  <2> QED BY <2>1, <2>3 DEF Reaches
<1> QED BY <1>5 DEF Onto, matrix

(* Multiplication is linear, so that buckets reached are reached equally.  *)
LEMMA ProductLinear ==
    ASSUME NEW matrix \in Matrices, NEW q \in Identities, NEW x \in Identities
    PROVE  /\ Xor(q, x) \in Identities
           /\ Product(matrix, Xor(q, x)) = Xor(Product(matrix, q), Product(matrix, x))
<1>1. Xor(q, x) \in Identities
  BY DEF Xor, Identities
<1>2. DOMAIN matrix = Rows
  BY DEF Matrices, Rows
<1>3. ASSUME NEW r \in Rows
      PROVE  Odd(matrix[r] \cap Xor(q, x)) <=> ~(Odd(matrix[r] \cap q) <=> Odd(matrix[r] \cap x))
  <2>1. IsFiniteSet(matrix[r])
    <3>1. matrix[r] \in Identities
      BY FiniteIdentities
    <3> QED BY <3>1, Widths, FS_Subset DEF Identities
  <2>2. /\ matrix[r] \cap Xor(q, x) = Xor(q, x) \cap matrix[r]
        /\ matrix[r] \cap q = q \cap matrix[r]
        /\ matrix[r] \cap x = x \cap matrix[r]
    OBVIOUS
  <2> QED BY <2>1, <2>2, XorInside
<1>4. Product(matrix, Xor(q, x)) = Xor(Product(matrix, q), Product(matrix, x))
  BY <1>2, <1>3 DEF Product, Xor
<1> QED BY <1>1, <1>4

FiberOf(matrix, b) == {q \in Identities : Product(matrix, q) = b}

LEMMA IdentitiesFinite ==
    /\ IsFiniteSet(Identities) /\ Cardinality(Identities) = 2^IdentityBits
    /\ IsFiniteSet(SUBSET Rows) /\ Cardinality(SUBSET Rows) = 2^LocalBits
    /\ \A matrix, b : IsFiniteSet(FiberOf(matrix, b)) /\ Cardinality(FiberOf(matrix, b)) \in Nat
<1>1. ASSUME NEW n \in Nat \ {0} PROVE IsFiniteSet(0..n-1) /\ Cardinality(0..n-1) = n
  <2>1. 0 \in Int /\ n - 1 \in Int /\ (IF 0 > n - 1 THEN 0 ELSE (n - 1) - 0 + 1) = n
    OBVIOUS
  <2> QED BY <2>1, FS_Interval
<1>2. IsFiniteSet(Identities) /\ Cardinality(Identities) = 2^IdentityBits
  BY <1>1, Widths, FS_SUBSET DEF Identities
<1>3. IsFiniteSet(SUBSET Rows) /\ Cardinality(SUBSET Rows) = 2^LocalBits
  BY <1>1, Widths, FS_SUBSET DEF Rows
<1>4. ASSUME NEW matrix, NEW b
      PROVE  IsFiniteSet(FiberOf(matrix, b)) /\ Cardinality(FiberOf(matrix, b)) \in Nat
  <2>1. FiberOf(matrix, b) \in SUBSET Identities
    BY DEF FiberOf
  <2> QED BY <1>2, <2>1, FS_Subset, FS_CardinalityType
<1> QED BY <1>2, <1>3, <1>4

LEMMA XorTwice == \A a, b : Xor(Xor(a, b), b) = a /\ Xor({}, b) = b /\ Xor(b, b) = {}
  BY DEF Xor

(* An identity of the bucket, added, turns the fiber of zero into its own. *)
LEMMA FibersAlike ==
    ASSUME NEW matrix \in Matrices, Onto(matrix), NEW b \in SUBSET Rows
    PROVE  Cardinality(FiberOf(matrix, b)) = Cardinality(FiberOf(matrix, {}))
<1>1. PICK x \in Identities : Product(matrix, x) = b
  BY DEF Onto, Reaches
<1> DEFINE f == [q \in FiberOf(matrix, {}) |-> Xor(q, x)]
<1>2. ASSUME NEW q \in FiberOf(matrix, {}) PROVE Xor(q, x) \in FiberOf(matrix, b)
  BY <1>1, ProductLinear, XorTwice DEF FiberOf
<1>3. ASSUME NEW t \in FiberOf(matrix, b)
      PROVE  Xor(t, x) \in FiberOf(matrix, {}) /\ Xor(Xor(t, x), x) = t
  BY <1>1, ProductLinear, XorTwice DEF FiberOf
<1>4. \A q, o \in FiberOf(matrix, {}) : Xor(q, x) = Xor(o, x) => q = o
  <2>1. \A q, o : Xor(q, x) = Xor(o, x) => Xor(Xor(q, x), x) = Xor(Xor(o, x), x)
    OBVIOUS
  <2> QED BY <2>1, XorTwice
<1>5. f \in Bijection(FiberOf(matrix, {}), FiberOf(matrix, b))
  <2>1. f \in [FiberOf(matrix, {}) -> FiberOf(matrix, b)]
    BY <1>2
  <2>2. \A t \in FiberOf(matrix, b) : \E q \in FiberOf(matrix, {}) : f[q] = t
    BY <1>3
  <2>3. \A q, o \in FiberOf(matrix, {}) : f[q] = f[o] => q = o
    BY <1>4
  <2>4. DOMAIN f = FiberOf(matrix, {})
    OBVIOUS
  <2> HIDE DEF f
  <2> QED BY <2>1, <2>2, <2>3, <2>4 DEF Bijection, Injection, Surjection, IsInjective
<1>6. ExistsBijection(FiberOf(matrix, {}), FiberOf(matrix, b))
  <2> HIDE DEF f
  <2> QED BY <1>5 DEF ExistsBijection
<1> QED BY <1>6, IdentitiesFinite, FS_Bijection

(* All fibers together are the identities.                                 *)
LEMMA FibersTogether ==
    ASSUME NEW matrix \in Matrices, Onto(matrix)
    PROVE  2^IdentityBits = 2^LocalBits * Cardinality(FiberOf(matrix, {}))
<1> DEFINE K == FiberOf(matrix, {})
<1> DEFINE x == [b \in SUBSET Rows |-> CHOOSE q \in Identities : Product(matrix, q) = b]
<1>1. ASSUME NEW b \in SUBSET Rows PROVE x[b] \in Identities /\ Product(matrix, x[b]) = b
  BY DEF Onto, Reaches
<1> HIDE DEF x
<1> DEFINE Pairs == (SUBSET Rows) \X K
<1> DEFINE f == [pair \in Pairs |-> Xor(pair[2], x[pair[1]])]
<1>2. ASSUME NEW b \in SUBSET Rows, NEW q \in K
      PROVE  Xor(q, x[b]) \in Identities /\ Product(matrix, Xor(q, x[b])) = b
  BY <1>1, ProductLinear, XorTwice DEF FiberOf
<1>3. f \in [Pairs -> Identities]
  <2>1. ASSUME NEW pair \in Pairs PROVE Xor(pair[2], x[pair[1]]) \in Identities
    <3>1. pair[1] \in SUBSET Rows /\ pair[2] \in K
      OBVIOUS
    <3> HIDE DEF K
    <3> QED BY <1>2, <3>1
  <2> HIDE DEF Pairs
  <2> QED BY <2>1
<1>4. ASSUME NEW c \in Pairs, NEW d \in Pairs, f[c] = f[d] PROVE c = d
  <2>1. /\ c[1] \in SUBSET Rows /\ c[2] \in K /\ d[1] \in SUBSET Rows /\ d[2] \in K
        /\ c = <<c[1], c[2]>> /\ d = <<d[1], d[2]>>
    OBVIOUS
  <2>2. Xor(c[2], x[c[1]]) = Xor(d[2], x[d[1]])
    BY <1>4
  <2> HIDE DEF K, Pairs, f
  <2>3. c[1] = d[1]
    BY <1>2, <2>1, <2>2
  <2>4. c[2] = d[2]
    <3>1. Xor(Xor(c[2], x[c[1]]), x[c[1]]) = Xor(Xor(d[2], x[d[1]]), x[c[1]])
      BY <2>2
    <3> QED BY <2>3, <3>1, XorTwice
  <2> QED BY <2>1, <2>3, <2>4
<1>5. ASSUME NEW t \in Identities PROVE \E pair \in Pairs : f[pair] = t
  <2> DEFINE b == Product(matrix, t)
  <2> DEFINE q == Xor(t, x[b])
  <2>1. b \in SUBSET Rows
    BY DEF Product, Matrices, Rows
  <2>2. q \in K
    <3> HIDE DEF b
    <3>1. Product(matrix, t) = b
      BY DEF b
    <3> QED BY <1>1, <2>1, <3>1, ProductLinear, XorTwice DEF FiberOf
  <2>3. Xor(q, x[b]) = t
    <3> HIDE DEF b
    <3> QED BY XorTwice
  <2> HIDE DEF b, q
  <2>4. <<b, q>> \in Pairs
    BY <2>1, <2>2
  <2>5. f[<<b, q>>] = Xor(q, x[b])
    BY <2>4
  <2> HIDE DEF f, Pairs
  <2> QED BY <2>3, <2>4, <2>5
<1>6. ExistsBijection(Pairs, Identities)
  <2>1. DOMAIN f = Pairs
    OBVIOUS
  <2> HIDE DEF f, Pairs
  <2>2. f \in Bijection(Pairs, Identities)
    BY <1>3, <1>4, <1>5, <2>1 DEF Bijection, Injection, Surjection, IsInjective
  <2> QED BY <2>2 DEF ExistsBijection
<1>7. IsFiniteSet(Pairs) /\ Cardinality(Pairs) = 2^LocalBits * Cardinality(K)
  <2> HIDE DEF K
  <2>1. IsFiniteSet(K)
    BY IdentitiesFinite DEF K
  <2> QED BY <2>1, IdentitiesFinite, FS_Product
<1>8. Cardinality(Identities) = Cardinality(Pairs)
  <2> HIDE DEF Pairs
  <2> QED BY <1>6, <1>7, FS_Bijection
<1> QED BY <1>7, <1>8, IdentitiesFinite

(* Subsets of two disjoint sets are chosen independently.                  *)
LEMMA PowersMultiply ==
    ASSUME NEW m \in Nat, NEW n \in Nat
    PROVE  2^(m + n) = 2^m * 2^n
<1> DEFINE A == 1..m
<1> DEFINE B == m+1..m+n
<1>1. IsFiniteSet(A) /\ Cardinality(A) = m
  BY FS_Interval
<1>2. IsFiniteSet(B) /\ Cardinality(B) = n
  <2>1. m + 1 \in Int /\ m + n \in Int /\ (IF m + 1 > m + n THEN 0 ELSE (m + n) - (m + 1) + 1) = n
    OBVIOUS
  <2>2. \A a, b \in Int : IsFiniteSet(a..b) /\ Cardinality(a..b) = IF a > b THEN 0 ELSE b - a + 1
    BY FS_Interval
  <2> QED BY <2>1, <2>2
<1>3. IsFiniteSet(1..m+n) /\ Cardinality(1..m+n) = m + n
  <2>1. m + n \in Nat
    OBVIOUS
  <2> QED BY <2>1, FS_Interval
<1>4. A \cup B = 1..m+n /\ A \cap B = {}
  OBVIOUS
<1> HIDE DEF A, B
<1> DEFINE Pairs == (SUBSET A) \X (SUBSET B)
<1> DEFINE f == [pair \in Pairs |-> pair[1] \cup pair[2]]
<1>5. f \in [Pairs -> SUBSET (A \cup B)]
  OBVIOUS
<1>6. ASSUME NEW c \in Pairs, NEW d \in Pairs, f[c] = f[d] PROVE c = d
  <2>1. c[1] \cup c[2] = d[1] \cup d[2] /\ c = <<c[1], c[2]>> /\ d = <<d[1], d[2]>>
        /\ c[1] \subseteq A /\ c[2] \subseteq B /\ d[1] \subseteq A /\ d[2] \subseteq B
    BY <1>6
  <2>2. c[1] = d[1] /\ c[2] = d[2]
    BY <1>4, <2>1
  <2> QED BY <2>1, <2>2
<1>7. ASSUME NEW t \in SUBSET (A \cup B) PROVE \E pair \in Pairs : f[pair] = t
  <2>1. <<t \cap A, t \cap B>> \in Pairs /\ (t \cap A) \cup (t \cap B) = t
    OBVIOUS
  <2> QED BY <2>1
<1>8. ExistsBijection(Pairs, SUBSET (A \cup B))
  <2>1. DOMAIN f = Pairs
    OBVIOUS
  <2> HIDE DEF f, Pairs
  <2>2. f \in Bijection(Pairs, SUBSET (A \cup B))
    BY <1>5, <1>6, <1>7, <2>1 DEF Bijection, Injection, Surjection, IsInjective
  <2> QED BY <2>2 DEF ExistsBijection
<1>9. IsFiniteSet(Pairs) /\ Cardinality(Pairs) = 2^m * 2^n
  <2>1. IsFiniteSet(SUBSET A) /\ Cardinality(SUBSET A) = 2^m
    BY <1>1, FS_SUBSET
  <2>2. IsFiniteSet(SUBSET B) /\ Cardinality(SUBSET B) = 2^n
    BY <1>2, FS_SUBSET
  <2>3. IsFiniteSet(Pairs) /\ Cardinality(Pairs) = Cardinality(SUBSET A) * Cardinality(SUBSET B)
    BY <2>1, <2>2, FS_Product
  <2> HIDE DEF Pairs
  <2> QED BY <2>1, <2>2, <2>3
<1>10. Cardinality(SUBSET (A \cup B)) = Cardinality(Pairs)
  <2> HIDE DEF Pairs
  <2> QED BY <1>8, <1>9, FS_Bijection
<1>11. Cardinality(SUBSET (A \cup B)) = 2^(m + n)
  BY <1>3, <1>4, FS_SUBSET
<1> QED BY <1>9, <1>10, <1>11

(* Every bucket of every view gets the same share of the identities.       *)
LEMMA OntoBalanced ==
    ASSUME NEW matrix \in Matrices, Onto(matrix), NEW b \in SUBSET Rows
    PROVE  Cardinality(FiberOf(matrix, b)) = 2^(IdentityBits - LocalBits)
<1> DEFINE x == 2^LocalBits
<1> DEFINE y == 2^(IdentityBits - LocalBits)
<1> DEFINE c == Cardinality(FiberOf(matrix, {}))
<1>1. IdentityBits - LocalBits \in Nat /\ IdentityBits = LocalBits + (IdentityBits - LocalBits)
  BY Widths DEF IdentityBits
<1>2. 2^IdentityBits = x * y
  <2> DEFINE w == IdentityBits - LocalBits
  <2>1. w \in Nat /\ LocalBits \in Nat /\ LocalBits + w = IdentityBits
    BY <1>1, Widths
  <2> HIDE DEF w
  <2>2. 2^(LocalBits + w) = 2^LocalBits * 2^w
    BY <2>1, PowersMultiply
  <2> QED BY <2>1, <2>2 DEF w
<1>3. 2^IdentityBits = x * c
  BY FibersTogether
<1>4. x \in Nat \ {0} /\ y \in Nat /\ c \in Nat
  BY <1>1, SlotCount, PowerOfTwo, IdentitiesFinite
<1>5. x * c = x * y
  BY <1>2, <1>3
<1>6. Cardinality(FiberOf(matrix, b)) = c
  BY FibersAlike
<1> HIDE DEF x, y, c
<1>7. ASSUME NEW g \in Nat, NEW h \in Nat, g < h PROVE x * g < x * h
  BY <1>4, <1>7
<1>8. ~(c < y) /\ ~(y < c)
  <2>1. x * c \in Nat /\ x * y \in Nat
    BY <1>4
  <2> QED BY <1>4, <1>5, <1>7, <2>1
<1>9. c = y
  BY <1>4, <1>8
<1> QED BY <1>6, <1>9 DEF y

(* The engine's views spread the identities evenly over their buckets,     *)
(* whatever full-rank matrices the generator yields.                       *)
THEOREM EveryBucketAlike == Spec => []BucketsBalanced
<1>1. engine \in Plans => BucketsBalanced
  <2> SUFFICES ASSUME engine \in Plans, NEW v \in ViewIndices, NEW b \in Buckets
               PROVE  Cardinality({q \in Identities : hash_ids(engine.views[v], q) = b})
                          = 2^(IdentityBits - LocalBits)
    BY DEF BucketsBalanced
  <2> DEFINE matrix == engine.views[v]
  <2>1. /\ matrix \in Matrices /\ matrix \in ViewMatrices
        /\ (\E k \in 0..6 : matrix = StructuredView(k)) \/ FullRank(matrix)
    BY ViewsOfPlan
  <2> HIDE DEF matrix
  <2>2. Onto(matrix)
    BY <2>1, StructuredOnto, FullRankOnto
  <2>3. {q \in Identities : hash_ids(matrix, q) = b} = FiberOf(matrix, b)
    BY <2>1, HashIsProduct DEF FiberOf
  <2>4. b \in SUBSET Rows
    BY DEF Buckets, Indices, Rows
  <2>5. Cardinality(FiberOf(matrix, b)) = 2^(IdentityBits - LocalBits)
    BY <2>1, <2>2, <2>4, OntoBalanced
  <2> QED BY <2>3, <2>5 DEF matrix
<1> QED BY <1>1, EnginePlanned, PTL

-----------------------------------------------------------------------------
(* SumFunctionOnSet adds the members of a finite set in any order.         *)
AddsUp(f, g, S) ==
    g = [s \in SUBSET S |-> IF s = {} THEN 0
                            ELSE f[CHOOSE x \in s : TRUE] + g[s \ {CHOOSE x \in s : TRUE}]]

Smaller(S, n) == {s \in SUBSET S : Cardinality(s) <= n}

LEMMA SmallerSets ==
    ASSUME NEW S, IsFiniteSet(S), NEW s \in SUBSET S
    PROVE  /\ IsFiniteSet(s) /\ Cardinality(s) \in Nat /\ Cardinality(s) <= Cardinality(S)
           /\ Cardinality(s) = 0 <=> s = {}
           /\ \A x \in s : Cardinality(s \ {x}) = Cardinality(s) - 1
<1>1. IsFiniteSet(s) /\ Cardinality(s) \in Nat /\ Cardinality(s) <= Cardinality(S)
  BY FS_Subset, FS_CardinalityType
<1>2. Cardinality(s) = 0 <=> s = {}
  BY <1>1, FS_EmptySet
<1>3. ASSUME NEW x \in s PROVE Cardinality(s \ {x}) = Cardinality(s) - 1
  BY <1>1, FS_RemoveElement
<1> QED BY <1>1, <1>2, <1>3

LEMMA SumExists == ASSUME NEW f, NEW S, IsFiniteSet(S) PROVE \E g : AddsUp(f, g, S)
<1> DEFINE pick(s) == CHOOSE x \in s : TRUE
<1> DEFINE Defined == {n \in Nat : \E g : g =
              [s \in Smaller(S, n) |-> IF s = {} THEN 0 ELSE f[pick(s)] + g[s \ {pick(s)}]]}
<1>0. \A s : s # {} => pick(s) \in s
  OBVIOUS
<1>1. 0 \in Defined
  <2> DEFINE g == [s \in Smaller(S, 0) |-> 0]
  <2>1. \A s \in Smaller(S, 0) : s = {}
    BY SmallerSets DEF Smaller
  <2>2. g = [s \in Smaller(S, 0) |-> IF s = {} THEN 0 ELSE f[pick(s)] + g[s \ {pick(s)}]]
    BY <2>1
  <2> QED BY <2>2
<1>2. ASSUME NEW n \in Nat, n \in Defined PROVE n + 1 \in Defined
  <2>1. PICK g : g = [s \in Smaller(S, n) |-> IF s = {} THEN 0 ELSE f[pick(s)] + g[s \ {pick(s)}]]
    BY <1>2
  <2>2. \A s \in Smaller(S, n) : g[s] = IF s = {} THEN 0 ELSE f[pick(s)] + g[s \ {pick(s)}]
    BY <2>1
  <2> DEFINE h == [s \in Smaller(S, n + 1) |-> IF s = {} THEN 0 ELSE f[pick(s)] + g[s \ {pick(s)}]]
  <2>3. Smaller(S, n) \subseteq Smaller(S, n + 1)
    BY SmallerSets DEF Smaller
  <2>4. \A s \in Smaller(S, n) : h[s] = g[s]
    BY <2>2, <2>3
  <2>5. \A s \in Smaller(S, n + 1) : s # {} => s \ {pick(s)} \in Smaller(S, n)
    <3> TAKE s \in Smaller(S, n + 1)
    <3> SUFFICES ASSUME s # {} PROVE s \ {pick(s)} \in Smaller(S, n)
      OBVIOUS
    <3>1. s \in SUBSET S /\ Cardinality(s) <= n + 1 /\ pick(s) \in s
      BY <1>0 DEF Smaller
    <3>2. Cardinality(s) \in Nat /\ Cardinality(s \ {pick(s)}) = Cardinality(s) - 1
      BY <3>1, SmallerSets
    <3> HIDE DEF pick
    <3> QED BY <3>1, <3>2 DEF Smaller
  <2>6. h = [s \in Smaller(S, n + 1) |-> IF s = {} THEN 0 ELSE f[pick(s)] + h[s \ {pick(s)}]]
    <3>1. \A s \in Smaller(S, n + 1) :
             (IF s = {} THEN 0 ELSE f[pick(s)] + g[s \ {pick(s)}])
             = (IF s = {} THEN 0 ELSE f[pick(s)] + h[s \ {pick(s)}])
      <4> HIDE DEF h, pick
      <4> QED BY <2>4, <2>5
    <3> QED BY <3>1
  <2> HIDE DEF h
  <2> QED BY <2>6
<1>3. Cardinality(S) \in Defined
  <2>1. Cardinality(S) \in Nat
    BY FS_CardinalityType
  <2> HIDE DEF Defined
  <2> QED BY <1>1, <1>2, <2>1, SetInduction
<1>4. Smaller(S, Cardinality(S)) = SUBSET S
  BY SmallerSets DEF Smaller
<1> QED BY <1>3, <1>4 DEF AddsUp

LEMMA SumUnique ==
    ASSUME NEW f, NEW S, IsFiniteSet(S), NEW T, IsFiniteSet(T),
           \A x \in S : f[x] \in Int,
           NEW g, AddsUp(f, g, S), NEW h, AddsUp(f, h, T)
    PROVE  \A s \in SUBSET S : /\ g[s] \in Int
                               /\ s \subseteq T => h[s] = g[s]
                               /\ \A x \in s : g[s] = f[x] + g[s \ {x}]
<1> DEFINE pick(s) == CHOOSE x \in s : TRUE
<1>0. \A s : s # {} => pick(s) \in s
  OBVIOUS
<1>1. /\ \A s \in SUBSET S : g[s] = IF s = {} THEN 0 ELSE f[pick(s)] + g[s \ {pick(s)}]
      /\ \A s \in SUBSET T : h[s] = IF s = {} THEN 0 ELSE f[pick(s)] + h[s \ {pick(s)}]
  BY DEF AddsUp
<1> DEFINE Right(s) == /\ g[s] \in Int
                       /\ s \subseteq T => h[s] = g[s]
                       /\ \A x \in s : g[s] = f[x] + g[s \ {x}]
<1> DEFINE Good == {n \in Nat : \A s \in SUBSET S : Cardinality(s) <= n => Right(s)}
<1> HIDE DEF pick
<1>6. Right({})
  <2>1. {} \in SUBSET S /\ {} \in SUBSET T
    OBVIOUS
  <2>2. g[{}] = 0 /\ h[{}] = 0
    BY <1>1, <2>1
  <2> QED BY <2>2
<1>7. \A s \in SUBSET S : s # {} =>
         /\ pick(s) \in s /\ g[s] = f[pick(s)] + g[s \ {pick(s)}]
         /\ s \subseteq T => h[s] = f[pick(s)] + h[s \ {pick(s)}]
  <2> TAKE s \in SUBSET S
  <2>1. g[s] = IF s = {} THEN 0 ELSE f[pick(s)] + g[s \ {pick(s)}]
    BY <1>1
  <2>2. s \subseteq T => h[s] = IF s = {} THEN 0 ELSE f[pick(s)] + h[s \ {pick(s)}]
    BY <1>1
  <2> QED BY <1>0, <2>1, <2>2
<1>2. 0 \in Good
  <2> SUFFICES ASSUME NEW s \in SUBSET S, Cardinality(s) <= 0 PROVE Right(s)
    OBVIOUS
  <2>1. s = {}
    <3>1. Cardinality(s) \in Nat /\ (Cardinality(s) = 0 <=> s = {})
      BY SmallerSets
    <3> QED BY <3>1
  <2> HIDE DEF Right
  <2> QED BY <1>6, <2>1
<1>3. ASSUME NEW n \in Nat, n \in Good PROVE n + 1 \in Good
  <2> SUFFICES ASSUME NEW s \in SUBSET S, Cardinality(s) <= n + 1, s # {} PROVE Right(s)
    <3> HIDE DEF Right
    <3> QED BY <1>6
  <2>1. \A x \in s : s \ {x} \in SUBSET S /\ Right(s \ {x}) /\ f[x] \in Int
    <3> TAKE x \in s
    <3>1. Cardinality(s) \in Nat /\ Cardinality(s \ {x}) = Cardinality(s) - 1
      BY SmallerSets
    <3>2. Cardinality(s \ {x}) <= n
      BY <3>1
    <3> QED BY <1>3, <3>2
  <2> DEFINE p == pick(s)
  <2>2. p \in s /\ g[s] = f[p] + g[s \ {p}]
    BY <1>7
  <2>3. s \subseteq T => h[s] = f[p] + h[s \ {p}]
    BY <1>7
  <2> HIDE DEF p
  <2>4. g[s] \in Int /\ (s \subseteq T => h[s] = g[s])
    <3> DEFINE r == s \ {p}
    <3>1. g[r] \in Int /\ (s \subseteq T => h[r] = g[r]) /\ f[p] \in Int
      <4>1. Right(r) /\ f[p] \in Int /\ (s \subseteq T => r \subseteq T)
        BY <2>1, <2>2
      <4> HIDE DEF r
      <4> QED BY <4>1
    <3>2. g[s] = f[p] + g[r] /\ (s \subseteq T => h[s] = f[p] + h[r])
      BY <2>2, <2>3
    <3> HIDE DEF r
    <3> QED BY <3>1, <3>2
  <2>5. ASSUME NEW x \in s, x # p PROVE g[s] = f[x] + g[s \ {x}]
    <3>1. x \in s \ {p} /\ p \in s \ {x} /\ (s \ {p}) \ {x} = (s \ {x}) \ {p}
      BY <2>2, <2>5
    <3> DEFINE rest == (s \ {x}) \ {p}
    <3>2. g[s \ {p}] = f[x] + g[rest] /\ g[s \ {x}] = f[p] + g[rest]
      BY <2>1, <2>2, <3>1
    <3>3. g[rest] \in Int
      <4>1. rest \in SUBSET S
        OBVIOUS
      <4>2. Cardinality(rest) <= n
        <5>1. Cardinality(s) \in Nat /\ Cardinality(s \ {x}) = Cardinality(s) - 1
          BY SmallerSets
        <5>2. Cardinality(rest) = Cardinality(s \ {x}) - 1
          BY <3>1, SmallerSets
        <5> HIDE DEF rest
        <5> QED BY <5>1, <5>2
      <4> QED BY <1>3, <4>1, <4>2
    <3> HIDE DEF rest
    <3>4. f[x] \in Int /\ f[p] \in Int
      BY <2>1, <2>2
    <3> QED BY <2>2, <3>2, <3>3, <3>4
  <2> QED BY <2>2, <2>4, <2>5
<1>4. Cardinality(S) \in Good
  <2>1. Cardinality(S) \in Nat
    BY FS_CardinalityType
  <2> HIDE DEF Good
  <2> QED BY <1>2, <1>3, <2>1, SetInduction
<1>5. \A s \in SUBSET S : Cardinality(s) <= Cardinality(S)
  BY SmallerSets
<1> QED BY <1>4, <1>5

LEMMA SumOne ==
    ASSUME NEW f, NEW S, IsFiniteSet(S), \A x \in S : f[x] \in Int
    PROVE  /\ SumFunctionOnSet(f, S) \in Int
           /\ S = {} => SumFunctionOnSet(f, S) = 0
           /\ \A x \in S : SumFunctionOnSet(f, S) = f[x] + SumFunctionOnSet(f, S \ {x})
<1>1. ASSUME NEW T \in SUBSET S
      PROVE  \E g : AddsUp(f, g, T) /\ SumFunctionOnSet(f, T) = g[T]
  <2>1. IsFiniteSet(T)
    BY FS_Subset
  <2> DEFINE g == CHOOSE g : AddsUp(f, g, T)
  <2>2. AddsUp(f, g, T)
    BY <2>1, SumExists
  <2>3. SumFunctionOnSet(f, T) = g[T]
    BY DEF SumFunctionOnSet, FoldFunctionOnSet, MapThenFoldSet, AddsUp
  <2> QED BY <2>2, <2>3
<1>2. PICK g : AddsUp(f, g, S) /\ SumFunctionOnSet(f, S) = g[S]
  BY <1>1
<1>3. g[S] \in Int /\ (S = {} => g[S] = 0)
  <2>1. g[S] \in Int
    BY <1>2, SumUnique
  <2> QED BY <1>2, <2>1 DEF AddsUp
<1>4. ASSUME NEW x \in S PROVE g[S] = f[x] + SumFunctionOnSet(f, S \ {x})
  <2> DEFINE T == S \ {x}
  <2>1. T \in SUBSET S /\ IsFiniteSet(T)
    BY FS_Subset
  <2>2. PICK h : AddsUp(f, h, T) /\ SumFunctionOnSet(f, T) = h[T]
    BY <1>1, <2>1
  <2>3. h[T] = g[T] /\ g[S] = f[x] + g[T]
    <3> HIDE DEF T
    <3>1. \A s \in SUBSET S : (s \subseteq T => h[s] = g[s]) /\ \A y \in s : g[s] = f[y] + g[s \ {y}]
      BY <1>2, <2>1, <2>2, SumUnique
    <3> QED BY <2>1, <3>1 DEF T
  <2> QED BY <2>2, <2>3
<1> QED BY <1>2, <1>3, <1>4

-----------------------------------------------------------------------------
(* The orders of compile_order are bijections.                             *)
LEMMA NextPower == ASSUME NEW n \in Nat PROVE 2^(n + 1) = 2^n * 2 /\ 2^0 = 1
<1>1. IsFiniteSet({}) /\ Cardinality({}) = 0 /\ SUBSET {} = {{}}
  BY FS_EmptySet
<1>2. 2^0 = 1
  <2>1. Cardinality(SUBSET {}) = 2^0 /\ Cardinality({{}}) = 1
    BY <1>1, FS_SUBSET, FS_Singleton
  <2> QED BY <1>1, <2>1
<1>3. 2^1 = 2
  <2>1. IsFiniteSet({1}) /\ Cardinality({1}) = 1 /\ SUBSET {1} = {{}} \cup {{1}}
    BY FS_Singleton
  <2>2. Cardinality(SUBSET {1}) = 2^1
    BY <2>1, FS_SUBSET
  <2>3. IsFiniteSet({{}}) /\ Cardinality({{}}) = 1 /\ {1} \notin {{}}
    BY FS_Singleton
  <2>4. Cardinality({{}} \cup {{1}}) = 2
    <3> DEFINE S == {{}}
    <3> DEFINE x == {1}
    <3>1. IsFiniteSet(S) /\ Cardinality(S) = 1 /\ x \notin S
      BY <2>3
    <3> HIDE DEF S, x
    <3>2. Cardinality(S \cup {x}) = 1 + 1
      BY <3>1, FS_AddElement
    <3>3. Cardinality(S \cup {x}) = 2
      BY <3>2
    <3> QED BY <3>3 DEF S, x
  <2> QED BY <2>1, <2>2, <2>4
<1>4. 2^(n + 1) = 2^n * 2^1
  BY PowersMultiply
<1> QED BY <1>2, <1>3, <1>4

LEMMA QuotientOfSum ==
    ASSUME NEW j \in Nat, NEW e \in Nat \ {0}, NEW k \in Nat
    PROVE  (j + e * k) \div e = j \div e + k
<1> DEFINE q == j \div e
<1> DEFINE r == j % e
<1>1. q \in Nat /\ r \in 0..e-1 /\ r = j - e * q
  BY Quotient
<1> HIDE DEF q, r
<1> DEFINE p == q + k
<1>2. p \in Nat /\ p \in 0..(p+1)-1 /\ p + 1 \in Nat
  BY <1>1
<1>3. j + e * k = p * e + r
  <2>1. e * q \in Nat /\ e * k \in Nat /\ p * e = e * q + e * k
    BY <1>1
  <2> HIDE DEF p
  <2> QED BY <1>1, <2>1
<1> HIDE DEF p
<1>4. (p * e + r) \div e = p
  <2> DEFINE n == p + 1
  <2>1. n \in Nat /\ p \in 0..n-1
    BY <1>2
  <2> HIDE DEF n
  <2> QED BY <1>1, <2>1, PlaceOf
<1> QED BY <1>3, <1>4 DEF p, q

LEMMA BitsLeft ==
    ASSUME NEW n \in Nat, NEW j \in 0..2^n-1
    PROVE  /\ j \in 0..2^(n+1)-1 /\ j + 2^n \in 0..2^(n+1)-1
           /\ Bits(j, n + 1) = Bits(j, n)
           /\ Bits(j + 2^n, n + 1) = Bits(j, n) \cup {n}
<1> DEFINE d == 2^n
<1>1. d \in Nat \ {0} /\ 2^(n+1) = d * 2 /\ j \in 0..d-1 /\ j \in Nat
  <2>1. d \in Nat
    BY PowerOfTwo
  <2>3. 2^(n+1) = d * 2 /\ j \in 0..d-1
    BY NextPower
  <2> HIDE DEF d
  <2> QED BY <2>1, <2>3
<1>2. j \in 0..2^(n+1)-1 /\ j + 2^n \in 0..2^(n+1)-1
  <2> HIDE DEF d
  <2> QED BY <1>1 DEF d
<1>3. ASSUME NEW i \in 0..n-1
      PROVE  ((j + d) \div 2^i) % 2 = (j \div 2^i) % 2
  <2> DEFINE e == 2^i
  <2> DEFINE m == 2^(n-i-1)
  <2>1. e \in Nat \ {0} /\ m \in Nat /\ d = e * (m * 2)
    <3>1. i \in Nat /\ n-i-1 \in Nat /\ n-i-1+1 = n-i /\ n-i \in Nat /\ i + (n - i) = n
      OBVIOUS
    <3>2. e \in Nat /\ m \in Nat /\ 2^(n-i) \in Nat
      BY <3>1, PowerOfTwo
    <3>3. 2^(n-i) = m * 2
      BY <3>1, NextPower
    <3>4. 2^n = e * 2^(n-i)
      BY <3>1, PowersMultiply
    <3>5. d = e * (m * 2)
      BY <3>3, <3>4
    <3> HIDE DEF d, e, m
    <3>6. e # 0
      BY <1>1, <3>2, <3>5
    <3> QED BY <3>2, <3>5, <3>6
  <2> HIDE DEF d, e, m
  <2>2. j \div e \in Nat /\ j % e \in 0..e-1 /\ j % e = j - e * (j \div e)
    BY <1>1, <2>1, Quotient
  <2>3. (j + e * (m * 2)) \div e = j \div e + m * 2
    <3>1. m * 2 \in Nat
      BY <2>1
    <3> QED BY <1>1, <2>1, <3>1, QuotientOfSum
  <2> DEFINE q == j \div e
  <2>4. q \in Nat
    BY <2>2
  <2> HIDE DEF q
  <2>5. (q + m * 2) % 2 = q % 2
    BY <2>1, <2>4
  <2> QED BY <2>1, <2>3, <2>5 DEF q, e, d
<1>4. (j \div d) % 2 = 0 /\ ((j + d) \div d) % 2 = 1
  <2> HIDE DEF d
  <2>1. j \div d = 0 /\ (j + d) \div d = 1
    BY <1>1
  <2> QED BY <2>1
<1>5. Bits(j, n + 1) = Bits(j, n)
  <2>1. \A i : i \in 0..(n+1)-1 <=> i = n \/ i \in 0..n-1
    OBVIOUS
  <2>2. (j \div 2^n) % 2 # 1
    BY <1>4
  <2> QED BY <2>1, <2>2 DEF Bits
<1>6. Bits(j + 2^n, n + 1) = Bits(j, n) \cup {n}
  <2>1. \A i : i \in 0..(n+1)-1 <=> i = n \/ i \in 0..n-1
    OBVIOUS
  <2>2. ((j + 2^n) \div 2^n) % 2 = 1 /\ \A i \in 0..n-1 : ((j + 2^n) \div 2^i) % 2 = (j \div 2^i) % 2
    BY <1>3, <1>4
  <2> QED BY <2>1, <2>2 DEF Bits
<1> QED BY <1>2, <1>5, <1>6

LEMMA BitsReachEverySet ==
    ASSUME NEW n \in Nat
    PROVE  \A s \in Indices(n) : \E j \in 0..2^n-1 : Bits(j, n) = s
<1> DEFINE Good == {m \in Nat : \A s \in Indices(m) : \E j \in 0..2^m-1 : Bits(j, m) = s}
<1>1. 0 \in Good
  <2>1. 2^0 = 1 /\ 0 \in 0..2^0-1 /\ 0..0-1 = {}
    <3>1. IsFiniteSet({}) /\ Cardinality({}) = 0 /\ SUBSET {} = {{}}
      BY FS_EmptySet
    <3>2. Cardinality(SUBSET {}) = 2^0 /\ Cardinality({{}}) = 1
      BY <3>1, FS_SUBSET, FS_Singleton
    <3> QED BY <3>1, <3>2
  <2>2. Bits(0, 0) = {} /\ Indices(0) = {{}}
    BY <2>1 DEF Bits, Indices
  <2> QED BY <2>1, <2>2
<1>2. ASSUME NEW m \in Nat, m \in Good PROVE m + 1 \in Good
  <2> SUFFICES ASSUME NEW s \in Indices(m + 1)
               PROVE  \E j \in 0..2^(m+1)-1 : Bits(j, m + 1) = s
    OBVIOUS
  <2>1. s \ {m} \in Indices(m)
    <3>1. \A i \in 0..(m+1)-1 : i # m => i \in 0..m-1
      OBVIOUS
    <3> QED BY <3>1 DEF Indices
  <2>2. PICK j \in 0..2^m-1 : Bits(j, m) = s \ {m}
    BY <1>2, <2>1
  <2>3. /\ j \in 0..2^(m+1)-1 /\ j + 2^m \in 0..2^(m+1)-1
        /\ Bits(j, m + 1) = Bits(j, m) /\ Bits(j + 2^m, m + 1) = Bits(j, m) \cup {m}
    BY BitsLeft
  <2>4. CASE m \in s
    <3>1. Bits(j + 2^m, m + 1) = s
      BY <2>2, <2>3, <2>4
    <3> QED BY <2>3, <3>1
  <2>5. CASE m \notin s
    <3>1. Bits(j, m + 1) = s
      BY <2>2, <2>3, <2>5
    <3> QED BY <2>3, <3>1
  <2> QED BY <2>4, <2>5
<1>3. Nat \subseteq Good
  <2> HIDE DEF Good
  <2> QED BY <1>1, <1>2, SetInduction
<1> QED BY <1>3

LEMMA GrayReachesEverySet ==
    ASSUME NEW n \in Nat
    PROVE  \A c \in Indices(n) : \E s \in Indices(n) : gray_code(s) = c
<1>0. ASSUME NEW s, NEW i \in Nat, s \in SUBSET Nat
      PROVE  i \in gray_code(s) <=> ~(i \in s <=> i + 1 \in s)
  <2>1. i \in ShiftRight(s) <=> i + 1 \in s
    <3>1. ASSUME i \in ShiftRight(s) PROVE i + 1 \in s
      <4>1. PICK k \in s \ {0} : i = k - 1
        BY <3>1 DEF ShiftRight
      <4>2. k \in Nat /\ i + 1 = k
        BY <1>0, <4>1
      <4> QED BY <4>1, <4>2
    <3>2. ASSUME i + 1 \in s PROVE i \in ShiftRight(s)
      <4>1. i + 1 # 0 /\ (i + 1) - 1 = i
        OBVIOUS
      <4> QED BY <3>2, <4>1 DEF ShiftRight
    <3> QED BY <3>1, <3>2
  <2> QED BY <2>1 DEF gray_code, Xor
<1>00. ASSUME NEW s \in SUBSET Nat PROVE gray_code(s) \subseteq Nat
  <2>1. \A k \in s \ {0} : k - 1 \in Nat
    OBVIOUS
  <2> QED BY <2>1 DEF gray_code, Xor, ShiftRight
<1> DEFINE Good == {m \in Nat : \A c \in Indices(m) : \E s \in Indices(m) : gray_code(s) = c}
<1>1. 0 \in Good
  <2>1. Indices(0) = {{}}
    <3>1. 0..0-1 = {}
      OBVIOUS
    <3> QED BY <3>1 DEF Indices
  <2>2. gray_code({}) = {}
    BY DEF gray_code, Xor, ShiftRight
  <2> QED BY <2>1, <2>2
<1>2. ASSUME NEW m \in Nat, m \in Good PROVE m + 1 \in Good
  <2> SUFFICES ASSUME NEW c \in Indices(m + 1) PROVE \E s \in Indices(m + 1) : gray_code(s) = c
    OBVIOUS
  <2>0. /\ \A i : i \in 0..(m+1)-1 <=> i = m \/ i \in 0..m-1
        /\ \A i \in 0..m-1 : i \in Nat /\ i # m /\ i + 1 # m + 1 /\ (i + 1 = m <=> i = m - 1)
        /\ m + 1 \notin 0..m-1 /\ m \notin 0..m-1 /\ m + 1 # m
    OBVIOUS
  <2>1. CASE m \notin c
    <3>1. c \in Indices(m)
      BY <2>0, <2>1 DEF Indices
    <3>2. PICK s \in Indices(m) : gray_code(s) = c
      BY <1>2, <3>1
    <3> QED BY <2>0, <3>2 DEF Indices
  <2>2. CASE m \in c
    <3> DEFINE below == IF m = 0 THEN {} ELSE Xor(c \ {m}, {m - 1})
    <3>1. below \in Indices(m)
      <4>1. c \ {m} \subseteq 0..m-1
        BY <2>0 DEF Indices
      <4>2. m # 0 => m - 1 \in 0..m-1
        OBVIOUS
      <4> QED BY <4>1, <4>2 DEF Indices, Xor
    <3> HIDE DEF below
    <3>2. PICK s \in Indices(m) : gray_code(s) = below
      BY <1>2, <3>1
    <3> USE DEF below
    <3>3. s \subseteq 0..m-1 /\ s \in SUBSET Nat /\ s \cup {m} \in SUBSET Nat
      BY DEF Indices
    <3>4. ASSUME NEW i \in Nat PROVE i \in gray_code(s \cup {m}) <=> i \in c
      <4>1. i \in gray_code(s) <=> ~(i \in s <=> i + 1 \in s)
        BY <1>0, <3>3
      <4>2. i \in gray_code(s \cup {m}) <=> ~(i \in s \cup {m} <=> i + 1 \in s \cup {m})
        BY <1>0, <3>3
      <4>3. c \subseteq 0..(m+1)-1
        BY DEF Indices
      <4>4. i \notin 0..m-1 => i \notin s /\ i + 1 \notin s
        <5>1. i \notin 0..m-1 => i + 1 \notin 0..m-1
          OBVIOUS
        <5> QED BY <3>3, <5>1
      <4>5. CASE i \in 0..m-1 /\ i # m - 1
        <5>1. i \in below <=> i \in c
          BY <2>0, <4>5 DEF Xor
        <5> HIDE DEF below
        <5> QED BY <2>0, <3>2, <4>1, <4>2, <4>5, <5>1
      <4>6. CASE i \in 0..m-1 /\ i = m - 1
        <5>1. m # 0 /\ i + 1 = m /\ i # m
          BY <4>6
        <5>2. i \in below <=> i \notin c
          BY <4>6, <5>1 DEF Xor
        <5>3. i + 1 \notin s
          BY <3>3, <5>1
        <5> HIDE DEF below
        <5> QED BY <3>2, <4>1, <4>2, <5>1, <5>2, <5>3
      <4>7. CASE i \notin 0..m-1 /\ i = m
        BY <2>0, <2>2, <4>2, <4>4, <4>7
      <4>8. CASE i \notin 0..m-1 /\ i # m
        <5>1. i + 1 # m
          BY <4>8
        <5>2. i \notin c
          BY <2>0, <4>3, <4>8
        <5> QED BY <4>2, <4>4, <4>8, <5>1, <5>2
      <4> QED BY <4>5, <4>6, <4>7, <4>8
    <3>5. gray_code(s \cup {m}) = c
      <4>1. c \subseteq Nat
        BY DEF Indices
      <4>2. gray_code(s \cup {m}) \subseteq Nat
        BY <1>00, <3>3
      <4> QED BY <3>4, <4>1, <4>2
    <3>6. s \cup {m} \in Indices(m + 1)
      BY <2>0, <3>3 DEF Indices
    <3> QED BY <3>5, <3>6
  <2> QED BY <2>1, <2>2
<1>3. Nat \subseteq Good
  <2> HIDE DEF Good
  <2> QED BY <1>1, <1>2, SetInduction
<1> QED BY <1>3

LEMMA OrderIsBijection ==
    ASSUME NEW order \in [Slots -> Buckets], \A q \in Buckets : \E j \in Slots : order[j] = q
    PROVE  \A i, j \in Slots : order[i] = order[j] => i = j
<1>1. IsFiniteSet(Slots) /\ Cardinality(Slots) = 2^LocalBits
  <2> DEFINE b == 2^LocalBits
  <2>1. b \in Nat \ {0} /\ 0 \in Int /\ b - 1 \in Int /\ ~(0 > b - 1)
    BY SlotCount
  <2>2. IsFiniteSet(0..b-1) /\ Cardinality(0..b-1) = (b - 1) - 0 + 1
    <3> HIDE DEF b
    <3> QED BY <2>1, FS_Interval
  <2>3. (b - 1) - 0 + 1 = b
    BY <2>1
  <2> QED BY <2>2, <2>3 DEF Slots
<1>2. IsFiniteSet(Buckets) /\ Cardinality(Buckets) = 2^LocalBits
  <2>1. IsFiniteSet(0..LocalBits-1) /\ Cardinality(0..LocalBits-1) = LocalBits
    <3>1. LocalBits - 1 \in Int /\ ~(0 > LocalBits - 1) /\ (LocalBits - 1) - 0 + 1 = LocalBits
      BY LocalBitsAssumption
    <3>2. Cardinality(0..LocalBits-1) = (LocalBits - 1) - 0 + 1 /\ IsFiniteSet(0..LocalBits-1)
      BY <3>1, FS_Interval
    <3> QED BY <3>1, <3>2
  <2> QED BY <2>1, FS_SUBSET DEF Buckets, Indices
<1>3. order \in Surjection(Slots, Buckets)
  BY DEF Surjection
<1>4. order \in Injection(Slots, Buckets)
  BY <1>1, <1>2, <1>3, FS_SurjSameCardinalityImpliesInj
<1> QED BY <1>4 DEF Injection, IsInjective

(* The orders a plan may have put every query in one slot.                 *)
Permutes(order) ==
    /\ order \in [Slots -> Buckets]
    /\ \A q \in Buckets : \E j \in Slots : order[j] = q
    /\ \A i, j \in Slots : order[i] = order[j] => i = j

LEMMA CompiledOrderPermutes ==
    ASSUME NEW ordering \in {"gray", "binary", "random"}, NEW order \in compile_order(ordering)
    PROVE  Permutes(order)
<1>0. LocalBits \in Nat
  BY LocalBitsAssumption
<1>1. \A j : Bits(j, LocalBits) \in Buckets
  BY DEF Bits, Buckets, Indices
<1>2. \A q \in Buckets : \E j \in Slots : Bits(j, LocalBits) = q
  BY <1>0, BitsReachEverySet DEF Buckets, Slots
<1>3. CASE ordering = "binary"
  <2>1. order = [j \in Slots |-> Bits(j, LocalBits)]
    BY <1>3 DEF compile_order
  <2>2. order \in [Slots -> Buckets] /\ \A q \in Buckets : \E j \in Slots : order[j] = q
    BY <1>1, <1>2, <2>1
  <2> QED BY <2>2, OrderIsBijection DEF Permutes
<1>4. CASE ordering = "gray"
  <2>1. order = [j \in Slots |-> gray_code(Bits(j, LocalBits))]
    BY <1>4 DEF compile_order, gray_order, Slots
  <2>2. \A s \in Buckets : gray_code(s) \in Buckets
    <3> TAKE s \in Buckets
    <3>1. \A i \in s \ {0} : i - 1 \in 0..LocalBits-1
      BY <1>0 DEF Buckets, Indices
    <3> QED BY <3>1 DEF gray_code, Xor, ShiftRight, Buckets, Indices
  <2>3. order \in [Slots -> Buckets]
    BY <1>1, <2>1, <2>2
  <2>4. \A q \in Buckets : \E j \in Slots : order[j] = q
    <3> TAKE q \in Buckets
    <3>1. PICK s \in Buckets : gray_code(s) = q
      BY <1>0, GrayReachesEverySet DEF Buckets
    <3>2. PICK j \in Slots : Bits(j, LocalBits) = s
      BY <1>2
    <3> QED BY <2>1, <3>1, <3>2
  <2> QED BY <2>3, <2>4, OrderIsBijection DEF Permutes
<1>5. CASE ordering = "random"
  <2>1. order \in Bijection(Slots, Buckets)
    BY <1>5 DEF compile_order
  <2> QED BY <2>1 DEF Bijection, Injection, Surjection, IsInjective, Permutes
<1> QED BY <1>3, <1>4, <1>5

LEMMA PlannedOrderPermutes == ASSUME NEW p \in Plans PROVE Permutes(p.local_order)
<1>1. PICK seed \in Seeds, ordering \in Orderings : p \in compile_query_plan(seed, ordering)
  BY DEF Plans
<1>2. ordering \in {"gray", "binary", "random"}
  BY PathAssumption
<1>3. PICK order \in compile_order(ordering) : p.local_order = order
  BY <1>1 DEF compile_query_plan
<1> QED BY <1>2, <1>3, CompiledOrderPermutes

(* A query stands in the reversed pass as far from the end as it stands    *)
(* from the beginning in the other.                                        *)
LEMMA TimesOfPasses ==
    ASSUME NEW order, Permutes(order), NEW query \in Buckets
    PROVE  /\ TimeOf(order, query) \in Slots
           /\ TimeOf(Reversed(order), query) = 2^LocalBits - 1 - TimeOf(order, query)
<1> DEFINE b == 2^LocalBits
<1>1. b \in Nat \ {0} /\ Slots = 0..b-1
  BY SlotCount DEF Slots
<1>2. /\ \E j \in Slots : order[j] = query
      /\ \A i, j \in Slots : order[i] = order[j] => i = j
  BY DEF Permutes
<1> DEFINE t == TimeOf(order, query)
<1>3. t \in Slots /\ order[t] = query
  BY <1>2 DEF TimeOf
<1> HIDE DEF t
<1>4. \A j \in Slots : b - 1 - j \in Slots /\ b - 1 - (b - 1 - j) = j
  <2> HIDE DEF b
  <2> QED BY <1>1
<1>5. \A j \in Slots : Reversed(order)[j] = order[b - 1 - j]
  BY DEF Reversed
<1> HIDE DEF b
<1>6. Reversed(order)[b - 1 - t] = query
  BY <1>3, <1>4, <1>5
<1>7. \A j \in Slots : Reversed(order)[j] = query => j = b - 1 - t
  <2> SUFFICES ASSUME NEW j \in Slots, Reversed(order)[j] = query PROVE j = b - 1 - t
    OBVIOUS
  <2>1. order[b - 1 - j] = order[t] /\ b - 1 - j \in Slots
    BY <1>3, <1>4, <1>5
  <2>2. b - 1 - j = t
    BY <1>2, <1>3, <2>1
  <2> QED BY <1>1, <1>4, <2>2
<1>8. TimeOf(Reversed(order), query) = b - 1 - t
  BY <1>3, <1>4, <1>6, <1>7 DEF TimeOf
<1> QED BY <1>3, <1>8 DEF t, b

LEMMA SumNone == ASSUME NEW f PROVE SumFunctionOnSet(f, {}) = 0
<1>1. IsFiniteSet({}) /\ \A x \in {} : f[x] \in Int
  BY FS_EmptySet
<1> QED BY <1>1, SumOne

LEMMA SumOfTwo ==
    ASSUME NEW f, DOMAIN f = 0..1, f[0] \in Int, f[1] \in Int
    PROVE  SumFunction(f) = f[0] + f[1]
<1>1. IsFiniteSet(0..1) /\ IsFiniteSet((0..1) \ {0}) /\ (0..1) \ {0} = {1} /\ {1} \ {1} = {}
  <2>1. IsFiniteSet(0..1)
    <3>1. \A a, b \in Int : IsFiniteSet(a..b)
      BY FS_Interval
    <3> QED BY <3>1
  <2>2. IsFiniteSet((0..1) \ {0})
    BY <2>1, FS_Subset
  <2> QED BY <2>1, <2>2
<1>2. SumFunctionOnSet(f, 0..1) = f[0] + SumFunctionOnSet(f, (0..1) \ {0})
  <2>1. 0 \in 0..1 /\ \A x \in 0..1 : f[x] \in Int
    <3>1. \A x \in 0..1 : x = 0 \/ x = 1
      OBVIOUS
    <3> QED BY <3>1
  <2> QED BY <1>1, <2>1, SumOne
<1>3. SumFunctionOnSet(f, {1}) = f[1] + SumFunctionOnSet(f, {1} \ {1})
  BY <1>1, SumOne
<1>4. SumFunctionOnSet(f, {}) = 0
  BY SumNone
<1>5. SumFunction(f) = f[0] + (f[1] + 0)
  BY <1>1, <1>2, <1>3, <1>4 DEF SumFunction
<1> QED BY <1>5

LEMMA SumOfFour ==
    ASSUME NEW f, DOMAIN f = 0..3, \A x \in 0..3 : f[x] \in Int
    PROVE  SumFunction(f) = f[0] + f[1] + f[2] + f[3]
<1>0. IsFiniteSet(0..3)
  <2>1. \A a, b \in Int : IsFiniteSet(a..b)
    BY FS_Interval
  <2>2. 0 \in Int /\ 3 \in Int
    OBVIOUS
  <2> QED BY <2>1, <2>2, Zenon
<1>1. IsFiniteSet(0..3) /\ 0 \in 0..3 /\ 1 \in 0..3 /\ 2 \in 0..3 /\ 3 \in 0..3
  BY <1>0
<1> DEFINE A == (0..3) \ {0}
<1> DEFINE B == A \ {1}
<1> DEFINE C == B \ {2}
<1>2. A \subseteq 0..3 /\ B \subseteq 0..3 /\ C \subseteq 0..3 /\ 1 \in A /\ 2 \in B /\ 3 \in C /\ C \ {3} = {}
  OBVIOUS
<1>3. IsFiniteSet(A) /\ IsFiniteSet(B) /\ IsFiniteSet(C)
  BY <1>1, <1>2, FS_Subset
<1>4. SumFunctionOnSet(f, 0..3) = f[0] + SumFunctionOnSet(f, (0..3) \ {0})
  BY <1>1, SumOne
<1>5. SumFunctionOnSet(f, A) = f[1] + SumFunctionOnSet(f, A \ {1})
  <2> HIDE DEF A
  <2> QED BY <1>2, <1>3, SumOne
<1>6. SumFunctionOnSet(f, B) = f[2] + SumFunctionOnSet(f, B \ {2})
  <2> HIDE DEF B
  <2> QED BY <1>2, <1>3, SumOne
<1>7. SumFunctionOnSet(f, C) = f[3] + SumFunctionOnSet(f, C \ {3})
  <2> HIDE DEF C
  <2> QED BY <1>2, <1>3, SumOne
<1>8. SumFunctionOnSet(f, C \ {3}) = 0
  BY <1>2, SumNone
<1>9. SumFunction(f) = f[0] + (f[1] + (f[2] + (f[3] + 0)))
  <2>1. SumFunctionOnSet(f, 0..3) = f[0] + SumFunctionOnSet(f, A)
    BY <1>4
  <2>2. SumFunctionOnSet(f, A) = f[1] + SumFunctionOnSet(f, B)
    BY <1>5
  <2>3. SumFunctionOnSet(f, B) = f[2] + SumFunctionOnSet(f, C)
    BY <1>6
  <2>4. SumFunctionOnSet(f, C) = f[3] + 0
    BY <1>7, <1>8
  <2>5. SumFunction(f) = SumFunctionOnSet(f, 0..3)
    BY DEF SumFunction
  <2> HIDE DEF A, B, C
  <2> QED BY <2>1, <2>2, <2>3, <2>4, <2>5
<1> QED BY <1>1, <1>9

(* With two or four alternating passes over any order, every query is      *)
(* observed at times whose mean is the middle of the aperture.             *)
THEOREM QueriesCentered == Spec => []PassesBalanceTime
<1>1. ASSUME engine \in Plans, NEW pass_count \in {2, 4}, NEW query \in Buckets
      PROVE  LET b == 2^LocalBits
                 orders == pass_orders(engine.local_order, pass_count)
                 times == [p \in 0..pass_count-1 |-> p * b + TimeOf(orders[p], query)]
             IN 2 * SumFunction(times) = pass_count * (pass_count * b - 1)
  <2> DEFINE b == 2^LocalBits
  <2> DEFINE order == engine.local_order
  <2> DEFINE orders == pass_orders(order, pass_count)
  <2> DEFINE times == [p \in 0..pass_count-1 |-> p * b + TimeOf(orders[p], query)]
  <2> DEFINE t == TimeOf(order, query)
  <2>1. Permutes(order)
    BY <1>1, PlannedOrderPermutes
  <2>2. b \in Nat /\ t \in 0..b-1 /\ TimeOf(Reversed(order), query) = b - 1 - t
    <3>1. t \in Slots /\ TimeOf(Reversed(order), query) = 2^LocalBits - 1 - t
      BY <2>1, TimesOfPasses
    <3> QED BY <3>1, SlotCount DEF Slots
  <2>3. \A p \in 0..pass_count-1 :
           orders[p] = IF p % 2 = 0 THEN order ELSE Reversed(order)
    BY DEF pass_orders
  <2>4. CASE pass_count = 2
    <3>1. 0..pass_count-1 = 0..1 /\ 0 \in 0..1 /\ 1 \in 0..1
      BY <2>4
    <3>2. orders[0] = order /\ orders[1] = Reversed(order)
      BY <2>3, <3>1
    <3> HIDE DEF orders, b, order
    <3>3. DOMAIN times = 0..1 /\ times[0] = 0 * b + t /\ times[1] = 1 * b + (b - 1 - t)
      BY <2>2, <3>1, <3>2
    <3> HIDE DEF times, t
    <3>4. times[0] \in Int /\ times[1] \in Int
      BY <2>2, <3>3
    <3>5. SumFunction(times) = times[0] + times[1]
      BY <3>3, <3>4, SumOfTwo
    <3>6. 2 * SumFunction(times) = 2 * (2 * b - 1)
      BY <2>2, <3>3, <3>5
    <3> QED BY <2>4, <3>6 DEF times, orders, b, order
  <2>5. CASE pass_count = 4
    <3>1. 0..pass_count-1 = 0..3 /\ 0 \in 0..3 /\ 1 \in 0..3 /\ 2 \in 0..3 /\ 3 \in 0..3
          /\ \A x \in 0..3 : x = 0 \/ x = 1 \/ x = 2 \/ x = 3
      BY <2>5
    <3>2. orders[0] = order /\ orders[1] = Reversed(order)
          /\ orders[2] = order /\ orders[3] = Reversed(order)
      BY <2>3, <3>1
    <3> HIDE DEF orders, b, order
    <3>3. DOMAIN times = 0..3 /\ times[0] = 0 * b + t /\ times[1] = 1 * b + (b - 1 - t)
          /\ times[2] = 2 * b + t /\ times[3] = 3 * b + (b - 1 - t)
      BY <2>2, <3>1, <3>2
    <3> HIDE DEF times, t
    <3>4. times[0] \in Int /\ times[1] \in Int /\ times[2] \in Int /\ times[3] \in Int
      BY <2>2, <3>3
    <3>5. SumFunction(times) = times[0] + times[1] + times[2] + times[3]
      BY <3>1, <3>3, <3>4, SumOfFour
    <3>6. 2 * SumFunction(times) = 4 * (4 * b - 1)
      BY <2>2, <3>3, <3>5
    <3> QED BY <2>5, <3>6 DEF times, orders, b, order
  <2> QED BY <2>4, <2>5
<1>2. engine \in Plans => PassesBalanceTime
  BY <1>1 DEF PassesBalanceTime
<1> QED BY <1>2, EnginePlanned, PTL

-----------------------------------------------------------------------------
(* _gf2_inverse: the right half of a row records which rows of the matrix  *)
(* its left half is the xor of (Tracked), and a matrix that maps no vector *)
(* but zero to zero (Kernelless) has a pivot in every column.              *)
Kernelless(rows, n) ==
    \A v \in SUBSET (0..n-1) : v # {} => \E r \in 0..n-1 : Odd(rows[r] \cap v)
Sources(row, matrix, n, x) == {i \in 0..n-1 : n + i \in row /\ x \in matrix[i]}
Tracked(rows, matrix, n) ==
    \A r, x \in 0..n-1 : x \in rows[r] <=> Odd(Sources(rows[r], matrix, n, x))
Reduced(s, matrix, n, c) ==
    /\ s.rank = c
    /\ s.rows \in [0..n-1 -> SUBSET (0..2*n-1)]
    /\ \A r \in 0..n-1, j \in 0..c-1 : j \in s.rows[r] <=> r = j
    /\ Tracked(s.rows, matrix, n)
    /\ Kernelless(s.rows, n)

LEMMA InverseStart ==
    ASSUME NEW n \in Nat, NEW matrix \in [0..n-1 -> SUBSET (0..n-1)], Kernelless(matrix, n)
    PROVE  /\ Cardinality(DOMAIN matrix) = n
           /\ Reduced([rows |-> Augmented(matrix), rank |-> 0], matrix, n, 0)
<1> DEFINE rows == [r \in 0..n-1 |-> matrix[r] \cup {n + r}]
<1>1. Cardinality(0..n-1) = n
  <2>1. n - 1 \in Int /\ 0 \in Int
    OBVIOUS
  <2>2. Cardinality(0..n-1) = IF 0 > n - 1 THEN 0 ELSE n - 1 - 0 + 1
    BY <2>1, FS_Interval
  <2> QED BY <2>2
<1>2. Augmented(matrix) = rows
  BY <1>1 DEF Augmented
<1>3. rows \in [0..n-1 -> SUBSET (0..2*n-1)]
  BY SMT
<1>4. ASSUME NEW r \in 0..n-1, NEW i \in 0..n-1
      PROVE  /\ i \in rows[r] <=> i \in matrix[r]
             /\ n + i \in rows[r] <=> i = r
  <2>1. rows[r] = matrix[r] \cup {n + r} /\ matrix[r] \subseteq 0..n-1
    OBVIOUS
  <2>2. n + i \notin 0..n-1 /\ i # n + r /\ (n + i = n + r <=> i = r)
    BY SMT
  <2> QED BY <2>1, <2>2
<1> HIDE DEF rows
<1>5. Tracked(rows, matrix, n)
  <2> SUFFICES ASSUME NEW r \in 0..n-1, NEW x \in 0..n-1
               PROVE  x \in rows[r] <=> Odd(Sources(rows[r], matrix, n, x))
    BY DEF Tracked
  <2>1. Sources(rows[r], matrix, n, x) = {i \in {r} : x \in matrix[r]}
    BY <1>4 DEF Sources
  <2>2. CASE x \in matrix[r]
    <3>1. Sources(rows[r], matrix, n, x) = {r}
      BY <2>1, <2>2
    <3> QED BY <1>4, <2>2, <3>1, OddFew
  <2>3. CASE x \notin matrix[r]
    <3>1. Sources(rows[r], matrix, n, x) = {}
      BY <2>1, <2>3
    <3> QED BY <1>4, <2>3, <3>1, OddFew
  <2> QED BY <2>2, <2>3
<1>6. Kernelless(rows, n)
  <2> SUFFICES ASSUME NEW v \in SUBSET (0..n-1), v # {}
               PROVE  \E r \in 0..n-1 : Odd(rows[r] \cap v)
    BY DEF Kernelless
  <2>1. PICK r \in 0..n-1 : Odd(matrix[r] \cap v)
    BY DEF Kernelless
  <2>2. rows[r] \cap v = matrix[r] \cap v
    BY <1>4
  <2> QED BY <2>1, <2>2
<1> DEFINE s == [rows |-> rows, rank |-> 0]
<1>7. s.rows = rows /\ s.rank = 0 /\ 0..0-1 = {}
  OBVIOUS
<1> HIDE DEF s
<1>8. Reduced(s, matrix, n, 0)
  BY <1>3, <1>5, <1>6, <1>7 DEF Reduced
<1> QED BY <1>1, <1>2, <1>8 DEF s

(* Xoring a row to others, or swapping two, keeps the record and kernel.   *)
LEMMA FiniteRows ==
    ASSUME NEW n \in Nat, NEW matrix, NEW row, NEW x, NEW v \in SUBSET (0..n-1)
    PROVE  IsFiniteSet(v) /\ IsFiniteSet(row \cap v) /\ IsFiniteSet(Sources(row, matrix, n, x))
<1>1. IsFiniteSet(0..n-1)
  <2>1. n - 1 \in Int /\ 0 \in Int
    OBVIOUS
  <2> QED BY <2>1, FS_Interval
<1>2. v \subseteq 0..n-1 /\ row \cap v \subseteq 0..n-1 /\ Sources(row, matrix, n, x) \subseteq 0..n-1
  BY DEF Sources
<1> QED BY <1>1, <1>2, FS_Subset

LEMMA ClearKeepsRecord ==
    ASSUME NEW n \in Nat, NEW matrix, NEW rows, NEW cleared, NEW k \in 0..n-1,
           NEW D \in SUBSET ((0..n-1) \ {k}),
           \A r \in 0..n-1 : cleared[r] = IF r \in D THEN Xor(rows[r], rows[k]) ELSE rows[r],
           Tracked(rows, matrix, n), Kernelless(rows, n)
    PROVE  Tracked(cleared, matrix, n) /\ Kernelless(cleared, n)
<1>1. ASSUME NEW r \in 0..n-1, NEW x \in 0..n-1
      PROVE  x \in cleared[r] <=> Odd(Sources(cleared[r], matrix, n, x))
  <2>1. CASE r \in D
    <3>1. cleared[r] = Xor(rows[r], rows[k])
      BY <2>1
    <3>2. Sources(cleared[r], matrix, n, x)
             = Xor(Sources(rows[r], matrix, n, x), Sources(rows[k], matrix, n, x))
      BY <3>1 DEF Sources, Xor
    <3>3. /\ x \in rows[r] <=> Odd(Sources(rows[r], matrix, n, x))
          /\ x \in rows[k] <=> Odd(Sources(rows[k], matrix, n, x))
      BY DEF Tracked
    <3>4. IsFiniteSet(Sources(rows[r], matrix, n, x)) /\ IsFiniteSet(Sources(rows[k], matrix, n, x))
      BY FiniteRows
    <3>5. Odd(Sources(cleared[r], matrix, n, x)) <=>
             ~(Odd(Sources(rows[r], matrix, n, x)) <=> Odd(Sources(rows[k], matrix, n, x)))
      BY <3>2, <3>4, OddXor
    <3>6. x \in cleared[r] <=> ~(x \in rows[r] <=> x \in rows[k])
      BY <3>1 DEF Xor
    <3> QED BY <3>3, <3>5, <3>6
  <2>2. CASE r \notin D
    <3>1. cleared[r] = rows[r]
      BY <2>2
    <3> QED BY <3>1 DEF Tracked
  <2> QED BY <2>1, <2>2
<1>2. ASSUME NEW v \in SUBSET (0..n-1), v # {}
      PROVE  \E r \in 0..n-1 : Odd(cleared[r] \cap v)
  <2>1. PICK r \in 0..n-1 : Odd(rows[r] \cap v)
    BY <1>2 DEF Kernelless
  <2>2. CASE r \notin D
    <3>1. cleared[r] = rows[r]
      BY <2>2
    <3> QED BY <2>1, <3>1
  <2>3. CASE r \in D
    <3>1. IsFiniteSet(v)
      BY FiniteRows
    <3>2. cleared[r] = Xor(rows[r], rows[k]) /\ cleared[k] = rows[k]
      BY <2>3
    <3>3. Odd(Xor(rows[r], rows[k]) \cap v) <=> ~(Odd(rows[r] \cap v) <=> Odd(rows[k] \cap v))
      BY <3>1, XorInside
    <3> QED BY <2>1, <3>2, <3>3
  <2> QED BY <2>2, <2>3
<1> QED BY <1>1, <1>2 DEF Tracked, Kernelless

LEMMA SwapKeepsRecord ==
    ASSUME NEW n \in Nat, NEW matrix, NEW rows, NEW swapped,
           NEW k \in 0..n-1, NEW p \in 0..n-1,
           swapped[k] = rows[p], swapped[p] = rows[k],
           \A r \in 0..n-1 : r # k /\ r # p => swapped[r] = rows[r],
           Tracked(rows, matrix, n), Kernelless(rows, n)
    PROVE  Tracked(swapped, matrix, n) /\ Kernelless(swapped, n)
<1>1. \A r \in 0..n-1 : \E o \in 0..n-1 : swapped[r] = rows[o]
  OBVIOUS
<1>2. \A r \in 0..n-1 : \E o \in 0..n-1 : swapped[o] = rows[r]
  OBVIOUS
<1>3. ASSUME NEW r \in 0..n-1, NEW x \in 0..n-1
      PROVE  x \in swapped[r] <=> Odd(Sources(swapped[r], matrix, n, x))
  <2>1. PICK o \in 0..n-1 : swapped[r] = rows[o]
    BY <1>1
  <2>2. x \in rows[o] <=> Odd(Sources(rows[o], matrix, n, x))
    BY DEF Tracked
  <2> QED BY <2>1, <2>2
<1>4. ASSUME NEW v \in SUBSET (0..n-1), v # {}
      PROVE  \E r \in 0..n-1 : Odd(swapped[r] \cap v)
  <2>1. PICK r \in 0..n-1 : Odd(rows[r] \cap v)
    BY <1>4 DEF Kernelless
  <2> QED BY <1>2, <2>1
<1> QED BY <1>3, <1>4 DEF Tracked, Kernelless

(* Without a pivot, the column is a sum of the columns before it.          *)
LEMMA PivotFound ==
    ASSUME NEW n \in Nat, NEW s, NEW matrix, NEW c \in 0..n-1, Reduced(s, matrix, n, c)
    PROVE  \E r \in 0..n-1 : r >= c /\ c \in s.rows[r]
<1> SUFFICES ASSUME \A r \in 0..n-1 : r >= c => c \notin s.rows[r] PROVE FALSE
  OBVIOUS
<1> DEFINE v == {c} \cup {j \in 0..c-1 : c \in s.rows[j]}
<1>1. v \in SUBSET (0..n-1) /\ v # {}
  BY SMT
<1>2. PICK r \in 0..n-1 : Odd(s.rows[r] \cap v)
  BY <1>1 DEF Reduced, Kernelless
<1>3. \A j \in 0..c-1 : j \in s.rows[r] <=> r = j
  BY DEF Reduced
<1>4. CASE r >= c
  <2>1. c \notin s.rows[r] /\ \A j \in 0..c-1 : r # j
    BY <1>4
  <2>2. s.rows[r] \cap v = {}
    BY <1>3, <2>1
  <2> QED BY <1>2, <2>2, OddFew
<1>5. CASE ~(r >= c) /\ c \in s.rows[r]
  <2>1. r \in 0..c-1 /\ r # c
    BY <1>5
  <2>2. s.rows[r] \cap v = Xor({r}, {c})
    BY <1>3, <1>5, <2>1 DEF Xor
  <2>3. IsFiniteSet({r}) /\ IsFiniteSet({c}) /\ Odd({r}) /\ Odd({c})
    BY FS_Singleton, OddFew
  <2>4. ~Odd(Xor({r}, {c}))
    BY <2>3, OddXor
  <2> QED BY <1>2, <2>2, <2>4
<1>6. CASE ~(r >= c) /\ c \notin s.rows[r]
  <2>1. r \in 0..c-1
    BY <1>6
  <2>2. s.rows[r] \cap v = {}
    BY <1>3, <1>6, <2>1
  <2> QED BY <1>2, <2>2, OddFew
<1> QED BY <1>4, <1>5, <1>6

LEMMA InverseStep ==
    ASSUME NEW n \in Nat, NEW s, NEW matrix, NEW c \in 0..n-1, Reduced(s, matrix, n, c)
    PROVE  Reduced(EliminateColumn(s, c), matrix, n, c + 1)
<1> DEFINE pivots == {r \in DOMAIN s.rows : r >= s.rank /\ c \in s.rows[r]}
<1> DEFINE p == Min(pivots)
<1> DEFINE swapped == [s.rows EXCEPT ![s.rank] = s.rows[p], ![p] = s.rows[s.rank]]
<1> DEFINE cleared == [r \in DOMAIN s.rows |->
                          IF r # s.rank /\ c \in swapped[r]
                          THEN Xor(swapped[r], swapped[s.rank]) ELSE swapped[r]]
<1> DEFINE t == [rows |-> cleared, rank |-> s.rank + 1]
<1>1. /\ DOMAIN s.rows = 0..n-1 /\ s.rows \in [0..n-1 -> SUBSET (0..2*n-1)] /\ s.rank = c
      /\ Tracked(s.rows, matrix, n) /\ Kernelless(s.rows, n)
      /\ \A r \in 0..n-1, j \in 0..c-1 : j \in s.rows[r] <=> r = j
  BY DEF Reduced
<1>2. pivots # {} /\ pivots \in SUBSET Nat
  <2>1. PICK r \in 0..n-1 : r >= c /\ c \in s.rows[r]
    BY PivotFound
  <2>2. r \in pivots
    BY <1>1, <2>1
  <2>3. pivots \subseteq 0..n-1
    BY <1>1
  <2>4. 0..n-1 \subseteq Nat
    OBVIOUS
  <2> HIDE DEF pivots
  <2>5. pivots # {}
    BY <2>2
  <2>6. pivots \in SUBSET Nat
    BY <2>3, <2>4
  <2> QED BY <2>5, <2>6
<1>3. EliminateColumn(s, c) = t
  BY <1>2 DEF EliminateColumn
<1>4. p \in pivots
  <2>1. \E m \in pivots : \A k \in pivots : m <= k
    <3> HIDE DEF pivots
    <3> QED BY <1>2, LeastElement
  <2> QED BY <2>1 DEF Min
<1> HIDE DEF p
<1>5. p \in 0..n-1 /\ p >= c /\ c \in s.rows[p]
  BY <1>1, <1>4
<1> HIDE DEF pivots
<1>6. /\ swapped \in [0..n-1 -> SUBSET (0..2*n-1)]
      /\ swapped[c] = s.rows[p] /\ swapped[p] = s.rows[c]
      /\ \A r \in 0..n-1 : r # c /\ r # p => swapped[r] = s.rows[r]
  BY <1>1, <1>5
<1> DEFINE D == {r \in 0..n-1 : r # c /\ c \in swapped[r]}
<1>7. /\ cleared \in [0..n-1 -> SUBSET (0..2*n-1)]
      /\ \A r \in 0..n-1 : cleared[r] = IF r \in D THEN Xor(swapped[r], swapped[c]) ELSE swapped[r]
  <2>1. \A a, b \in SUBSET (0..2*n-1) : Xor(a, b) \in SUBSET (0..2*n-1)
    BY DEF Xor
  <2>2. cleared = [r \in 0..n-1 |-> IF r \in D THEN Xor(swapped[r], swapped[c]) ELSE swapped[r]]
    BY <1>1
  <2>3. \A r \in 0..n-1 : swapped[r] \in SUBSET (0..2*n-1) /\ Xor(swapped[r], swapped[c]) \in SUBSET (0..2*n-1)
    <3> HIDE DEF swapped
    <3> QED BY <1>6, <2>1
  <2> HIDE DEF swapped, D, cleared
  <2> QED BY <2>2, <2>3
<1>8. t.rows = cleared /\ t.rank = c + 1
  BY <1>1
<1> HIDE DEF swapped, cleared, t
<1>9. Tracked(swapped, matrix, n) /\ Kernelless(swapped, n)
  BY <1>1, <1>5, <1>6, SwapKeepsRecord
<1>10. Tracked(cleared, matrix, n) /\ Kernelless(cleared, n)
  <2>1. D \in SUBSET ((0..n-1) \ {c})
    OBVIOUS
  <2>2. \A r \in 0..n-1 : cleared[r] = IF r \in D THEN Xor(swapped[r], swapped[c]) ELSE swapped[r]
    BY <1>7
  <2>3. c \in 0..n-1 /\ n \in Nat
    OBVIOUS
  <2> HIDE DEF D
  <2> QED BY <1>9, <2>1, <2>2, <2>3, ClearKeepsRecord, Zenon
<1>11. \A r \in 0..n-1, j \in 0..c-1 : j \in swapped[r] <=> r = j
  <2> SUFFICES ASSUME NEW r \in 0..n-1, NEW j \in 0..c-1 PROVE j \in swapped[r] <=> r = j
    OBVIOUS
  <2>1. j \notin s.rows[c] /\ j \notin s.rows[p] /\ j # c /\ j # p
    BY <1>1, <1>5
  <2> QED BY <1>1, <1>6, <2>1
<1>12. \A r \in 0..n-1, j \in 0..c : j \in cleared[r] <=> r = j
  <2> SUFFICES ASSUME NEW r \in 0..n-1, NEW j \in 0..c PROVE j \in cleared[r] <=> r = j
    OBVIOUS
  <2>1. cleared[r] = IF r \in D THEN Xor(swapped[r], swapped[c]) ELSE swapped[r]
    BY <1>7
  <2>2. CASE j = c
    <3>1. c \in swapped[c]
      BY <1>5, <1>6
    <3> QED BY <2>1, <2>2, <3>1 DEF Xor
  <2>3. CASE j # c
    <3>1. j \in 0..c-1
      BY <2>3
    <3>2. (j \in swapped[r] <=> r = j) /\ j \notin swapped[c]
      BY <1>11, <2>3, <3>1
    <3> QED BY <2>1, <3>2 DEF Xor
  <2> QED BY <2>2, <2>3
<1>13. (c + 1) - 1 = c
  OBVIOUS
<1>14. Reduced(t, matrix, n, c + 1)
  BY <1>7, <1>8, <1>10, <1>12, <1>13 DEF Reduced
<1> QED BY <1>3, <1>14

(* The k-th row of the inverse names rows that xor to the k-th unit.       *)
LEMMA InverseOfRows ==
    ASSUME NEW n \in Nat, NEW matrix \in [0..n-1 -> SUBSET (0..n-1)], Kernelless(matrix, n),
           NEW k \in 0..n-1
    PROVE  /\ gf2_inverse(matrix)[k] \in SUBSET (0..n-1)
           /\ \A x \in 0..n-1 :
                 Odd({i \in gf2_inverse(matrix)[k] : x \in matrix[i]}) <=> x = k
<1> DEFINE a == Augmented(matrix)
<1> DEFINE f == CHOOSE f : Eliminations(a, f, n)
<1>1. Eliminations(a, f, n)
  BY EliminationsExist
<1>2. Eliminate(a, n) = f[n]
  BY DEF Eliminate, Eliminations
<1> HIDE DEF f
<1>3. \A c \in 0..n : f[c] = IF c = 0 THEN [rows |-> a, rank |-> 0]
                             ELSE EliminateColumn(f[c - 1], c - 1)
  BY <1>1 DEF Eliminations
<1> DEFINE Good == {c \in Nat : c <= n => Reduced(f[c], matrix, n, c)}
<1>4. 0 \in Good
  <2>1. f[0] = [rows |-> a, rank |-> 0]
    BY <1>3
  <2> QED BY <2>1, InverseStart
<1> HIDE DEF a
<1>5. ASSUME NEW c \in Nat, c \in Good PROVE c + 1 \in Good
  <2> SUFFICES ASSUME c + 1 <= n PROVE Reduced(f[c + 1], matrix, n, c + 1)
    OBVIOUS
  <2>1. c \in 0..n-1 /\ c + 1 \in 0..n /\ c + 1 # 0 /\ (c + 1) - 1 = c
    OBVIOUS
  <2>2. f[c + 1] = EliminateColumn(f[c], c)
    BY <1>3, <2>1
  <2>3. Reduced(f[c], matrix, n, c)
    BY <1>5, <2>1
  <2> QED BY <2>1, <2>2, <2>3, InverseStep
<1>6. n \in Good
  <2> HIDE DEF Good
  <2> QED BY <1>4, <1>5, SetInduction
<1> DEFINE rows == f[n].rows
<1> DEFINE inverse == {i \in 0..n-1 : n + i \in rows[k]}
<1>7. Reduced(f[n], matrix, n, n)
  BY <1>6
<1>8. gf2_inverse(matrix)[k] = {c - n : c \in {d \in rows[k] : d >= n}}
  <2>1. Cardinality(DOMAIN matrix) = n /\ DOMAIN matrix = 0..n-1
    BY InverseStart
  <2> QED BY <1>2, <2>1 DEF gf2_inverse, a
<1>9. rows[k] \in SUBSET (0..2*n-1)
  BY <1>7 DEF Reduced
<1>10. {c - n : c \in {d \in rows[k] : d >= n}} = inverse
  <2>1. ASSUME NEW d \in rows[k], d >= n PROVE d - n \in inverse
    <3>1. d \in 0..2*n-1
      BY <1>9
    <3>2. d - n \in 0..n-1 /\ n + (d - n) = d
      BY <2>1, <3>1
    <3> QED BY <3>2
  <2>2. ASSUME NEW i \in inverse PROVE i \in {c - n : c \in {d \in rows[k] : d >= n}}
    <3>1. i \in 0..n-1 /\ n + i \in rows[k] /\ n + i >= n /\ i = (n + i) - n
      OBVIOUS
    <3> QED BY <3>1
  <2> HIDE DEF inverse, rows
  <2> QED BY <2>1, <2>2
<1>11. ASSUME NEW x \in 0..n-1 PROVE Odd({i \in inverse : x \in matrix[i]}) <=> x = k
  <2>1. {i \in inverse : x \in matrix[i]} = Sources(rows[k], matrix, n, x)
    BY DEF Sources
  <2>2. x \in rows[k] <=> Odd(Sources(rows[k], matrix, n, x))
    BY <1>7 DEF Reduced, Tracked
  <2>3. x \in rows[k] <=> k = x
    BY <1>7 DEF Reduced
  <2> HIDE DEF inverse
  <2> QED BY <2>1, <2>2, <2>3
<1>12. inverse \in SUBSET (0..n-1)
  OBVIOUS
<1> HIDE DEF inverse, rows
<1> QED BY <1>8, <1>10, <1>11, <1>12

-----------------------------------------------------------------------------
(* The seven bases: any two structured views are missing from one of them, *)
(* and each is nonsingular.                                                *)
LEMMA QuadsByName ==
    /\ Len(SelectedQuads) = 7
    /\ SelectedQuads[1] = <<0, 1, 2, 3>> /\ SelectedQuads[2] = <<0, 1, 4, 5>>
    /\ SelectedQuads[3] = <<0, 2, 5, 6>> /\ SelectedQuads[4] = <<0, 3, 4, 6>>
    /\ SelectedQuads[5] = <<1, 2, 4, 6>> /\ SelectedQuads[6] = <<1, 3, 5, 6>>
    /\ SelectedQuads[7] = <<2, 3, 4, 5>>
  BY DEF SelectedQuads

LEMMA RowsByName ==
    /\ coefficient_rows[0] = {0} /\ coefficient_rows[1] = {1}
    /\ coefficient_rows[2] = {2} /\ coefficient_rows[3] = {3}
    /\ coefficient_rows[4] = {0, 1, 3} /\ coefficient_rows[5] = {0, 2, 3}
    /\ coefficient_rows[6] = {1, 2, 3}
  BY DEF coefficient_rows

Members(k) == {SelectedQuads[k][i + 1] : i \in 0..3}

LEMMA QuadMembers ==
    /\ \A k \in 1..7 : \A i \in 0..3 : SelectedQuads[k][i + 1] \in 0..6
    /\ Members(1) = {0, 1, 2, 3} /\ Members(2) = {0, 1, 4, 5} /\ Members(3) = {0, 2, 5, 6}
    /\ Members(4) = {0, 3, 4, 6} /\ Members(5) = {1, 2, 4, 6} /\ Members(6) = {1, 3, 5, 6}
    /\ Members(7) = {2, 3, 4, 5}
<1>1. \A i \in 0..3 : i = 0 \/ i = 1 \/ i = 2 \/ i = 3
  OBVIOUS
<1>2. 0 \in 0..3 /\ 1 \in 0..3 /\ 2 \in 0..3 /\ 3 \in 0..3
  OBVIOUS
<1>3. ASSUME NEW k
      PROVE  /\ \A i \in 0..3 : SelectedQuads[k][i + 1] \in {SelectedQuads[k][1], SelectedQuads[k][2],
                                                           SelectedQuads[k][3], SelectedQuads[k][4]}
             /\ Members(k) = {SelectedQuads[k][1], SelectedQuads[k][2],
                              SelectedQuads[k][3], SelectedQuads[k][4]}
  <2> DEFINE q == SelectedQuads[k]
  <2> HIDE DEF q
  <2>1. /\ q[0 + 1] = q[1] /\ q[1 + 1] = q[2] /\ q[2 + 1] = q[3] /\ q[3 + 1] = q[4]
    OBVIOUS
  <2>2. \A i \in 0..3 : q[i + 1] \in {q[1], q[2], q[3], q[4]}
    BY <1>1, <2>1
  <2>3. {q[i + 1] : i \in 0..3} = {q[1], q[2], q[3], q[4]}
    BY <1>2, <2>1, <2>2
  <2> QED BY <2>2, <2>3 DEF Members, q
<1>4. \A k \in 1..7 : k = 1 \/ k = 2 \/ k = 3 \/ k = 4 \/ k = 5 \/ k = 6 \/ k = 7
  OBVIOUS
<1>5. 0 \in 0..6 /\ 1 \in 0..6 /\ 2 \in 0..6 /\ 3 \in 0..6 /\ 4 \in 0..6 /\ 5 \in 0..6 /\ 6 \in 0..6
  OBVIOUS
<1>6. Members(1) = {0, 1, 2, 3} /\ \A i \in 0..3 : SelectedQuads[1][i + 1] \in 0..6
  BY <1>3, <1>5, QuadsByName
<1>7. Members(2) = {0, 1, 4, 5} /\ \A i \in 0..3 : SelectedQuads[2][i + 1] \in 0..6
  BY <1>3, <1>5, QuadsByName
<1>8. Members(3) = {0, 2, 5, 6} /\ \A i \in 0..3 : SelectedQuads[3][i + 1] \in 0..6
  BY <1>3, <1>5, QuadsByName
<1>9. Members(4) = {0, 3, 4, 6} /\ \A i \in 0..3 : SelectedQuads[4][i + 1] \in 0..6
  BY <1>3, <1>5, QuadsByName
<1>10. Members(5) = {1, 2, 4, 6} /\ \A i \in 0..3 : SelectedQuads[5][i + 1] \in 0..6
  BY <1>3, <1>5, QuadsByName
<1>11. Members(6) = {1, 3, 5, 6} /\ \A i \in 0..3 : SelectedQuads[6][i + 1] \in 0..6
  BY <1>3, <1>5, QuadsByName
<1>12. Members(7) = {2, 3, 4, 5} /\ \A i \in 0..3 : SelectedQuads[7][i + 1] \in 0..6
  BY <1>3, <1>5, QuadsByName
<1> QED BY <1>4, <1>6, <1>7, <1>8, <1>9, <1>10, <1>11, <1>12

LEMMA TwoMissesAvoided ==
    ASSUME NEW a \in 0..6, NEW b \in 0..6
    PROVE  \E k \in 1..7 : a \notin Members(k) /\ b \notin Members(k)
<1>1. /\ 1 \in 1..7 /\ 2 \in 1..7 /\ 3 \in 1..7 /\ 4 \in 1..7 /\ 5 \in 1..7
      /\ 6 \in 1..7 /\ 7 \in 1..7
  OBVIOUS
<1>2. \/ a \notin {0, 1, 2, 3} /\ b \notin {0, 1, 2, 3}
      \/ a \notin {0, 1, 4, 5} /\ b \notin {0, 1, 4, 5}
      \/ a \notin {0, 2, 5, 6} /\ b \notin {0, 2, 5, 6}
      \/ a \notin {0, 3, 4, 6} /\ b \notin {0, 3, 4, 6}
      \/ a \notin {1, 2, 4, 6} /\ b \notin {1, 2, 4, 6}
      \/ a \notin {1, 3, 5, 6} /\ b \notin {1, 3, 5, 6}
      \/ a \notin {2, 3, 4, 5} /\ b \notin {2, 3, 4, 5}
  OBVIOUS
<1>3. /\ Members(1) = {0, 1, 2, 3} /\ Members(2) = {0, 1, 4, 5} /\ Members(3) = {0, 2, 5, 6}
      /\ Members(4) = {0, 3, 4, 6} /\ Members(5) = {1, 2, 4, 6} /\ Members(6) = {1, 3, 5, 6}
      /\ Members(7) = {2, 3, 4, 5}
  BY QuadMembers
<1> HIDE DEF Members
<1> QED BY <1>1, <1>2, <1>3

(* Parities of one and three bits.                                         *)
LEMMA ParityOfThree ==
    ASSUME NEW v, NEW a, NEW b, NEW c, a # b, a # c, b # c
    PROVE  /\ Odd({a} \cap v) <=> a \in v
           /\ Odd({a, b, c} \cap v) <=> ((a \in v <=> b \in v) <=> c \in v)
<1>1. \A x : IsFiniteSet({x} \cap v) /\ (Odd({x} \cap v) <=> x \in v)
  <2> TAKE x
  <2>1. CASE x \in v
    <3>1. {x} \cap v = {x}
      BY <2>1
    <3>2. IsFiniteSet({x}) /\ Odd({x})
      BY FS_Singleton, OddFew
    <3> QED BY <2>1, <3>1, <3>2
  <2>2. CASE x \notin v
    <3>1. {x} \cap v = {}
      BY <2>2
    <3> QED BY <2>2, <3>1, FS_EmptySet, OddFew
  <2> QED BY <2>1, <2>2
<1>2. {a, b} \cap v = Xor({a} \cap v, {b} \cap v)
  BY DEF Xor
<1>3. {a, b, c} \cap v = Xor({a, b} \cap v, {c} \cap v)
  BY DEF Xor
<1>4. IsFiniteSet({a, b} \cap v) /\ (Odd({a, b} \cap v) <=> ~(a \in v <=> b \in v))
  <2>1. /\ IsFiniteSet({a} \cap v) /\ IsFiniteSet({b} \cap v)
        /\ (Odd({a} \cap v) <=> a \in v) /\ (Odd({b} \cap v) <=> b \in v)
    BY <1>1
  <2> QED BY <1>2, <2>1, OddXor
<1>5. Odd({a, b, c} \cap v) <=> ~(Odd({a, b} \cap v) <=> c \in v)
  <2>1. IsFiniteSet({c} \cap v) /\ (Odd({c} \cap v) <=> c \in v)
    BY <1>1
  <2> QED BY <1>3, <1>4, <2>1, OddXor
<1> QED BY <1>1, <1>4, <1>5

QuadRows(k) == [i \in 0..3 |-> coefficient_rows[SelectedQuads[k][i + 1]]]

LEMMA QuadsNonsingular ==
    ASSUME NEW k \in 1..7
    PROVE  QuadRows(k) \in [0..3 -> SUBSET (0..3)] /\ Kernelless(QuadRows(k), 4)
<1>1. \A x \in 0..6 : coefficient_rows[x] \in SUBSET (0..3)
  <2>1. \A x \in 0..6 : x = 0 \/ x = 1 \/ x = 2 \/ x = 3 \/ x = 4 \/ x = 5 \/ x = 6
    OBVIOUS
  <2>2. 0 \in 0..3 /\ 1 \in 0..3 /\ 2 \in 0..3 /\ 3 \in 0..3
    OBVIOUS
  <2> QED BY <2>1, <2>2, RowsByName
<1>2. QuadRows(k) \in [0..3 -> SUBSET (0..3)]
  <2>1. \A i \in 0..3 : SelectedQuads[k][i + 1] \in 0..6
    BY QuadMembers
  <2> QED BY <1>1, <2>1 DEF QuadRows
<1>3. Kernelless(QuadRows(k), 4)
  <2>1. 4 - 1 = 3
    OBVIOUS
  <2> SUFFICES ASSUME NEW v \in SUBSET (0..3),
                      \A x \in Members(k) : ~Odd(coefficient_rows[x] \cap v)
               PROVE  v = {}
    <3>1. \A x \in Members(k) : \E i \in 0..3 : coefficient_rows[x] = QuadRows(k)[i]
      BY DEF Members, QuadRows
    <3> QED BY <2>1, <3>1 DEF Kernelless
  <2>2. /\ Odd(coefficient_rows[0] \cap v) <=> 0 \in v
        /\ Odd(coefficient_rows[1] \cap v) <=> 1 \in v
        /\ Odd(coefficient_rows[2] \cap v) <=> 2 \in v
        /\ Odd(coefficient_rows[3] \cap v) <=> 3 \in v
    <3>1. \A x : Odd({x} \cap v) <=> x \in v
      <4> TAKE x
      <4>1. \E b, c : x # b /\ x # c /\ b # c
        <5>1. (x # 0 /\ x # 1) \/ (x # 2 /\ x # 1) \/ (x # 0 /\ x # 2)
          OBVIOUS
        <5>2. 0 # 1 /\ 1 # 2 /\ 0 # 2
          OBVIOUS
        <5> QED BY <5>1, <5>2
      <4> QED BY <4>1, ParityOfThree
    <3> QED BY <3>1, RowsByName
  <2>3. /\ Odd(coefficient_rows[4] \cap v) <=> ((0 \in v <=> 1 \in v) <=> 3 \in v)
        /\ Odd(coefficient_rows[5] \cap v) <=> ((0 \in v <=> 2 \in v) <=> 3 \in v)
        /\ Odd(coefficient_rows[6] \cap v) <=> ((1 \in v <=> 2 \in v) <=> 3 \in v)
    <3>1. \A a, b, c \in 0..3 : a # b /\ a # c /\ b # c =>
             (Odd({a, b, c} \cap v) <=> ((a \in v <=> b \in v) <=> c \in v))
      BY ParityOfThree
    <3>2. 0 \in 0..3 /\ 1 \in 0..3 /\ 2 \in 0..3 /\ 3 \in 0..3
      OBVIOUS
    <3> QED BY <3>1, <3>2, RowsByName
  <2>4. 0 \notin v /\ 1 \notin v /\ 2 \notin v /\ 3 \notin v
    <3>1. \/ Members(k) = {0, 1, 2, 3} \/ Members(k) = {0, 1, 4, 5} \/ Members(k) = {0, 2, 5, 6}
          \/ Members(k) = {0, 3, 4, 6} \/ Members(k) = {1, 2, 4, 6} \/ Members(k) = {1, 3, 5, 6}
          \/ Members(k) = {2, 3, 4, 5}
      <4>1. k = 1 \/ k = 2 \/ k = 3 \/ k = 4 \/ k = 5 \/ k = 6 \/ k = 7
        OBVIOUS
      <4> QED BY <4>1, QuadMembers
    <3> DEFINE P(x) == ~Odd(coefficient_rows[x] \cap v)
    <3>2. \/ P(0) /\ P(1) /\ P(2) /\ P(3)
          \/ P(0) /\ P(1) /\ P(4) /\ P(5)
          \/ P(0) /\ P(2) /\ P(5) /\ P(6)
          \/ P(0) /\ P(3) /\ P(4) /\ P(6)
          \/ P(1) /\ P(2) /\ P(4) /\ P(6)
          \/ P(1) /\ P(3) /\ P(5) /\ P(6)
          \/ P(2) /\ P(3) /\ P(4) /\ P(5)
      BY <3>1
    <3> QED BY <2>2, <2>3, <3>2
  <2>5. \A x \in 0..3 : x = 0 \/ x = 1 \/ x = 2 \/ x = 3
    OBVIOUS
  <2> QED BY <2>4, <2>5
<1> QED BY <1>2, <1>3

(* What a structured view tells of one bit of the four fields.             *)
Fields(q, bit) == {b \in 0..3 : b * LocalBits + bit \in q}

LEMMA StructuredParity ==
    ASSUME NEW x \in 0..6, NEW q \in Identities, NEW bit \in Rows
    PROVE  bit \in Product(StructuredView(x), q)
               <=> Odd(coefficient_rows[x] \cap Fields(q, bit))
<1> DEFINE row == coefficient_rows[x]
<1> DEFINE place(b) == b * LocalBits + bit
<1> DEFINE S == row \cap Fields(q, bit)
<1> DEFINE T == StructuredView(x)[bit] \cap q
<1>1. row \in SUBSET (0..3)
  <2>1. x = 0 \/ x = 1 \/ x = 2 \/ x = 3 \/ x = 4 \/ x = 5 \/ x = 6
    OBVIOUS
  <2>2. 0 \in 0..3 /\ 1 \in 0..3 /\ 2 \in 0..3 /\ 3 \in 0..3
    OBVIOUS
  <2> QED BY <2>1, <2>2, RowsByName
<1>2. StructuredView(x)[bit] = {place(b) : b \in row}
  BY DEF StructuredView, Rows
<1>3. \A a, b \in 0..3 : place(a) = place(b) => a = b
  <2> SUFFICES ASSUME NEW a \in 0..3, NEW b \in 0..3, place(a) = place(b) PROVE a = b
    OBVIOUS
  <2>1. /\ LocalBits \in Nat \ {0} /\ bit \in 0..LocalBits-1 /\ a \in 0..4-1 /\ b \in 0..4-1
    BY Widths DEF Rows
  <2>2. place(a) \div LocalBits = a /\ place(b) \div LocalBits = b
    BY <2>1, PlaceOf
  <2> HIDE DEF place
  <2> QED BY <2>2
<1>4. S = {b \in row : place(b) \in q} /\ T = {place(b) : b \in S}
  BY <1>1, <1>2 DEF Fields
<1> DEFINE f == [b \in S |-> place(b)]
<1>5. f \in Bijection(S, T)
  <2>1. f \in [S -> T]
    BY <1>4
  <2>2. \A a, b \in S : f[a] = f[b] => a = b
    <3>1. S \subseteq 0..3
      BY <1>1
    <3>2. \A a \in S : f[a] = place(a)
      OBVIOUS
    <3> HIDE DEF f, S, place
    <3> QED BY <1>3, <3>1, <3>2
  <2>3. \A y \in T : \E b \in S : f[b] = y
    <3>1. T = {place(b) : b \in S}
      BY <1>4
    <3>2. \A b \in S : f[b] = place(b)
      OBVIOUS
    <3> HIDE DEF f, S, place, T
    <3> QED BY <3>1, <3>2
  <2> HIDE DEF f, S, T
  <2> QED BY <2>1, <2>2, <2>3 DEF Bijection, Injection, Surjection, IsInjective
<1>6. IsFiniteSet(S)
  <2>1. IsFiniteSet(0..3)
    <3>1. \A a, b \in Int : IsFiniteSet(a..b)
      BY FS_Interval
    <3>2. 0 \in Int /\ 3 \in Int
      OBVIOUS
    <3> QED BY <3>1, <3>2, Zenon
  <2>2. S \in SUBSET (0..3)
    BY <1>1
  <2> HIDE DEF S
  <2> QED BY <2>1, <2>2, FS_Subset
<1>7. Cardinality(S) = Cardinality(T)
  <2>1. ExistsBijection(S, T)
    <3> HIDE DEF f, S, T
    <3> QED BY <1>5 DEF ExistsBijection
  <2> HIDE DEF S, T
  <2> QED BY <1>6, <2>1, FS_Bijection
<1>8. bit \in Product(StructuredView(x), q) <=> Odd(T)
  <2>1. bit \in DOMAIN StructuredView(x)
    BY DEF StructuredView, Rows
  <2> QED BY <2>1 DEF Product
<1>9. Odd(T) <=> Odd(S)
  BY <1>7 DEF Odd
<1> HIDE DEF T
<1> QED BY <1>8, <1>9

LEMMA FourRows == IsFiniteSet(0..3) /\ 4 - 1 = 3
<1>1. \A a, b \in Int : IsFiniteSet(a..b)
  BY FS_Interval
<1>2. 0 \in Int /\ 3 \in Int
  OBVIOUS
<1>3. IsFiniteSet(0..3)
  BY <1>1, <1>2, Zenon
<1> QED BY <1>3

(* Vectors that xor to the b-th unit read the b-th field off the views.    *)
XorToUnit(A, m, b, B) == \A x \in B : Odd({i \in A : x \in m[i]}) <=> x = b

LEMMA QuadInverse ==
    ASSUME NEW k \in 1..7, NEW b \in 0..3
    PROVE  /\ gf2_inverse(QuadRows(k))[b] \in SUBSET (0..3)
           /\ XorToUnit(gf2_inverse(QuadRows(k))[b], QuadRows(k), b, 0..3)
<1> DEFINE m == QuadRows(k)
<1> DEFINE n == 4
<1>1. n \in Nat /\ 0..n-1 = 0..3
  BY FourRows
<1>2. m \in [0..n-1 -> SUBSET (0..n-1)] /\ Kernelless(m, n)
  BY <1>1, QuadsNonsingular
<1>3. b \in 0..n-1
  BY <1>1
<1> HIDE DEF m, n
<1>4. /\ gf2_inverse(m)[b] \in SUBSET (0..n-1)
      /\ \A x \in 0..n-1 : Odd({i \in gf2_inverse(m)[b] : x \in m[i]}) <=> x = b
  BY <1>1, <1>2, <1>3, InverseOfRows
<1> QED BY <1>1, <1>4 DEF m, XorToUnit

Transposed(f, g) ==
    \A i \in DOMAIN f, x \in DOMAIN g : x \in f[i] <=> i \in g[x]

LEMMA RowsOrColumns ==
    ASSUME NEW A, IsFiniteSet(A), NEW B, IsFiniteSet(B),
           NEW f \in [A -> SUBSET B], NEW g \in [B -> SUBSET A], Transposed(f, g)
    PROVE  Odd({i \in A : Odd(f[i])}) <=> Odd({x \in B : Odd(g[x])})
<1> DEFINE column(x) == {i \in A : x \in f[i]}
<1>1. Odd({i \in A : Odd(f[i])}) <=> Odd({x \in B : Odd(column(x))})
  BY DoubleParity
<1>2. \A x \in B : column(x) = g[x]
  BY DEF Transposed
<1> HIDE DEF column
<1>3. {x \in B : Odd(column(x))} = {x \in B : Odd(g[x])}
  BY <1>2
<1> QED BY <1>1, <1>3

LEMMA UnitReadsField ==
    ASSUME NEW B, IsFiniteSet(B), NEW A \in SUBSET B, NEW m \in [B -> SUBSET B],
           NEW b \in B, XorToUnit(A, m, b, B), NEW t
    PROVE  Odd({i \in A : Odd(m[i] \cap t)}) <=> b \in t
<1> DEFINE f == [i \in A |-> m[i] \cap t]
<1> DEFINE g == [x \in B |-> {i \in A : x \in m[i] \cap t}]
<1>1. Odd({i \in A : Odd(f[i])}) <=> Odd({x \in B : Odd(g[x])})
  <2>1. IsFiniteSet(A)
    BY FS_Subset
  <2>2. f \in [A -> SUBSET B] /\ g \in [B -> SUBSET A]
    OBVIOUS
  <2>3. Transposed(f, g)
    BY DEF Transposed
  <2> HIDE DEF f, g
  <2> QED BY <2>1, <2>2, <2>3, RowsOrColumns
<1>2. \A x \in B : Odd(g[x]) <=> x \in t /\ x = b
  <2> SUFFICES ASSUME NEW x \in B PROVE Odd(g[x]) <=> x \in t /\ x = b
    OBVIOUS
  <2>1. CASE x \in t
    <3>1. g[x] = {i \in A : x \in m[i]}
      BY <2>1
    <3> HIDE DEF g
    <3> QED BY <2>1, <3>1 DEF XorToUnit
  <2>2. CASE x \notin t
    <3>1. g[x] = {}
      BY <2>2
    <3> HIDE DEF g
    <3> QED BY <2>2, <3>1, OddFew
  <2> QED BY <2>1, <2>2
<1> DEFINE S == {x \in B : Odd(g[x])}
<1>3. Odd(S) <=> b \in t
  <2>1. CASE b \in t
    <3>1. S = {b}
      BY <1>2, <2>1
    <3> HIDE DEF S
    <3> QED BY <2>1, <3>1, OddFew
  <2>2. CASE b \notin t
    <3>1. S = {}
      BY <1>2, <2>2
    <3> HIDE DEF S
    <3> QED BY <2>2, <3>1, OddFew
  <2> QED BY <2>1, <2>2
<1>4. {i \in A : Odd(f[i])} = {i \in A : Odd(m[i] \cap t)}
  <2>1. \A i \in A : f[i] = m[i] \cap t
    OBVIOUS
  <2> HIDE DEF f
  <2> QED BY <2>1
<1> HIDE DEF f, g
<1> QED BY <1>1, <1>3, <1>4

(* A basis decodes what its four views saw of an identity.                 *)
LEMMA DecodeRecovers ==
    ASSUME FieldBits = LocalBits, NEW k \in 1..7, NEW q \in Identities, NEW values,
           \A i \in 0..3 :
              values[i + 1] = Product(StructuredView(SelectedQuads[k][i + 1]), q)
    PROVE  decode_tuple(values, decoding_quads[k].inverse) = q
<1> DEFINE m == QuadRows(k)
<1> DEFINE inverse == gf2_inverse(m)
<1>1. decoding_quads[k].inverse = inverse
  BY QuadsByName DEF decoding_quads, QuadRows
<1>2. \A b \in 0..3 : inverse[b] \in SUBSET (0..3) /\ XorToUnit(inverse[b], m, b, 0..3)
  BY QuadInverse
<1>3. m \in [0..3 -> SUBSET (0..3)]
  BY QuadsNonsingular
<1>4. ASSUME NEW i \in 0..3, NEW bit \in Rows
      PROVE  bit \in values[i + 1] <=> Odd(m[i] \cap Fields(q, bit))
  <2>1. SelectedQuads[k][i + 1] \in 0..6 /\ m[i] = coefficient_rows[SelectedQuads[k][i + 1]]
    BY QuadMembers DEF QuadRows
  <2> QED BY <2>1, StructuredParity
<1>5. \A i \in 0..3 : values[i + 1] \subseteq Rows
  <2>1. \A x : Product(StructuredView(x), q) \subseteq Rows
    BY DEF Product, StructuredView, Rows
  <2> QED BY <2>1
<1> HIDE DEF m, inverse
<1> DEFINE field(b) == XorOf([i \in inverse[b] |-> values[i + 1]])
<1>6. ASSUME NEW b \in 0..3, NEW bit
      PROVE  bit \in field(b) <=> bit \in Rows /\ b * LocalBits + bit \in q
  <2> DEFINE A == inverse[b]
  <2>1. bit \in field(b) <=> Odd({i \in A : bit \in values[i + 1]})
    <3> DEFINE g == [i \in A |-> values[i + 1]]
    <3>1. bit \in XorOf(g) <=> Odd({i \in DOMAIN g : bit \in g[i]})
      BY XorOfHolds
    <3>2. {i \in DOMAIN g : bit \in g[i]} = {i \in A : bit \in values[i + 1]}
      OBVIOUS
    <3> QED BY <3>1, <3>2
  <2>2. CASE bit \notin Rows
    <3>1. {i \in A : bit \in values[i + 1]} = {}
      BY <1>2, <1>5, <2>2
    <3> HIDE DEF field, A
    <3> QED BY <2>1, <2>2, <3>1, OddFew
  <2>3. CASE bit \in Rows
    <3> DEFINE t == Fields(q, bit)
    <3>1. A \in SUBSET (0..3) /\ XorToUnit(A, m, b, 0..3)
      BY <1>2
    <3> HIDE DEF A
    <3>2. {i \in A : bit \in values[i + 1]} = {i \in A : Odd(m[i] \cap t)}
      BY <1>4, <2>3, <3>1
    <3> HIDE DEF t
    <3>3. Odd({i \in A : Odd(m[i] \cap t)}) <=> b \in t
      BY <1>3, <3>1, FourRows, UnitReadsField
    <3>4. b \in t <=> b * LocalBits + bit \in q
      BY DEF Fields, t
    <3> HIDE DEF field
    <3> QED BY <2>1, <2>3, <3>2, <3>3, <3>4
  <2> HIDE DEF A, field
  <2> QED BY <2>2, <2>3
<1>7. decode_tuple(values, inverse) = UNION {{LocalBits * b + bit : bit \in field(b)} : b \in 0..3}
  BY DEF decode_tuple, pack_bytes
<1> HIDE DEF field
<1>8. ASSUME NEW b \in 0..3, NEW bit \in field(b) PROVE LocalBits * b + bit \in q
  <2>1. bit \in Rows /\ b * LocalBits + bit \in q
    BY <1>6
  <2>2. b * LocalBits = LocalBits * b
    BY Widths
  <2> QED BY <2>1, <2>2
<1>9. ASSUME NEW x \in q PROVE \E b \in 0..3 : \E bit \in field(b) : x = LocalBits * b + bit
  <2> DEFINE b == x \div LocalBits
  <2> DEFINE bit == x % LocalBits
  <2>1. x \in Nat /\ x < 4 * LocalBits /\ LocalBits \in Nat \ {0}
    BY Widths DEF Identities, IdentityBits
  <2>2. bit \in 0..LocalBits-1 /\ bit = x - LocalBits * b /\ b \in Nat
    BY <2>1, Quotient
  <2>3. b \in 0..4-1
    BY <2>1, QuotientBelow
  <2> HIDE DEF b, bit
  <2>4. b \in 0..3 /\ x = LocalBits * b + bit /\ x = b * LocalBits + bit
    BY <2>1, <2>2, <2>3
  <2>5. bit \in field(b)
    BY <1>6, <2>2, <2>4 DEF Rows
  <2> QED BY <2>4, <2>5
<1>10. UNION {{LocalBits * b + bit : bit \in field(b)} : b \in 0..3} = q
  BY <1>8, <1>9
<1> QED BY <1>1, <1>7, <1>10

-----------------------------------------------------------------------------
(* What has been detected in the views of an accepted frame, and what was  *)
(* recovered from it.                                                      *)
PathInv ==
    /\ engine \in Plans
    /\ detected \in Seq(SUBSET Buckets)
    /\ stage \in {"planning", "observing", "recovering", "done"}
    /\ stage = "planning" => detected = <<>>
    /\ stage = "observing" => scene \in Scenes /\ Len(detected) < NViews
    /\ stage = "recovering" => scene \in Scenes /\ Len(detected) = NViews
    /\ stage = "done" /\ detected # <<>> =>
          /\ scene \in Scenes /\ Len(detected) = NViews
          /\ identities \in Recoveries(Level, DetectedIn, engine.views)

LEMMA BucketsHashed ==
    ASSUME NEW plan \in Plans, NEW v \in ViewIndices, NEW q \in Identities
    PROVE  /\ hash_ids(plan.views[v], q) \in Buckets
           /\ v \in 0..6 => hash_ids(plan.views[v], q) = Product(StructuredView(v), q)
<1>1. plan.views[v] \in Matrices /\ plan.views[v] \in ViewMatrices
  BY ViewsOfPlan
<1>2. hash_ids(plan.views[v], q) = Product(plan.views[v], q)
  BY <1>1, HashIsProduct
<1>3. Product(plan.views[v], q) \in Buckets
  BY <1>1 DEF Product, Matrices, Buckets, Indices
<1>4. ASSUME v \in 0..6 PROVE plan.views[v] = StructuredView(v)
  <2>1. PICK seed \in Seeds, ordering \in Orderings : plan \in compile_query_plan(seed, ordering)
    BY DEF Plans
  <2>2. plan.views = default_hash_views(seed)
    BY <2>1 DEF compile_query_plan
  <2>3. v < 7
    BY <1>4
  <2> QED BY <2>2, <2>3 DEF default_hash_views
<1> QED BY <1>2, <1>3, <1>4

LEMMA PathInvariant == Spec => []PathInv
<1>1. Init => PathInv
  BY DEF Init, PathInv
<1>2. PathInv /\ [Next]_vars => PathInv'
  <2> SUFFICES ASSUME PathInv, [Next]_vars PROVE PathInv'
    OBVIOUS
  <2>1. CASE AcceptFrame
    <3>1. /\ scene' \in Scenes /\ stage' = "observing" /\ stage = "planning"
          /\ UNCHANGED <<acquired, engine, detected, identities>>
      BY <2>1 DEF AcceptFrame
    <3>2. detected = <<>> /\ engine \in Plans /\ detected \in Seq(SUBSET Buckets)
      BY <3>1 DEF PathInv
    <3>3. Len(detected) < NViews
      BY <3>2, PlanAssumption
    <3> QED BY <3>1, <3>2, <3>3 DEF PathInv
  <2>2. CASE RefuseFrame
    <3>1. /\ stage' = "done" /\ stage = "planning"
          /\ UNCHANGED <<acquired, engine, detected, identities>>
      BY <2>2 DEF RefuseFrame
    <3>2. detected = <<>> /\ engine \in Plans /\ detected \in Seq(SUBSET Buckets)
      BY <3>1 DEF PathInv
    <3> QED BY <3>1, <3>2 DEF PathInv
  <2>3. CASE Observe
    <3>1. /\ stage = "observing" /\ UNCHANGED <<acquired, engine, scene, identities>>
          /\ stage' = IF view + 1 = NViews THEN "recovering" ELSE stage
      BY <2>3 DEF Observe
    <3>a. PICK missed \in BOOLEAN :
             \E kept \in SUBSET Proposals(missed) : detected' = Append(detected, kept)
      BY <2>3 DEF Observe, Kept
    <3>2. PICK kept \in SUBSET Proposals(missed) : detected' = Append(detected, kept)
      BY <3>a
    <3>3. /\ scene \in Scenes /\ Len(detected) < NViews /\ engine \in Plans
          /\ detected \in Seq(SUBSET Buckets)
      BY <3>1 DEF PathInv
    <3>4. view \in ViewIndices /\ view = Len(detected) /\ view \in Nat /\ view + 1 <= NViews
      BY <3>3, Widths DEF view, ViewIndices
    <3>5. \A q \in Identities : BucketOf(q, view) \in Buckets
      BY <3>3, <3>4, BucketsHashed DEF BucketOf
    <3>6. /\ scene.target \in Identities /\ scene.others \subseteq Identities
          /\ scene.clutter[view] \subseteq Buckets
      BY <3>3, <3>4, PathAssumption
    <3>7. Proposals(missed) \in SUBSET Buckets
      <4> HIDE DEF view
      <4> QED BY <3>5, <3>6 DEF Proposals
    <3>8. detected' \in Seq(SUBSET Buckets) /\ Len(detected') = view + 1
      <4> HIDE DEF Proposals, Buckets
      <4> QED BY <3>2, <3>3, <3>4, <3>7
    <3> QED BY <3>1, <3>3, <3>4, <3>8, Widths DEF PathInv
  <2>4. CASE Recover
    <3>1. /\ stage = "recovering" /\ stage' = "done"
          /\ identities' \in Recoveries(Level, DetectedIn, engine.views)
          /\ UNCHANGED <<acquired, engine, scene, detected>>
      BY <2>4 DEF Recover
    <3>2. /\ scene \in Scenes /\ Len(detected) = NViews /\ engine \in Plans
          /\ detected \in Seq(SUBSET Buckets)
      BY <3>1 DEF PathInv
    <3>3. Level' = Level /\ DetectedIn' = DetectedIn /\ (engine.views)' = engine.views
      BY <3>1 DEF Level, DetectedIn
    <3>4. (Recoveries(Level, DetectedIn, engine.views))' = Recoveries(Level, DetectedIn, engine.views)
      BY <3>3
    <3> QED BY <3>1, <3>2, <3>4 DEF PathInv
  <2>5. CASE UNCHANGED vars
    <3>1. UNCHANGED <<stage, acquired, engine, scene, detected, identities>>
      BY <2>5 DEF vars
    <3>3. Level' = Level /\ DetectedIn' = DetectedIn /\ (engine.views)' = engine.views
      BY <3>1 DEF Level, DetectedIn
    <3>4. (Recoveries(Level, DetectedIn, engine.views))' = Recoveries(Level, DetectedIn, engine.views)
      BY <3>3
    <3> QED BY <3>1, <3>4 DEF PathInv
  <2> QED BY <2>1, <2>2, <2>3, <2>4, <2>5 DEF Next
<1> QED BY <1>1, <1>2, PTL DEF Spec

-----------------------------------------------------------------------------
(* Counting views, candidates and places.                                  *)
LEMMA AtMostTwo ==
    ASSUME NEW R, NEW S \in SUBSET R, IsFiniteSet(S), Cardinality(S) <= 2, R # {}
    PROVE  \E a, b \in R : S \subseteq {a, b}
<1>1. CASE S = {}
  BY <1>1
<1>2. CASE S # {}
  <2>1. PICK a \in S : TRUE
    BY <1>2
  <2> DEFINE T == S \ {a}
  <2>2. IsFiniteSet(T) /\ Cardinality(T) = Cardinality(S) - 1 /\ Cardinality(S) \in Nat
    BY <2>1, FS_RemoveElement, FS_CardinalityType
  <2>3. CASE T = {}
    BY <2>1, <2>3
  <2>4. CASE T # {}
    <3>1. PICK b \in T : TRUE
      BY <2>4
    <3> DEFINE U == T \ {b}
    <3> HIDE DEF T
    <3>2. IsFiniteSet(U) /\ Cardinality(U) = Cardinality(T) - 1 /\ Cardinality(U) \in Nat
      BY <2>2, <3>1, FS_RemoveElement, FS_CardinalityType
    <3>3. Cardinality(U) = 0
      BY <2>2, <3>2
    <3>4. U = {}
      BY <3>2, <3>3, FS_EmptySet
    <3> QED BY <2>1, <3>1, <3>4 DEF T
  <2> QED BY <2>3, <2>4
<1> QED BY <1>1, <1>2

LEMMA ViewsFinite == ASSUME NEW S \in SUBSET ViewIndices
                     PROVE  IsFiniteSet(S) /\ Cardinality(S) \in Nat
<1>1. IsFiniteSet(ViewIndices) /\ Cardinality(ViewIndices) = NViews
  <2>1. NViews - 1 \in Int /\ 0 \in Int /\ NViews \in Nat /\ NViews >= 10
    BY PlanAssumption
  <2>2. /\ IsFiniteSet(0..NViews-1)
        /\ Cardinality(0..NViews-1) = IF 0 > NViews - 1 THEN 0 ELSE NViews - 1 - 0 + 1
    BY <2>1, FS_Interval
  <2> QED BY <2>1, <2>2 DEF ViewIndices
<1> QED BY <1>1, FS_Subset, FS_CardinalityType

LEMMA ViewsCounted ==
    /\ Cardinality(ViewIndices) = NViews
    /\ 7..NViews-1 \subseteq ViewIndices /\ Cardinality(7..NViews-1) = NViews - 7
<1>1. NViews - 1 \in Int /\ 0 \in Int /\ 7 \in Int /\ NViews \in Nat /\ NViews >= 10
  BY PlanAssumption
<1>2. /\ Cardinality(0..NViews-1) = IF 0 > NViews - 1 THEN 0 ELSE NViews - 1 - 0 + 1
      /\ Cardinality(7..NViews-1) = IF 7 > NViews - 1 THEN 0 ELSE NViews - 1 - 7 + 1
  BY <1>1, FS_Interval
<1> QED BY <1>1, <1>2 DEF ViewIndices

(* An identity hits all views but those that miss it.                      *)
MissedBy(q, D, V) == {v \in ViewIndices : hash_ids(V[v], q) \notin D[v]}

LEMMA HitsAndMisses ==
    ASSUME NEW q, NEW D, NEW V, NEW I \in SUBSET ViewIndices
    PROVE  /\ Hits(q, I, D, V) = Cardinality(I) - Cardinality(I \cap MissedBy(q, D, V))
           /\ Hits(q, I, D, V) \in Nat
<1> DEFINE M == MissedBy(q, D, V)
<1>1. {v \in I \cap ViewIndices : hash_ids(V[v], q) \in D[v]} = I \ M
  BY DEF MissedBy
<1> HIDE DEF M
<1>2. IsFiniteSet(I) /\ I \ M \subseteq ViewIndices
  BY ViewsFinite
<1>3. Cardinality(I \ M) = Cardinality(I) - Cardinality(I \cap M) /\ Cardinality(I \ M) \in Nat
  BY <1>2, ViewsFinite, FS_Difference
<1> QED BY <1>1, <1>3 DEF Hits, M

LEMMA GreaterOf == ASSUME NEW a \in Int, NEW b \in Int
                   PROVE  Max({a, b}) \in {a, b} /\ Max({a, b}) >= a /\ Max({a, b}) >= b
<1>1. \E x \in {a, b} : \A y \in {a, b} : x >= y
  OBVIOUS
<1>2. Max({a, b}) \in {a, b} /\ \A y \in {a, b} : Max({a, b}) >= y
  BY <1>1 DEF Max
<1> QED BY <1>2

(* What a basis decodes is an identity.                                    *)
LEMMA DecodedAreIdentities ==
    ASSUME FieldBits = LocalBits, NEW k \in 1..7, NEW D,
           \A v \in 0..6 : D[v] \in SUBSET Buckets
    PROVE  Decoded(decoding_quads[k], D) \subseteq Identities
<1> DEFINE quad == decoding_quads[k]
<1> DEFINE inverse == gf2_inverse(QuadRows(k))
<1>1. quad.indices = SelectedQuads[k] /\ quad.inverse = inverse
  BY QuadsByName DEF decoding_quads, QuadRows
<1>2. \A b \in 0..3 : inverse[b] \in SUBSET (0..3)
  BY QuadInverse
<1> HIDE DEF inverse
<1>3. \A i \in 0..3 : quad.indices[i + 1] \in 0..6
  BY <1>1, QuadMembers
<1> DEFINE lists == [i \in 1..4 |-> D[quad.indices[i]]]
<1> SUFFICES ASSUME NEW values \in lists[1] \X lists[2] \X lists[3] \X lists[4]
             PROVE  decode_tuple(values, quad.inverse) \in Identities
  BY DEF Decoded
<1>4. \A i \in 0..3 : values[i + 1] \in lists[i + 1] /\ lists[i + 1] = D[quad.indices[i + 1]]
  <2>1. \A i \in 0..3 : i + 1 = 1 \/ i + 1 = 2 \/ i + 1 = 3 \/ i + 1 = 4
    OBVIOUS
  <2>2. \A i \in 1..4 : lists[i] = D[quad.indices[i]]
    OBVIOUS
  <2>3. 1 \in 1..4 /\ 2 \in 1..4 /\ 3 \in 1..4 /\ 4 \in 1..4
    OBVIOUS
  <2> HIDE DEF lists, quad
  <2>4. values[1] \in lists[1] /\ values[2] \in lists[2] /\ values[3] \in lists[3] /\ values[4] \in lists[4]
    OBVIOUS
  <2> QED BY <2>1, <2>2, <2>3, <2>4
<1> HIDE DEF lists
<1>5. \A i \in 0..3 : values[i + 1] \subseteq Rows
  BY <1>3, <1>4 DEF Buckets, Indices, Rows
<1> DEFINE field(b) == XorOf([i \in inverse[b] |-> values[i + 1]])
<1>6. \A b \in 0..3 : field(b) \subseteq Rows
  BY <1>2, <1>5 DEF XorOf
<1>7. decode_tuple(values, inverse) = UNION {{LocalBits * b + bit : bit \in field(b)} : b \in 0..3}
  BY DEF decode_tuple, pack_bytes
<1> HIDE DEF field
<1>8. \A b \in 0..3, bit \in Rows : LocalBits * b + bit \in 0..IdentityBits-1
  <2> SUFFICES ASSUME NEW b \in 0..3, NEW bit \in Rows PROVE LocalBits * b + bit \in 0..IdentityBits-1
    OBVIOUS
  <2>1. /\ LocalBits \in Nat \ {0} /\ bit \in 0..LocalBits-1 /\ b \in 0..4-1
    BY Widths DEF Rows
  <2>2. b * LocalBits + bit \in 0..4*LocalBits-1 /\ b * LocalBits = LocalBits * b
    BY <2>1, PlaceOf
  <2> QED BY <2>2 DEF IdentityBits
<1>9. decode_tuple(values, inverse) \subseteq 0..IdentityBits-1
  BY <1>6, <1>7, <1>8
<1> QED BY <1>1, <1>9 DEF Identities

LEMMA ScoredFinite ==
    ASSUME FieldBits = LocalBits, NEW group, NEW D, NEW V,
           \A v \in 0..6 : D[v] \in SUBSET Buckets
    PROVE  IsFiniteSet(Scored(group, D, V)) /\ Scored(group, D, V) \subseteq Gated(group, D, V)
<1>1. DOMAIN decoding_quads = 1..7
  BY QuadsByName DEF decoding_quads
<1>2. Gated(group, D, V) \subseteq Identities
  BY <1>1, DecodedAreIdentities DEF Gated
<1>3. Scored(group, D, V) \subseteq Gated(group, D, V)
  BY DEF Scored
<1>4. IsFiniteSet(Identities)
  BY IdentitiesFinite
<1> QED BY <1>2, <1>3, <1>4, FS_Subset

(* An identity that a basis sees in all of its four views is proposed.     *)
LEMMA BasisProposes ==
    ASSUME FieldBits = LocalBits, NEW k \in 1..7, NEW plan \in Plans, NEW q \in Identities,
           NEW D, \A v \in Members(k) : hash_ids(plan.views[v], q) \in D[v]
    PROVE  q \in Decoded(decoding_quads[k], D)
<1> DEFINE quad == decoding_quads[k]
<1> DEFINE seen(i) == hash_ids(plan.views[SelectedQuads[k][i]], q)
<1> DEFINE values == <<seen(1), seen(2), seen(3), seen(4)>>
<1> DEFINE lists == [i \in 1..4 |-> D[quad.indices[i]]]
<1>1. quad.indices = SelectedQuads[k]
  BY QuadsByName DEF decoding_quads
<1>2. /\ SelectedQuads[k][1] \in Members(k) /\ SelectedQuads[k][2] \in Members(k)
      /\ SelectedQuads[k][3] \in Members(k) /\ SelectedQuads[k][4] \in Members(k)
  <2>1. \A i \in 0..3 : SelectedQuads[k][i + 1] \in Members(k)
    BY DEF Members
  <2>2. 0 \in 0..3 /\ 1 \in 0..3 /\ 2 \in 0..3 /\ 3 \in 0..3
    OBVIOUS
  <2>3. 0 + 1 = 1 /\ 1 + 1 = 2 /\ 2 + 1 = 3 /\ 3 + 1 = 4
    OBVIOUS
  <2>4. /\ SelectedQuads[k][0 + 1] \in Members(k) /\ SelectedQuads[k][1 + 1] \in Members(k)
        /\ SelectedQuads[k][2 + 1] \in Members(k) /\ SelectedQuads[k][3 + 1] \in Members(k)
    BY <2>1, <2>2
  <2> QED BY <2>3, <2>4
<1>3. /\ lists[1] = D[SelectedQuads[k][1]] /\ lists[2] = D[SelectedQuads[k][2]]
      /\ lists[3] = D[SelectedQuads[k][3]] /\ lists[4] = D[SelectedQuads[k][4]]
  <2>1. \A i \in 1..4 : lists[i] = D[SelectedQuads[k][i]]
    BY <1>1
  <2>2. 1 \in 1..4 /\ 2 \in 1..4 /\ 3 \in 1..4 /\ 4 \in 1..4
    OBVIOUS
  <2> HIDE DEF lists
  <2> QED BY <2>1, <2>2
<1>4. values \in lists[1] \X lists[2] \X lists[3] \X lists[4]
  <2>1. seen(1) \in lists[1] /\ seen(2) \in lists[2] /\ seen(3) \in lists[3] /\ seen(4) \in lists[4]
    BY <1>2, <1>3
  <2> HIDE DEF seen, lists
  <2> QED BY <2>1
<1>5. \A i \in 0..3 : values[i + 1] = Product(StructuredView(SelectedQuads[k][i + 1]), q)
  <2>1. \A i \in 0..3 : seen(i + 1) = Product(StructuredView(SelectedQuads[k][i + 1]), q)
    <3>1. \A i \in 0..3 : SelectedQuads[k][i + 1] \in 0..6
      BY QuadMembers
    <3>2. 0..6 \subseteq ViewIndices
      BY PlanAssumption DEF ViewIndices
    <3> QED BY <3>1, <3>2, BucketsHashed
  <2>2. \A i \in 0..3 : values[i + 1] = seen(i + 1)
    <3>1. \A i \in 0..3 : i = 0 \/ i = 1 \/ i = 2 \/ i = 3
      OBVIOUS
    <3> HIDE DEF seen
    <3>2. values[0 + 1] = seen(0 + 1) /\ values[1 + 1] = seen(1 + 1)
          /\ values[2 + 1] = seen(2 + 1) /\ values[3 + 1] = seen(3 + 1)
      OBVIOUS
    <3> QED BY <3>1, <3>2
  <2> HIDE DEF values, seen
  <2> QED BY <2>1, <2>2
<1> HIDE DEF values, seen
<1>6. decode_tuple(values, quad.inverse) = q
  BY <1>5, DecodeRecovers
<1> QED BY <1>4, <1>6 DEF Decoded

(* Of the candidates of a group, one that is not crowded out is kept.      *)
LEMMA NotCrowdedIsKept ==
    ASSUME NEW score, IsFiniteSet(DOMAIN score), NEW q \in DOMAIN score,
           ~(MaxPreCandidates <=
                 Cardinality({p \in DOMAIN score \ {q} : score[p] >= score[q]})),
           score[q] \in Int, NEW kept \in KeepBest(score)
    PROVE  q \in kept
<1> DEFINE others == {p \in DOMAIN score \ {q} : score[p] >= score[q]}
<1> DEFINE ahead == {p \in DOMAIN score : score[p] >= score[q]}
<1>1. IsFiniteSet(others)
  <2>1. others \in SUBSET DOMAIN score
    OBVIOUS
  <2> HIDE DEF others
  <2> QED BY <2>1, FS_Subset
<1>2. ahead = others \cup {q} /\ q \notin others
  <2>1. score[q] >= score[q]
    OBVIOUS
  <2> QED BY <2>1
<1>3. Cardinality(others) \in Nat /\ Cardinality(others) < MaxPreCandidates
  <2>1. Cardinality(others) \in Nat
    <3> HIDE DEF others
    <3> QED BY <1>1, FS_CardinalityType
  <2>2. ~(MaxPreCandidates <= Cardinality(others)) /\ MaxPreCandidates \in Nat
    BY RecoveryAssumption
  <2> HIDE DEF others
  <2> QED BY <2>1, <2>2
<1>4. Cardinality(ahead) = Cardinality(others) + 1
  <2> HIDE DEF others, ahead
  <2> QED BY <1>1, <1>2, FS_AddElement
<1>5. Cardinality(ahead) <= MaxPreCandidates
  <2> HIDE DEF others, ahead
  <2> QED BY <1>3, <1>4, RecoveryAssumption
<1> DEFINE sure == {x \in DOMAIN score :
                       Cardinality({p \in DOMAIN score : score[p] >= score[x]}) <= MaxPreCandidates}
<1>6. q \in sure
  BY <1>5
<1>7. sure \subseteq kept
  BY DEF KeepBest
<1> QED BY <1>6, <1>7

LEMMA ThreeViews ==
    ASSUME NEW group \in {{7, 8, 9}, {10, 11, 12}}
    PROVE  Cardinality(group) = 3 /\ group # {} /\ group \subseteq 7..12
<1>1. {7, 8, 9} = 7..9 /\ {10, 11, 12} = 10..12
  OBVIOUS
<1>2. \A a, b \in Int : a <= b => Cardinality(a..b) = b - a + 1
  BY FS_Interval
<1>3. Cardinality(7..9) = 9 - 7 + 1 /\ Cardinality(10..12) = 12 - 10 + 1
  <2>1. /\ 7 \in Int /\ 9 \in Int /\ 10 \in Int /\ 12 \in Int
        /\ 7 <= 9 /\ 10 <= 12
    OBVIOUS
  <2> QED BY <1>2, <2>1, Zenon
<1>4. Cardinality(7..9) = 3 /\ Cardinality(10..12) = 3
  BY <1>3
<1>5. Cardinality(group) = 3
  <2>1. group = {7, 8, 9} \/ group = {10, 11, 12}
    OBVIOUS
  <2> QED BY <1>1, <1>4, <2>1, Zenon
<1> QED BY <1>5

LEMMA SupportedIsScored ==
    ASSUME FieldBits = LocalBits, NViews - MinViewSupport <= 3, PathInv,
           stage = "done", detected # <<>>,
           Cardinality(Missed) <= NViews - MinViewSupport,
           Cardinality(Missed \cap 0..6) <= 2,
           NEW group \in {{7, 8, 9}, {10, 11, 12}}, group \subseteq ViewIndices,
           Cardinality(group \cap Missed) <= 1
    PROVE  /\ scene.target \in Scored(group, DetectedIn, engine.views)
           /\ IsFiniteSet(Scored(group, DetectedIn, engine.views))
           /\ Score(scene.target, DetectedIn, engine.views) \in Int
<1> DEFINE q == scene.target
<1> DEFINE D == DetectedIn
<1> DEFINE V == engine.views
<1> DEFINE M == Missed
<1>1. /\ scene \in Scenes /\ Len(detected) = NViews /\ engine \in Plans
      /\ detected \in Seq(SUBSET Buckets)
  BY DEF PathInv
<1>2. q \in Identities
  BY <1>1, PathAssumption
<1>3. \A v \in 0..6 : v \in ViewIndices /\ D[v] \in SUBSET Buckets
  <2> SUFFICES ASSUME NEW v \in 0..6 PROVE v \in ViewIndices /\ D[v] \in SUBSET Buckets
    OBVIOUS
  <2>1. v \in ViewIndices /\ v + 1 \in 1..NViews
    BY PlanAssumption DEF ViewIndices
  <2>2. D[v] = detected[v + 1]
    BY <2>1 DEF DetectedIn
  <2> HIDE DEF D
  <2>3. detected[v + 1] \in SUBSET Buckets
    <3> HIDE DEF Buckets
    <3> QED BY <1>1, <2>1
  <2> QED BY <2>1, <2>2, <2>3
<1>4. M = MissedBy(q, D, V) /\ M \subseteq ViewIndices
  BY DEF Missed, BucketOf, MissedBy
<1>5. M \subseteq ViewIndices /\ Cardinality(M) \in Nat /\ Cardinality(M) <= 3
  <2>1. M \subseteq ViewIndices
    BY <1>4
  <2>2. Cardinality(M) \in Nat
    BY <2>1, ViewsFinite
  <2> HIDE DEF M
  <2>3. Cardinality(M) <= NViews - MinViewSupport
    BY DEF M
  <2> QED BY <2>1, <2>2, <2>3, PlanAssumption, RecoveryAssumption
<1> HIDE DEF D, V, M, q
<1>6. PICK k \in 1..7 : Members(k) \cap M = {}
  <2>1. Cardinality(M \cap 0..6) <= 2
    BY DEF M
  <2>2. IsFiniteSet(M \cap 0..6)
    BY <1>5, ViewsFinite
  <2>3. 0..6 # {} /\ M \cap 0..6 \in SUBSET (0..6)
    OBVIOUS
  <2>4. \E a, b \in 0..6 : M \cap 0..6 \subseteq {a, b}
    <3> DEFINE R == 0..6
    <3>1. R # {} /\ M \cap R \in SUBSET R /\ IsFiniteSet(M \cap R) /\ Cardinality(M \cap R) <= 2
      BY <2>1, <2>2, <2>3
    <3> DEFINE S == M \cap R
    <3> HIDE DEF R, S
    <3>2. \E a, b \in R : S \subseteq {a, b}
      <4>1. R # {} /\ S \in SUBSET R /\ IsFiniteSet(S) /\ Cardinality(S) <= 2
        BY <3>1 DEF S
      <4> QED BY <4>1, AtMostTwo
    <3> QED BY <3>2 DEF R, S
  <2>5. PICK a \in 0..6, b \in 0..6 : M \cap 0..6 \subseteq {a, b}
    BY <2>4
  <2>7. PICK k \in 1..7 : a \notin Members(k) /\ b \notin Members(k)
    BY TwoMissesAvoided
  <2>6. Members(k) \subseteq 0..6
    BY QuadMembers DEF Members
  <2> QED BY <2>5, <2>6, <2>7
<1>7. q \in Decoded(decoding_quads[k], D)
  <2>1. Members(k) \subseteq ViewIndices
    BY <1>3, QuadMembers DEF Members
  <2>2. \A v \in Members(k) : hash_ids(V[v], q) \in D[v]
    BY <1>4, <1>6, <2>1 DEF MissedBy
  <2> QED BY <1>1, <1>2, <2>2, BasisProposes DEF V
<1>8. Hits(q, group, D, V) >= 2
  <2>1. Hits(q, group, D, V) = Cardinality(group) - Cardinality(group \cap M)
    <3>1. group \in SUBSET ViewIndices
      OBVIOUS
    <3> QED BY <1>4, <3>1, HitsAndMisses
  <2>2. Cardinality(group) = 3 /\ Cardinality(group \cap M) <= 1
    BY ThreeViews DEF M
  <2>3. Cardinality(group \cap M) \in Nat
    <3>1. group \cap M \in SUBSET ViewIndices
      BY <1>5
    <3> QED BY <3>1, ViewsFinite
  <2> QED BY <2>1, <2>2, <2>3
<1>9. SoftGate(q, group, D, V)
  <2>1. Cardinality(group) - 1 = 2 /\ Hits(q, group, D, V) \in Nat
    <3>1. group \in SUBSET ViewIndices
      OBVIOUS
    <3>2. Cardinality(group) = 3
      BY ThreeViews
    <3>3. Hits(q, group, D, V) \in Nat
      BY <3>1, HitsAndMisses
    <3>4. 3 - 1 = 2
      OBVIOUS
    <3> QED BY <3>2, <3>3, <3>4, Zenon
  <2>2. Max({1, 2}) = 2
    <3>1. 1 \in Int /\ 2 \in Int
      OBVIOUS
    <3>2. Max({1, 2}) \in {1, 2} /\ Max({1, 2}) >= 2
      BY <3>1, GreaterOf, Zenon
    <3> QED BY <3>2
  <2> QED BY <1>8, <2>1, <2>2 DEF SoftGate
<1>10. q \in Gated(group, D, V)
  <2>1. k \in DOMAIN decoding_quads
    BY QuadsByName DEF decoding_quads
  <2> QED BY <1>7, <1>9, <2>1 DEF Gated
<1> DEFINE late == 7..NViews-1
<1>11. /\ Score(q, D, V) = NViews - 7 - Cardinality(late \cap M)
       /\ Score(q, D, V) \in Nat
  <2>1. late \subseteq ViewIndices /\ Cardinality(late) = NViews - 7
    BY ViewsCounted
  <2>2. Score(q, D, V) = Hits(q, late, D, V)
    BY DEF Score
  <2> HIDE DEF late
  <2> QED BY <1>4, <2>1, <2>2, HitsAndMisses
<1>12. Score(q, D, V) >= NViews - 10
  <2>1. Cardinality(late \cap M) \in Nat /\ Cardinality(late \cap M) <= Cardinality(M)
    <3>1. IsFiniteSet(M) /\ late \cap M \in SUBSET M
      BY <1>5, ViewsFinite
    <3> HIDE DEF late
    <3> QED BY <3>1, FS_Subset, FS_CardinalityType
  <2> HIDE DEF late
  <2> QED BY <1>5, <1>11, <2>1, PlanAssumption
<1>13. Score(q, D, V) >= 2
  <2>1. group \cap ViewIndices \subseteq late
    BY ThreeViews, PlanAssumption DEF ViewIndices
  <2> DEFINE hit(I) == {v \in I \cap ViewIndices : hash_ids(V[v], q) \in D[v]}
  <2>2. hit(group) \subseteq hit(late) /\ hit(late) \subseteq ViewIndices
    BY <2>1
  <2>3. Cardinality(hit(group)) = Hits(q, group, D, V) /\ Cardinality(hit(late)) = Score(q, D, V)
    BY DEF Hits, Score
  <2> HIDE DEF hit
  <2>4. IsFiniteSet(hit(late)) /\ Cardinality(hit(group)) <= Cardinality(hit(late))
    BY <2>2, ViewsFinite, FS_Subset
  <2>5. Cardinality(hit(group)) \in Nat
    BY <2>2, ViewsFinite
  <2> QED BY <1>8, <1>11, <2>3, <2>4, <2>5
<1>14. Score(q, D, V) >= Max({2, NViews - 10})
  <2>1. Max({2, NViews - 10}) \in {2, NViews - 10}
    <3>1. 2 \in Int /\ NViews - 10 \in Int
      BY PlanAssumption
    <3> QED BY <3>1, GreaterOf, Zenon
  <2> QED BY <1>12, <1>13, <2>1
<1>15. q \in Scored(group, D, V)
  BY <1>10, <1>14 DEF Scored
<1>16. IsFiniteSet(Scored(group, D, V))
  BY <1>3, ScoredFinite
<1> QED BY <1>11, <1>15, <1>16 DEF q, D, V

(* Every identity that enough views support is returned, unless it is      *)
(* crowded out: the bases tolerate two missed structured views, the gate   *)
(* and the score what the hypothesis leaves to the others.  Fields are as  *)
(* wide as buckets, and the plan may lack three views of support at most,  *)
(* as with the default parameters.                                         *)
THEOREM SupportedRecovered ==
    ASSUME FieldBits = LocalBits, NViews - MinViewSupport <= 3
    PROVE  Spec => []SupportedIdentitiesReturned
<1>1. ASSUME PathInv PROVE SupportedIdentitiesReturned
  <2> DEFINE q == scene.target
  <2> DEFINE D == DetectedIn
  <2> DEFINE V == engine.views
  <2> SUFFICES ASSUME stage = "done", detected # <<>>,
                      Cardinality(Missed) <= NViews - MinViewSupport,
                      Cardinality(Missed \cap 0..6) <= 2,
                      \/ scene.spatial.target = "high"
                      \/ /\ scene.spatial.target = "marginal"
                         /\ Cardinality(Missed) < NViews - MinViewSupport,
                      NEW group \in {{7, 8, 9}, {10, 11, 12}}, group \subseteq ViewIndices,
                      Cardinality(group \cap Missed) <= 1, ~CrowdedOut(group)
               PROVE  q \in identities
    BY DEF SupportedIdentitiesReturned
  <2>1. /\ scene \in Scenes /\ engine \in Plans
        /\ identities \in Recoveries(Level, D, V)
    BY <1>1 DEF PathInv
  <2>2. q \in Identities
    BY <2>1, PathAssumption
  <2>3. q \in Scored(group, D, V) /\ IsFiniteSet(Scored(group, D, V)) /\ Score(q, D, V) \in Int
    BY <1>1, SupportedIsScored
  <2>4. ASSUME NEW kept \in structured_candidates(group, D, V) PROVE q \in kept
    <3> DEFINE score == [p \in Scored(group, D, V) |-> Score(p, D, V)]
    <3>1. kept \in KeepBest(score)
      BY PlanAssumption DEF structured_candidates, Truncate
    <3>2. DOMAIN score = Scored(group, D, V) /\ score[q] = Score(q, D, V)
      BY <2>3
    <3>3. {p \in DOMAIN score \ {q} : score[p] >= score[q]}
             = {p \in Scored(group, D, V) \ {q} : Score(p, D, V) >= Score(q, D, V)}
      BY <2>3
    <3>4. ~(MaxPreCandidates <= Cardinality({p \in DOMAIN score \ {q} : score[p] >= score[q]}))
      BY <3>3 DEF CrowdedOut
    <3> HIDE DEF score, q, D, V
    <3> QED BY <2>3, <3>1, <3>2, <3>4, NotCrowdedIsKept
  <2>5. Supported(q, D, V) /\ Consistent(q, Level, D, V)
    <3>1. Missed = MissedBy(q, D, V) /\ Missed \in SUBSET ViewIndices
      BY DEF Missed, BucketOf, MissedBy
    <3>2. /\ Hits(q, ViewIndices, D, V) = Cardinality(ViewIndices) - Cardinality(ViewIndices \cap Missed)
          /\ Hits(q, ViewIndices, D, V) \in Nat
      <4> HIDE DEF q, D, V
      <4> QED BY <3>1, HitsAndMisses
    <3>3. ViewIndices \cap Missed = Missed /\ Cardinality(Missed) \in Nat
      BY <3>1, ViewsFinite
    <3>4. Cardinality(ViewIndices) = NViews
      BY ViewsCounted
    <3>5. Hits(q, ViewIndices, D, V) = NViews - Cardinality(Missed)
      BY <3>2, <3>3, <3>4
    <3>6. Supported(q, D, V)
      BY <3>3, <3>5, PlanAssumption, RecoveryAssumption DEF Supported
    <3>7. Level[q] = scene.spatial.target
      BY DEF Level
    <3>8. Consistent(q, Level, D, V)
      <4> HIDE DEF q, D, V
      <4>1. CASE scene.spatial.target = "high"
        BY <3>7, <4>1 DEF Consistent
      <4>2. CASE scene.spatial.target = "marginal" /\ Cardinality(Missed) < NViews - MinViewSupport
        <5>1. ~(Hits(q, ViewIndices, D, V) <= MinViewSupport)
          BY <3>3, <3>5, <4>2, PlanAssumption, RecoveryAssumption
        <5> QED BY <3>7, <4>2, <5>1 DEF Consistent
      <4> QED BY <4>1, <4>2
    <3> QED BY <3>6, <3>8
  <2> DEFINE results == [g \in early_groups |-> recover_global_support(g, Level, D, V)]
  <2>6. group \in early_groups
    BY DEF early_groups
  <2> HIDE DEF q, D, V
  <2>7. PICK f \in [early_groups -> UNION Range(results)] :
           (\A g \in early_groups : f[g] \in results[g]) /\ identities = UNION Range(f)
    BY <2>1 DEF Recoveries
  <2>8. f[group] \in recover_global_support(group, Level, D, V)
    BY <2>6, <2>7
  <2>9. PICK kept \in structured_candidates(group, D, V) :
           f[group] = filter_candidates(kept, Level, D, V)
    BY <2>8 DEF recover_global_support
  <2>10. q \in f[group]
    BY <2>4, <2>5, <2>9 DEF filter_candidates
  <2>11. f[group] \in Range(f)
    BY <2>6, <2>7 DEF Range
  <2> QED BY <2>7, <2>10, <2>11
<1> QED BY <1>1, PathInvariant, PTL

-----------------------------------------------------------------------------
(* Sums are linear and do not depend on the names of the summands.         *)
Integral(f, S) == \A x \in S : f[x] \in Int

LEMMA SumAdds ==
    ASSUME NEW S, IsFiniteSet(S), NEW f, NEW g, NEW h, Integral(f, S), Integral(g, S),
           \A x \in S : h[x] = f[x] + g[x]
    PROVE  SumFunctionOnSet(h, S) = SumFunctionOnSet(f, S) + SumFunctionOnSet(g, S)
<1> DEFINE F(T) == SumFunctionOnSet(f, T)
<1> DEFINE G(T) == SumFunctionOnSet(g, T)
<1> DEFINE H(T) == SumFunctionOnSet(h, T)
<1> DEFINE Good == {T \in SUBSET S : H(T) = F(T) + G(T)}
<1>1. ASSUME NEW T \in SUBSET S
      PROVE  /\ F(T) \in Int /\ G(T) \in Int /\ H(T) \in Int
             /\ T = {} => F(T) = 0 /\ G(T) = 0 /\ H(T) = 0
             /\ \A x \in T : /\ F(T) = f[x] + F(T \ {x})
                             /\ G(T) = g[x] + G(T \ {x})
                             /\ H(T) = h[x] + H(T \ {x})
  <2>1. IsFiniteSet(T)
    BY FS_Subset
  <2>2. (\A x \in T : f[x] \in Int) /\ (\A x \in T : g[x] \in Int) /\ (\A x \in T : h[x] \in Int)
    BY DEF Integral
  <2> QED BY <2>1, <2>2, SumOne
<1> HIDE DEF F, G, H
<1>2. {} \in Good
  <2>1. {} \in SUBSET S
    OBVIOUS
  <2>2. F({}) = 0 /\ G({}) = 0 /\ H({}) = 0
    BY <1>1, <2>1
  <2> QED BY <2>1, <2>2
<1>3. ASSUME NEW T \in SUBSET S, NEW x \in S, T \in Good, x \notin T PROVE T \cup {x} \in Good
  <2> DEFINE U == T \cup {x}
  <2>1. U \in SUBSET S /\ x \in U /\ U \ {x} = T
    BY <1>3
  <2> HIDE DEF U
  <2>2. F(U) = f[x] + F(T) /\ G(U) = g[x] + G(T) /\ H(U) = h[x] + H(T)
    BY <1>1, <2>1
  <2>3. h[x] = f[x] + g[x] /\ f[x] \in Int /\ g[x] \in Int
    BY DEF Integral
  <2>4. F(T) \in Int /\ G(T) \in Int /\ H(T) = F(T) + G(T)
    BY <1>1, <1>3
  <2>5. H(U) = F(U) + G(U)
    BY <2>2, <2>3, <2>4
  <2> QED BY <2>1, <2>5 DEF U
<1>4. S \in Good
  <2> HIDE DEF Good
  <2> QED BY <1>2, <1>3, FiniteInduction
<1> QED BY <1>4 DEF F, G, H

LEMMA SumMoved ==
    ASSUME NEW S, IsFiniteSet(S), NEW R, NEW pi \in [S -> R],
           \A x, y \in S : pi[x] = pi[y] => x = y,
           NEW f, NEW g, Integral(f, S), \A x \in S : f[x] = g[pi[x]]
    PROVE  SumFunctionOnSet(g, {pi[x] : x \in S}) = SumFunctionOnSet(f, S)
<1> DEFINE F(T) == SumFunctionOnSet(f, T)
<1> DEFINE image(T) == {pi[x] : x \in T}
<1> DEFINE G(T) == SumFunctionOnSet(g, T)
<1> DEFINE Good == {T \in SUBSET S : G(image(T)) = F(T)}
<1>1. ASSUME NEW T \in SUBSET S
      PROVE  /\ F(T) \in Int
             /\ T = {} => F(T) = 0 /\ G(image(T)) = 0
             /\ \A x \in T : /\ F(T) = f[x] + F(T \ {x})
                             /\ G(image(T)) = f[x] + G(image(T \ {x}))
  <2>1. IsFiniteSet(T) /\ \A x \in T : f[x] \in Int
    BY FS_Subset DEF Integral
  <2>2. IsFiniteSet(image(T))
    <3> DEFINE r == [x \in T |-> pi[x]]
    <3>1. r \in Surjection(T, image(T))
      BY DEF Surjection
    <3> HIDE DEF r, image
    <3> QED BY <2>1, <3>1, FS_Surjection
  <2>3. \A y \in image(T) : g[y] \in Int
    BY <2>1
  <2>4. \A x \in T : image(T) \ {pi[x]} = image(T \ {x}) /\ pi[x] \in image(T)
    OBVIOUS
  <2>5. T = {} => image(T) = {}
    OBVIOUS
  <2>6. /\ image(T) = {} => G(image(T)) = 0
        /\ \A y \in image(T) : G(image(T)) = g[y] + G(image(T) \ {y})
    <3> DEFINE I == image(T)
    <3>1. IsFiniteSet(I) /\ \A y \in I : g[y] \in Int
      BY <2>2, <2>3
    <3> HIDE DEF I
    <3>2. (I = {} => G(I) = 0) /\ (\A y \in I : G(I) = g[y] + G(I \ {y}))
      BY <3>1, SumOne
    <3> QED BY <3>2 DEF I
  <2>7. F(T) \in Int /\ (T = {} => F(T) = 0) /\ \A x \in T : F(T) = f[x] + F(T \ {x})
    BY <2>1, SumOne
  <2> HIDE DEF F, G, image
  <2>8. \A x \in T : G(image(T)) = f[x] + G(image(T \ {x}))
    BY <2>4, <2>6
  <2> QED BY <2>5, <2>6, <2>7, <2>8
<1> HIDE DEF F, G, image
<1>2. {} \in Good
  BY <1>1
<1>3. ASSUME NEW T \in SUBSET S, NEW x \in S, T \in Good, x \notin T PROVE T \cup {x} \in Good
  <2> DEFINE U == T \cup {x}
  <2>1. U \in SUBSET S /\ x \in U /\ U \ {x} = T
    BY <1>3
  <2> HIDE DEF U
  <2>2. F(U) = f[x] + F(T) /\ G(image(U)) = f[x] + G(image(T))
    BY <1>1, <2>1
  <2>3. G(image(U)) = F(U)
    BY <1>3, <2>2
  <2> QED BY <2>1, <2>3 DEF U
<1>4. S \in Good
  <2> HIDE DEF Good
  <2> QED BY <1>2, <1>3, FiniteInduction
<1> QED BY <1>4 DEF F, G, image

(* Two instances: equal summands, and a single one that is not zero.       *)
LEMMA SumSame ==
    ASSUME NEW S, IsFiniteSet(S), NEW f, NEW g, Integral(f, S), \A x \in S : f[x] = g[x]
    PROVE  SumFunctionOnSet(g, S) = SumFunctionOnSet(f, S)
<1> DEFINE pi == [x \in S |-> x]
<1>1. pi \in [S -> S] /\ (\A x, y \in S : pi[x] = pi[y] => x = y) /\ \A x \in S : f[x] = g[pi[x]]
  OBVIOUS
<1>2. {pi[x] : x \in S} = S
  OBVIOUS
<1> HIDE DEF pi
<1>3. SumFunctionOnSet(g, {pi[x] : x \in S}) = SumFunctionOnSet(f, S)
  BY <1>1, SumMoved
<1> QED BY <1>2, <1>3

LEMMA SumSingle ==
    ASSUME NEW S, IsFiniteSet(S), NEW f, Integral(f, S), NEW b \in S,
           \A x \in S : x # b => f[x] = 0
    PROVE  SumFunctionOnSet(f, S) = f[b]
<1> DEFINE Good == {T \in SUBSET S : b \notin T => SumFunctionOnSet(f, T) = 0}
<1>1. ASSUME NEW T \in SUBSET S
      PROVE  /\ SumFunctionOnSet(f, T) \in Int
             /\ T = {} => SumFunctionOnSet(f, T) = 0
             /\ \A x \in T : SumFunctionOnSet(f, T) = f[x] + SumFunctionOnSet(f, T \ {x})
  <2>1. IsFiniteSet(T) /\ \A x \in T : f[x] \in Int
    BY FS_Subset DEF Integral
  <2> QED BY <2>1, SumOne
<1>2. {} \in Good
  BY <1>1
<1>3. ASSUME NEW T \in SUBSET S, NEW x \in S, T \in Good, x \notin T PROVE T \cup {x} \in Good
  <2> DEFINE U == T \cup {x}
  <2>1. U \in SUBSET S /\ x \in U /\ U \ {x} = T
    BY <1>3
  <2> HIDE DEF U
  <2>2. SumFunctionOnSet(f, U) = f[x] + SumFunctionOnSet(f, T)
    BY <1>1, <2>1
  <2>3. b \notin U => f[x] = 0 /\ SumFunctionOnSet(f, T) = 0
    BY <1>3, <2>1
  <2>4. b \notin U => SumFunctionOnSet(f, U) = 0
    BY <2>2, <2>3
  <2> QED BY <2>1, <2>4 DEF U
<1>4. S \ {b} \in Good
  <2>1. S \ {b} \in SUBSET S /\ IsFiniteSet(S \ {b})
    BY FS_Subset
  <2>2. \A T \in SUBSET (S \ {b}), x \in S \ {b} : T \in Good /\ x \notin T => T \cup {x} \in Good
    <3> HIDE DEF Good
    <3> QED BY <1>3
  <2> HIDE DEF Good
  <2> QED BY <1>2, <2>1, <2>2, FiniteInduction
<1>5. SumFunctionOnSet(f, S \ {b}) = 0
  BY <1>4
<1>6. SumFunctionOnSet(f, S) = f[b] + SumFunctionOnSet(f, S \ {b}) /\ f[b] \in Int
  BY <1>1 DEF Integral
<1> QED BY <1>5, <1>6

-----------------------------------------------------------------------------
(* fwht: each round is its own adjoint and doubles inner products.         *)
Signals(n) == [Indices(n) -> Int]
Inner(f, g, n) == SumFunctionOnSet([S \in Indices(n) |-> f[S] * g[S]], Indices(n))

LEMMA IndicesFinite == ASSUME NEW n \in Nat
                       PROVE  IsFiniteSet(Indices(n)) /\ \A S \in Indices(n) : IsFiniteSet(S)
<1>1. n - 1 \in Int /\ 0 \in Int
  OBVIOUS
<1>2. IsFiniteSet(0..n-1)
  BY <1>1, FS_Interval
<1>3. IsFiniteSet(SUBSET (0..n-1))
  BY <1>2, FS_SUBSET
<1>4. \A S \in SUBSET (0..n-1) : IsFiniteSet(S)
  BY <1>2, FS_Subset
<1> QED BY <1>3, <1>4 DEF Indices

LEMMA InnerTerms ==
    ASSUME NEW n \in Nat, NEW f \in Signals(n), NEW g \in Signals(n)
    PROVE  Integral([S \in Indices(n) |-> f[S] * g[S]], Indices(n))
<1> SUFFICES ASSUME NEW S \in Indices(n) PROVE f[S] * g[S] \in Int
  BY DEF Integral
<1>1. f[S] \in Int /\ g[S] \in Int
  BY DEF Signals
<1> QED BY <1>1

LEMMA InnerInt ==
    ASSUME NEW n \in Nat, NEW f \in Signals(n), NEW g \in Signals(n)
    PROVE  Inner(f, g, n) \in Int
<1> DEFINE p == [S \in Indices(n) |-> f[S] * g[S]]
<1>1. Integral(p, Indices(n)) /\ IsFiniteSet(Indices(n))
  BY InnerTerms, IndicesFinite
<1>2. Inner(f, g, n) = SumFunctionOnSet(p, Indices(n))
  BY DEF Inner
<1> HIDE DEF p
<1>3. \A S \in Indices(n) : p[S] \in Int
  BY <1>1 DEF Integral
<1> QED BY <1>1, <1>2, <1>3, SumOne

LEMMA Flips ==
    ASSUME NEW n \in Nat, NEW k \in 0..n-1, NEW S \in Indices(n)
    PROVE  /\ Xor(S, {k}) \in Indices(n) /\ Xor(Xor(S, {k}), {k}) = S
           /\ k \in Xor(S, {k}) <=> k \notin S
  BY DEF Xor, Indices

LEMMA ButterflyAt ==
    ASSUME NEW n \in Nat, NEW k \in 0..n-1, NEW f \in Signals(n)
    PROVE  /\ Butterfly(f, k) \in Signals(n)
           /\ \A S \in Indices(n) :
                 Butterfly(f, k)[S] = (IF k \in S THEN 0 - f[S] ELSE f[S]) + f[Xor(S, {k})]
<1> SUFFICES ASSUME NEW S \in Indices(n)
             PROVE  /\ Butterfly(f, k)[S] \in Int
                    /\ Butterfly(f, k)[S] = (IF k \in S THEN 0 - f[S] ELSE f[S]) + f[Xor(S, {k})]
  <2>1. DOMAIN f = Indices(n)
    BY DEF Signals
  <2>2. Butterfly(f, k) = [S \in Indices(n) |-> Butterfly(f, k)[S]]
    BY <2>1 DEF Butterfly
  <2> QED BY <2>2 DEF Signals
<1>1. DOMAIN f = Indices(n) /\ f[S] \in Int
  BY DEF Signals
<1>2. \A a, b \in Int : /\ b - a \in Int /\ a + b \in Int /\ b - a = (0 - a) + b
  OBVIOUS
<1>3. f[Xor(S, {k})] \in Int
  BY Flips DEF Signals
<1>4. Butterfly(f, k)[S] = IF k \in S THEN f[S \ {k}] - f[S] ELSE f[S] + f[S \cup {k}]
  BY <1>1 DEF Butterfly
<1>5. CASE k \in S
  <2>1. Xor(S, {k}) = S \ {k}
    BY <1>5 DEF Xor
  <2>2. Butterfly(f, k)[S] = f[Xor(S, {k})] - f[S]
    BY <1>4, <1>5, <2>1
  <2>3. f[Xor(S, {k})] - f[S] = (0 - f[S]) + f[Xor(S, {k})] /\ f[Xor(S, {k})] - f[S] \in Int
    BY <1>1, <1>3, <1>2
  <2> QED BY <1>5, <2>2, <2>3
<1>6. CASE k \notin S
  <2>1. Xor(S, {k}) = S \cup {k}
    BY <1>6 DEF Xor
  <2>2. Butterfly(f, k)[S] = f[S] + f[Xor(S, {k})]
    BY <1>4, <1>6, <2>1
  <2>3. f[S] + f[Xor(S, {k})] \in Int
    BY <1>1, <1>3, <1>2
  <2> QED BY <1>6, <2>2, <2>3
<1> QED BY <1>5, <1>6

LEMMA SelfAdjoint ==
    ASSUME NEW n \in Nat, NEW k \in 0..n-1, NEW f \in Signals(n), NEW g \in Signals(n)
    PROVE  Inner(Butterfly(f, k), g, n) = Inner(f, Butterfly(g, k), n)
<1> DEFINE D == Indices(n)
<1> DEFINE same == [S \in D |-> (IF k \in S THEN 0 - f[S] ELSE f[S]) * g[S]]
<1> DEFINE left == [S \in D |-> f[Xor(S, {k})] * g[S]]
<1> DEFINE right == [S \in D |-> f[S] * g[Xor(S, {k})]]
<1> DEFINE flip == [S \in D |-> Xor(S, {k})]
<1> DEFINE bf == Butterfly(f, k)
<1> DEFINE bg == Butterfly(g, k)
<1>1. IsFiniteSet(D)
  BY IndicesFinite
<1>2. \A S \in Indices(n) :
         /\ bf[S] = (IF k \in S THEN 0 - f[S] ELSE f[S]) + f[Xor(S, {k})]
         /\ bg[S] = (IF k \in S THEN 0 - g[S] ELSE g[S]) + g[Xor(S, {k})]
  <2>1. \A S \in Indices(n) :
           Butterfly(f, k)[S] = (IF k \in S THEN 0 - f[S] ELSE f[S]) + f[Xor(S, {k})]
    BY ButterflyAt
  <2>2. \A S \in Indices(n) :
           Butterfly(g, k)[S] = (IF k \in S THEN 0 - g[S] ELSE g[S]) + g[Xor(S, {k})]
    BY ButterflyAt
  <2> QED BY <2>1, <2>2
<1>3. ASSUME NEW S \in D
      PROVE  /\ f[S] \in Int /\ g[S] \in Int
             /\ f[Xor(S, {k})] \in Int /\ g[Xor(S, {k})] \in Int
  BY Flips DEF Signals
<1>4. Integral(same, D) /\ Integral(left, D) /\ Integral(right, D)
  <2> SUFFICES ASSUME NEW S \in D
               PROVE  same[S] \in Int /\ left[S] \in Int /\ right[S] \in Int
    BY DEF Integral
  <2>1. /\ same[S] = (IF k \in S THEN 0 - f[S] ELSE f[S]) * g[S]
        /\ left[S] = f[Xor(S, {k})] * g[S] /\ right[S] = f[S] * g[Xor(S, {k})]
    OBVIOUS
  <2>2. \A a, b \in Int : a * b \in Int /\ (0 - a) * b \in Int
    OBVIOUS
  <2>3. f[S] \in Int /\ g[S] \in Int /\ f[Xor(S, {k})] \in Int /\ g[Xor(S, {k})] \in Int
    BY <1>3
  <2> HIDE DEF same, left, right
  <2>4. left[S] \in Int /\ right[S] \in Int
    BY <2>1, <2>2, <2>3
  <2>5. CASE k \in S
    BY <2>1, <2>2, <2>3, <2>4, <2>5
  <2>6. CASE k \notin S
    BY <2>1, <2>2, <2>3, <2>4, <2>6
  <2> QED BY <2>5, <2>6
<1>5. SumFunctionOnSet([S \in D |-> bf[S] * g[S]], D)
         = SumFunctionOnSet(same, D) + SumFunctionOnSet(left, D)
  <2> DEFINE h == [S \in D |-> bf[S] * g[S]]
  <2>1. ASSUME NEW S \in D PROVE h[S] = same[S] + left[S]
    <3>1. bf[S] = (IF k \in S THEN 0 - f[S] ELSE f[S]) + f[Xor(S, {k})]
      <4> HIDE DEF bf, bg
      <4> QED BY <1>2
    <3>2. /\ h[S] = bf[S] * g[S] /\ left[S] = f[Xor(S, {k})] * g[S]
          /\ same[S] = (IF k \in S THEN 0 - f[S] ELSE f[S]) * g[S]
      OBVIOUS
    <3> HIDE DEF h, bf, left, same
    <3>3. \A a, b, c \in Int : /\ (a + c) * b = a * b + c * b
                               /\ ((0 - a) + c) * b = (0 - a) * b + c * b
      OBVIOUS
    <3>4. f[S] \in Int /\ g[S] \in Int /\ f[Xor(S, {k})] \in Int
      BY <1>3
    <3>5. CASE k \in S
      BY <3>1, <3>2, <3>3, <3>4, <3>5
    <3>6. CASE k \notin S
      BY <3>1, <3>2, <3>3, <3>4, <3>6
    <3> QED BY <3>5, <3>6
  <2> HIDE DEF h, D, left, same
  <2> QED BY <1>1, <1>4, <2>1, SumAdds DEF h
<1>6. SumFunctionOnSet([S \in D |-> f[S] * bg[S]], D)
         = SumFunctionOnSet(same, D) + SumFunctionOnSet(right, D)
  <2> DEFINE h == [S \in D |-> f[S] * bg[S]]
  <2>1. ASSUME NEW S \in D PROVE h[S] = same[S] + right[S]
    <3>1. bg[S] = (IF k \in S THEN 0 - g[S] ELSE g[S]) + g[Xor(S, {k})]
      <4> HIDE DEF bf, bg
      <4> QED BY <1>2
    <3>2. /\ h[S] = f[S] * bg[S] /\ right[S] = f[S] * g[Xor(S, {k})]
          /\ same[S] = (IF k \in S THEN 0 - f[S] ELSE f[S]) * g[S]
      OBVIOUS
    <3> HIDE DEF h, bg, right, same
    <3>3. \A a, b, c \in Int : /\ a * (b + c) = a * b + a * c
                               /\ a * ((0 - b) + c) = (0 - a) * b + a * c
      OBVIOUS
    <3>4. g[S] \in Int /\ f[S] \in Int /\ g[Xor(S, {k})] \in Int
      BY <1>3
    <3>5. CASE k \in S
      BY <3>1, <3>2, <3>3, <3>4, <3>5
    <3>6. CASE k \notin S
      BY <3>1, <3>2, <3>3, <3>4, <3>6
    <3> QED BY <3>5, <3>6
  <2> HIDE DEF h, D, right, same
  <2> QED BY <1>1, <1>4, <2>1, SumAdds DEF h
<1>7. SumFunctionOnSet(left, D) = SumFunctionOnSet(right, D)
  <2>1. flip \in [D -> D] /\ \A S \in D : flip[flip[S]] = S
    BY Flips
  <2>2. \A S \in D : left[S] = right[flip[S]]
    <3> TAKE S \in D
    <3>1. flip[S] = Xor(S, {k}) /\ flip[S] \in D /\ Xor(flip[S], {k}) = S
      BY Flips
    <3>2. left[S] = f[Xor(S, {k})] * g[S] /\ right[flip[S]] = f[flip[S]] * g[Xor(flip[S], {k})]
      BY <3>1
    <3> HIDE DEF left, right, flip
    <3> QED BY <3>1, <3>2
  <2> HIDE DEF D, left, right, flip
  <2>3. \A S, T \in D : flip[S] = flip[T] => S = T
    BY <2>1
  <2>4. {flip[S] : S \in D} = D
    BY <2>1
  <2>5. SumFunctionOnSet(right, {flip[S] : S \in D}) = SumFunctionOnSet(left, D)
    <3>1. flip \in [D -> D] /\ Integral(left, D)
      BY <1>4, <2>1
    <3> QED BY <1>1, <2>2, <2>3, <3>1, SumMoved
  <2> QED BY <2>4, <2>5
<1> QED BY <1>5, <1>6, <1>7 DEF Inner

LEMMA InnerDoubles ==
    ASSUME NEW n \in Nat, NEW k \in 0..n-1, NEW f \in Signals(n), NEW g \in Signals(n)
    PROVE  Inner(Butterfly(f, k), Butterfly(g, k), n) = 2 * Inner(f, g, n)
<1> DEFINE D == Indices(n)
<1> DEFINE bg == Butterfly(g, k)
<1> DEFINE bbg == Butterfly(bg, k)
<1> DEFINE p == [S \in D |-> f[S] * g[S]]
<1> DEFINE h == [S \in D |-> f[S] * bbg[S]]
<1>1. bg \in Signals(n)
  BY ButterflyAt
<1>2. \A S \in D : bbg[S] = g[S] + g[S]
  <2> TAKE S \in D
  <2> DEFINE T == Xor(S, {k})
  <2>1. T \in D /\ Xor(T, {k}) = S /\ (k \in T <=> k \notin S)
    BY Flips
  <2>2. g[S] \in Int /\ g[T] \in Int
    BY <2>1 DEF Signals
  <2>3. bbg[S] = (IF k \in S THEN 0 - bg[S] ELSE bg[S]) + bg[T]
    <3> HIDE DEF bg
    <3> QED BY <1>1, ButterflyAt
  <2>4. /\ bg[S] = (IF k \in S THEN 0 - g[S] ELSE g[S]) + g[T]
        /\ bg[T] = (IF k \in T THEN 0 - g[T] ELSE g[T]) + g[S]
    <3>1. \A R \in D : bg[R] = (IF k \in R THEN 0 - g[R] ELSE g[R]) + g[Xor(R, {k})]
      BY ButterflyAt
    <3> HIDE DEF T, bg
    <3> QED BY <2>1, <3>1 DEF T
  <2> HIDE DEF T, bg, bbg
  <2> QED BY <2>1, <2>2, <2>3, <2>4
<1>3. Inner(Butterfly(f, k), bg, n) = Inner(f, bbg, n)
  <2> HIDE DEF bg
  <2> QED BY <1>1, SelfAdjoint
<1>4. SumFunctionOnSet(h, D) = SumFunctionOnSet(p, D) + SumFunctionOnSet(p, D)
  <2>1. IsFiniteSet(D) /\ Integral(p, D)
    BY IndicesFinite, InnerTerms
  <2>2. ASSUME NEW S \in D PROVE h[S] = p[S] + p[S]
    <3>1. f[S] \in Int /\ g[S] \in Int
      BY DEF Signals
    <3>2. h[S] = f[S] * bbg[S] /\ p[S] = f[S] * g[S] /\ bbg[S] = g[S] + g[S]
      BY <1>2
    <3>3. \A a, b \in Int : a * (b + b) = a * b + a * b
      OBVIOUS
    <3> HIDE DEF h, p, bbg
    <3> QED BY <3>1, <3>2, <3>3
  <2> HIDE DEF h, p, D
  <2> QED BY <2>1, <2>2, SumAdds
<1>5. Inner(f, bbg, n) = Inner(f, g, n) + Inner(f, g, n)
  BY <1>4 DEF Inner
<1>6. Inner(f, g, n) \in Int
  BY InnerInt
<1> HIDE DEF bg, bbg
<1>7. Inner(f, bbg, n) = 2 * Inner(f, g, n)
  BY <1>5, <1>6
<1> QED BY <1>3, <1>7 DEF bg

(* The rounds of fwht, one after the other.                                *)
Rounds(f, r, n) ==
    r = [k \in 0..n |-> IF k = 0 THEN f ELSE Butterfly(r[k - 1], k - 1)]

LEMMA RoundsExist == ASSUME NEW f, NEW n \in Nat PROVE \E r : Rounds(f, r, n)
<1> DEFINE Defined == {m \in Nat : \E r : Rounds(f, r, m)}
<1>1. 0 \in Defined
  <2> DEFINE r == [k \in 0..0 |-> f]
  <2>1. r = [k \in 0..0 |-> IF k = 0 THEN f ELSE Butterfly(r[k - 1], k - 1)]
    OBVIOUS
  <2> QED BY <2>1 DEF Rounds
<1>2. ASSUME NEW m \in Nat, m \in Defined PROVE m + 1 \in Defined
  <2>1. PICK r : Rounds(f, r, m)
    BY <1>2
  <2>2. \A k \in 0..m : r[k] = IF k = 0 THEN f ELSE Butterfly(r[k - 1], k - 1)
    BY <2>1 DEF Rounds
  <2> DEFINE g == [k \in 0..m+1 |-> IF k = m + 1 THEN Butterfly(r[m], m) ELSE r[k]]
  <2>3. \A k \in 0..m : g[k] = r[k]
    OBVIOUS
  <2>4. g[m + 1] = Butterfly(r[m], m)
    OBVIOUS
  <2>5. g = [k \in 0..m+1 |-> g[k]]
    OBVIOUS
  <2> HIDE DEF g
  <2>6. \A k \in 0..m+1 : g[k] = IF k = 0 THEN f ELSE Butterfly(g[k - 1], k - 1)
    <3> TAKE k \in 0..m+1
    <3>1. CASE k = m + 1
      <4>1. k - 1 = m /\ k # 0 /\ g[m] = r[m]
        BY <2>3, <3>1
      <4> QED BY <2>4, <3>1, <4>1
    <3>2. CASE k \in 1..m
      <4>1. k - 1 \in 0..m /\ k \in 0..m /\ k # 0
        BY <3>2
      <4> QED BY <2>2, <2>3, <4>1
    <3>3. CASE k = 0
      BY <2>2, <2>3, <3>3
    <3> QED BY <3>1, <3>2, <3>3
  <2>7. Rounds(f, g, m + 1)
    BY <2>5, <2>6 DEF Rounds
  <2> QED BY <2>7
<1>3. Nat \subseteq Defined
  <2> HIDE DEF Defined
  <2> QED BY <1>1, <1>2, SetInduction
<1> QED BY <1>3

LEMMA FwhtByRounds ==
    ASSUME NEW n \in Nat, NEW f \in Signals(n)
    PROVE  \E r : /\ fwht(f, n) = r[n] /\ r[0] = f
                  /\ \A k \in 0..n : r[k] \in Signals(n)
                  /\ \A k \in 0..n-1 : r[k + 1] = Butterfly(r[k], k)
<1> DEFINE r == CHOOSE r : Rounds(f, r, n)
<1>1. Rounds(f, r, n)
  BY RoundsExist
<1>2. fwht(f, n) = r[n]
  BY DEF fwht, Rounds
<1> HIDE DEF r
<1>3. \A k \in 0..n : r[k] = IF k = 0 THEN f ELSE Butterfly(r[k - 1], k - 1)
  BY <1>1 DEF Rounds
<1>4. r[0] = f
  BY <1>3
<1>5. \A k \in 0..n-1 : r[k + 1] = Butterfly(r[k], k)
  <2> TAKE k \in 0..n-1
  <2>1. k + 1 \in 0..n /\ k + 1 # 0 /\ (k + 1) - 1 = k
    OBVIOUS
  <2> QED BY <1>3, <2>1
<1> DEFINE Good == {k \in Nat : k <= n => r[k] \in Signals(n)}
<1>6. 0 \in Good
  BY <1>4
<1>7. ASSUME NEW k \in Nat, k \in Good PROVE k + 1 \in Good
  <2> SUFFICES ASSUME k + 1 <= n PROVE r[k + 1] \in Signals(n)
    OBVIOUS
  <2>1. k \in 0..n-1 /\ r[k] \in Signals(n)
    BY <1>7
  <2>2. r[k + 1] = Butterfly(r[k], k)
    BY <1>5, <2>1
  <2>3. Butterfly(r[k], k) \in Signals(n)
    <3> DEFINE a == r[k]
    <3>1. a \in Signals(n)
      BY <2>1
    <3> HIDE DEF a
    <3>2. Butterfly(a, k) \in Signals(n)
      BY <2>1, <3>1, ButterflyAt
    <3> QED BY <3>2 DEF a
  <2> QED BY <2>2, <2>3
<1>8. Nat \subseteq Good
  <2> HIDE DEF Good
  <2> QED BY <1>6, <1>7, SetInduction
<1>9. \A k \in 0..n : r[k] \in Signals(n)
  BY <1>8
<1> QED BY <1>2, <1>4, <1>5, <1>9

LEMMA Parseval ==
    ASSUME NEW n \in Nat, NEW f \in Signals(n), NEW g \in Signals(n)
    PROVE  Inner(fwht(f, n), fwht(g, n), n) = 2^n * Inner(f, g, n)
<1>1. PICK r : /\ fwht(f, n) = r[n] /\ r[0] = f
               /\ \A k \in 0..n : r[k] \in Signals(n)
               /\ \A k \in 0..n-1 : r[k + 1] = Butterfly(r[k], k)
  BY FwhtByRounds
<1>2. PICK s : /\ fwht(g, n) = s[n] /\ s[0] = g
               /\ \A k \in 0..n : s[k] \in Signals(n)
               /\ \A k \in 0..n-1 : s[k + 1] = Butterfly(s[k], k)
  BY FwhtByRounds
<1> DEFINE start == Inner(f, g, n)
<1> DEFINE Good == {k \in Nat : k <= n => Inner(r[k], s[k], n) = 2^k * start}
<1>3. start \in Int
  BY InnerInt
<1> HIDE DEF start
<1>4. 0 \in Good
  <2>1. 2^0 = 1
    BY NextPower
  <2>2. Inner(r[0], s[0], n) = start
    BY <1>1, <1>2 DEF start
  <2> QED BY <1>3, <2>1, <2>2
<1>5. ASSUME NEW k \in Nat, k \in Good PROVE k + 1 \in Good
  <2> SUFFICES ASSUME k + 1 <= n PROVE Inner(r[k + 1], s[k + 1], n) = 2^(k + 1) * start
    OBVIOUS
  <2>1. k \in 0..n-1 /\ k \in 0..n
    OBVIOUS
  <2>2. Inner(r[k + 1], s[k + 1], n) = 2 * Inner(r[k], s[k], n)
    <3>1. r[k] \in Signals(n) /\ s[k] \in Signals(n)
      BY <1>1, <1>2, <2>1
    <3>2. r[k + 1] = Butterfly(r[k], k) /\ s[k + 1] = Butterfly(s[k], k)
      BY <1>1, <1>2, <2>1
    <3> QED BY <2>1, <3>1, <3>2, InnerDoubles
  <2>3. Inner(r[k], s[k], n) = 2^k * start
    BY <1>5, <2>1
  <2>4. 2^(k + 1) = 2^k * 2 /\ 2^k \in Int
    <3>1. 2^k \in Nat
      BY PowerOfTwo
    <3>2. 2^(k + 1) = 2^k * 2
      BY NextPower
    <3> QED BY <3>1, <3>2
  <2> DEFINE p == 2^k
  <2> HIDE DEF p
  <2>5. p \in Int /\ 2^(k + 1) = p * 2 /\ Inner(r[k + 1], s[k + 1], n) = 2 * (p * start)
    BY <2>2, <2>3, <2>4 DEF p
  <2>6. 2 * (p * start) = (p * 2) * start
    <3>1. \A a, b \in Int : 2 * (a * b) = (a * 2) * b
      OBVIOUS
    <3> QED BY <1>3, <2>5, <3>1
  <2> QED BY <2>5, <2>6
<1>6. n \in Good
  <2> HIDE DEF Good
  <2> QED BY <1>4, <1>5, SetInduction
<1>7. Inner(r[n], s[n], n) = 2^n * start
  BY <1>6
<1> QED BY <1>1, <1>2, <1>7 DEF start

LEMMA EmptyCharacter == ASSUME NEW S PROVE walsh_character({}, S) = 1
<1>1. {} \cap S = {}
  OBVIOUS
<1> QED BY <1>1, OddFew DEF walsh_character

LEMMA CharacterOfMore ==
    ASSUME NEW S, IsFiniteSet(S), NEW q, NEW k, k \notin q
    PROVE  /\ walsh_character(q, S) \in Int
           /\ walsh_character(q, Xor(S, {k})) = walsh_character(q, S)
           /\ k \in S => walsh_character(q \cup {k}, S) = 0 - walsh_character(q, S)
           /\ k \notin S => walsh_character(q \cup {k}, S) = walsh_character(q, S)
<1>1. walsh_character(q, S) \in Int
  BY DEF walsh_character
<1>2. walsh_character(q, Xor(S, {k})) = walsh_character(q, S)
  <2>1. q \cap Xor(S, {k}) = q \cap S
    BY DEF Xor
  <2> QED BY <2>1 DEF walsh_character
<1>3. ASSUME k \in S PROVE walsh_character(q \cup {k}, S) = 0 - walsh_character(q, S)
  <2>1. (q \cup {k}) \cap S = Xor(q \cap S, {k})
    BY <1>3 DEF Xor
  <2>2. IsFiniteSet(q \cap S) /\ IsFiniteSet({k})
    <3>1. q \cap S \in SUBSET S
      OBVIOUS
    <3> QED BY <3>1, FS_Subset, FS_Singleton
  <2>3. Odd((q \cup {k}) \cap S) <=> ~Odd(q \cap S)
    BY <2>1, <2>2, OddXor, OddFew
  <2>4. 0 - 1 = -1 /\ 0 - (-1) = 1
    OBVIOUS
  <2> QED BY <2>3, <2>4 DEF walsh_character
<1>4. ASSUME k \notin S PROVE walsh_character(q \cup {k}, S) = walsh_character(q, S)
  <2>1. (q \cup {k}) \cap S = q \cap S
    BY <1>4
  <2> QED BY <2>1 DEF walsh_character
<1> QED BY <1>1, <1>2, <1>3, <1>4

(* What the rounds from k on make of the indicator of b.                   *)
Comb(b, k, n) ==
    [S \in Indices(n) |-> IF S \cap (0..k-1) = b \cap (0..k-1)
                          THEN walsh_character(b \ (0..k-1), S) ELSE 0]

LEMMA CombInt ==
    ASSUME NEW n \in Nat, NEW b, NEW k PROVE Comb(b, k, n) \in Signals(n)
BY DEF Comb, Signals, walsh_character

LEMMA CombStep ==
    ASSUME NEW n \in Nat, NEW b \in Indices(n), NEW k \in 0..n-1
    PROVE  Butterfly(Comb(b, k + 1, n), k) = Comb(b, k, n)
<1> DEFINE L == 0..k-1
<1> DEFINE M == 0..k
<1> DEFINE high == b \ M
<1> DEFINE f == Comb(b, k + 1, n)
<1>1. M = L \cup {k} /\ k \notin L /\ (k + 1) - 1 = k
  OBVIOUS
<1>2. /\ f \in Signals(n)
      /\ \A S \in Indices(n) :
            f[S] = IF S \cap M = b \cap M THEN walsh_character(high, S) ELSE 0
  BY <1>1, CombInt DEF Comb
<1>3. /\ Comb(b, k, n) \in Signals(n)
      /\ \A S \in Indices(n) :
            Comb(b, k, n)[S] = IF S \cap L = b \cap L THEN walsh_character(b \ L, S) ELSE 0
  BY CombInt DEF Comb
<1> HIDE DEF f, L, M
<1>4. Butterfly(f, k) \in Signals(n)
      /\ \A S \in Indices(n) :
            Butterfly(f, k)[S] = (IF k \in S THEN 0 - f[S] ELSE f[S]) + f[Xor(S, {k})]
  BY <1>2, ButterflyAt
<1>5. ASSUME NEW S \in Indices(n) PROVE Butterfly(f, k)[S] = Comb(b, k, n)[S]
  <2> DEFINE T == Xor(S, {k})
  <2> DEFINE c == walsh_character(high, S)
  <2>1. T \in Indices(n) /\ T \cap L = S \cap L /\ (k \in T <=> k \notin S)
    <3>1. T \in Indices(n) /\ (k \in T <=> k \notin S)
      BY Flips
    <3> QED BY <1>1, <3>1 DEF Xor
  <2>2. k \notin high
    BY <1>1
  <2>3. /\ c \in Int /\ walsh_character(high, T) = c
        /\ k \in S => walsh_character(high \cup {k}, S) = 0 - c
        /\ k \notin S => walsh_character(high \cup {k}, S) = c
    <3>1. IsFiniteSet(S)
      BY IndicesFinite
    <3> HIDE DEF high
    <3> QED BY <2>2, <3>1, CharacterOfMore
  <2>4. b \ L = IF k \in b THEN high \cup {k} ELSE high
    BY <1>1
  <2>5. /\ S \cap M = b \cap M <=> S \cap L = b \cap L /\ (k \in S <=> k \in b)
        /\ T \cap M = b \cap M <=> S \cap L = b \cap L /\ (k \notin S <=> k \in b)
    BY <1>1, <2>1
  <2>6. /\ f[S] = IF S \cap M = b \cap M THEN c ELSE 0
        /\ f[T] = IF T \cap M = b \cap M THEN c ELSE 0
    <3> HIDE DEF T, high
    <3> QED BY <1>2, <2>1, <2>3
  <2>7. Butterfly(f, k)[S] = (IF k \in S THEN 0 - f[S] ELSE f[S]) + f[T]
    BY <1>4
  <2>8. Comb(b, k, n)[S] = IF S \cap L = b \cap L THEN walsh_character(b \ L, S) ELSE 0
    BY <1>3
  <2> HIDE DEF T, c, high
  <2>9. /\ 0 - 0 = 0 /\ 0 + 0 = 0 /\ c + 0 = c /\ 0 + c = c /\ (0 - c) + 0 = 0 - c
    BY <2>3
  <2>10. CASE S \cap L # b \cap L
    <3>1. f[S] = 0 /\ f[T] = 0 /\ Comb(b, k, n)[S] = 0
      BY <2>5, <2>6, <2>8, <2>10
    <3> QED BY <2>7, <2>9, <3>1
  <2>11. CASE S \cap L = b \cap L /\ k \in S
    <3>1. CASE k \in b
      <4>1. f[S] = c /\ f[T] = 0 /\ Comb(b, k, n)[S] = 0 - c
        BY <2>3, <2>4, <2>5, <2>6, <2>8, <2>11, <3>1
      <4> QED BY <2>7, <2>9, <2>11, <4>1
    <3>2. CASE k \notin b
      <4>1. f[S] = 0 /\ f[T] = c /\ Comb(b, k, n)[S] = c
        BY <2>4, <2>5, <2>6, <2>8, <2>11, <3>2 DEF c
      <4> QED BY <2>7, <2>9, <2>11, <4>1
    <3> QED BY <3>1, <3>2
  <2>12. CASE S \cap L = b \cap L /\ k \notin S
    <3>1. CASE k \in b
      <4>1. f[S] = 0 /\ f[T] = c /\ Comb(b, k, n)[S] = c
        BY <2>3, <2>4, <2>5, <2>6, <2>8, <2>12, <3>1
      <4> QED BY <2>7, <2>9, <2>12, <4>1
    <3>2. CASE k \notin b
      <4>1. f[S] = c /\ f[T] = 0 /\ Comb(b, k, n)[S] = c
        BY <2>4, <2>5, <2>6, <2>8, <2>12, <3>2 DEF c
      <4> QED BY <2>7, <2>9, <2>12, <4>1
    <3> QED BY <3>1, <3>2
  <2> QED BY <2>10, <2>11, <2>12
<1> QED BY <1>3, <1>4, <1>5 DEF Signals, f

(* The transform at b is the inner product with the character of b.        *)
LEMMA FwhtAt ==
    ASSUME NEW n \in Nat, NEW f \in Signals(n), NEW b \in Indices(n)
    PROVE  fwht(f, n)[b] = Inner([S \in Indices(n) |-> walsh_character(b, S)], f, n)
<1>1. PICK r : /\ fwht(f, n) = r[n] /\ r[0] = f
               /\ \A k \in 0..n : r[k] \in Signals(n)
               /\ \A k \in 0..n-1 : r[k + 1] = Butterfly(r[k], k)
  BY FwhtByRounds
<1> DEFINE start == Inner(Comb(b, 0, n), f, n)
<1> DEFINE Good == {k \in Nat : k <= n => Inner(Comb(b, k, n), r[k], n) = start}
<1>2. 0 \in Good
  BY <1>1
<1>3. ASSUME NEW k \in Nat, k \in Good PROVE k + 1 \in Good
  <2> SUFFICES ASSUME k + 1 <= n PROVE Inner(Comb(b, k + 1, n), r[k + 1], n) = start
    OBVIOUS
  <2> HIDE DEF start
  <2>1. k \in 0..n-1 /\ k \in 0..n
    OBVIOUS
  <2> DEFINE a == r[k]
  <2> DEFINE c == Comb(b, k + 1, n)
  <2>2. a \in Signals(n) /\ c \in Signals(n) /\ r[k + 1] = Butterfly(a, k)
    BY <1>1, <2>1, CombInt
  <2>3. Butterfly(c, k) = Comb(b, k, n)
    BY <2>1, CombStep
  <2>4. Inner(Comb(b, k, n), a, n) = start
    BY <1>3, <2>1
  <2> HIDE DEF a, c
  <2>5. Inner(Butterfly(c, k), a, n) = Inner(c, Butterfly(a, k), n)
    BY <2>1, <2>2, SelfAdjoint
  <2> QED BY <2>2, <2>3, <2>4, <2>5 DEF c
<1>4. n \in Good
  <2> HIDE DEF Good
  <2> QED BY <1>2, <1>3, SetInduction
<1>5. Inner(Comb(b, n, n), r[n], n) = start
  BY <1>4
<1>6. Comb(b, 0, n) = [S \in Indices(n) |-> walsh_character(b, S)]
  <2>1. 0..0-1 = {} /\ b \ {} = b /\ \A S : S \cap {} = b \cap {}
    OBVIOUS
  <2> QED BY <2>1 DEF Comb
<1>7. Inner(Comb(b, n, n), r[n], n) = r[n][b]
  <2> DEFINE p == [S \in Indices(n) |-> Comb(b, n, n)[S] * r[n][S]]
  <2>1. r[n] \in Signals(n) /\ Comb(b, n, n) \in Signals(n)
    BY <1>1, CombInt
  <2>2. ASSUME NEW S \in Indices(n)
        PROVE  Comb(b, n, n)[S] = IF S = b THEN 1 ELSE 0
    <3>1. S \cap (0..n-1) = S /\ b \cap (0..n-1) = b /\ b \ (0..n-1) = {}
      BY DEF Indices
    <3>2. walsh_character({}, S) = 1
      BY EmptyCharacter
    <3> QED BY <3>1, <3>2 DEF Comb
  <2>3. \A x \in Int : 1 * x = x /\ 0 * x = 0
    OBVIOUS
  <2>4. \A S \in Indices(n) : r[n][S] \in Int
    BY <2>1 DEF Signals
  <2>5. p[b] = r[n][b] /\ \A S \in Indices(n) : S # b => p[S] = 0
    BY <2>2, <2>3, <2>4
  <2>6. Integral(p, Indices(n)) /\ IsFiniteSet(Indices(n))
    BY <2>1, InnerTerms, IndicesFinite
  <2> HIDE DEF p
  <2>7. SumFunctionOnSet(p, Indices(n)) = p[b]
    BY <2>5, <2>6, SumSingle
  <2> QED BY <2>5, <2>7 DEF Inner, p
<1> QED BY <1>1, <1>5, <1>6, <1>7

(* Shifting a signal multiplies its transform by a character.              *)
ShiftedBy(s, r, b, k, n) ==
    \A S \in Indices(n) :
       s[S] = walsh_character(b \cap (0..k-1), S) * r[Xor(S, b \ (0..k-1))]

LEMMA ShiftStep ==
    ASSUME NEW n \in Nat, NEW b \in Indices(n), NEW k \in 0..n-1,
           NEW r \in Signals(n), NEW s \in Signals(n), ShiftedBy(s, r, b, k, n)
    PROVE  ShiftedBy(Butterfly(s, k), Butterfly(r, k), b, k + 1, n)
<1> SUFFICES ASSUME NEW S \in Indices(n)
             PROVE  Butterfly(s, k)[S]
                       = walsh_character(b \cap (0..k), S) * Butterfly(r, k)[Xor(S, b \ (0..k))]
  <2>1. (k + 1) - 1 = k
    OBVIOUS
  <2> QED BY <2>1 DEF ShiftedBy
<1> DEFINE L == 0..k-1
<1> DEFINE M == 0..k
<1> DEFINE low == b \cap L
<1> DEFINE high == b \ M
<1> DEFINE V == Xor(S, {k})
<1> DEFINE T == Xor(S, high)
<1> DEFINE U == Xor(T, {k})
<1> DEFINE c == walsh_character(low, S)
<1>1. M = L \cup {k} /\ k \notin L
  OBVIOUS
<1>2. \A R \in Indices(n) : s[R] = walsh_character(low, R) * r[Xor(R, b \ L)]
  BY DEF ShiftedBy
<1> HIDE DEF L, M
<1>3. /\ V \in Indices(n) /\ T \in Indices(n) /\ U \in Indices(n)
      /\ Xor(V, high) = U /\ (k \in T <=> k \in S)
      /\ Xor(S, high \cup {k}) = U /\ Xor(V, high \cup {k}) = T
  <2>1. high \subseteq b /\ k \notin high
    BY <1>1
  <2> HIDE DEF high
  <2>2. V \in Indices(n)
    BY Flips
  <2>3. T \in Indices(n) /\ (k \in T <=> k \in S)
    BY <2>1 DEF Xor, Indices
  <2> HIDE DEF T
  <2>4. U \in Indices(n)
    BY <2>3, Flips
  <2>5. Xor(V, high) = U /\ Xor(S, high \cup {k}) = U /\ Xor(V, high \cup {k}) = T
    BY <2>1 DEF Xor, T
  <2> QED BY <2>2, <2>3, <2>4, <2>5
<1>4. /\ c \in Int /\ walsh_character(low, V) = c
      /\ k \in S => walsh_character(low \cup {k}, S) = 0 - c
      /\ k \notin S => walsh_character(low \cup {k}, S) = c
  <2>1. k \notin low /\ IsFiniteSet(S)
    BY <1>1, IndicesFinite
  <2> HIDE DEF low
  <2> QED BY <2>1, CharacterOfMore
<1>5. /\ k \in b => b \cap M = low \cup {k} /\ b \ L = high \cup {k}
      /\ k \notin b => b \cap M = low /\ b \ L = high
  BY <1>1
<1>6. /\ Butterfly(s, k)[S] = (IF k \in S THEN 0 - s[S] ELSE s[S]) + s[V]
      /\ Butterfly(r, k)[T] = (IF k \in T THEN 0 - r[T] ELSE r[T]) + r[U]
  <2>1. \A R \in Indices(n) :
           Butterfly(s, k)[R] = (IF k \in R THEN 0 - s[R] ELSE s[R]) + s[Xor(R, {k})]
    BY ButterflyAt
  <2>2. \A R \in Indices(n) :
           Butterfly(r, k)[R] = (IF k \in R THEN 0 - r[R] ELSE r[R]) + r[Xor(R, {k})]
    BY ButterflyAt
  <2> HIDE DEF T
  <2> QED BY <1>3, <2>1, <2>2
<1>7. r[T] \in Int /\ r[U] \in Int
  <2> HIDE DEF T, U
  <2> QED BY <1>3 DEF Signals
<1>8. s[S] = c * r[Xor(S, b \ L)] /\ s[V] = c * r[Xor(V, b \ L)]
  BY <1>2, <1>3, <1>4
<1>9. \A x, y, z \in Int : /\ (0 - x * y) + x * z = x * ((0 - y) + z)
                           /\ x * y + x * z = x * (y + z) /\ y + z = z + y
                           /\ (0 - x * z) + x * y = (0 - x) * ((0 - y) + z)
                           /\ x * z + x * y = x * (y + z)
  OBVIOUS
<1> HIDE DEF T, U, V, c, low, high
<1>10. CASE k \in b
  <2>1. s[S] = c * r[U] /\ s[V] = c * r[T]
    BY <1>3, <1>5, <1>8, <1>10
  <2>2. CASE k \in S
    <3>1. walsh_character(b \cap M, S) = 0 - c /\ Butterfly(r, k)[T] = (0 - r[T]) + r[U]
      BY <1>3, <1>4, <1>5, <1>6, <1>10, <2>2
    <3>2. Butterfly(s, k)[S] = (0 - c * r[U]) + c * r[T]
      BY <1>6, <2>1, <2>2
    <3>3. Butterfly(s, k)[S] = walsh_character(b \cap M, S) * Butterfly(r, k)[T]
      BY <1>4, <1>7, <1>9, <3>1, <3>2
    <3> QED BY <3>3 DEF T, high, M
  <2>3. CASE k \notin S
    <3>1. walsh_character(b \cap M, S) = c /\ Butterfly(r, k)[T] = r[T] + r[U]
      BY <1>3, <1>4, <1>5, <1>6, <1>10, <2>3
    <3>2. Butterfly(s, k)[S] = c * r[U] + c * r[T]
      BY <1>6, <2>1, <2>3
    <3>3. Butterfly(s, k)[S] = walsh_character(b \cap M, S) * Butterfly(r, k)[T]
      BY <1>4, <1>7, <1>9, <3>1, <3>2
    <3> QED BY <3>3 DEF T, high, M
  <2> QED BY <2>2, <2>3
<1>11. CASE k \notin b
  <2>1. s[S] = c * r[T] /\ s[V] = c * r[U] /\ walsh_character(b \cap M, S) = c
    BY <1>3, <1>5, <1>8, <1>11 DEF T, c
  <2>2. CASE k \in S
    <3>1. Butterfly(r, k)[T] = (0 - r[T]) + r[U]
      BY <1>3, <1>6, <2>2
    <3>2. Butterfly(s, k)[S] = (0 - c * r[T]) + c * r[U]
      BY <1>6, <2>1, <2>2
    <3>3. Butterfly(s, k)[S] = walsh_character(b \cap M, S) * Butterfly(r, k)[T]
      BY <1>4, <1>7, <1>9, <2>1, <3>1, <3>2
    <3> QED BY <3>3 DEF T, high, M
  <2>3. CASE k \notin S
    <3>1. Butterfly(r, k)[T] = r[T] + r[U]
      BY <1>3, <1>6, <2>3
    <3>2. Butterfly(s, k)[S] = c * r[T] + c * r[U]
      BY <1>6, <2>1, <2>3
    <3>3. Butterfly(s, k)[S] = walsh_character(b \cap M, S) * Butterfly(r, k)[T]
      BY <1>4, <1>7, <1>9, <2>1, <3>1, <3>2
    <3> QED BY <3>3 DEF T, high, M
  <2> QED BY <2>2, <2>3
<1> QED BY <1>10, <1>11

LEMMA FwhtShifted ==
    ASSUME NEW n \in Nat, NEW x \in Signals(n), NEW b \in Indices(n)
    PROVE  LET y == [S \in Indices(n) |-> x[Xor(S, b)]]
           IN  /\ y \in Signals(n)
               /\ \A S \in Indices(n) : fwht(y, n)[S] = walsh_character(b, S) * fwht(x, n)[S]
<1> DEFINE y == [S \in Indices(n) |-> x[Xor(S, b)]]
<1>1. y \in Signals(n)
  <2>1. \A S \in Indices(n) : Xor(S, b) \in Indices(n)
    BY DEF Indices, Xor
  <2> QED BY <2>1 DEF Signals
<1>2. \A S \in Indices(n) : y[S] = x[Xor(S, b)]
  OBVIOUS
<1> HIDE DEF y
<1>3. PICK r : /\ fwht(x, n) = r[n] /\ r[0] = x
               /\ \A k \in 0..n : r[k] \in Signals(n)
               /\ \A k \in 0..n-1 : r[k + 1] = Butterfly(r[k], k)
  BY FwhtByRounds
<1>4. PICK s : /\ fwht(y, n) = s[n] /\ s[0] = y
               /\ \A k \in 0..n : s[k] \in Signals(n)
               /\ \A k \in 0..n-1 : s[k + 1] = Butterfly(s[k], k)
  BY <1>1, FwhtByRounds
<1> DEFINE Good == {k \in Nat : k <= n => ShiftedBy(s[k], r[k], b, k, n)}
<1>5. 0 \in Good
  <2> SUFFICES ASSUME NEW S \in Indices(n)
               PROVE  s[0][S] = walsh_character(b \cap (0..0-1), S) * r[0][Xor(S, b \ (0..0-1))]
    BY DEF ShiftedBy
  <2>1. 0..0-1 = {} /\ b \cap {} = {} /\ b \ {} = b
    OBVIOUS
  <2>2. walsh_character({}, S) = 1
    BY EmptyCharacter
  <2>3. s[0][S] = r[0][Xor(S, b)] /\ s[0][S] \in Int
    BY <1>1, <1>2, <1>3, <1>4 DEF Signals
  <2>4. \A z \in Int : 1 * z = z
    OBVIOUS
  <2> QED BY <2>1, <2>2, <2>3, <2>4
<1>6. ASSUME NEW k \in Nat, k \in Good PROVE k + 1 \in Good
  <2> SUFFICES ASSUME k + 1 <= n PROVE ShiftedBy(s[k + 1], r[k + 1], b, k + 1, n)
    OBVIOUS
  <2> DEFINE p == r[k]
  <2> DEFINE q == s[k]
  <2>1. k \in 0..n-1 /\ k \in 0..n
    OBVIOUS
  <2>2. p \in Signals(n) /\ q \in Signals(n)
    BY <1>3, <1>4, <2>1
  <2>3. r[k + 1] = Butterfly(p, k) /\ s[k + 1] = Butterfly(q, k)
    BY <1>3, <1>4, <2>1
  <2>4. ShiftedBy(q, p, b, k, n)
    BY <1>6, <2>1
  <2> HIDE DEF p, q
  <2>5. ShiftedBy(Butterfly(q, k), Butterfly(p, k), b, k + 1, n)
    BY <2>1, <2>2, <2>4, ShiftStep
  <2> QED BY <2>3, <2>5
<1>7. n \in Good
  <2> HIDE DEF Good
  <2> QED BY <1>5, <1>6, SetInduction
<1>8. ASSUME NEW S \in Indices(n) PROVE s[n][S] = walsh_character(b, S) * r[n][S]
  <2>1. b \cap (0..n-1) = b /\ b \ (0..n-1) = {} /\ Xor(S, {}) = S
    BY DEF Indices, Xor
  <2>2. ShiftedBy(s[n], r[n], b, n, n)
    BY <1>7
  <2>3. s[n][S] = walsh_character(b \cap (0..n-1), S) * r[n][Xor(S, b \ (0..n-1))]
    BY <2>2 DEF ShiftedBy
  <2> QED BY <2>1, <2>3
<1> QED BY <1>1, <1>3, <1>4, <1>8 DEF y

LEMMA MatchesCorrelate ==
    ASSUME NEW n \in Nat, NEW atom \in Signals(n), NEW x \in Signals(n), NEW b \in Indices(n)
    PROVE  matched_channel(atom, x, n)[b]
              = Inner(atom, [S \in Indices(n) |-> x[Xor(S, b)]], n)
<1> DEFINE y == [S \in Indices(n) |-> x[Xor(S, b)]]
<1> DEFINE A == fwht(atom, n)
<1> DEFINE X == fwht(x, n)
<1> DEFINE Y == fwht(y, n)
<1> DEFINE product == [S \in Indices(n) |-> A[S] * X[S]]
<1> DEFINE character == [S \in Indices(n) |-> walsh_character(b, S)]
<1>1. y \in Signals(n) /\ \A S \in Indices(n) : Y[S] = walsh_character(b, S) * X[S]
  BY FwhtShifted
<1> HIDE DEF y
<1>2. A \in Signals(n) /\ X \in Signals(n)
  <2>1. \A f \in Signals(n) : fwht(f, n) \in Signals(n)
    <3> TAKE f \in Signals(n)
    <3>1. PICK r : /\ fwht(f, n) = r[n] /\ r[0] = f
                   /\ \A k \in 0..n : r[k] \in Signals(n)
                   /\ \A k \in 0..n-1 : r[k + 1] = Butterfly(r[k], k)
      BY FwhtByRounds
    <3>2. n \in 0..n
      OBVIOUS
    <3> QED BY <3>1, <3>2
  <2> QED BY <2>1
<1>3. Inner(A, Y, n) = 2^n * Inner(atom, y, n)
  BY <1>1, Parseval
<1> HIDE DEF A, X, Y
<1>4. product \in Signals(n) /\ character \in Signals(n)
  <2>1. \A p, q \in Int : p * q \in Int
    OBVIOUS
  <2>2. \A S \in Indices(n) : A[S] \in Int /\ X[S] \in Int
    BY <1>2 DEF Signals
  <2>3. \A S \in Indices(n) : A[S] * X[S] \in Int
    BY <2>1, <2>2
  <2>4. \A S \in Indices(n) : walsh_character(b, S) \in Int
    BY DEF walsh_character
  <2> QED BY <2>3, <2>4 DEF Signals
<1>5. fwht(product, n)[b] = Inner(character, product, n)
  <2> HIDE DEF product
  <2> QED BY <1>4, FwhtAt
<1>6. Inner(character, product, n) = Inner(A, Y, n)
  <2>1. ASSUME NEW S \in Indices(n) PROVE character[S] * product[S] = A[S] * Y[S]
    <3>1. /\ character[S] = walsh_character(b, S) /\ product[S] = A[S] * X[S]
          /\ Y[S] = walsh_character(b, S) * X[S]
      BY <1>1
    <3>2. walsh_character(b, S) \in Int /\ A[S] \in Int /\ X[S] \in Int
      BY <1>2 DEF Signals, walsh_character
    <3>3. \A p, q, r \in Int : p * (q * r) = q * (p * r)
      OBVIOUS
    <3> HIDE DEF character, product
    <3> QED BY <3>1, <3>2, <3>3
  <2> HIDE DEF character, product
  <2> QED BY <2>1 DEF Inner
<1>7. matched_channel(atom, x, n)[b] = fwht(product, n)[b] \div 2^n
  BY DEF matched_channel, A, X
<1>8. \A d \in Nat \ {0}, v \in Int : (d * v) \div d = v
  BY SMT
<1>9. 2^n \in Nat \ {0} /\ Inner(atom, y, n) \in Int
  <2>1. 2^n \in Nat
    BY PowerOfTwo
  <2>2. 2^n # 0
    <3>1. IsFiniteSet(1..n) /\ Cardinality(1..n) = n
      BY FS_Interval
    <3>2. IsFiniteSet(SUBSET (1..n)) /\ Cardinality(SUBSET (1..n)) = 2^n
      BY <3>1, FS_SUBSET
    <3>3. {} \in SUBSET (1..n)
      OBVIOUS
    <3> QED BY <3>2, <3>3, FS_EmptySet
  <2> QED BY <1>1, <2>1, <2>2, InnerInt
<1> HIDE DEF product, character
<1>10. (2^n * Inner(atom, y, n)) \div 2^n = Inner(atom, y, n)
  BY <1>8, <1>9
<1> QED BY <1>3, <1>5, <1>6, <1>7, <1>10 DEF y

(* The three transforms of the view decoder are the correlation of the     *)
(* residual with the atom at every bucket, for buckets of any width.       *)
THEOREM MatchedByTransforms == Spec => []MatchIsCorrelation
<1>1. ASSUME NEW atom \in SmallSignals, NEW x \in SmallSignals, NEW b \in Buckets
      PROVE  matched_channel(atom, x, LocalBits)[b] =
                SumFunction([j \in Buckets |-> atom[j] * x[Xor(j, b)]])
  <2>1. /\ LocalBits \in Nat /\ Buckets = Indices(LocalBits)
        /\ atom \in Signals(LocalBits) /\ x \in Signals(LocalBits)
    BY LocalBitsAssumption DEF SmallSignals, Buckets, Signals
  <2> DEFINE y == [S \in Indices(LocalBits) |-> x[Xor(S, b)]]
  <2>2. matched_channel(atom, x, LocalBits)[b] = Inner(atom, y, LocalBits)
    BY <2>1, MatchesCorrelate
  <2>3. [j \in Buckets |-> atom[j] * x[Xor(j, b)]] = [j \in Buckets |-> atom[j] * y[j]]
    BY <2>1
  <2>4. SumFunction([j \in Buckets |-> atom[j] * x[Xor(j, b)]])
           = SumFunctionOnSet([j \in Buckets |-> atom[j] * x[Xor(j, b)]], Buckets)
    BY DEF SumFunction
  <2> QED BY <2>1, <2>2, <2>3, <2>4 DEF Inner
<1>2. MatchIsCorrelation
  BY <1>1 DEF MatchIsCorrelation
<1> QED BY <1>2, PTL

-----------------------------------------------------------------------------
(* Numbers and their binary digits.                                        *)
LEMMA SumScaled ==
    ASSUME NEW S, IsFiniteSet(S), NEW f, NEW h, NEW c \in Int, Integral(f, S),
           \A x \in S : h[x] = c * f[x]
    PROVE  SumFunctionOnSet(h, S) = c * SumFunctionOnSet(f, S)
<1> DEFINE F(T) == SumFunctionOnSet(f, T)
<1> DEFINE H(T) == SumFunctionOnSet(h, T)
<1> DEFINE Good == {T \in SUBSET S : H(T) = c * F(T)}
<1>0. \A a, b \in Int : a * b \in Int /\ c * (a + b) = c * a + c * b /\ c * 0 = 0
  OBVIOUS
<1>1. ASSUME NEW T \in SUBSET S
      PROVE  /\ F(T) \in Int
             /\ T = {} => F(T) = 0 /\ H(T) = 0
             /\ \A x \in T : F(T) = f[x] + F(T \ {x}) /\ H(T) = h[x] + H(T \ {x})
  <2>1. IsFiniteSet(T)
    BY FS_Subset
  <2>2. (\A x \in T : f[x] \in Int) /\ (\A x \in T : h[x] \in Int)
    BY <1>0 DEF Integral
  <2> QED BY <2>1, <2>2, SumOne
<1> HIDE DEF F, H
<1>2. {} \in Good
  <2>1. {} \in SUBSET S
    OBVIOUS
  <2>2. F({}) = 0 /\ H({}) = 0
    BY <1>1, <2>1
  <2> QED BY <1>0, <2>1, <2>2
<1>3. ASSUME NEW T \in SUBSET S, NEW x \in S, T \in Good, x \notin T PROVE T \cup {x} \in Good
  <2> DEFINE U == T \cup {x}
  <2>1. U \in SUBSET S /\ x \in U /\ U \ {x} = T
    BY <1>3
  <2> HIDE DEF U
  <2>2. F(U) = f[x] + F(T) /\ H(U) = h[x] + H(T)
    BY <1>1, <2>1
  <2>3. h[x] = c * f[x] /\ f[x] \in Int
    BY DEF Integral
  <2>4. F(T) \in Int /\ H(T) = c * F(T)
    BY <1>1, <1>3
  <2>5. H(U) = c * F(U)
    BY <1>0, <2>2, <2>3, <2>4
  <2> QED BY <2>1, <2>5 DEF U
<1>4. S \in Good
  <2> HIDE DEF Good
  <2> QED BY <1>2, <1>3, FiniteInduction
<1> QED BY <1>4 DEF F, H

LEMMA SumSetIsSum ==
    ASSUME NEW S, IsFiniteSet(S), \A x \in S : x \in Int
    PROVE  SumSet(S) = SumFunctionOnSet([x \in S |-> x], S)
<1> DEFINE f == [x \in S |-> x]
<1> DEFINE Plain(g) ==
        g = [s \in SUBSET S |-> IF s = {} THEN 0
                                ELSE (CHOOSE x \in s : TRUE) + g[s \ {CHOOSE x \in s : TRUE}]]
<1>1. \A g : AddsUp(f, g, S) => Plain(g)
  <2> TAKE g
  <2>1. \A s \in SUBSET S : s # {} => f[CHOOSE x \in s : TRUE] = CHOOSE x \in s : TRUE
    <3> TAKE s \in SUBSET S
    <3>1. s # {} => (CHOOSE x \in s : TRUE) \in S
      OBVIOUS
    <3> QED BY <3>1
  <2> QED BY <2>1 DEF AddsUp
<1>2. \A g : Plain(g) => AddsUp(f, g, S)
  <2> TAKE g
  <2>1. \A s \in SUBSET S : s # {} => f[CHOOSE x \in s : TRUE] = CHOOSE x \in s : TRUE
    <3> TAKE s \in SUBSET S
    <3>1. s # {} => (CHOOSE x \in s : TRUE) \in S
      OBVIOUS
    <3> QED BY <3>1
  <2> QED BY <2>1 DEF AddsUp
<1> DEFINE p == CHOOSE g : Plain(g)
<1> DEFINE a == CHOOSE g : AddsUp(f, g, S)
<1>3. SumSet(S) = p[S]
  BY DEF SumSet, FoldSet, MapThenFoldSet
<1>4. SumFunctionOnSet(f, S) = a[S]
  BY DEF SumFunctionOnSet, FoldFunctionOnSet, MapThenFoldSet, AddsUp
<1>5. AddsUp(f, a, S)
  BY SumExists
<1>6. AddsUp(f, p, S)
  <2>1. \E g : Plain(g)
    BY <1>1, <1>5
  <2> HIDE DEF Plain
  <2>2. Plain(p)
    BY <2>1
  <2> QED BY <1>2, <2>2
<1> HIDE DEF p, a
<1>7. \A x \in S : f[x] \in Int
  OBVIOUS
<1>8. p[S] = a[S]
  <2> HIDE DEF f
  <2>1. \A s \in SUBSET S : s \subseteq S => p[s] = a[s]
    BY <1>5, <1>6, <1>7, SumUnique
  <2> QED BY <2>1
<1> QED BY <1>3, <1>4, <1>8

LEMMA SumSetFew ==
    /\ SumSet({}) = 0
    /\ \A x \in Int : SumSet({x}) = x
<1>1. SumSet({}) = 0
  <2> DEFINE f == [x \in {} |-> x]
  <2>1. SumSet({}) = SumFunctionOnSet(f, {}) /\ SumFunctionOnSet(f, {}) = 0
    BY SumSetIsSum, SumNone, FS_EmptySet
  <2> QED BY <2>1
<1>2. ASSUME NEW x \in Int PROVE SumSet({x}) = x
  <2> DEFINE f == [y \in {x} |-> y]
  <2>1. IsFiniteSet({x}) /\ \A y \in {x} : y \in Int
    BY FS_Singleton
  <2>2. SumSet({x}) = SumFunctionOnSet(f, {x})
    BY <2>1, SumSetIsSum
  <2>3. f[x] = x /\ Integral(f, {x}) /\ \A y \in {x} : y # x => f[y] = 0
    BY DEF Integral
  <2> HIDE DEF f
  <2>4. SumFunctionOnSet(f, {x}) = f[x]
    BY <2>1, <2>3, SumSingle
  <2> QED BY <2>2, <2>3, <2>4
<1> QED BY <1>1, <1>2

LEMMA PowersGrow ==
    ASSUME NEW i \in Nat
    PROVE  2^i \in Nat \ {0} /\ 2^i \in Int /\ \A j \in Nat : i < j => 2^i < 2^j
<1> DEFINE Good == {j \in Nat : 2^j \in Nat \ {0} /\ (i < j => 2^i < 2^j)}
<1>1. \A j \in Nat : 2^j \in Nat /\ 2^(j + 1) = 2^j * 2 /\ 2^0 = 1
  BY PowerOfTwo, NextPower
<1>2. 0 \in Good
  BY <1>1
<1>3. ASSUME NEW j \in Nat, j \in Good PROVE j + 1 \in Good
  <2>1. 2^j \in Nat /\ 2^j # 0 /\ 2^(j + 1) = 2^j * 2 /\ 2^i \in Nat
    BY <1>1, <1>3
  <2>2. i < j => 2^i < 2^j
    BY <1>3
  <2> DEFINE p == 2^j
  <2> DEFINE r == 2^i
  <2> DEFINE s == 2^(j + 1)
  <2>3. (i = j => r = p) /\ (i < j => r < p) /\ p \in Nat /\ p # 0 /\ r \in Nat /\ s = p * 2
    BY <2>1, <2>2
  <2> HIDE DEF p, r, s
  <2>4. s \in Nat \ {0} /\ (i < j + 1 => r < s)
    BY <2>3
  <2> QED BY <2>4 DEF r, s
<1>4. Nat \subseteq Good
  <2> HIDE DEF Good
  <2> QED BY <1>2, <1>3, SetInduction
<1> QED BY <1>4

PowersOfTwo == [i \in Nat |-> 2^i]

LEMMA NumberIsSum ==
    ASSUME NEW a \in SUBSET Nat, IsFiniteSet(a)
    PROVE  Number(a) = SumFunctionOnSet(PowersOfTwo, a)
<1> DEFINE S == {2^i : i \in a}
<1> DEFINE g == [x \in S |-> x]
<1> DEFINE pi == [i \in a |-> 2^i]
<1>1. /\ pi \in [a -> S] /\ {pi[i] : i \in a} = S
      /\ \A i \in a : PowersOfTwo[i] = g[pi[i]]
  BY DEF PowersOfTwo
<1>2. \A i \in a : i \in Nat /\ 2^i \in Int /\ pi[i] = 2^i
  BY PowersGrow
<1>3. \A i, j \in a : pi[i] = pi[j] => i = j
  <2> SUFFICES ASSUME NEW i \in a, NEW j \in a, i < j PROVE 2^i # 2^j
    BY <1>2
  <2>1. 2^i < 2^j /\ 2^i \in Int /\ 2^j \in Int
    BY <1>2, PowersGrow
  <2> QED BY <2>1
<1>4. Integral(PowersOfTwo, a)
  BY <1>2 DEF Integral, PowersOfTwo
<1>5. IsFiniteSet(S) /\ \A x \in S : x \in Int
  <2>1. pi \in Surjection(a, S)
    BY <1>1 DEF Surjection
  <2>2. IsFiniteSet(S)
    <3> HIDE DEF pi, S
    <3> QED BY <2>1, FS_Surjection
  <2> QED BY <1>2, <2>2
<1>6. SumSet(S) = SumFunctionOnSet(g, S)
  <2> HIDE DEF S
  <2> QED BY <1>5, SumSetIsSum
<1>7. SumFunctionOnSet(g, {pi[i] : i \in a}) = SumFunctionOnSet(PowersOfTwo, a)
  <2> HIDE DEF g, S, pi
  <2> QED BY <1>1, <1>3, <1>4, SumMoved
<1> QED BY <1>1, <1>6, <1>7 DEF Number

LEMMA NumberGrows ==
    /\ Number({}) = 0
    /\ \A a \in SUBSET Nat : IsFiniteSet(a) =>
          /\ Number(a) \in Int
          /\ \A i \in a : Number(a) = 2^i + Number(a \ {i})
<1>1. Number({}) = 0
  BY NumberIsSum, SumNone, FS_EmptySet
<1>2. ASSUME NEW a \in SUBSET Nat, IsFiniteSet(a)
      PROVE  Number(a) \in Int /\ \A i \in a : Number(a) = 2^i + Number(a \ {i})
  <2>1. \A i \in a : PowersOfTwo[i] \in Int /\ PowersOfTwo[i] = 2^i
    BY PowersGrow DEF PowersOfTwo
  <2> DEFINE f == PowersOfTwo
  <2> HIDE DEF f
  <2>2. /\ SumFunctionOnSet(f, a) \in Int
        /\ \A i \in a : SumFunctionOnSet(f, a) = f[i] + SumFunctionOnSet(f, a \ {i})
    BY <1>2, <2>1, SumOne DEF f
  <2>3. \A i \in a : IsFiniteSet(a \ {i}) /\ a \ {i} \in SUBSET Nat
    BY <1>2, FS_Subset
  <2> QED BY <1>2, <2>1, <2>2, <2>3, NumberIsSum DEF f
<1> QED BY <1>1, <1>2

-----------------------------------------------------------------------------
(* Physical time is a sum of characters of the generators.                 *)
LEMMA ShiftedDown ==
    ASSUME NEW a \in SUBSET Nat
    PROVE  ShiftRight(a) \in SUBSET Nat /\ \A i \in Nat : i \in ShiftRight(a) <=> i + 1 \in a
<1>1. \A i \in a \ {0} : i - 1 \in Nat /\ (i - 1) + 1 = i
  OBVIOUS
<1>2. \A i \in Nat : i + 1 # 0 /\ (i + 1) - 1 = i
  OBVIOUS
<1> QED BY <1>1, <1>2 DEF ShiftRight

Shifts(code, f, n) == f = [k \in 0..n |-> IF k = 0 THEN code ELSE ShiftRight(f[k - 1])]

LEMMA ShiftsExist == ASSUME NEW code, NEW n \in Nat PROVE \E f : Shifts(code, f, n)
<1> DEFINE Defined == {m \in Nat : \E f : Shifts(code, f, m)}
<1>1. 0 \in Defined
  <2> DEFINE f == [k \in 0..0 |-> code]
  <2>1. f = [k \in 0..0 |-> IF k = 0 THEN code ELSE ShiftRight(f[k - 1])]
    OBVIOUS
  <2> QED BY <2>1 DEF Shifts
<1>2. ASSUME NEW m \in Nat, m \in Defined PROVE m + 1 \in Defined
  <2>1. PICK f : Shifts(code, f, m)
    BY <1>2
  <2>2. \A k \in 0..m : f[k] = IF k = 0 THEN code ELSE ShiftRight(f[k - 1])
    BY <2>1 DEF Shifts
  <2> DEFINE g == [k \in 0..m+1 |-> IF k = m + 1 THEN ShiftRight(f[m]) ELSE f[k]]
  <2>3. \A k \in 0..m : g[k] = f[k]
    OBVIOUS
  <2>4. g[m + 1] = ShiftRight(f[m])
    OBVIOUS
  <2>5. g = [k \in 0..m+1 |-> g[k]]
    OBVIOUS
  <2> HIDE DEF g
  <2>6. \A k \in 0..m+1 : g[k] = IF k = 0 THEN code ELSE ShiftRight(g[k - 1])
    <3> TAKE k \in 0..m+1
    <3>1. CASE k = m + 1
      <4>1. k - 1 = m /\ k # 0 /\ g[m] = f[m]
        BY <2>3, <3>1
      <4> QED BY <2>4, <3>1, <4>1
    <3>2. CASE k \in 1..m
      <4>1. k - 1 \in 0..m /\ k \in 0..m /\ k # 0
        BY <3>2
      <4> QED BY <2>2, <2>3, <4>1
    <3>3. CASE k = 0
      BY <2>2, <2>3, <3>3
    <3> QED BY <3>1, <3>2, <3>3
  <2>7. Shifts(code, g, m + 1)
    BY <2>5, <2>6 DEF Shifts
  <2> QED BY <2>7
<1>3. Nat \subseteq Defined
  <2> HIDE DEF Defined
  <2> QED BY <1>1, <1>2, SetInduction
<1> QED BY <1>3

LEMMA OddBijection ==
    ASSUME NEW A, NEW B, IsFiniteSet(A), NEW f \in Bijection(A, B)
    PROVE  Odd(A) <=> Odd(B)
<1>1. ExistsBijection(A, B)
  BY DEF ExistsBijection
<1>2. Cardinality(A) = Cardinality(B)
  BY <1>1, FS_Bijection
<1> QED BY <1>2 DEF Odd

(* Bit i of the rank is the parity of the bits from i on of the code.      *)
LEMMA GrayInverseBits ==
    ASSUME NEW n \in Nat, NEW q \in Indices(n)
    PROVE  /\ gray_inverse(q, n) \in Indices(n)
           /\ \A i \in 0..n-1 : i \in gray_inverse(q, n) <=> Odd((i..n-1) \cap q)
<1> DEFINE f == CHOOSE f : Shifts(q, f, n)
<1>1. Shifts(q, f, n)
  BY ShiftsExist
<1>2. gray_inverse(q, n) = XorOf(f)
  BY DEF gray_inverse, Shifts
<1> HIDE DEF f
<1>3. DOMAIN f = 0..n /\ \A k \in 0..n : f[k] = IF k = 0 THEN q ELSE ShiftRight(f[k - 1])
  BY <1>1 DEF Shifts
<1>4. q \in SUBSET Nat /\ \A i \in q : i <= n - 1
  BY DEF Indices
<1> DEFINE Good == {k \in Nat : k <= n => /\ f[k] \in SUBSET Nat
                                          /\ \A i \in Nat : i \in f[k] <=> i + k \in q}
<1>5. 0 \in Good
  <2>1. f[0] = q /\ \A i \in Nat : i + 0 = i
    BY <1>3
  <2> QED BY <1>4, <2>1
<1>6. ASSUME NEW k \in Nat, k \in Good PROVE k + 1 \in Good
  <2> SUFFICES ASSUME k + 1 <= n
               PROVE  f[k + 1] \in SUBSET Nat /\ \A i \in Nat : i \in f[k + 1] <=> i + (k + 1) \in q
    OBVIOUS
  <2>1. f[k + 1] = ShiftRight(f[k])
    <3>1. k + 1 \in 0..n /\ k + 1 # 0 /\ (k + 1) - 1 = k
      OBVIOUS
    <3> QED BY <1>3, <3>1
  <2>2. f[k] \in SUBSET Nat /\ \A i \in Nat : i \in f[k] <=> i + k \in q
    BY <1>6
  <2>3. f[k + 1] \in SUBSET Nat /\ \A i \in Nat : i \in f[k + 1] <=> i + 1 \in f[k]
    BY <2>1, <2>2, ShiftedDown
  <2>4. \A i \in Nat : i + 1 \in Nat /\ (i + 1) + k = i + (k + 1)
    OBVIOUS
  <2> QED BY <2>2, <2>3, <2>4
<1>7. \A k \in 0..n : f[k] \in SUBSET Nat /\ \A i \in Nat : i \in f[k] <=> i + k \in q
  <2>1. Nat \subseteq Good
    <3> HIDE DEF Good
    <3> QED BY <1>5, <1>6, SetInduction
  <2> QED BY <2>1
<1>8. ASSUME NEW i \in 0..n-1 PROVE i \in XorOf(f) <=> Odd((i..n-1) \cap q)
  <2> DEFINE A == {k \in 0..n : i \in f[k]}
  <2> DEFINE B == (i..n-1) \cap q
  <2> DEFINE g == [k \in A |-> i + k]
  <2>1. A = {k \in 0..n : i + k \in q}
    BY <1>7
  <2>2. \A k \in A : g[k] \in B
    <3> TAKE k \in A
    <3>1. k \in 0..n /\ i + k \in q /\ i + k <= n - 1
      BY <1>4, <2>1
    <3> QED BY <3>1
  <2>3. \A y \in B : y - i \in A /\ i + (y - i) = y
    <3> TAKE y \in B
    <3>1. y - i \in 0..n /\ i + (y - i) = y
      OBVIOUS
    <3> QED BY <2>1, <3>1
  <2>4. \A k, m \in A : g[k] = g[m] => k = m
    OBVIOUS
  <2>5. g \in Bijection(A, B)
    <3> HIDE DEF A, B
    <3>1. g \in [A -> B]
      BY <2>2
    <3>2. \A y \in B : \E k \in A : g[k] = y
      BY <2>3
    <3> QED BY <2>4, <3>1, <3>2 DEF Bijection, Injection, Surjection, IsInjective
  <2>6. IsFiniteSet(A)
    <3>1. IsFiniteSet(0..n) /\ A \in SUBSET (0..n)
      BY FS_Interval
    <3> HIDE DEF A
    <3> QED BY <3>1, FS_Subset
  <2>7. Odd(A) <=> Odd(B)
    <3> HIDE DEF A, B, g
    <3> QED BY <2>5, <2>6, OddBijection
  <2>8. i \in XorOf(f) <=> Odd(A)
    BY <1>3, XorOfHolds
  <2> QED BY <2>7, <2>8
<1>9. XorOf(f) \subseteq 0..n-1
  <2> SUFFICES ASSUME NEW x \in XorOf(f) PROVE x \in 0..n-1
    OBVIOUS
  <2>1. PICK k \in 0..n : x \in f[k]
    BY <1>3 DEF XorOf
  <2>2. x \in Nat /\ x + k \in q /\ x + k <= n - 1
    BY <1>4, <1>7, <2>1
  <2> QED BY <2>2
<1> QED BY <1>2, <1>8, <1>9 DEF Indices

Generator(i, n) == i..n-1

(* Twice the rank, counted from the middle, of the m lowest bits.          *)
PartialTime(q, m, n) == 2 * Number(gray_inverse(q, n) \cap (0..m-1)) - (2^m - 1)

LEMMA TimeGrows ==
    ASSUME NEW n \in Nat, NEW q \in Indices(n)
    PROVE  /\ PartialTime(q, 0, n) = 0
           /\ PartialTime(q, n, n) = Time(n)[q]
           /\ \A m \in 0..n-1 :
                 /\ PartialTime(q, m, n) \in Int
                 /\ PartialTime(q, m + 1, n)
                       = PartialTime(q, m, n) - 2^m * walsh_character(Generator(m, n), q)
<1> DEFINE r == gray_inverse(q, n)
<1>1. r \in Indices(n) /\ \A i \in 0..n-1 : i \in r <=> Odd(Generator(i, n) \cap q)
  BY GrayInverseBits DEF Generator
<1> HIDE DEF r
<1>2. r \subseteq 0..n-1 /\ IsFiniteSet(r)
  BY <1>1, IndicesFinite DEF Indices
<1>3. \A m : r \cap (0..m-1) \in SUBSET Nat /\ IsFiniteSet(r \cap (0..m-1))
  BY <1>2, FS_Subset
<1>4. PartialTime(q, 0, n) = 0
  <2>1. r \cap (0..0-1) = {} /\ 2^0 = 1 /\ Number({}) = 0
    BY NumberGrows, NextPower
  <2> QED BY <2>1 DEF PartialTime, r
<1>5. PartialTime(q, n, n) = Time(n)[q]
  <2>1. r \cap (0..n-1) = r
    BY <1>2
  <2> QED BY <2>1 DEF PartialTime, r, Time, centered_gray_rank
<1>6. ASSUME NEW m \in 0..n-1
      PROVE  /\ PartialTime(q, m, n) \in Int
             /\ PartialTime(q, m + 1, n)
                   = PartialTime(q, m, n) - 2^m * walsh_character(Generator(m, n), q)
  <2> DEFINE low == r \cap (0..m-1)
  <2> DEFINE next == r \cap (0..(m+1)-1)
  <2> DEFINE v == Number(low)
  <2> DEFINE w == Number(next)
  <2> DEFINE p == 2^m
  <2>1. low \in SUBSET Nat /\ IsFiniteSet(low) /\ next \in SUBSET Nat /\ IsFiniteSet(next)
    BY <1>3
  <2>2. m \notin low /\ next = IF m \in r THEN low \cup {m} ELSE low
    <3>1. \A i : i \in 0..(m+1)-1 <=> i = m \/ i \in 0..m-1
      OBVIOUS
    <3>2. m \notin 0..m-1
      OBVIOUS
    <3> QED BY <3>1, <3>2
  <2> HIDE DEF low, next
  <2>3. v \in Int /\ w \in Int
    BY <2>1, NumberGrows
  <2>4. w = IF m \in r THEN p + v ELSE v
    <3>1. CASE m \in r
      <4>1. m \in next /\ next \ {m} = low
        BY <2>2, <3>1
      <4>2. w = p + Number(next \ {m})
        BY <2>1, <4>1, NumberGrows
      <4> QED BY <3>1, <4>1, <4>2
    <3>2. CASE m \notin r
      BY <2>2, <3>2
    <3> QED BY <3>1, <3>2
  <2>5. p \in Int /\ 2^(m + 1) = p * 2
    BY PowersGrow, NextPower
  <2>6. PartialTime(q, m, n) = 2 * v - (p - 1) /\ PartialTime(q, m + 1, n) = 2 * w - (2^(m+1) - 1)
    BY DEF PartialTime, r, low, next
  <2>7. walsh_character(Generator(m, n), q) = IF m \in r THEN -1 ELSE 1
    BY <1>1 DEF walsh_character
  <2> HIDE DEF v, w, p
  <2>8. 2 * v - (p - 1) \in Int
    BY <2>3, <2>5
  <2>9. CASE m \in r
    <3>1. walsh_character(Generator(m, n), q) = -1 /\ w = p + v
      BY <2>4, <2>7, <2>9
    <3>2. 2 * (p + v) - (p * 2 - 1) = (2 * v - (p - 1)) - p * (-1)
      BY <2>3, <2>5
    <3> QED BY <2>5, <2>6, <2>8, <3>1, <3>2 DEF p
  <2>10. CASE m \notin r
    <3>1. walsh_character(Generator(m, n), q) = 1 /\ w = v
      BY <2>4, <2>7, <2>10
    <3>2. 2 * v - (p * 2 - 1) = (2 * v - (p - 1)) - p * 1
      BY <2>3, <2>5
    <3> QED BY <2>5, <2>6, <2>8, <3>1, <3>2 DEF p
  <2> QED BY <2>9, <2>10
<1> QED BY <1>4, <1>5, <1>6

-----------------------------------------------------------------------------
(* The transforms of characters, of sums and of products.                  *)
Character(g, n) == [S \in Indices(n) |-> walsh_character(g, S)]
Indicator(g, n) == [S \in Indices(n) |-> IF S = g THEN 1 ELSE 0]

LEMMA SomeSignals ==
    ASSUME NEW n \in Nat, NEW g
    PROVE  Character(g, n) \in Signals(n) /\ Indicator(g, n) \in Signals(n)
BY DEF Character, Indicator, Signals, walsh_character

LEMMA FwhtSignal == ASSUME NEW n \in Nat, NEW f \in Signals(n) PROVE fwht(f, n) \in Signals(n)
<1>1. PICK r : /\ fwht(f, n) = r[n] /\ r[0] = f
               /\ \A k \in 0..n : r[k] \in Signals(n)
               /\ \A k \in 0..n-1 : r[k + 1] = Butterfly(r[k], k)
  BY FwhtByRounds
<1>2. n \in 0..n
  OBVIOUS
<1> QED BY <1>1, <1>2

LEMMA FwhtIsInner ==
    ASSUME NEW n \in Nat, NEW f \in Signals(n), NEW b \in Indices(n)
    PROVE  fwht(f, n)[b] = Inner(Character(b, n), f, n)
BY FwhtAt DEF Character

LEMMA InnerIndicator ==
    ASSUME NEW n \in Nat, NEW f \in Signals(n), NEW g \in Indices(n)
    PROVE  Inner(f, Indicator(g, n), n) = f[g]
<1> DEFINE h == Indicator(g, n)
<1> DEFINE p == [S \in Indices(n) |-> f[S] * h[S]]
<1>1. h \in Signals(n) /\ h[g] = 1 /\ \A S \in Indices(n) : S # g => h[S] = 0
  BY SomeSignals DEF Indicator
<1>2. f[g] \in Int /\ \A S \in Indices(n) : f[S] \in Int
  BY DEF Signals
<1>3. \A x \in Int : x * 1 = x /\ x * 0 = 0
  OBVIOUS
<1> HIDE DEF h
<1>4. p[g] = f[g] /\ \A S \in Indices(n) : S # g => p[S] = 0
  BY <1>1, <1>2, <1>3
<1>5. Integral(p, Indices(n)) /\ IsFiniteSet(Indices(n))
  BY <1>1, InnerTerms, IndicesFinite
<1>6. Inner(f, h, n) = SumFunctionOnSet(p, Indices(n))
  BY DEF Inner
<1> HIDE DEF p
<1>7. SumFunctionOnSet(p, Indices(n)) = p[g]
  BY <1>4, <1>5, SumSingle
<1> QED BY <1>4, <1>6, <1>7 DEF h

LEMMA IndicatorSpectrum ==
    ASSUME NEW n \in Nat, NEW g \in Indices(n)
    PROVE  fwht(Indicator(g, n), n) = Character(g, n)
<1>1. fwht(Indicator(g, n), n) \in Signals(n) /\ Character(g, n) \in Signals(n)
  BY SomeSignals, FwhtSignal
<1>2. ASSUME NEW S \in Indices(n) PROVE fwht(Indicator(g, n), n)[S] = Character(g, n)[S]
  <2>1. fwht(Indicator(g, n), n)[S] = Inner(Character(S, n), Indicator(g, n), n)
    BY SomeSignals, FwhtIsInner
  <2>2. Inner(Character(S, n), Indicator(g, n), n) = Character(S, n)[g]
    BY SomeSignals, InnerIndicator
  <2>3. S \cap g = g \cap S
    OBVIOUS
  <2>4. Character(S, n)[g] = Character(g, n)[S]
    BY <2>3 DEF Character, walsh_character
  <2> QED BY <2>1, <2>2, <2>4
<1> QED BY <1>1, <1>2 DEF Signals

LEMMA Orthogonal ==
    ASSUME NEW n \in Nat, NEW g \in Indices(n), NEW S \in Indices(n)
    PROVE  fwht(Character(g, n), n)[S] = IF S = g THEN 2^n ELSE 0
<1> DEFINE s == Indicator(S, n)
<1> DEFINE t == Indicator(g, n)
<1>1. s \in Signals(n) /\ t \in Signals(n) /\ Character(g, n) \in Signals(n)
  BY SomeSignals
<1>2. fwht(Character(g, n), n)[S] = Inner(Character(S, n), Character(g, n), n)
  BY <1>1, FwhtIsInner
<1>3. Character(S, n) = fwht(s, n) /\ Character(g, n) = fwht(t, n)
  BY IndicatorSpectrum
<1>4. Inner(s, t, n) = s[g] /\ s[g] = IF S = g THEN 1 ELSE 0
  BY <1>1, InnerIndicator DEF Indicator
<1> HIDE DEF s, t
<1>5. Inner(fwht(s, n), fwht(t, n), n) = 2^n * Inner(s, t, n)
  BY <1>1, Parseval
<1>6. 2^n \in Int
  BY PowersGrow
<1> DEFINE d == 2^n
<1> HIDE DEF d
<1>7. d \in Int /\ d * 1 = d /\ d * 0 = 0
  BY <1>6 DEF d
<1> QED BY <1>2, <1>3, <1>4, <1>5, <1>7 DEF d

LEMMA FwhtLess ==
    ASSUME NEW n \in Nat, NEW f \in Signals(n), NEW g \in Signals(n), NEW h \in Signals(n),
           NEW c \in Int, \A q \in Indices(n) : h[q] = f[q] - c * g[q],
           NEW S \in Indices(n)
    PROVE  fwht(h, n)[S] = fwht(f, n)[S] - c * fwht(g, n)[S]
<1> DEFINE D == Indices(n)
<1> DEFINE X == Character(S, n)
<1> DEFINE pf == [q \in D |-> X[q] * f[q]]
<1> DEFINE pg == [q \in D |-> X[q] * g[q]]
<1> DEFINE ph == [q \in D |-> X[q] * h[q]]
<1> DEFINE pc == [q \in D |-> (0 - c) * pg[q]]
<1>1. X \in Signals(n)
  BY SomeSignals
<1>2. \A q \in D : X[q] \in Int /\ f[q] \in Int /\ g[q] \in Int
  BY <1>1 DEF Signals
<1> HIDE DEF X
<1>3. /\ fwht(f, n)[S] = SumFunctionOnSet(pf, D) /\ fwht(g, n)[S] = SumFunctionOnSet(pg, D)
      /\ fwht(h, n)[S] = SumFunctionOnSet(ph, D)
  BY FwhtIsInner DEF Inner, X
<1>4. Integral(pf, D) /\ Integral(pg, D) /\ IsFiniteSet(D)
  BY <1>1, InnerTerms, IndicesFinite
<1>5. \A q \in D : pf[q] = X[q] * f[q] /\ pg[q] = X[q] * g[q] /\ ph[q] = X[q] * h[q]
  OBVIOUS
<1>6. \A q \in D : pc[q] = (0 - c) * pg[q]
  OBVIOUS
<1> HIDE DEF pf, pg, ph, pc, D
<1>7. Integral(pc, D)
  <2>1. \A x, y \in Int : (0 - x) * y \in Int
    OBVIOUS
  <2> QED BY <1>4, <1>6, <2>1 DEF Integral
<1>8. \A q \in D : ph[q] = pf[q] + pc[q]
  <2>1. \A x, y, z \in Int : x * (y - c * z) = x * y + (0 - c) * (x * z)
    OBVIOUS
  <2>2. \A q \in D : h[q] = f[q] - c * g[q]
    BY DEF D
  <2> QED BY <1>2, <1>5, <1>6, <2>1, <2>2
<1>9. SumFunctionOnSet(ph, D) = SumFunctionOnSet(pf, D) + SumFunctionOnSet(pc, D)
  BY <1>4, <1>7, <1>8, SumAdds
<1>10. SumFunctionOnSet(pc, D) = (0 - c) * SumFunctionOnSet(pg, D)
  BY <1>4, <1>6, SumScaled
<1>11. SumFunctionOnSet(pf, D) \in Int /\ SumFunctionOnSet(pg, D) \in Int
  BY <1>4, SumOne DEF Integral
<1>12. \A x, y \in Int : x + (0 - c) * y = x - c * y
  OBVIOUS
<1> QED BY <1>3, <1>9, <1>10, <1>11, <1>12

LEMMA FwhtOfZero ==
    ASSUME NEW n \in Nat, NEW f \in Signals(n), \A q \in Indices(n) : f[q] = 0,
           NEW S \in Indices(n)
    PROVE  fwht(f, n)[S] = 0
<1>1. \A q \in Indices(n) : f[q] = f[q] - 1 * f[q]
  OBVIOUS
<1>2. fwht(f, n)[S] = fwht(f, n)[S] - 1 * fwht(f, n)[S]
  BY <1>1, FwhtLess
<1>3. fwht(f, n)[S] \in Int
  BY FwhtSignal DEF Signals
<1> QED BY <1>2, <1>3

LEMMA CharactersMultiply ==
    ASSUME NEW q, IsFiniteSet(q), NEW S, NEW g
    PROVE  walsh_character(S, q) * walsh_character(g, q) = walsh_character(Xor(S, g), q)
<1>1. Xor(S, g) \cap q = Xor(S \cap q, g \cap q)
  BY DEF Xor
<1>2. IsFiniteSet(S \cap q) /\ IsFiniteSet(g \cap q)
  BY FS_Intersection
<1>3. Odd(Xor(S, g) \cap q) <=> ~(Odd(S \cap q) <=> Odd(g \cap q))
  BY <1>1, <1>2, OddXor
<1>4. (-1) * (-1) = 1 /\ 1 * 1 = 1 /\ (-1) * 1 = -1 /\ 1 * (-1) = -1
  OBVIOUS
<1> QED BY <1>3, <1>4 DEF walsh_character

(* To multiply by a character shifts the transform.                        *)
LEMMA FwhtModulated ==
    ASSUME NEW n \in Nat, NEW f \in Signals(n), NEW g \in Indices(n), NEW h \in Signals(n),
           \A q \in Indices(n) : h[q] = f[q] * walsh_character(g, q),
           NEW S \in Indices(n)
    PROVE  Xor(S, g) \in Indices(n) /\ fwht(h, n)[S] = fwht(f, n)[Xor(S, g)]
<1> DEFINE T == Xor(S, g)
<1>1. T \in Indices(n)
  BY DEF Indices, Xor
<1>2. ASSUME NEW q \in Indices(n)
      PROVE  walsh_character(S, q) * h[q] = walsh_character(T, q) * f[q]
  <2>1. walsh_character(S, q) * walsh_character(g, q) = walsh_character(T, q)
    BY IndicesFinite, CharactersMultiply
  <2>2. walsh_character(S, q) \in Int /\ walsh_character(g, q) \in Int /\ f[q] \in Int
    BY DEF Signals, walsh_character
  <2>3. \A x, y, z \in Int : x * (z * y) = (x * y) * z
    OBVIOUS
  <2> QED BY <2>1, <2>2, <2>3
<1> HIDE DEF T
<1>3. Inner(Character(S, n), h, n) = Inner(Character(T, n), f, n)
  BY <1>2 DEF Inner, Character
<1>4. fwht(h, n)[S] = fwht(f, n)[T]
  BY <1>1, <1>3, FwhtIsInner
<1> QED BY <1>1, <1>4 DEF T

-----------------------------------------------------------------------------
(* The spectrum of physical time and of its powers.                        *)
LEMMA GeneratorsDiffer ==
    ASSUME NEW n \in Nat, NEW i \in 0..n-1
    PROVE  /\ Generator(i, n) \in Indices(n)
           /\ gray_time_generators(n)[i] = Generator(i, n)
           /\ \A j \in 0..n-1 : Generator(i, n) = Generator(j, n) => i = j
<1>1. Generator(i, n) \in Indices(n)
  BY DEF Generator, Indices
<1>2. gray_time_generators(n)[i] = Generator(i, n)
  BY DEF gray_time_generators, Generator
<1>3. ASSUME NEW j \in 0..n-1, i..n-1 = j..n-1 PROVE i = j
  <2>1. i \in i..n-1 /\ j \in j..n-1
    OBVIOUS
  <2>2. i \in j..n-1 /\ j \in i..n-1
    BY <1>3, <2>1
  <2> QED BY <2>2
<1> QED BY <1>1, <1>2, <1>3 DEF Generator

PartialTimes(m, n) == [q \in Indices(n) |-> PartialTime(q, m, n)]

LEMMA TimesGrow ==
    ASSUME NEW n \in Nat
    PROVE  /\ \A q \in Indices(n) : PartialTimes(0, n)[q] = 0
           /\ PartialTimes(n, n) = Time(n)
           /\ \A m \in 0..n : PartialTimes(m, n) \in Signals(n)
           /\ \A m \in 0..n-1 : \A q \in Indices(n) :
                 PartialTimes(m + 1, n)[q]
                    = PartialTimes(m, n)[q] - 2^m * Character(Generator(m, n), n)[q]
<1>1. \A q \in Indices(n) : PartialTimes(0, n)[q] = 0
  BY TimeGrows DEF PartialTimes
<1>2. PartialTimes(n, n) = Time(n)
  BY TimeGrows DEF PartialTimes, Time
<1>3. ASSUME NEW m \in 0..n-1, NEW q \in Indices(n)
      PROVE  PartialTimes(m + 1, n)[q]
                = PartialTimes(m, n)[q] - 2^m * Character(Generator(m, n), n)[q]
  BY TimeGrows DEF PartialTimes, Character
<1>4. ASSUME NEW m \in 0..n PROVE PartialTimes(m, n) \in Signals(n)
  <2> SUFFICES ASSUME NEW q \in Indices(n) PROVE PartialTime(q, m, n) \in Int
    BY DEF PartialTimes, Signals
  <2>1. CASE m \in 0..n-1
    BY <2>1, TimeGrows
  <2>2. CASE m = 0
    BY <2>2, TimeGrows
  <2>3. CASE m = n /\ n # 0
    <3> DEFINE k == n - 1
    <3>1. k \in 0..n-1 /\ k + 1 = n
      BY <2>3
    <3> HIDE DEF k
    <3>2. /\ PartialTime(q, k, n) \in Int
          /\ PartialTime(q, k + 1, n)
                = PartialTime(q, k, n) - 2^k * walsh_character(Generator(k, n), q)
      BY <3>1, TimeGrows
    <3>3. 2^k \in Int /\ walsh_character(Generator(k, n), q) \in Int
      BY <3>1, PowersGrow DEF walsh_character
    <3>4. \A x, y, z \in Int : x - y * z \in Int
      OBVIOUS
    <3>5. PartialTime(q, k + 1, n) \in Int
      BY <3>2, <3>3, <3>4
    <3> QED BY <2>3, <3>1, <3>5
  <2> QED BY <2>1, <2>2, <2>3
<1> QED BY <1>1, <1>2, <1>3, <1>4

LEMMA TimeSpectrum ==
    ASSUME NEW n \in Nat, NEW S \in Indices(n)
    PROVE  /\ \A i \in 0..n-1 : S = Generator(i, n) => fwht(Time(n), n)[S] = 0 - 2^i * 2^n
           /\ (\A i \in 0..n-1 : S # Generator(i, n)) => fwht(Time(n), n)[S] = 0
<1> DEFINE F(m) == fwht(PartialTimes(m, n), n)[S]
<1> DEFINE Good == {m \in Nat : m <= n =>
       /\ \A i \in 0..n-1 : S = Generator(i, n) => F(m) = IF i < m THEN 0 - 2^i * 2^n ELSE 0
       /\ (\A i \in 0..n-1 : S # Generator(i, n)) => F(m) = 0}
<1>1. F(0) = 0
  BY TimesGrow, FwhtOfZero
<1>2. ASSUME NEW m \in 0..n-1
      PROVE  F(m + 1) = F(m) - 2^m * (IF S = Generator(m, n) THEN 2^n ELSE 0)
  <2> DEFINE f == PartialTimes(m, n)
  <2> DEFINE h == PartialTimes(m + 1, n)
  <2> DEFINE g == Character(Generator(m, n), n)
  <2> DEFINE c == 2^m
  <2>1. m \in 0..n /\ m + 1 \in 0..n
    OBVIOUS
  <2>2. /\ f \in Signals(n) /\ h \in Signals(n) /\ g \in Signals(n)
        /\ \A q \in Indices(n) : h[q] = f[q] - c * g[q]
    BY <2>1, TimesGrow, SomeSignals
  <2>3. c \in Int
    BY PowersGrow
  <2>4. fwht(g, n)[S] = IF S = Generator(m, n) THEN 2^n ELSE 0
    BY GeneratorsDiffer, Orthogonal
  <2> HIDE DEF f, g, h, c
  <2>5. fwht(h, n)[S] = fwht(f, n)[S] - c * fwht(g, n)[S]
    BY <2>2, <2>3, FwhtLess
  <2> QED BY <2>4, <2>5 DEF f, h, c
<1> HIDE DEF F
<1>3. 0 \in Good
  BY <1>1
<1>4. ASSUME NEW m \in Nat, m \in Good PROVE m + 1 \in Good
  <2> SUFFICES ASSUME m + 1 <= n
        PROVE /\ \A i \in 0..n-1 : S = Generator(i, n) =>
                                      F(m + 1) = IF i < m + 1 THEN 0 - 2^i * 2^n ELSE 0
              /\ (\A i \in 0..n-1 : S # Generator(i, n)) => F(m + 1) = 0
    OBVIOUS
  <2>1. m \in 0..n-1
    OBVIOUS
  <2>2. F(m + 1) = F(m) - 2^m * (IF S = Generator(m, n) THEN 2^n ELSE 0)
    BY <1>2, <2>1
  <2>3. /\ \A i \in 0..n-1 : S = Generator(i, n) => F(m) = IF i < m THEN 0 - 2^i * 2^n ELSE 0
        /\ (\A i \in 0..n-1 : S # Generator(i, n)) => F(m) = 0
    BY <1>4
  <2>4. \A i \in Nat : 2^i \in Int /\ 2^i * 0 = 0 /\ 2^i * 2^n \in Int
    <3>1. \A i \in Nat : 2^i \in Int
      BY PowersGrow
    <3>2. \A x, y \in Int : x * 0 = 0 /\ x * y \in Int
      OBVIOUS
    <3> QED BY <3>1, <3>2
  <2>5. (\A i \in 0..n-1 : S # Generator(i, n)) => F(m + 1) = 0
    <3> SUFFICES ASSUME \A i \in 0..n-1 : S # Generator(i, n) PROVE F(m + 1) = 0
      OBVIOUS
    <3>1. F(m) = 0 /\ S # Generator(m, n) /\ 2^m * 0 = 0
      BY <2>1, <2>3, <2>4
    <3> QED BY <2>2, <3>1
  <2>6. ASSUME NEW i \in 0..n-1, S = Generator(i, n)
        PROVE  F(m + 1) = IF i < m + 1 THEN 0 - 2^i * 2^n ELSE 0
    <3>1. F(m) = (IF i < m THEN 0 - 2^i * 2^n ELSE 0) /\ (S = Generator(m, n) <=> i = m)
      BY <2>1, <2>3, <2>6, GeneratorsDiffer
    <3> DEFINE x == 2^i * 2^n
    <3>2. x \in Int
      BY <2>4
    <3>3. CASE i = m
      <4>1. F(m) = 0 /\ F(m + 1) = 0 - x /\ i < m + 1
        <5>1. F(m) = 0 /\ i < m + 1
          BY <3>1, <3>3
        <5>2. F(m + 1) = F(m) - x
          BY <2>2, <3>1, <3>3
        <5> QED BY <5>1, <5>2
      <4> QED BY <4>1
    <3>4. CASE i # m
      <4>1. F(m + 1) = F(m) - 0 /\ (i < m + 1 <=> i < m)
        BY <2>1, <2>2, <2>4, <3>1, <3>4
      <4> HIDE DEF x
      <4>2. F(m) = (IF i < m THEN 0 - x ELSE 0) /\ F(m) \in Int
        BY <3>1, <3>2 DEF x
      <4>3. F(m + 1) = F(m)
        BY <4>1, <4>2
      <4> QED BY <3>1, <4>1, <4>3
    <3> QED BY <3>3, <3>4
  <2> QED BY <2>5, <2>6
<1>5. n \in Good
  <2> HIDE DEF Good
  <2> QED BY <1>3, <1>4, SetInduction
<1>6. F(n) = fwht(Time(n), n)[S]
  BY TimesGrow DEF F
<1> QED BY <1>5, <1>6

(* Multiplied by physical time, a signal moves by one generator.           *)
LEMMA TimesTime ==
    ASSUME NEW n \in Nat, NEW f \in Signals(n), NEW h \in Signals(n),
           \A q \in Indices(n) : h[q] = f[q] * Time(n)[q],
           NEW S \in Indices(n), fwht(h, n)[S] # 0
    PROVE  \E i \in 0..n-1 : /\ Xor(S, Generator(i, n)) \in Indices(n)
                             /\ fwht(f, n)[Xor(S, Generator(i, n))] # 0
<1> SUFFICES ASSUME \A i \in 0..n-1 : Xor(S, Generator(i, n)) \in Indices(n)
                                     => fwht(f, n)[Xor(S, Generator(i, n))] = 0
             PROVE  FALSE
  OBVIOUS
<1> DEFINE P(m) == [q \in Indices(n) |-> f[q] * PartialTimes(m, n)[q]]
<1> DEFINE Good == {m \in Nat : m <= n => fwht(P(m), n)[S] = 0}
<1>0. \A q \in Indices(n) : f[q] \in Int
  BY DEF Signals
<1>1. ASSUME NEW m \in 0..n PROVE P(m) \in Signals(n)
  <2>1. \A q \in Indices(n) : PartialTimes(m, n)[q] \in Int
    BY TimesGrow DEF Signals
  <2>2. \A x, y \in Int : x * y \in Int
    OBVIOUS
  <2>3. \A q \in Indices(n) : f[q] * PartialTimes(m, n)[q] \in Int
    BY <1>0, <2>1, <2>2
  <2> QED BY <2>3 DEF Signals
<1>2. 0 \in Good
  <2>1. \A x \in Int : x * 0 = 0
    OBVIOUS
  <2>2. \A q \in Indices(n) : P(0)[q] = 0
    BY <1>0, <2>1, TimesGrow
  <2>3. P(0) \in Signals(n)
    BY <1>1
  <2> HIDE DEF P
  <2> QED BY <2>2, <2>3, FwhtOfZero
<1>3. ASSUME NEW m \in Nat, m \in Good PROVE m + 1 \in Good
  <2> SUFFICES ASSUME m + 1 <= n PROVE fwht(P(m + 1), n)[S] = 0
    OBVIOUS
  <2> DEFINE c == 2^m
  <2> DEFINE G == Generator(m, n)
  <2> DEFINE g == [q \in Indices(n) |-> f[q] * walsh_character(G, q)]
  <2>1. m \in 0..n-1 /\ m \in 0..n /\ m + 1 \in 0..n /\ fwht(P(m), n)[S] = 0
    BY <1>3
  <2>2. G \in Indices(n) /\ c \in Int
    BY <2>1, GeneratorsDiffer, PowersGrow
  <2>3. g \in Signals(n) /\ \A q \in Indices(n) : g[q] = f[q] * walsh_character(G, q)
    <3>1. \A q : walsh_character(G, q) \in Int
      BY DEF walsh_character
    <3>2. \A x, y \in Int : x * y \in Int
      OBVIOUS
    <3>3. \A q \in Indices(n) : f[q] * walsh_character(G, q) \in Int
      BY <1>0, <3>1, <3>2
    <3> QED BY <3>3 DEF Signals
  <2>4. Xor(S, G) \in Indices(n) /\ fwht(g, n)[S] = fwht(f, n)[Xor(S, G)]
    <3> HIDE DEF g, G
    <3> QED BY <2>2, <2>3, FwhtModulated
  <2>5. fwht(g, n)[S] = 0
    BY <2>1, <2>4
  <2>6. \A q \in Indices(n) : P(m + 1)[q] = P(m)[q] - c * g[q]
    <3> TAKE q \in Indices(n)
    <3> DEFINE t == PartialTimes(m, n)[q]
    <3> DEFINE w == walsh_character(G, q)
    <3>1. PartialTimes(m + 1, n)[q] = t - c * w
      BY <2>1, TimesGrow DEF Character
    <3>2. t \in Int
      <4>1. PartialTimes(m, n) \in Signals(n)
        BY <2>1, TimesGrow
      <4> QED BY <4>1 DEF Signals
    <3>5. w \in Int /\ f[q] \in Int
      BY <1>0 DEF walsh_character
    <3>3. P(m + 1)[q] = f[q] * PartialTimes(m + 1, n)[q] /\ P(m)[q] = f[q] * t /\ g[q] = f[q] * w
      OBVIOUS
    <3> HIDE DEF P, t, w, g, c
    <3>4. \A x, y, z \in Int : x * (y - c * z) = x * y - c * (x * z)
      BY <2>2
    <3> QED BY <3>1, <3>2, <3>5, <3>3, <3>4
  <2>7. P(m) \in Signals(n) /\ P(m + 1) \in Signals(n)
    BY <1>1, <2>1
  <2> HIDE DEF P, g, c
  <2>8. fwht(P(m + 1), n)[S] = fwht(P(m), n)[S] - c * fwht(g, n)[S]
    <3> DEFINE a == P(m)
    <3> DEFINE b == P(m + 1)
    <3> HIDE DEF a, b
    <3>1. a \in Signals(n) /\ b \in Signals(n) /\ \A q \in Indices(n) : b[q] = a[q] - c * g[q]
      BY <2>6, <2>7 DEF a, b
    <3>3. c \in Int /\ g \in Signals(n)
      BY <2>2, <2>3
    <3> HIDE DEF G
    <3>2. fwht(b, n)[S] = fwht(a, n)[S] - c * fwht(g, n)[S]
      BY <3>1, <3>3, FwhtLess
    <3> QED BY <3>2 DEF a, b
  <2>9. 0 - c * 0 = 0
    BY <2>2
  <2> QED BY <2>1, <2>5, <2>8, <2>9
<1>4. n \in Good
  <2> HIDE DEF Good
  <2> QED BY <1>2, <1>3, SetInduction
<1>5. P(n) = h
  <2>1. \A q \in Indices(n) : P(n)[q] = h[q]
    BY TimesGrow
  <2> QED BY <2>1 DEF Signals
<1> QED BY <1>4, <1>5

-----------------------------------------------------------------------------
(* The p-th power of physical time stays within p shells.                  *)
Combo(c, n) == XorOf([i \in c |-> gray_time_generators(n)[i]])

LEMMA ComboHolds ==
    ASSUME NEW n \in Nat, NEW c \in SUBSET (0..n-1), NEW x
    PROVE  x \in Combo(c, n) <=> Odd({i \in c : x \in Generator(i, n)})
<1> DEFINE f == [i \in c |-> gray_time_generators(n)[i]]
<1>1. x \in XorOf(f) <=> Odd({i \in DOMAIN f : x \in f[i]})
  BY XorOfHolds
<1>2. {i \in DOMAIN f : x \in f[i]} = {i \in c : x \in Generator(i, n)}
  BY DEF gray_time_generators, Generator
<1> QED BY <1>1, <1>2 DEF Combo

LEMMA EmptyCombo == ASSUME NEW n \in Nat PROVE Combo({}, n) = {}
<1>1. \A x : x \notin Combo({}, n)
  <2> TAKE x
  <2>1. x \in Combo({}, n) <=> Odd({i \in {} : x \in Generator(i, n)})
    BY ComboHolds
  <2>2. {i \in {} : x \in Generator(i, n)} = {}
    OBVIOUS
  <2> QED BY <2>1, <2>2, OddFew
<1> QED BY <1>1

LEMMA ComboToggles ==
    ASSUME NEW n \in Nat, NEW c \in SUBSET (0..n-1), NEW i \in 0..n-1
    PROVE  /\ Xor(c, {i}) \in SUBSET (0..n-1)
           /\ Combo(Xor(c, {i}), n) = Xor(Combo(c, n), Generator(i, n))
           /\ Cardinality(Xor(c, {i})) \in Nat /\ Cardinality(c) \in Nat
           /\ Cardinality(Xor(c, {i})) <= Cardinality(c) + 1
<1> DEFINE d == Xor(c, {i})
<1>1. d \in SUBSET (0..n-1)
  BY DEF Xor
<1>2. IsFiniteSet(0..n-1)
  BY FS_Interval
<1>3. IsFiniteSet(c) /\ Cardinality(c) \in Nat
  BY <1>2, FS_Subset, FS_CardinalityType
<1>4. Cardinality(d) \in Nat /\ Cardinality(d) <= Cardinality(c) + 1
  <2>1. CASE i \in c
    <3>1. d = c \ {i}
      BY <2>1 DEF Xor
    <3>2. Cardinality(c \ {i}) = Cardinality(c) - 1 /\ IsFiniteSet(c \ {i})
      BY <1>3, <2>1, FS_RemoveElement
    <3>3. Cardinality(c \ {i}) \in Nat
      BY <3>2, FS_CardinalityType
    <3>4. Cardinality(d) = Cardinality(c \ {i})
      BY <3>1
    <3>5. \A x, y \in Nat : x = y - 1 => x <= y + 1
      OBVIOUS
    <3> HIDE DEF d
    <3> QED BY <1>3, <3>2, <3>3, <3>4, <3>5
  <2>2. CASE i \notin c
    <3>1. d = c \cup {i}
      BY <2>2 DEF Xor
    <3>2. Cardinality(c \cup {i}) = Cardinality(c) + 1
      BY <1>3, <2>2, FS_AddElement
    <3> QED BY <1>3, <3>1, <3>2
  <2> QED BY <2>1, <2>2
<1>5. ASSUME NEW x
      PROVE  x \in Combo(d, n) <=> x \in Xor(Combo(c, n), Generator(i, n))
  <2> DEFINE at == {j \in c : x \in Generator(j, n)}
  <2> DEFINE new == IF x \in Generator(i, n) THEN {i} ELSE {}
  <2>1. {j \in d : x \in Generator(j, n)} = Xor(at, new)
    BY DEF Xor
  <2>2. IsFiniteSet(at) /\ IsFiniteSet(new)
    BY <1>3, FS_Subset, FS_EmptySet, FS_Singleton
  <2>3. Odd(new) <=> x \in Generator(i, n)
    BY OddFew
  <2>4. x \in Combo(d, n) <=> Odd(Xor(at, new))
    <3> HIDE DEF d
    <3>1. x \in Combo(d, n) <=> Odd({j \in d : x \in Generator(j, n)})
      BY <1>1, ComboHolds
    <3> QED BY <2>1, <3>1
  <2>5. x \in Combo(c, n) <=> Odd(at)
    BY ComboHolds
  <2> HIDE DEF at, new
  <2>6. Odd(Xor(at, new)) <=> ~(Odd(at) <=> Odd(new))
    BY <2>2, OddXor
  <2>7. x \in Xor(Combo(c, n), Generator(i, n))
          <=> ~(x \in Combo(c, n) <=> x \in Generator(i, n))
    BY DEF Xor
  <2> QED BY <2>3, <2>4, <2>5, <2>6, <2>7
<1>6. Combo(d, n) = Xor(Combo(c, n), Generator(i, n))
  BY <1>5
<1> QED BY <1>1, <1>3, <1>4, <1>6

(* The loop of TimePower.                                                  *)
Powering(r, n, p) ==
    r = [k \in 0..p |->
            [q \in Indices(n) |-> IF k = 0 THEN 1 ELSE r[k - 1][q] * Time(n)[q]]]

LEMMA PoweringExists == ASSUME NEW n \in Nat, NEW p \in Nat PROVE \E r : Powering(r, n, p)
<1> DEFINE Step(f) == [q \in Indices(n) |-> f[q] * Time(n)[q]]
<1> DEFINE One == [q \in Indices(n) |-> 1]
<1> DEFINE Unrolled(r, m) == r = [k \in 0..m |-> IF k = 0 THEN One ELSE Step(r[k - 1])]
<1> DEFINE Defined == {m \in Nat : \E r : Unrolled(r, m)}
<1>1. 0 \in Defined
  <2> DEFINE r == [k \in 0..0 |-> One]
  <2>1. r = [k \in 0..0 |-> IF k = 0 THEN One ELSE Step(r[k - 1])]
    OBVIOUS
  <2> QED BY <2>1
<1>2. ASSUME NEW m \in Nat, m \in Defined PROVE m + 1 \in Defined
  <2>1. PICK r : Unrolled(r, m)
    BY <1>2
  <2> HIDE DEF One, Step
  <2>2. \A k \in 0..m : r[k] = IF k = 0 THEN One ELSE Step(r[k - 1])
    BY <2>1
  <2> DEFINE g == [k \in 0..m+1 |-> IF k = m + 1 THEN Step(r[m]) ELSE r[k]]
  <2>3. \A k \in 0..m : g[k] = r[k]
    OBVIOUS
  <2>4. g[m + 1] = Step(r[m])
    OBVIOUS
  <2>5. g = [k \in 0..m+1 |-> g[k]]
    OBVIOUS
  <2> HIDE DEF g
  <2>6. \A k \in 0..m+1 : g[k] = IF k = 0 THEN One ELSE Step(g[k - 1])
    <3> TAKE k \in 0..m+1
    <3>1. CASE k = m + 1
      <4>1. k - 1 = m /\ k # 0 /\ g[m] = r[m]
        BY <2>3, <3>1
      <4> QED BY <2>4, <3>1, <4>1
    <3>2. CASE k \in 1..m
      <4>1. k - 1 \in 0..m /\ k \in 0..m /\ k # 0
        BY <3>2
      <4> QED BY <2>2, <2>3, <4>1
    <3>3. CASE k = 0
      BY <2>2, <2>3, <3>3
    <3> QED BY <3>1, <3>2, <3>3
  <2>7. Unrolled(g, m + 1)
    BY <2>5, <2>6
  <2> QED BY <2>7
<1>3. Nat \subseteq Defined
  <2> HIDE DEF Defined
  <2> QED BY <1>1, <1>2, SetInduction
<1>4. PICK r : Unrolled(r, p)
  BY <1>3
<1>5. ASSUME NEW k \in 0..p
      PROVE  (IF k = 0 THEN One ELSE Step(r[k - 1]))
                = [q \in Indices(n) |-> IF k = 0 THEN 1 ELSE r[k - 1][q] * Time(n)[q]]
  <2>1. CASE k = 0
    BY <2>1
  <2>2. CASE k # 0
    BY <2>2
  <2> QED BY <2>1, <2>2
<1> HIDE DEF One, Step
<1>6. Powering(r, n, p)
  BY <1>4, <1>5 DEF Powering
<1> QED BY <1>6

LEMMA TimeSignal == ASSUME NEW n \in Nat PROVE Time(n) \in Signals(n)
<1>1. n \in 0..n
  OBVIOUS
<1> QED BY <1>1, TimesGrow

LEMMA PowersSpread ==
    ASSUME NEW n \in Nat, NEW p \in Nat, NEW S \in Indices(n),
           fwht(TimePower(n, p), n)[S] # 0
    PROVE  \E c \in SUBSET (0..n-1) : Cardinality(c) <= p /\ S = Combo(c, n)
<1> DEFINE r == CHOOSE r : Powering(r, n, p)
<1> DEFINE Reached(k) ==
        \A T \in Indices(n) : fwht(r[k], n)[T] # 0 =>
            \E c \in SUBSET (0..n-1) : Cardinality(c) <= k /\ T = Combo(c, n)
<1> DEFINE Good == {k \in Nat : k <= p => r[k] \in Signals(n) /\ Reached(k)}
<1>1. Powering(r, n, p)
  BY PoweringExists
<1>2. TimePower(n, p) = r[p]
  BY DEF TimePower, Powering
<1> HIDE DEF r
<1>3. \A q \in Indices(n) : Time(n)[q] \in Int
  BY TimeSignal DEF Signals
<1>4. r[0] = Character({}, n)
  <2>1. r[0] = [q \in Indices(n) |-> 1]
    BY <1>1 DEF Powering
  <2>2. \A q \in Indices(n) : walsh_character({}, q) = 1
    BY EmptyCharacter
  <2> QED BY <2>1, <2>2 DEF Character
<1>5. 0 \in Good
  <2> SUFFICES Character({}, n) \in Signals(n) /\ Reached(0)
    BY <1>4
  <2>1. Character({}, n) \in Signals(n)
    BY SomeSignals
  <2>2. Reached(0)
    <3> SUFFICES ASSUME NEW T \in Indices(n), fwht(Character({}, n), n)[T] # 0
                 PROVE  \E c \in SUBSET (0..n-1) : Cardinality(c) <= 0 /\ T = Combo(c, n)
      BY <1>4
    <3>1. {} \in Indices(n)
      BY DEF Indices
    <3>2. T = {}
      BY <3>1, Orthogonal
    <3>3. Cardinality({}) = 0
      BY FS_EmptySet
    <3> QED BY <3>2, <3>3, EmptyCombo
  <2> QED BY <2>1, <2>2
<1>6. ASSUME NEW k \in Nat, k \in Good PROVE k + 1 \in Good
  <2> SUFFICES ASSUME k + 1 <= p PROVE r[k + 1] \in Signals(n) /\ Reached(k + 1)
    OBVIOUS
  <2>1. r[k] \in Signals(n) /\ Reached(k)
    BY <1>6
  <2>2. k + 1 \in 0..p /\ k + 1 # 0 /\ (k + 1) - 1 = k
    OBVIOUS
  <2>3. r[k + 1] = [q \in Indices(n) |-> r[k][q] * Time(n)[q]]
    BY <1>1, <2>2 DEF Powering
  <2>4. r[k + 1] \in Signals(n)
    <3>1. \A q \in Indices(n) : r[k][q] \in Int
      BY <2>1 DEF Signals
    <3>2. \A x, y \in Int : x * y \in Int
      OBVIOUS
    <3>3. \A q \in Indices(n) : r[k][q] * Time(n)[q] \in Int
      BY <1>3, <3>1, <3>2
    <3> QED BY <2>3, <3>3 DEF Signals
  <2>5. Reached(k + 1)
    <3> SUFFICES ASSUME NEW T \in Indices(n), fwht(r[k + 1], n)[T] # 0
                 PROVE  \E c \in SUBSET (0..n-1) : Cardinality(c) <= k + 1 /\ T = Combo(c, n)
      OBVIOUS
    <3>1. \A q \in Indices(n) : r[k + 1][q] = r[k][q] * Time(n)[q]
      BY <2>3
    <3>2. PICK i \in 0..n-1 : /\ Xor(T, Generator(i, n)) \in Indices(n)
                              /\ fwht(r[k], n)[Xor(T, Generator(i, n))] # 0
      BY <2>1, <2>4, <3>1, TimesTime
    <3>3. PICK c \in SUBSET (0..n-1) :
              Cardinality(c) <= k /\ Xor(T, Generator(i, n)) = Combo(c, n)
      BY <2>1, <3>2
    <3>4. /\ Xor(c, {i}) \in SUBSET (0..n-1)
          /\ Combo(Xor(c, {i}), n) = Xor(Combo(c, n), Generator(i, n))
      BY ComboToggles
    <3>5. /\ Cardinality(Xor(c, {i})) \in Nat /\ Cardinality(c) \in Nat
          /\ Cardinality(Xor(c, {i})) <= Cardinality(c) + 1
      BY ComboToggles
    <3>6. T = Combo(Xor(c, {i}), n)
      BY <3>3, <3>4, XorTwice
    <3>7. Cardinality(Xor(c, {i})) <= k + 1
      BY <3>3, <3>5
    <3> QED BY <3>4, <3>6, <3>7
  <2> QED BY <2>4, <2>5
<1>7. p \in Good
  <2> HIDE DEF Good
  <2> QED BY <1>5, <1>6, SetInduction
<1>8. Reached(p)
  BY <1>7
<1> QED BY <1>2, <1>8

LEMMA LesserOf == ASSUME NEW a \in Int, NEW b \in Int
                  PROVE  Min({a, b}) = IF a <= b THEN a ELSE b
<1>1. \E x \in {a, b} : \A y \in {a, b} : x <= y
  OBVIOUS
<1>2. Min({a, b}) \in {a, b} /\ \A y \in {a, b} : Min({a, b}) <= y
  BY <1>1 DEF Min
<1> QED BY <1>2

LEMMA PowersWithinShells ==
    ASSUME NEW n \in Nat, NEW p \in Nat, NEW S \in Indices(n),
           fwht(TimePower(n, p), n)[S] # 0
    PROVE  S \in cumulative_shell_masks(n, Min({p, n}))
<1>1. PICK c \in SUBSET (0..n-1) : Cardinality(c) <= p /\ S = Combo(c, n)
  BY PowersSpread
<1>2. IsFiniteSet(0..n-1) /\ Cardinality(0..n-1) = n
  <2>1. n - 1 \in Int /\ (0 > n - 1 <=> n = 0) /\ (n - 1) - 0 + 1 = n
    OBVIOUS
  <2> DEFINE m == n - 1
  <2>3. m \in Int /\ 0 \in Int
    BY <2>1
  <2> HIDE DEF m
  <2>2. IsFiniteSet(0..m) /\ Cardinality(0..m) = IF 0 > m THEN 0 ELSE m - 0 + 1
    BY <2>3, FS_Interval
  <2> QED BY <2>1, <2>2 DEF m
<1>3. Cardinality(c) \in Nat /\ Cardinality(c) <= n
  BY <1>2, FS_Subset, FS_CardinalityType
<1>4. Min({p, n}) = IF p <= n THEN p ELSE n
  BY LesserOf
<1> DEFINE e == Cardinality(c)
<1>5. e \in 0..Min({p, n})
  BY <1>1, <1>3, <1>4
<1>6. S \in shell_masks(n, e)
  BY <1>1 DEF shell_masks, Combo, kSubset
<1> HIDE DEF e
<1> QED BY <1>5, <1>6 DEF cumulative_shell_masks

-----------------------------------------------------------------------------
(* Gray execution changes one bit of the query in each step.               *)
LEMMA BitsEnds == ASSUME NEW n \in Nat PROVE Bits(0, n) = {} /\ Bits(2^n - 1, n) = 0..n-1
<1> DEFINE Good == {m \in Nat : Bits(0, m) = {} /\ Bits(2^m - 1, m) = 0..m-1}
<1>1. 0 \in Good
  BY DEF Bits
<1>2. ASSUME NEW m \in Nat, m \in Good PROVE m + 1 \in Good
  <2> DEFINE e == 2^m
  <2>1. Bits(0, m) = {} /\ Bits(e - 1, m) = 0..m-1
    BY <1>2
  <2>2. e \in Nat \ {0} /\ 2^(m + 1) = e * 2
    BY PowersGrow, NextPower
  <2> HIDE DEF e
  <2>3. 0 \in 0..e-1 /\ e - 1 \in 0..e-1 /\ (e - 1) + e = e * 2 - 1
    BY <2>2
  <2>4. Bits(0, m + 1) = Bits(0, m)
    BY <2>3, BitsLeft DEF e
  <2>5. Bits((e - 1) + e, m + 1) = Bits(e - 1, m) \cup {m}
    BY <2>3, BitsLeft DEF e
  <2>6. (0..m-1) \cup {m} = 0..(m+1)-1
    OBVIOUS
  <2>7. Bits(2^(m + 1) - 1, m + 1) = 0..(m+1)-1
    BY <2>1, <2>2, <2>3, <2>5, <2>6
  <2> QED BY <2>1, <2>4, <2>7
<1>3. n \in Good
  <2> HIDE DEF Good
  <2> QED BY <1>1, <1>2, SetInduction
<1> QED BY <1>3

LEMMA Carry ==
    ASSUME NEW n \in Nat
    PROVE  \A j \in 1..2^n-1 : \E m \in 0..n-1 : Xor(Bits(j, n), Bits(j - 1, n)) = 0..m
<1> DEFINE Carries(k) ==
        \A j \in 1..2^k-1 : \E m \in 0..k-1 : Xor(Bits(j, k), Bits(j - 1, k)) = 0..m
<1> DEFINE Good == {k \in Nat : Carries(k)}
<1>1. 0 \in Good
  BY NextPower
<1>2. ASSUME NEW k \in Nat, k \in Good PROVE k + 1 \in Good
  <2> SUFFICES ASSUME NEW j \in 1..2^(k + 1)-1
               PROVE  \E m \in 0..(k+1)-1 : Xor(Bits(j, k + 1), Bits(j - 1, k + 1)) = 0..m
    OBVIOUS
  <2> DEFINE e == 2^k
  <2>1. Carries(k)
    BY <1>2
  <2>2. e \in Nat \ {0} /\ 2^(k + 1) = e * 2
    BY PowersGrow, NextPower
  <2>3. \A i \in 0..e-1 : /\ Bits(i, k + 1) = Bits(i, k)
                          /\ Bits(i + e, k + 1) = Bits(i, k) \cup {k}
    BY BitsLeft
  <2>4. \A i : k \notin Bits(i, k)
    BY DEF Bits
  <2>5. \A i \in 1..e-1 : \E m \in 0..k-1 : Xor(Bits(i, k), Bits(i - 1, k)) = 0..m
    BY <2>1
  <2> HIDE DEF e
  <2>6. CASE j < e
    <3>1. j \in 1..e-1 /\ j \in 0..e-1 /\ j - 1 \in 0..e-1
      BY <2>2, <2>6
    <3>2. PICK m \in 0..k-1 : Xor(Bits(j, k), Bits(j - 1, k)) = 0..m
      BY <2>5, <3>1
    <3>3. m \in 0..(k+1)-1
      OBVIOUS
    <3> QED BY <2>3, <3>1, <3>2, <3>3
  <2>7. CASE j > e
    <3> DEFINE i == j - e
    <3>1. i \in 1..e-1 /\ i \in 0..e-1 /\ i - 1 \in 0..e-1 /\ i + e = j /\ (i - 1) + e = j - 1
      BY <2>2, <2>7
    <3> HIDE DEF i
    <3>2. PICK m \in 0..k-1 : Xor(Bits(i, k), Bits(i - 1, k)) = 0..m
      BY <2>5, <3>1
    <3>3. m \in 0..(k+1)-1
      OBVIOUS
    <3>4. /\ Bits(j, k + 1) = Bits(i, k) \cup {k}
          /\ Bits(j - 1, k + 1) = Bits(i - 1, k) \cup {k}
      BY <2>3, <3>1
    <3>5. Xor(Bits(j, k + 1), Bits(j - 1, k + 1)) = Xor(Bits(i, k), Bits(i - 1, k))
      BY <2>4, <3>4 DEF Xor
    <3> QED BY <3>2, <3>3, <3>5
  <2>8. CASE j = e
    <3>1. 0 \in 0..e-1 /\ e - 1 \in 0..e-1 /\ 0 + e = e
      BY <2>2
    <3>2. Bits(e, k + 1) = Bits(0, k) \cup {k} /\ Bits(e - 1, k + 1) = Bits(e - 1, k)
      BY <2>3, <3>1
    <3>3. Bits(0, k) = {} /\ Bits(e - 1, k) = 0..k-1
      BY BitsEnds DEF e
    <3>4. Xor({k}, 0..k-1) = 0..k
      BY DEF Xor
    <3>5. k \in 0..(k+1)-1
      OBVIOUS
    <3> QED BY <2>8, <3>2, <3>3, <3>4, <3>5
  <2> QED BY <2>2, <2>6, <2>7, <2>8
<1>3. n \in Good
  <2> HIDE DEF Good
  <2> QED BY <1>1, <1>2, SetInduction
<1> QED BY <1>3

LEMMA GrayLinear ==
    ASSUME NEW a \in SUBSET Nat, NEW b \in SUBSET Nat
    PROVE  Xor(gray_code(a), gray_code(b)) = gray_code(Xor(a, b))
<1>1. Xor(a, b) \in SUBSET Nat
  BY DEF Xor
<1>2. ShiftRight(Xor(a, b)) = Xor(ShiftRight(a), ShiftRight(b))
  <2>1. /\ ShiftRight(a) \in SUBSET Nat /\ ShiftRight(b) \in SUBSET Nat
        /\ ShiftRight(Xor(a, b)) \in SUBSET Nat
    BY <1>1, ShiftedDown
  <2>2. \A i \in Nat : i \in ShiftRight(a) <=> i + 1 \in a
    BY ShiftedDown
  <2>3. \A i \in Nat : i \in ShiftRight(b) <=> i + 1 \in b
    BY ShiftedDown
  <2>4. \A i \in Nat : i \in ShiftRight(Xor(a, b)) <=> i + 1 \in Xor(a, b)
    BY <1>1, ShiftedDown
  <2>5. Xor(ShiftRight(a), ShiftRight(b)) \in SUBSET Nat
    BY <2>1 DEF Xor
  <2>6. ASSUME NEW i \in Nat
        PROVE  i \in ShiftRight(Xor(a, b)) <=> i \in Xor(ShiftRight(a), ShiftRight(b))
    <3>1. i \in Xor(ShiftRight(a), ShiftRight(b))
            <=> ~(i \in ShiftRight(a) <=> i \in ShiftRight(b))
      BY DEF Xor
    <3>2. i + 1 \in Xor(a, b) <=> ~(i + 1 \in a <=> i + 1 \in b)
      BY DEF Xor
    <3> QED BY <2>2, <2>3, <2>4, <3>1, <3>2
  <2> QED BY <2>1, <2>5, <2>6
<1>3. \A x, y, z, w : Xor(Xor(x, z), Xor(y, w)) = Xor(Xor(x, y), Xor(z, w))
  BY DEF Xor
<1> QED BY <1>2, <1>3 DEF gray_code

LEMMA GrayOfCarry == ASSUME NEW m \in Nat PROVE gray_code(0..m) = {m}
<1>1. 0..m \in SUBSET Nat
  OBVIOUS
<1>2. ShiftRight(0..m) \in SUBSET Nat /\ \A i \in Nat : i \in ShiftRight(0..m) <=> i + 1 \in 0..m
  BY <1>1, ShiftedDown
<1>3. ShiftRight(0..m) = 0..m-1
  <2>1. \A i \in Nat : i + 1 \in 0..m <=> i \in 0..m-1
    OBVIOUS
  <2>2. 0..m-1 \in SUBSET Nat
    OBVIOUS
  <2> QED BY <1>2, <2>1, <2>2
<1> QED BY <1>3 DEF gray_code, Xor

LEMMA OneBitAtATime ==
    ASSUME NEW n \in Nat, NEW j \in 1..2^n-1
    PROVE  Cardinality(Xor(gray_order(n)[j], gray_order(n)[j - 1])) = 1
<1>1. PICK m \in 0..n-1 : Xor(Bits(j, n), Bits(j - 1, n)) = 0..m
  BY Carry
<1>2. Bits(j, n) \in SUBSET Nat /\ Bits(j - 1, n) \in SUBSET Nat
  BY DEF Bits
<1>3. j \in 0..2^n-1 /\ j - 1 \in 0..2^n-1
  BY PowersGrow
<1>4. gray_order(n)[j] = gray_code(Bits(j, n)) /\ gray_order(n)[j - 1] = gray_code(Bits(j - 1, n))
  BY <1>3 DEF gray_order
<1>5. Xor(gray_code(Bits(j, n)), gray_code(Bits(j - 1, n)))
        = gray_code(Xor(Bits(j, n), Bits(j - 1, n)))
  BY <1>2, GrayLinear
<1>6. gray_code(0..m) = {m}
  BY GrayOfCarry
<1>7. Cardinality({m}) = 1
  BY FS_Singleton
<1> QED BY <1>1, <1>4, <1>5, <1>6, <1>7

-----------------------------------------------------------------------------
(* The Hadamard matrix, doubling by doubling, holds the characters.        *)
Corner == [e \in {{}} \X {{}} |-> 1]
Doubled(h, k) ==
    [e \in Indices(k) \X Indices(k) |->
        (IF k - 1 \in e[1] \cap e[2] THEN -1 ELSE 1) * h[<<e[1] \ {k - 1}, e[2] \ {k - 1}>>]]
Doublings(r, n) == r = [k \in 0..n |-> IF k = 0 THEN Corner ELSE Doubled(r[k - 1], k)]

LEMMA DoublingsExist == ASSUME NEW n \in Nat PROVE \E r : Doublings(r, n)
<1> DEFINE Defined == {m \in Nat : \E r : Doublings(r, m)}
<1>1. 0 \in Defined
  <2> DEFINE r == [k \in 0..0 |-> Corner]
  <2>1. r = [k \in 0..0 |-> IF k = 0 THEN Corner ELSE Doubled(r[k - 1], k)]
    OBVIOUS
  <2> QED BY <2>1 DEF Doublings
<1>2. ASSUME NEW m \in Nat, m \in Defined PROVE m + 1 \in Defined
  <2>1. PICK r : Doublings(r, m)
    BY <1>2
  <2>2. \A k \in 0..m : r[k] = IF k = 0 THEN Corner ELSE Doubled(r[k - 1], k)
    BY <2>1 DEF Doublings
  <2> DEFINE g == [k \in 0..m+1 |-> IF k = m + 1 THEN Doubled(r[m], m + 1) ELSE r[k]]
  <2>3. \A k \in 0..m : g[k] = r[k]
    OBVIOUS
  <2>4. g[m + 1] = Doubled(r[m], m + 1)
    OBVIOUS
  <2>5. g = [k \in 0..m+1 |-> g[k]]
    OBVIOUS
  <2> HIDE DEF g
  <2>6. \A k \in 0..m+1 : g[k] = IF k = 0 THEN Corner ELSE Doubled(g[k - 1], k)
    <3> TAKE k \in 0..m+1
    <3>1. CASE k = m + 1
      <4>1. k - 1 = m /\ k # 0 /\ g[m] = r[m]
        BY <2>3, <3>1
      <4> QED BY <2>4, <3>1, <4>1
    <3>2. CASE k \in 1..m
      <4>1. k - 1 \in 0..m /\ k \in 0..m /\ k # 0
        BY <3>2
      <4> QED BY <2>2, <2>3, <4>1
    <3>3. CASE k = 0
      BY <2>2, <2>3, <3>3
    <3> QED BY <3>1, <3>2, <3>3
  <2>7. Doublings(g, m + 1)
    BY <2>5, <2>6 DEF Doublings
  <2> QED BY <2>7
<1>3. Nat \subseteq Defined
  <2> HIDE DEF Defined
  <2> QED BY <1>1, <1>2, SetInduction
<1> QED BY <1>3

LEMMA CharacterDoubles ==
    ASSUME NEW k, NEW S, IsFiniteSet(S), NEW T
    PROVE  (IF k \in S \cap T THEN -1 ELSE 1) * walsh_character(S \ {k}, T \ {k})
              = walsh_character(S, T)
<1> DEFINE rest == (S \ {k}) \cap (T \ {k})
<1>1. IsFiniteSet(rest) /\ IsFiniteSet({k})
  BY FS_Subset, FS_Singleton
<1>2. CASE k \in S \cap T
  <2>1. S \cap T = Xor(rest, {k})
    BY <1>2 DEF Xor
  <2> HIDE DEF rest
  <2>2. Odd(Xor(rest, {k})) <=> ~Odd(rest)
    BY <1>1, OddXor, OddFew
  <2> QED BY <1>2, <2>1, <2>2 DEF walsh_character, rest
<1>3. CASE k \notin S \cap T
  <2>1. S \cap T = rest
    BY <1>3
  <2> QED BY <1>3, <2>1 DEF walsh_character
<1> QED BY <1>2, <1>3

LEMMA HadamardIsCharacters ==
    ASSUME NEW n \in Nat, NEW S \in Indices(n), NEW T \in Indices(n)
    PROVE  hadamard_matrix(n)[<<S, T>>] = walsh_character(S, T)
<1> DEFINE r == CHOOSE r : Doublings(r, n)
<1> DEFINE Holds(k) ==
        \A A, B \in Indices(k) : r[k][<<A, B>>] = walsh_character(A, B)
<1> DEFINE Good == {k \in Nat : k <= n => Holds(k)}
<1>1. Doublings(r, n)
  BY DoublingsExist
<1>2. hadamard_matrix(n) = r[n]
  BY DEF hadamard_matrix, Doublings, Corner, Doubled
<1> HIDE DEF r
<1>3. 0 \in Good
  <2>1. r[0] = Corner
    BY <1>1 DEF Doublings
  <2>2. Indices(0) = {{}}
    BY DEF Indices
  <2>3. Corner[<<{}, {}>>] = 1
    BY DEF Corner
  <2>4. walsh_character({}, {}) = 1
    BY EmptyCharacter
  <2> QED BY <2>1, <2>2, <2>3, <2>4
<1>4. ASSUME NEW k \in Nat, k \in Good PROVE k + 1 \in Good
  <2> SUFFICES ASSUME k + 1 <= n, NEW A \in Indices(k + 1), NEW B \in Indices(k + 1)
               PROVE  r[k + 1][<<A, B>>] = walsh_character(A, B)
    OBVIOUS
  <2>1. Holds(k)
    <3>1. k <= n
      OBVIOUS
    <3> HIDE DEF Holds
    <3> QED BY <1>4, <3>1
  <2>2. k + 1 \in 0..n /\ k + 1 # 0 /\ (k + 1) - 1 = k
    OBVIOUS
  <2>3. r[k + 1] = Doubled(r[k], k + 1)
    BY <1>1, <2>2 DEF Doublings
  <2>4. r[k + 1][<<A, B>>]
          = (IF k \in A \cap B THEN -1 ELSE 1) * r[k][<<A \ {k}, B \ {k}>>]
    BY <2>2, <2>3 DEF Doubled
  <2>5. A \ {k} \in Indices(k) /\ B \ {k} \in Indices(k)
    BY DEF Indices
  <2>6. r[k][<<A \ {k}, B \ {k}>>] = walsh_character(A \ {k}, B \ {k})
    BY <2>1, <2>5
  <2>7. IsFiniteSet(A)
    BY IndicesFinite
  <2>8. (IF k \in A \cap B THEN -1 ELSE 1) * walsh_character(A \ {k}, B \ {k})
          = walsh_character(A, B)
    BY <2>7, CharacterDoubles
  <2> QED BY <2>4, <2>6, <2>8
<1>5. n \in Good
  <2> HIDE DEF Good
  <2> QED BY <1>3, <1>4, SetInduction
<1> QED BY <1>2, <1>5

LEMMA TimeSpectrumSums ==
    ASSUME NEW n \in Nat, NEW S \in Indices(n)
    PROVE  fwht(Time(n), n)[S] =
              SumSet({- 2^(i + n) : i \in {j \in 0..n-1 : gray_time_generators(n)[j] = S}})
<1> DEFINE at == {j \in 0..n-1 : gray_time_generators(n)[j] = S}
<1>1. \A j \in 0..n-1 : gray_time_generators(n)[j] = Generator(j, n)
  BY GeneratorsDiffer
<1>2. CASE \E i \in 0..n-1 : S = Generator(i, n)
  <2>1. PICK i \in 0..n-1 : S = Generator(i, n)
    BY <1>2
  <2>2. \A j \in 0..n-1 : Generator(i, n) = Generator(j, n) => i = j
    BY GeneratorsDiffer
  <2>3. at = {i}
    BY <1>1, <2>1, <2>2
  <2> HIDE DEF at
  <2>4. {- 2^(j + n) : j \in at} = {- 2^(i + n)}
    BY <2>3
  <2>5. fwht(Time(n), n)[S] = 0 - 2^i * 2^n
    BY <2>1, TimeSpectrum
  <2>6. 2^(i + n) = 2^i * 2^n
    BY PowersMultiply
  <2>7. 2^(i + n) \in Int
    BY PowersGrow
  <2> DEFINE e == 2^(i + n)
  <2> HIDE DEF e
  <2>8. - e \in Int /\ - e = 0 - e
    BY <2>7 DEF e
  <2>9. SumSet({- e}) = - e
    BY <2>8, SumSetFew
  <2> QED BY <2>4, <2>5, <2>6, <2>8, <2>9 DEF e, at
<1>3. CASE \A i \in 0..n-1 : S # Generator(i, n)
  <2>1. at = {}
    BY <1>1, <1>3
  <2> HIDE DEF at
  <2>2. {- 2^(j + n) : j \in at} = {}
    BY <2>1
  <2>3. fwht(Time(n), n)[S] = 0
    BY <1>3, TimeSpectrum
  <2> QED BY <2>2, <2>3, SumSetFew DEF at
<1> QED BY <1>2, <1>3

(* Gray execution changes one bit of the query in each step.  Physical     *)
(* time is a combination of the characters of the generators, each once,   *)
(* and its p-th power of those of xors of at most p generators: for widths *)
(* of any number of bits the temporal model is as sparse as the engine     *)
(* takes it to be.                                                         *)
THEOREM TimeStaysInShells == Spec => []GrayTimeIsSparse
<1>1. GrayTimeIsSparse
  <2> SUFFICES ASSUME NEW bits \in 1..TimeBits
      PROVE /\ \A j \in 1..2^bits-1 :
                  Cardinality(Xor(gray_order(bits)[j], gray_order(bits)[j - 1])) = 1
            /\ \A S \in Indices(bits) :
                  fwht(Time(bits), bits)[S] =
                      SumSet({- 2^(i + bits) : i \in
                          {j \in 0..bits-1 : gray_time_generators(bits)[j] = S}})
            /\ \A p \in 0..2, S \in Indices(bits) :
                  fwht(TimePower(bits, p), bits)[S] # 0
                      => S \in cumulative_shell_masks(bits, Min({p, bits}))
            /\ \A S, T \in Indices(bits) :
                  hadamard_matrix(bits)[<<S, T>>] = walsh_character(S, T)
    BY DEF GrayTimeIsSparse
  <2>1. bits \in Nat
    BY PathAssumption
  <2>2. \A j \in 1..2^bits-1 :
            Cardinality(Xor(gray_order(bits)[j], gray_order(bits)[j - 1])) = 1
    BY <2>1, OneBitAtATime
  <2>3. \A S \in Indices(bits) :
            fwht(Time(bits), bits)[S] =
                SumSet({- 2^(i + bits) : i \in
                    {j \in 0..bits-1 : gray_time_generators(bits)[j] = S}})
    BY <2>1, TimeSpectrumSums
  <2>4. \A p \in 0..2, S \in Indices(bits) :
            fwht(TimePower(bits, p), bits)[S] # 0
                => S \in cumulative_shell_masks(bits, Min({p, bits}))
    BY <2>1, PowersWithinShells
  <2>5. \A S, T \in Indices(bits) : hadamard_matrix(bits)[<<S, T>>] = walsh_character(S, T)
    BY <2>1, HadamardIsCharacters
  <2> QED BY <2>2, <2>3, <2>4, <2>5
<1> QED BY <1>1, PTL

-----------------------------------------------------------------------------
(* Gaussian integers and their powers.                                     *)
Gauss == Int \X Int

LEMMA GaussPairs ==
    /\ \A x, y \in Int : <<x, y>> \in Gauss /\ <<x, y>>[1] = x /\ <<x, y>>[2] = y
    /\ \A a \in Gauss : a[1] \in Int /\ a[2] \in Int /\ a = <<a[1], a[2]>>
    /\ \A a, b \in Gauss : a[1] = b[1] /\ a[2] = b[2] => a = b
BY DEF Gauss

LEMMA MulAt ==
    ASSUME NEW a \in Gauss, NEW b \in Gauss
    PROVE  /\ Mul(a, b) \in Gauss
           /\ Mul(a, b)[1] = a[1] * b[1] - a[2] * b[2]
           /\ Mul(a, b)[2] = a[1] * b[2] + a[2] * b[1]
<1>1. a[1] \in Int /\ a[2] \in Int /\ b[1] \in Int /\ b[2] \in Int
  BY GaussPairs
<1>2. \A p, q, r, s \in Int : p * r - q * s \in Int /\ p * s + q * r \in Int
  OBVIOUS
<1>3. a[1] * b[1] - a[2] * b[2] \in Int /\ a[1] * b[2] + a[2] * b[1] \in Int
  BY <1>1, <1>2
<1> DEFINE x == a[1] * b[1] - a[2] * b[2]
<1> DEFINE y == a[1] * b[2] + a[2] * b[1]
<1>4. Mul(a, b) = <<x, y>>
  BY DEF Mul
<1> HIDE DEF x, y
<1>5. x \in Int /\ y \in Int
  BY <1>3 DEF x, y
<1>6. <<x, y>> \in Gauss /\ <<x, y>>[1] = x /\ <<x, y>>[2] = y
  BY <1>5, GaussPairs
<1> QED BY <1>4, <1>6 DEF x, y

LEMMA MulCommutes ==
    ASSUME NEW a \in Gauss, NEW b \in Gauss
    PROVE  Mul(a, b) = Mul(b, a)
<1>1. a[1] \in Int /\ a[2] \in Int /\ b[1] \in Int /\ b[2] \in Int
  BY GaussPairs
<1>2. \A p, q, r, s \in Int : p * r - q * s = r * p - s * q /\ p * s + q * r = r * q + s * p
  OBVIOUS
<1>3. Mul(a, b)[1] = Mul(b, a)[1] /\ Mul(a, b)[2] = Mul(b, a)[2]
  BY <1>1, <1>2, MulAt
<1> QED BY <1>3, MulAt, GaussPairs

LEMMA MulAssociates ==
    ASSUME NEW a \in Gauss, NEW b \in Gauss, NEW c \in Gauss
    PROVE  Mul(Mul(a, b), c) = Mul(a, Mul(b, c))
<1>1. /\ a[1] \in Int /\ a[2] \in Int /\ b[1] \in Int /\ b[2] \in Int
      /\ c[1] \in Int /\ c[2] \in Int
  BY GaussPairs
<1>2. Mul(a, b) \in Gauss /\ Mul(b, c) \in Gauss
  BY MulAt
<1>3. \A p, q, r, s, t, u \in Int :
         /\ (p * r - q * s) * t - (p * s + q * r) * u
               = p * (r * t - s * u) - q * (r * u + s * t)
         /\ (p * r - q * s) * u + (p * s + q * r) * t
               = p * (r * u + s * t) + q * (r * t - s * u)
  OBVIOUS
<1>4. /\ Mul(Mul(a, b), c)[1] = Mul(a, b)[1] * c[1] - Mul(a, b)[2] * c[2]
      /\ Mul(Mul(a, b), c)[2] = Mul(a, b)[1] * c[2] + Mul(a, b)[2] * c[1]
  BY <1>2, MulAt
<1>5. /\ Mul(a, Mul(b, c))[1] = a[1] * Mul(b, c)[1] - a[2] * Mul(b, c)[2]
      /\ Mul(a, Mul(b, c))[2] = a[1] * Mul(b, c)[2] + a[2] * Mul(b, c)[1]
  BY <1>2, MulAt
<1>6. /\ Mul(a, b)[1] = a[1] * b[1] - a[2] * b[2]
      /\ Mul(a, b)[2] = a[1] * b[2] + a[2] * b[1]
  BY MulAt
<1>7. /\ Mul(b, c)[1] = b[1] * c[1] - b[2] * c[2]
      /\ Mul(b, c)[2] = b[1] * c[2] + b[2] * c[1]
  BY MulAt
<1>8. /\ Mul(Mul(a, b), c)[1] = Mul(a, Mul(b, c))[1]
      /\ Mul(Mul(a, b), c)[2] = Mul(a, Mul(b, c))[2]
  BY <1>1, <1>3, <1>4, <1>5, <1>6, <1>7
<1>9. Mul(Mul(a, b), c) \in Gauss /\ Mul(a, Mul(b, c)) \in Gauss
  BY <1>2, MulAt
<1> QED BY <1>8, <1>9, GaussPairs

LEMMA ConjAt ==
    ASSUME NEW a \in Gauss
    PROVE  /\ Conj(a) \in Gauss /\ Conj(a)[1] = a[1] /\ Conj(a)[2] = 0 - a[2]
<1> DEFINE x == a[1]
<1> DEFINE y == a[2]
<1>1. x \in Int /\ y \in Int
  BY GaussPairs
<1>2. Conj(a) = <<x, - y>>
  BY DEF Conj
<1> HIDE DEF x, y
<1>3. - y \in Int /\ - y = 0 - y
  BY <1>1
<1>4. <<x, - y>> \in Gauss /\ <<x, - y>>[1] = x /\ <<x, - y>>[2] = - y
  BY <1>1, <1>3, GaussPairs
<1> QED BY <1>2, <1>3, <1>4 DEF x, y

LEMMA ConjMultiplies ==
    ASSUME NEW a \in Gauss, NEW b \in Gauss
    PROVE  Conj(Mul(a, b)) = Mul(Conj(a), Conj(b))
<1>1. a[1] \in Int /\ a[2] \in Int /\ b[1] \in Int /\ b[2] \in Int
  BY GaussPairs
<1>2. \A p, q, r, s \in Int :
         /\ p * r - (0 - q) * (0 - s) = p * r - q * s
         /\ p * (0 - s) + (0 - q) * r = 0 - (p * s + q * r)
  OBVIOUS
<1>3. Conj(a) \in Gauss /\ Conj(a)[1] = a[1] /\ Conj(a)[2] = 0 - a[2]
  BY ConjAt
<1>4. Conj(b) \in Gauss /\ Conj(b)[1] = b[1] /\ Conj(b)[2] = 0 - b[2]
  BY ConjAt
<1>5. /\ Mul(a, b) \in Gauss
      /\ Mul(a, b)[1] = a[1] * b[1] - a[2] * b[2]
      /\ Mul(a, b)[2] = a[1] * b[2] + a[2] * b[1]
  BY MulAt
<1>6. /\ Conj(Mul(a, b)) \in Gauss
      /\ Conj(Mul(a, b))[1] = Mul(a, b)[1]
      /\ Conj(Mul(a, b))[2] = 0 - Mul(a, b)[2]
  BY <1>5, ConjAt
<1>7. /\ Mul(Conj(a), Conj(b)) \in Gauss
      /\ Mul(Conj(a), Conj(b))[1] = Conj(a)[1] * Conj(b)[1] - Conj(a)[2] * Conj(b)[2]
      /\ Mul(Conj(a), Conj(b))[2] = Conj(a)[1] * Conj(b)[2] + Conj(a)[2] * Conj(b)[1]
  BY <1>3, <1>4, MulAt
<1>8. /\ Conj(Mul(a, b))[1] = Mul(Conj(a), Conj(b))[1]
      /\ Conj(Mul(a, b))[2] = Mul(Conj(a), Conj(b))[2]
  BY <1>1, <1>2, <1>3, <1>4, <1>5, <1>6, <1>7
<1> QED BY <1>6, <1>7, <1>8, GaussPairs

Powers(z, r, n) == r = [k \in 0..n |-> IF k = 0 THEN <<1, 0>> ELSE Mul(r[k - 1], z)]

LEMMA PowersExist == ASSUME NEW z, NEW n \in Nat PROVE \E r : Powers(z, r, n)
<1> DEFINE Defined == {m \in Nat : \E r : Powers(z, r, m)}
<1>1. 0 \in Defined
  <2> DEFINE r == [k \in 0..0 |-> <<1, 0>>]
  <2>1. r = [k \in 0..0 |-> IF k = 0 THEN <<1, 0>> ELSE Mul(r[k - 1], z)]
    OBVIOUS
  <2> QED BY <2>1 DEF Powers
<1>2. ASSUME NEW m \in Nat, m \in Defined PROVE m + 1 \in Defined
  <2>1. PICK r : Powers(z, r, m)
    BY <1>2
  <2>2. \A k \in 0..m : r[k] = IF k = 0 THEN <<1, 0>> ELSE Mul(r[k - 1], z)
    BY <2>1 DEF Powers
  <2> DEFINE g == [k \in 0..m+1 |-> IF k = m + 1 THEN Mul(r[m], z) ELSE r[k]]
  <2>3. \A k \in 0..m : g[k] = r[k]
    OBVIOUS
  <2>4. g[m + 1] = Mul(r[m], z)
    OBVIOUS
  <2>5. g = [k \in 0..m+1 |-> g[k]]
    OBVIOUS
  <2> HIDE DEF g
  <2>6. \A k \in 0..m+1 : g[k] = IF k = 0 THEN <<1, 0>> ELSE Mul(g[k - 1], z)
    <3> TAKE k \in 0..m+1
    <3>1. CASE k = m + 1
      <4>1. k - 1 = m /\ k # 0 /\ g[m] = r[m]
        BY <2>3, <3>1
      <4> QED BY <2>4, <3>1, <4>1
    <3>2. CASE k \in 1..m
      <4>1. k - 1 \in 0..m /\ k \in 0..m /\ k # 0
        BY <3>2
      <4> QED BY <2>2, <2>3, <4>1
    <3>3. CASE k = 0
      BY <2>2, <2>3, <3>3
    <3> QED BY <3>1, <3>2, <3>3
  <2>7. Powers(z, g, m + 1)
    BY <2>5, <2>6 DEF Powers
  <2> QED BY <2>7
<1>3. Nat \subseteq Defined
  <2> HIDE DEF Defined
  <2> QED BY <1>1, <1>2, SetInduction
<1> QED BY <1>3

LEMMA PowersAgree ==
    ASSUME NEW z, NEW n \in Nat, NEW m \in Nat, m <= n,
           NEW r, Powers(z, r, n), NEW s, Powers(z, s, m)
    PROVE  r[m] = s[m]
<1> DEFINE Good == {k \in Nat : k <= m => r[k] = s[k]}
<1>1. \A k \in 0..n : r[k] = IF k = 0 THEN <<1, 0>> ELSE Mul(r[k - 1], z)
  BY DEF Powers
<1>2. \A k \in 0..m : s[k] = IF k = 0 THEN <<1, 0>> ELSE Mul(s[k - 1], z)
  BY DEF Powers
<1>3. 0 \in Good
  BY <1>1, <1>2
<1>4. ASSUME NEW k \in Nat, k \in Good PROVE k + 1 \in Good
  <2> SUFFICES ASSUME k + 1 <= m PROVE r[k + 1] = s[k + 1]
    OBVIOUS
  <2>1. k + 1 \in 0..n /\ k + 1 \in 0..m /\ k + 1 # 0 /\ (k + 1) - 1 = k /\ r[k] = s[k]
    BY <1>4
  <2> QED BY <1>1, <1>2, <2>1
<1>5. Nat \subseteq Good
  <2> HIDE DEF Good
  <2> QED BY <1>3, <1>4, SetInduction
<1> QED BY <1>5

LEMMA PowerSteps ==
    ASSUME NEW z \in Gauss, NEW n \in Nat
    PROVE  Power(z, 0) = <<1, 0>> /\ Power(z, n + 1) = Mul(Power(z, n), z)
<1> DEFINE p(k) == CHOOSE r : Powers(z, r, k)
<1>1. \A k \in Nat : Powers(z, p(k), k)
  BY PowersExist
<1>2. \A k \in Nat : Power(z, k) = p(k)[k]
  BY DEF Power, Powers
<1> HIDE DEF p
<1>3. p(0)[0] = <<1, 0>>
  BY <1>1 DEF Powers
<1>4. p(n + 1)[n] = p(n)[n]
  <2>1. n + 1 \in Nat /\ n <= n + 1 /\ Powers(z, p(n + 1), n + 1) /\ Powers(z, p(n), n)
    BY <1>1
  <2> DEFINE a == p(n + 1)
  <2> DEFINE b == p(n)
  <2> DEFINE m == n + 1
  <2>2. m \in Nat /\ n <= m /\ Powers(z, a, m) /\ Powers(z, b, n)
    BY <2>1
  <2> HIDE DEF a, b, m
  <2>3. a[n] = b[n]
    BY <2>2, PowersAgree
  <2> QED BY <2>3 DEF a, b
<1>5. p(n + 1)[n + 1] = Mul(p(n + 1)[n], z)
  <2>1. n + 1 \in Nat /\ n + 1 \in 0..n+1 /\ n + 1 # 0 /\ (n + 1) - 1 = n
    OBVIOUS
  <2>2. p(n + 1) = [k \in 0..n+1 |-> IF k = 0 THEN <<1, 0>> ELSE Mul(p(n + 1)[k - 1], z)]
    BY <1>1, <2>1 DEF Powers
  <2>3. p(n + 1)[n + 1] = IF n + 1 = 0 THEN <<1, 0>> ELSE Mul(p(n + 1)[(n + 1) - 1], z)
    BY <2>1, <2>2
  <2> QED BY <2>1, <2>3
<1>6. 0 \in Nat /\ n \in Nat /\ n + 1 \in Nat
  OBVIOUS
<1>7. Power(z, 0) = p(0)[0] /\ Power(z, n) = p(n)[n] /\ Power(z, n + 1) = p(n + 1)[n + 1]
  BY <1>2, <1>6
<1> QED BY <1>3, <1>4, <1>5, <1>7

LEMMA PowerGauss == ASSUME NEW z \in Gauss, NEW n \in Nat PROVE Power(z, n) \in Gauss
<1> DEFINE Good == {m \in Nat : Power(z, m) \in Gauss}
<1>1. 0 \in Good
  <2>1. <<1, 0>> \in Gauss
    BY GaussPairs
  <2> QED BY <2>1, PowerSteps
<1>2. ASSUME NEW m \in Nat, m \in Good PROVE m + 1 \in Good
  <2>1. Power(z, m) \in Gauss
    BY <1>2
  <2>2. Mul(Power(z, m), z) \in Gauss
    BY <2>1, MulAt
  <2> QED BY <2>2, PowerSteps
<1>3. n \in Good
  <2> HIDE DEF Good
  <2> QED BY <1>1, <1>2, SetInduction
<1> QED BY <1>3

LEMMA MulByOne == ASSUME NEW a \in Gauss PROVE Mul(a, <<1, 0>>) = a /\ <<1, 0>> \in Gauss
<1>1. a[1] \in Int /\ a[2] \in Int
  BY GaussPairs
<1>2. \A p, q \in Int : p * 1 - q * 0 = p /\ p * 0 + q * 1 = q
  OBVIOUS
<1>3. <<1, 0>> \in Gauss /\ <<1, 0>>[1] = 1 /\ <<1, 0>>[2] = 0
  BY GaussPairs
<1> DEFINE one == <<1, 0>>
<1> HIDE DEF one
<1>4. one \in Gauss /\ one[1] = 1 /\ one[2] = 0
  BY <1>3 DEF one
<1>5. /\ Mul(a, one) \in Gauss
      /\ Mul(a, one)[1] = a[1] * one[1] - a[2] * one[2]
      /\ Mul(a, one)[2] = a[1] * one[2] + a[2] * one[1]
  BY <1>4, MulAt
<1>6. Mul(a, one)[1] = a[1] /\ Mul(a, one)[2] = a[2]
  BY <1>1, <1>2, <1>4, <1>5
<1>7. Mul(a, one) = a
  BY <1>5, <1>6, GaussPairs
<1> QED BY <1>3, <1>7 DEF one

LEMMA PowersAdd ==
    ASSUME NEW z \in Gauss, NEW m \in Nat, NEW n \in Nat
    PROVE  Power(z, m + n) = Mul(Power(z, m), Power(z, n))
<1> DEFINE Good == {k \in Nat : Power(z, m + k) = Mul(Power(z, m), Power(z, k))}
<1>1. 0 \in Good
  <2>1. m + 0 = m
    OBVIOUS
  <2>2. Power(z, m) \in Gauss /\ Power(z, 0) = <<1, 0>>
    BY PowerGauss, PowerSteps
  <2>3. Mul(Power(z, m), <<1, 0>>) = Power(z, m)
    BY <2>2, MulByOne
  <2> QED BY <2>1, <2>2, <2>3
<1>2. ASSUME NEW k \in Nat, k \in Good PROVE k + 1 \in Good
  <2> DEFINE a == Power(z, m)
  <2> DEFINE b == Power(z, k)
  <2>1. a \in Gauss /\ b \in Gauss /\ Power(z, m + k) = Mul(a, b)
    BY <1>2, PowerGauss
  <2>2. m + k \in Nat /\ m + (k + 1) = (m + k) + 1
    OBVIOUS
  <2>3. Power(z, (m + k) + 1) = Mul(Power(z, m + k), z)
    BY <2>2, PowerSteps
  <2>4. Power(z, k + 1) = Mul(b, z)
    BY PowerSteps
  <2> HIDE DEF a, b
  <2>5. Mul(Mul(a, b), z) = Mul(a, Mul(b, z))
    BY <2>1, MulAssociates
  <2>6. Power(z, m + (k + 1)) = Mul(a, Power(z, k + 1))
    BY <2>1, <2>2, <2>3, <2>4, <2>5
  <2> QED BY <2>6 DEF a
<1>3. n \in Good
  <2> HIDE DEF Good
  <2> QED BY <1>1, <1>2, SetInduction
<1> QED BY <1>3

LEMMA PowerOfConj ==
    ASSUME NEW z \in Gauss, NEW n \in Nat
    PROVE  Power(Conj(z), n) = Conj(Power(z, n))
<1> DEFINE Good == {k \in Nat : Power(Conj(z), k) = Conj(Power(z, k))}
<1>0. Conj(z) \in Gauss
  BY ConjAt
<1>1. 0 \in Good
  <2>1. Power(Conj(z), 0) = <<1, 0>> /\ Power(z, 0) = <<1, 0>>
    BY <1>0, PowerSteps
  <2>2. <<1, 0>> \in Gauss /\ <<1, 0>>[1] = 1 /\ <<1, 0>>[2] = 0 /\ 0 - 0 = 0
    BY GaussPairs
  <2>3. /\ Conj(<<1, 0>>) \in Gauss
        /\ Conj(<<1, 0>>)[1] = <<1, 0>>[1] /\ Conj(<<1, 0>>)[2] = 0 - <<1, 0>>[2]
    BY <2>2, ConjAt
  <2>4. Conj(<<1, 0>>) = <<1, 0>>
    BY <2>2, <2>3, GaussPairs
  <2> QED BY <2>1, <2>4
<1>2. ASSUME NEW k \in Nat, k \in Good PROVE k + 1 \in Good
  <2>1. Power(z, k) \in Gauss /\ Power(Conj(z), k) = Conj(Power(z, k))
    BY <1>2, PowerGauss
  <2>2. Power(z, k + 1) = Mul(Power(z, k), z) /\ Power(Conj(z), k + 1) = Mul(Power(Conj(z), k), Conj(z))
    BY <1>0, PowerSteps
  <2>3. Conj(Mul(Power(z, k), z)) = Mul(Conj(Power(z, k)), Conj(z))
    BY <2>1, ConjMultiplies
  <2> QED BY <2>1, <2>2, <2>3
<1>3. n \in Good
  <2> HIDE DEF Good
  <2> QED BY <1>1, <1>2, SetInduction
<1> QED BY <1>3

-----------------------------------------------------------------------------
(* The generators are a basis: each offset is the xor of one subset.       *)
LEMMA CombosDiffer ==
    ASSUME NEW n \in Nat, NEW c \in SUBSET (0..n-1), NEW d \in SUBSET (0..n-1),
           Combo(c, n) = Combo(d, n)
    PROVE  c = d
<1> SUFFICES ASSUME Xor(c, d) # {} PROVE FALSE
  BY DEF Xor
<1>1. Xor(c, d) \in SUBSET Nat
  BY DEF Xor
<1>2. PICK i \in Xor(c, d) : \A j \in Xor(c, d) : i <= j
  BY <1>1, LeastElement
<1>3. i \in 0..n-1
  BY DEF Xor
<1>4. \A j \in 0..n-1 : i \in Generator(j, n) <=> j <= i
  BY <1>3 DEF Generator
<1> DEFINE C == {j \in c : i \in Generator(j, n)}
<1> DEFINE D == {j \in d : i \in Generator(j, n)}
<1>5. i \in Combo(c, n) <=> Odd(C)
  BY ComboHolds
<1>6. i \in Combo(d, n) <=> Odd(D)
  BY ComboHolds
<1>7. \A j \in 0..n-1 : j < i => (j \in c <=> j \in d)
  BY <1>2, <1>3 DEF Xor
<1>8. Xor(C, {i}) = D
  <2>1. \A j \in 0..n-1 : j \in Xor(C, {i}) <=> j \in D
    <3> TAKE j \in 0..n-1
    <3>1. CASE j = i
      <4>1. i \in c <=> i \notin d
        BY <1>2 DEF Xor
      <4>2. i \in C <=> i \in c
        BY <1>3, <1>4
      <4>3. i \in D <=> i \in d
        BY <1>3, <1>4
      <4>4. i \in Xor(C, {i}) <=> i \notin C
        BY DEF Xor
      <4> QED BY <3>1, <4>1, <4>2, <4>3, <4>4
    <3>2. CASE j < i
      BY <1>4, <1>7, <3>2 DEF Xor
    <3>3. CASE j > i
      BY <1>3, <1>4, <3>3 DEF Xor
    <3> QED BY <1>3, <3>1, <3>2, <3>3
  <2>2. Xor(C, {i}) \subseteq 0..n-1 /\ D \subseteq 0..n-1
    BY <1>3 DEF Xor
  <2> QED BY <2>1, <2>2
<1>9. IsFiniteSet(C) /\ IsFiniteSet({i})
  <2>1. IsFiniteSet(0..n-1)
    BY FS_Interval
  <2>2. C \subseteq 0..n-1
    OBVIOUS
  <2> HIDE DEF C
  <2> QED BY <2>1, <2>2, FS_Subset, FS_Singleton
<1> HIDE DEF C, D
<1>10. Odd(D) <=> ~Odd(C)
  BY <1>8, <1>9, OddXor, OddFew
<1> QED BY <1>5, <1>6, <1>10

LEMMA CombosReach ==
    ASSUME NEW n \in Nat, NEW S \in Indices(n)
    PROVE  \E c \in SUBSET (0..n-1) : S = Combo(c, n)
<1> DEFINE Good == {T \in Indices(n) : \E c \in SUBSET (0..n-1) : T = Combo(c, n)}
<1>1. {} \in Good
  BY EmptyCombo DEF Indices
<1>2. ASSUME NEW T \in SUBSET S, NEW x \in S, T \in Good, x \notin T PROVE T \cup {x} \in Good
  <2>1. PICK c \in SUBSET (0..n-1) : T = Combo(c, n)
    BY <1>2
  <2>2. x \in 0..n-1 /\ T \cup {x} \in Indices(n)
    BY <1>2 DEF Indices
  <2>3. /\ Xor(c, {x}) \in SUBSET (0..n-1)
        /\ Combo(Xor(c, {x}), n) = Xor(T, Generator(x, n))
    BY <2>1, <2>2, ComboToggles
  <2> DEFINE d == Xor(c, {x})
  <2>4. CASE x + 1 \in 0..n-1
    <3>1. d \in SUBSET (0..n-1) /\ Combo(d, n) = Xor(T, Generator(x, n))
      BY <2>3
    <3> HIDE DEF d
    <3>2. /\ Xor(d, {x + 1}) \in SUBSET (0..n-1)
          /\ Combo(Xor(d, {x + 1}), n) = Xor(Combo(d, n), Generator(x + 1, n))
      BY <2>4, <3>1, ComboToggles
    <3>3. Generator(x, n) = Generator(x + 1, n) \cup {x} /\ x \notin Generator(x + 1, n)
      BY <2>2 DEF Generator
    <3>4. Xor(Xor(T, Generator(x, n)), Generator(x + 1, n)) = T \cup {x}
      BY <1>2, <3>3 DEF Xor
    <3> QED BY <2>2, <3>1, <3>2, <3>4
  <2>5. CASE x + 1 \notin 0..n-1
    <3>1. Generator(x, n) = {x}
      BY <2>2, <2>5 DEF Generator
    <3>2. Xor(T, {x}) = T \cup {x}
      BY <1>2 DEF Xor
    <3> QED BY <2>2, <2>3, <3>1, <3>2
  <2> QED BY <2>4, <2>5
<1>3. IsFiniteSet(S)
  BY IndicesFinite
<1>4. S \in Good
  <2> HIDE DEF Good
  <2> QED BY <1>1, <1>2, <1>3, FiniteInduction
<1> QED BY <1>4

LEMMA SubsetOfCombo ==
    ASSUME NEW n \in Nat
    PROVE  /\ \A S \in Indices(n) : SubsetOf(S, n) \in SUBSET (0..n-1) /\ S = Combo(SubsetOf(S, n), n)
           /\ \A c \in SUBSET (0..n-1) : Combo(c, n) \in Indices(n) /\ SubsetOf(Combo(c, n), n) = c
<1>1. ASSUME NEW S \in Indices(n)
      PROVE  SubsetOf(S, n) \in SUBSET (0..n-1) /\ S = Combo(SubsetOf(S, n), n)
  <2>1. SubsetOf(S, n) = CHOOSE c \in SUBSET (0..n-1) : S = Combo(c, n)
    BY DEF SubsetOf, Combo
  <2>2. \E c \in SUBSET (0..n-1) : S = Combo(c, n)
    BY CombosReach
  <2> QED BY <2>1, <2>2
<1>2. ASSUME NEW c \in SUBSET (0..n-1) PROVE Combo(c, n) \in Indices(n)
  <2> SUFFICES ASSUME NEW x \in Combo(c, n) PROVE x \in 0..n-1
    BY DEF Indices
  <2> DEFINE at == {i \in c : x \in Generator(i, n)}
  <2>1. Odd(at)
    BY ComboHolds
  <2>2. at # {}
    <3> HIDE DEF at
    <3> QED BY <2>1, OddFew
  <2>3. PICK i \in c : x \in Generator(i, n)
    BY <2>2
  <2> QED BY <2>3 DEF Generator
<1>3. ASSUME NEW c \in SUBSET (0..n-1) PROVE SubsetOf(Combo(c, n), n) = c
  <2>1. /\ SubsetOf(Combo(c, n), n) \in SUBSET (0..n-1)
        /\ Combo(c, n) = Combo(SubsetOf(Combo(c, n), n), n)
    BY <1>1, <1>2
  <2> QED BY <2>1, CombosDiffer
<1> QED BY <1>1, <1>2, <1>3

-----------------------------------------------------------------------------
(* The slot of a query in Gray order is the number of its inverse code.    *)
LEMMA GrayInverts ==
    ASSUME NEW n \in Nat, NEW q \in Indices(n)
    PROVE  gray_code(gray_inverse(q, n)) = q
<1> DEFINE g == gray_inverse(q, n)
<1>1. g \in Indices(n) /\ g \in SUBSET Nat
  BY GrayInverseBits DEF Indices
<1>2. \A i \in 0..n-1 : i \in g <=> Odd((i..n-1) \cap q)
  BY GrayInverseBits
<1> HIDE DEF g
<1>3. ShiftRight(g) \in SUBSET Nat /\ \A i \in Nat : i \in ShiftRight(g) <=> i + 1 \in g
  BY <1>1, ShiftedDown
<1>4. \A i \in Nat : i + 1 \in g => i \in 0..n-1
  BY <1>1 DEF Indices
<1>5. IsFiniteSet(q)
  BY IndicesFinite
<1>6. ASSUME NEW i \in 0..n-1 PROVE i \in gray_code(g) <=> i \in q
  <2> DEFINE above == (i+1..n-1) \cap q
  <2> DEFINE here == {i} \cap q
  <2>1. i + 1 \in g <=> Odd(above)
    <3>1. CASE i + 1 \in 0..n-1
      BY <1>2, <3>1
    <3>2. CASE i + 1 \notin 0..n-1
      <4>1. above = {} /\ i + 1 \notin g
        BY <1>1, <3>2 DEF Indices
      <4> HIDE DEF above
      <4> QED BY <4>1, OddFew
    <3> QED BY <3>1, <3>2
  <2>2. (i..n-1) \cap q = Xor(above, here)
    <3>1. \A x \in 0..n-1 : x \in i..n-1 <=> x = i \/ x \in i+1..n-1
      OBVIOUS
    <3>2. q \subseteq 0..n-1
      BY DEF Indices
    <3>3. i \notin i+1..n-1
      OBVIOUS
    <3> QED BY <3>1, <3>2, <3>3 DEF Xor
  <2>3. IsFiniteSet(above) /\ IsFiniteSet(here)
    BY <1>5, FS_Subset
  <2>4. Odd(here) <=> i \in q
    <3>1. here = IF i \in q THEN {i} ELSE {}
      OBVIOUS
    <3> HIDE DEF here
    <3> QED BY <3>1, OddFew
  <2> HIDE DEF above, here
  <2>5. Odd(Xor(above, here)) <=> ~(Odd(above) <=> Odd(here))
    BY <2>3, OddXor
  <2>6. i \in g <=> ~(i + 1 \in g <=> i \in q)
    BY <1>2, <2>1, <2>2, <2>4, <2>5
  <2>7. i \in gray_code(g) <=> ~(i \in g <=> i + 1 \in g)
    BY <1>3 DEF gray_code, Xor
  <2> QED BY <2>6, <2>7
<1>7. gray_code(g) \subseteq 0..n-1 /\ q \subseteq 0..n-1
  BY <1>1, <1>3, <1>4 DEF gray_code, Xor, Indices
<1>8. gray_code(g) = q
  BY <1>6, <1>7
<1> QED BY <1>8 DEF g

LEMMA GrayCodesDiffer ==
    ASSUME NEW n \in Nat, NEW s \in Indices(n), NEW t \in Indices(n), gray_code(s) = gray_code(t)
    PROVE  s = t
<1> DEFINE u == Xor(s, t)
<1>1. s \in SUBSET Nat /\ t \in SUBSET Nat /\ u \in SUBSET (0..n-1) /\ u \in SUBSET Nat
  BY DEF Indices, Xor
<1>2. gray_code(u) = {}
  <2>1. Xor(gray_code(s), gray_code(t)) = gray_code(u)
    BY <1>1, GrayLinear
  <2> QED BY <2>1, XorTwice
<1>3. (s = t) <=> u = {}
  BY DEF Xor
<1> HIDE DEF u
<1>4. \A i \in Nat : i \in u <=> i + 1 \in u
  <2>1. \A i \in Nat : i \in ShiftRight(u) <=> i + 1 \in u
    BY <1>1, ShiftedDown
  <2>2. ShiftRight(u) = u
    BY <1>2 DEF gray_code, Xor
  <2> QED BY <2>1, <2>2
<1> DEFINE Good == {m \in Nat : m <= n => n - m \notin u}
<1>5. 0 \in Good
  BY <1>1
<1>6. ASSUME NEW m \in Nat, m \in Good PROVE m + 1 \in Good
  <2> SUFFICES ASSUME m + 1 <= n PROVE n - (m + 1) \notin u
    OBVIOUS
  <2>1. n - m \notin u /\ n - (m + 1) \in Nat /\ (n - (m + 1)) + 1 = n - m
    BY <1>6
  <2> QED BY <1>4, <2>1
<1>7. Nat \subseteq Good
  <2> HIDE DEF Good
  <2> QED BY <1>5, <1>6, SetInduction
<1>8. \A i \in 0..n-1 : i \notin u
  <2> TAKE i \in 0..n-1
  <2>1. n - i \in Nat /\ n - i <= n /\ n - (n - i) = i
    OBVIOUS
  <2> QED BY <1>7, <2>1
<1> QED BY <1>1, <1>3, <1>8

LEMMA NumberOfBits ==
    ASSUME NEW n \in Nat
    PROVE  \A j \in 0..2^n-1 : Number(Bits(j, n)) = j
<1> DEFINE Counts(k) == \A j \in 0..2^k-1 : Number(Bits(j, k)) = j
<1> DEFINE Good == {k \in Nat : Counts(k)}
<1>1. 0 \in Good
  <2>1. Bits(0, 0) = {} /\ 2^0 = 1
    BY BitsEnds, NextPower
  <2>2. \A j \in 0..2^0-1 : j = 0
    BY <2>1
  <2> QED BY <2>1, <2>2, NumberGrows
<1>2. ASSUME NEW k \in Nat, k \in Good PROVE k + 1 \in Good
  <2> SUFFICES ASSUME NEW j \in 0..2^(k + 1)-1 PROVE Number(Bits(j, k + 1)) = j
    OBVIOUS
  <2> DEFINE e == 2^k
  <2>1. Counts(k)
    BY <1>2
  <2>2. e \in Nat \ {0} /\ 2^(k + 1) = e * 2
    BY PowersGrow, NextPower
  <2>3. \A i \in 0..e-1 : /\ Bits(i, k + 1) = Bits(i, k)
                          /\ Bits(i + e, k + 1) = Bits(i, k) \cup {k}
    BY BitsLeft
  <2>4. \A i \in 0..e-1 : Number(Bits(i, k)) = i
    BY <2>1
  <2> HIDE DEF e
  <2>5. CASE j < e
    BY <2>2, <2>3, <2>4, <2>5
  <2>6. CASE j >= e
    <3> DEFINE i == j - e
    <3>1. i \in 0..e-1 /\ i + e = j
      BY <2>2, <2>6
    <3> HIDE DEF i
    <3> DEFINE b == Bits(i, k)
    <3>2. b \in SUBSET (0..k-1) /\ IsFiniteSet(0..k-1)
      BY FS_Interval DEF Bits
    <3>3. b \cup {k} \in SUBSET Nat /\ k \notin b
      BY <3>2
    <3>4. Number(b) = i /\ Bits(j, k + 1) = b \cup {k}
      BY <2>3, <2>4, <3>1
    <3> HIDE DEF b
    <3>5. IsFiniteSet(b \cup {k})
      BY <3>2, FS_Subset, FS_AddElement
    <3>6. Number(b \cup {k}) = 2^k + Number((b \cup {k}) \ {k})
      <4>1. k \in b \cup {k}
        OBVIOUS
      <4> DEFINE a == b \cup {k}
      <4> HIDE DEF a
      <4>2. a \in SUBSET Nat /\ IsFiniteSet(a) /\ k \in a
        BY <3>3, <3>5, <4>1 DEF a
      <4>3. Number(a) = 2^k + Number(a \ {k})
        BY <4>2, NumberGrows
      <4> QED BY <4>3 DEF a
    <3>7. (b \cup {k}) \ {k} = b
      BY <3>3
    <3>8. Number(b \cup {k}) = e + i
      BY <3>4, <3>6, <3>7 DEF e
    <3>9. e + i = j
      BY <2>2, <3>1
    <3> QED BY <3>4, <3>8, <3>9
  <2> QED BY <2>2, <2>5, <2>6
<1>3. n \in Good
  <2> HIDE DEF Good
  <2> QED BY <1>1, <1>2, SetInduction
<1> QED BY <1>3

LEMMA SlotOfQuery ==
    ASSUME NEW n \in Nat, NEW q \in Indices(n)
    PROVE  (CHOOSE j \in 0..2^n-1 : gray_order(n)[j] = q) = Number(gray_inverse(q, n))
<1> DEFINE slot == CHOOSE j \in 0..2^n-1 : gray_order(n)[j] = q
<1>1. gray_inverse(q, n) \in Indices(n)
  BY GrayInverseBits
<1>2. \E j \in 0..2^n-1 : gray_order(n)[j] = q
  <2>1. PICK j \in 0..2^n-1 : Bits(j, n) = gray_inverse(q, n)
    BY <1>1, BitsReachEverySet
  <2> QED BY <2>1, GrayInverts DEF gray_order
<1>3. slot \in 0..2^n-1 /\ gray_order(n)[slot] = q
  BY <1>2
<1> HIDE DEF slot
<1>4. gray_code(Bits(slot, n)) = q /\ Bits(slot, n) \in Indices(n)
  BY <1>3 DEF gray_order, Bits, Indices
<1>5. gray_code(Bits(slot, n)) = gray_code(gray_inverse(q, n))
  BY <1>4, GrayInverts
<1> DEFINE b == Bits(slot, n)
<1> DEFINE g == gray_inverse(q, n)
<1>6. b \in Indices(n) /\ g \in Indices(n) /\ gray_code(b) = gray_code(g)
  BY <1>1, <1>4, <1>5
<1>7. Number(b) = slot
  BY <1>3, NumberOfBits
<1> HIDE DEF b, g
<1>8. b = g
  BY <1>6, GrayCodesDiffer
<1> QED BY <1>7, <1>8 DEF g, slot

-----------------------------------------------------------------------------
(* The phase ramp is a product over the bits of a query's rank.            *)
Rank(q, m, n) == Number(gray_inverse(q, n) \cap (0..m-1))

LEMMA RankGrows ==
    ASSUME NEW n \in Nat, NEW q \in Indices(n)
    PROVE  /\ Rank(q, 0, n) = 0
           /\ Rank(q, n, n) = Number(gray_inverse(q, n))
           /\ \A m \in 0..n-1 :
                 Rank(q, m + 1, n) =
                    Rank(q, m, n) + (IF walsh_character(Generator(m, n), q) = -1 THEN 2^m ELSE 0)
           /\ \A m \in 0..n : Rank(q, m, n) \in 0..2^m-1
<1> DEFINE g == gray_inverse(q, n)
<1>1. g \in SUBSET (0..n-1)
  BY GrayInverseBits DEF Indices
<1>2. \A m \in 0..n-1 : m \in g <=> walsh_character(Generator(m, n), q) = -1
  BY GrayInverseBits DEF walsh_character, Generator
<1>3. \A m \in Nat : g \cap (0..m-1) \in SUBSET Nat /\ IsFiniteSet(g \cap (0..m-1))
  <2> TAKE m \in Nat
  <2>1. IsFiniteSet(0..m-1)
    BY FS_Interval
  <2> HIDE DEF g
  <2> QED BY <1>1, <2>1, FS_Subset
<1> HIDE DEF g
<1>4. \A m : Rank(q, m, n) = Number(g \cap (0..m-1))
  BY DEF Rank, g
<1>5. Rank(q, 0, n) = 0
  <2>1. g \cap (0..0-1) = {}
    OBVIOUS
  <2> QED BY <1>4, <2>1, NumberGrows
<1>6. Rank(q, n, n) = Number(g)
  <2>1. g \cap (0..n-1) = g
    BY <1>1
  <2> QED BY <1>4, <2>1
<1>7. ASSUME NEW m \in 0..n-1
      PROVE  Rank(q, m + 1, n) = Rank(q, m, n) + (IF m \in g THEN 2^m ELSE 0)
  <2> DEFINE a == g \cap (0..m+1-1)
  <2> DEFINE b == g \cap (0..m-1)
  <2>1. m \in Nat /\ m + 1 \in Nat
    OBVIOUS
  <2>2. a \in SUBSET Nat /\ IsFiniteSet(a) /\ b \in SUBSET Nat /\ IsFiniteSet(b)
    BY <1>3, <2>1
  <2>5. Rank(q, m + 1, n) = Number(a) /\ Rank(q, m, n) = Number(b)
    BY DEF Rank, g
  <2>3. CASE m \in g
    <3>1. m \in a /\ a \ {m} = b
      BY <2>3
    <3> HIDE DEF a, b
    <3>2. Number(a) = 2^m + Number(a \ {m})
      BY <2>2, <3>1, NumberGrows
    <3>3. Number(b) \in Int
      BY <2>2, NumberGrows
    <3>4. 2^m \in Int
      BY PowersGrow
    <3>5. \A x, y \in Int : x + y = y + x
      OBVIOUS
    <3> QED BY <2>3, <3>1, <3>2, <3>3, <3>4, <3>5, <2>5
  <2>4. CASE m \notin g
    <3>1. a = b
      BY <2>4
    <3> HIDE DEF a, b
    <3>2. Number(b) \in Int
      BY <2>2, NumberGrows
    <3>4. \A x \in Int : x = x + 0
      OBVIOUS
    <3> QED BY <2>4, <3>1, <3>2, <2>5, <3>4
  <2> QED BY <2>3, <2>4
<1> DEFINE Good == {m \in Nat : m <= n => Rank(q, m, n) \in 0..2^m-1}
<1>8. 0 \in Good
  BY <1>5, NextPower
<1>9. ASSUME NEW m \in Nat, m \in Good PROVE m + 1 \in Good
  <2> SUFFICES ASSUME m + 1 <= n PROVE Rank(q, m + 1, n) \in 0..2^(m + 1)-1
    OBVIOUS
  <2> DEFINE e == 2^m
  <2> DEFINE r == Rank(q, m, n)
  <2>1. m \in 0..n-1 /\ r \in 0..e-1
    BY <1>9
  <2>2. e \in Nat \ {0} /\ 2^(m + 1) = e * 2
    BY PowersGrow, NextPower
  <2>3. Rank(q, m + 1, n) = r + (IF m \in g THEN e ELSE 0)
    BY <1>7, <2>1
  <2> HIDE DEF e, r
  <2> QED BY <2>1, <2>2, <2>3
<1>10. Nat \subseteq Good
  <2> HIDE DEF Good
  <2> QED BY <1>8, <1>9, SetInduction
<1>11. \A m \in 0..n : Rank(q, m, n) \in 0..2^m-1
  BY <1>10
<1> QED BY <1>2, <1>5, <1>6, <1>7, <1>11 DEF g

Ramp(z, m, q, n) == Sample(z, Rank(q, m, n), 2^m)

LEMMA Angles ==
    ASSUME NEW z \in Gauss, NEW m \in Nat
    PROVE  /\ Power(z, 2^m) \in Gauss
           /\ Power(z, 2^m)[1] = Cos(z, m) /\ Power(z, 2^m)[2] = Sin(z, m)
           /\ Cos(z, m) \in Int /\ Sin(z, m) \in Int
<1>1. 2^m \in Nat
  BY PowersGrow
<1>2. Power(z, 2^m) \in Gauss
  BY <1>1, PowerGauss
<1> QED BY <1>2, GaussPairs DEF Cos, Sin

LEMMA RampGauss ==
    ASSUME NEW z \in Gauss, NEW n \in Nat, NEW q \in Indices(n)
    PROVE  /\ Ramp(z, 0, q, n) = <<1, 0>>
           /\ \A m \in 0..n : Ramp(z, m, q, n) \in Gauss
<1>1. Conj(z) \in Gauss
  BY ConjAt
<1>2. ASSUME NEW m \in 0..n PROVE Ramp(z, m, q, n) \in Gauss
  <2> DEFINE r == Rank(q, m, n)
  <2> DEFINE t == 2^m - 1 - r
  <2>1. r \in 0..2^m-1
    BY RankGrows
  <2>2. r \in Nat /\ t \in Nat
    BY <2>1, PowersGrow
  <2>3. Ramp(z, m, q, n) = Mul(Power(z, r), Power(Conj(z), t))
    BY DEF Ramp, Sample
  <2> HIDE DEF r, t
  <2>4. Power(z, r) \in Gauss /\ Power(Conj(z), t) \in Gauss
    BY <1>1, <2>2, PowerGauss
  <2> QED BY <2>3, <2>4, MulAt
<1>3. Ramp(z, 0, q, n) = <<1, 0>>
  <2>1. Rank(q, 0, n) = 0 /\ 2^0 = 1 /\ 1 - 1 - 0 = 0
    BY RankGrows, NextPower
  <2>2. Ramp(z, 0, q, n) = Mul(Power(z, 0), Power(Conj(z), 0))
    BY <2>1 DEF Ramp, Sample
  <2>3. Power(z, 0) = <<1, 0>> /\ Power(Conj(z), 0) = <<1, 0>>
    BY <1>1, PowerSteps
  <2>4. <<1, 0>> \in Gauss
    BY GaussPairs
  <2>5. Mul(<<1, 0>>, <<1, 0>>) = <<1, 0>>
    BY <2>4, MulByOne
  <2> QED BY <2>2, <2>3, <2>5
<1> QED BY <1>2, <1>3

LEMMA RampTurns ==
    ASSUME NEW z \in Gauss, NEW n \in Nat, NEW q \in Indices(n), NEW m \in 0..n-1
    PROVE  Ramp(z, m + 1, q, n) =
              Mul(Ramp(z, m, q, n),
                  IF walsh_character(Generator(m, n), q) = -1
                  THEN Power(z, 2^m) ELSE Conj(Power(z, 2^m)))
<1> DEFINE e == 2^m
<1> DEFINE r == Rank(q, m, n)
<1> DEFINE t == e - 1 - r
<1> DEFINE w == walsh_character(Generator(m, n), q)
<1> DEFINE y == Conj(z)
<1>1. y \in Gauss
  BY ConjAt
<1>2. e \in Nat \ {0} /\ 2^(m + 1) = e * 2
  BY PowersGrow, NextPower
<1>3. r \in 0..e-1
  <2>1. m \in 0..n
    OBVIOUS
  <2> QED BY <2>1, RankGrows
<1>4. Rank(q, m + 1, n) = r + (IF w = -1 THEN e ELSE 0)
  BY RankGrows
<1>5. r \in Nat /\ t \in Nat
  BY <1>2, <1>3
<1>6. Ramp(z, m, q, n) = Mul(Power(z, r), Power(y, t))
  BY DEF Ramp, Sample
<1>7. Ramp(z, m + 1, q, n) = Mul(Power(z, Rank(q, m + 1, n)), Power(y, 2^(m + 1) - 1 - Rank(q, m + 1, n)))
  BY DEF Ramp, Sample
<1>8. (r + e <= e * 2) /\ e * 2 - 1 - (r + e) = t /\ e * 2 - 1 - (r + 0) = t + e /\ r + 0 = r
  BY <1>2, <1>3
<1>9. Power(y, e) = Conj(Power(z, e))
  BY <1>2, PowerOfConj
<1> HIDE DEF e, r, t, w, y
<1> DEFINE a == Power(z, r)
<1> DEFINE b == Power(y, t)
<1> DEFINE ze == Power(z, e)
<1> DEFINE ye == Power(y, e)
<1>10. a \in Gauss /\ b \in Gauss /\ ze \in Gauss /\ ye \in Gauss
  BY <1>1, <1>2, <1>5, PowerGauss
<1>11. Power(z, r + e) = Mul(a, ze)
  BY <1>2, <1>5, PowersAdd
<1>12. Power(y, t + e) = Mul(b, ye)
  BY <1>1, <1>2, <1>5, PowersAdd
<1> HIDE DEF a, b, ze, ye
<1>13. CASE w = -1
  <2>1. Ramp(z, m + 1, q, n) = Mul(Mul(a, ze), b)
    BY <1>2, <1>4, <1>7, <1>8, <1>11, <1>13 DEF b
  <2>2. Mul(Mul(a, ze), b) = Mul(a, Mul(ze, b)) /\ Mul(ze, b) = Mul(b, ze)
    BY <1>10, MulAssociates, MulCommutes
  <2>3. Mul(Mul(a, b), ze) = Mul(a, Mul(b, ze))
    BY <1>10, MulAssociates
  <2>4. Ramp(z, m + 1, q, n) = Mul(Mul(a, b), ze)
    BY <2>1, <2>2, <2>3
  <2> QED BY <1>6, <1>13, <2>4 DEF a, b, ze, e, w
<1>14. CASE w # -1
  <2>1. Ramp(z, m + 1, q, n) = Mul(a, Mul(b, ye))
    BY <1>2, <1>4, <1>7, <1>8, <1>12, <1>14 DEF a
  <2>2. Mul(Mul(a, b), ye) = Mul(a, Mul(b, ye))
    BY <1>10, MulAssociates
  <2> QED BY <1>6, <1>9, <1>14, <2>1, <2>2 DEF a, b, ye, e, w
<1> QED BY <1>13, <1>14

LEMMA RampGrows ==
    ASSUME NEW z \in Gauss, NEW n \in Nat, NEW q \in Indices(n), NEW m \in 0..n-1
    PROVE  LET w == walsh_character(Generator(m, n), q)
               a == Ramp(z, m, q, n)
           IN /\ Ramp(z, m + 1, q, n)[1] = Cos(z, m) * a[1] + Sin(z, m) * (a[2] * w)
              /\ Ramp(z, m + 1, q, n)[2] = Cos(z, m) * a[2] - Sin(z, m) * (a[1] * w)
<1> DEFINE w == walsh_character(Generator(m, n), q)
<1> DEFINE a == Ramp(z, m, q, n)
<1> DEFINE p == Power(z, 2^m)
<1> DEFINE c == Cos(z, m)
<1> DEFINE s == Sin(z, m)
<1> DEFINE next == Ramp(z, m + 1, q, n)
<1>1. a \in Gauss
  <2>1. m \in 0..n
    OBVIOUS
  <2> QED BY <2>1, RampGauss
<1>2. p \in Gauss /\ p[1] = c /\ p[2] = s /\ c \in Int /\ s \in Int
  BY Angles
<1>3. w \in {-1, 1}
  BY DEF walsh_character
<1>4. next = Mul(a, IF w = -1 THEN p ELSE Conj(p))
  BY RampTurns
<1>5. Conj(p) \in Gauss /\ Conj(p)[1] = p[1] /\ Conj(p)[2] = 0 - p[2]
  <2> HIDE DEF p
  <2> QED BY <1>2, ConjAt
<1> HIDE DEF w, a, p, c, s, next
<1>6. a[1] \in Int /\ a[2] \in Int
  BY <1>1, GaussPairs
<1>7. CASE w = -1
  <2>1. next[1] = a[1] * p[1] - a[2] * p[2] /\ next[2] = a[1] * p[2] + a[2] * p[1]
    BY <1>1, <1>2, <1>4, <1>7, MulAt
  <2>2. \A x, y, u, v \in Int : /\ x * u - y * v = u * x + v * (y * (-1))
                                /\ x * v + y * u = u * y - v * (x * (-1))
    OBVIOUS
  <2>3. next[1] = c * a[1] + s * (a[2] * w) /\ next[2] = c * a[2] - s * (a[1] * w)
    BY <1>2, <1>6, <1>7, <2>1, <2>2
  <2> QED BY <2>3 DEF w, a, c, s, next
<1>8. CASE w = 1
  <2>1. /\ next[1] = a[1] * Conj(p)[1] - a[2] * Conj(p)[2]
        /\ next[2] = a[1] * Conj(p)[2] + a[2] * Conj(p)[1]
    BY <1>1, <1>4, <1>5, <1>8, MulAt
  <2>2. \A x, y, u, v \in Int : /\ x * u - y * (0 - v) = u * x + v * (y * 1)
                                /\ x * (0 - v) + y * u = u * y - v * (x * 1)
    OBVIOUS
  <2>3. next[1] = c * a[1] + s * (a[2] * w) /\ next[2] = c * a[2] - s * (a[1] * w)
    BY <1>2, <1>5, <1>6, <1>8, <2>1, <2>2
  <2> QED BY <2>3 DEF w, a, c, s, next
<1> QED BY <1>3, <1>7, <1>8

-----------------------------------------------------------------------------
(* How a factor of the ramp moves its transform.                           *)
LEMMA FwhtCombines ==
    ASSUME NEW n \in Nat, NEW f \in Signals(n), NEW g \in Signals(n), NEW G \in Indices(n),
           NEW h \in Signals(n), NEW c \in Int, NEW d \in Int,
           \A q \in Indices(n) : h[q] = c * f[q] - d * (g[q] * walsh_character(G, q)),
           NEW S \in Indices(n)
    PROVE  /\ Xor(S, G) \in Indices(n)
           /\ fwht(h, n)[S] = c * fwht(f, n)[S] - d * fwht(g, n)[Xor(S, G)]
<1> DEFINE u == [q \in Indices(n) |-> g[q] * walsh_character(G, q)]
<1> DEFINE zero == [q \in Indices(n) |-> 0]
<1> DEFINE cf == [q \in Indices(n) |-> c * f[q]]
<1>1. \A q \in Indices(n) : f[q] \in Int /\ g[q] \in Int /\ walsh_character(G, q) \in Int
  BY DEF Signals, walsh_character
<1>2. \A x, y \in Int : x * y \in Int
  OBVIOUS
<1>3. u \in Signals(n) /\ \A q \in Indices(n) : u[q] = g[q] * walsh_character(G, q)
  <2>1. \A q \in Indices(n) : g[q] * walsh_character(G, q) \in Int
    BY <1>1, <1>2
  <2> QED BY <2>1 DEF Signals
<1>4. zero \in Signals(n) /\ \A q \in Indices(n) : zero[q] = 0
  BY DEF Signals
<1>5. cf \in Signals(n) /\ \A q \in Indices(n) : cf[q] = c * f[q]
  <2>1. \A q \in Indices(n) : c * f[q] \in Int
    BY <1>1, <1>2
  <2> QED BY <2>1 DEF Signals
<1> HIDE DEF u, zero, cf
<1> DEFINE e == 0 - c
<1>6. e \in Int /\ \A x \in Int : c * x = 0 - e * x
  OBVIOUS
<1> HIDE DEF e
<1>7. \A q \in Indices(n) : cf[q] = zero[q] - e * f[q]
  BY <1>1, <1>4, <1>5, <1>6
<1>8. fwht(cf, n)[S] = fwht(zero, n)[S] - e * fwht(f, n)[S]
  BY <1>4, <1>5, <1>6, <1>7, FwhtLess
<1>9. fwht(zero, n)[S] = 0
  BY <1>4, FwhtOfZero
<1>10. fwht(f, n)[S] \in Int
  BY FwhtSignal DEF Signals
<1>11. fwht(cf, n)[S] = c * fwht(f, n)[S]
  BY <1>6, <1>8, <1>9, <1>10
<1>12. \A q \in Indices(n) : h[q] = cf[q] - d * u[q]
  BY <1>3, <1>5
<1>13. fwht(h, n)[S] = fwht(cf, n)[S] - d * fwht(u, n)[S]
  BY <1>3, <1>5, <1>12, FwhtLess
<1>14. Xor(S, G) \in Indices(n) /\ fwht(u, n)[S] = fwht(g, n)[Xor(S, G)]
  BY <1>3, FwhtModulated
<1> QED BY <1>11, <1>13, <1>14

-----------------------------------------------------------------------------
(* The closed form, generator by generator.                                *)
Factor(z, c, k) == IF k \in c THEN <<0, - Sin(z, k)>> ELSE <<Cos(z, k), 0>>
Factors(z, c, r, n) ==
    r = [k \in 0..n |-> IF k = 0 THEN <<1, 0>> ELSE Mul(r[k - 1], Factor(z, c, k - 1))]

LEMMA FactorsExist == ASSUME NEW z, NEW c, NEW n \in Nat PROVE \E r : Factors(z, c, r, n)
<1> DEFINE Defined == {m \in Nat : \E r : Factors(z, c, r, m)}
<1>1. 0 \in Defined
  <2> DEFINE r == [k \in 0..0 |-> <<1, 0>>]
  <2>1. r = [k \in 0..0 |-> IF k = 0 THEN <<1, 0>> ELSE Mul(r[k - 1], Factor(z, c, k - 1))]
    OBVIOUS
  <2> QED BY <2>1 DEF Factors
<1>2. ASSUME NEW m \in Nat, m \in Defined PROVE m + 1 \in Defined
  <2>1. PICK r : Factors(z, c, r, m)
    BY <1>2
  <2>2. \A k \in 0..m : r[k] = IF k = 0 THEN <<1, 0>> ELSE Mul(r[k - 1], Factor(z, c, k - 1))
    BY <2>1 DEF Factors
  <2> DEFINE g == [k \in 0..m+1 |-> IF k = m + 1 THEN Mul(r[m], Factor(z, c, m)) ELSE r[k]]
  <2>3. \A k \in 0..m : g[k] = r[k]
    OBVIOUS
  <2>4. g[m + 1] = Mul(r[m], Factor(z, c, m))
    OBVIOUS
  <2>5. g = [k \in 0..m+1 |-> g[k]]
    OBVIOUS
  <2> HIDE DEF g
  <2>6. \A k \in 0..m+1 : g[k] = IF k = 0 THEN <<1, 0>> ELSE Mul(g[k - 1], Factor(z, c, k - 1))
    <3> TAKE k \in 0..m+1
    <3>1. CASE k = m + 1
      <4>1. k - 1 = m /\ k # 0 /\ g[m] = r[m]
        BY <2>3, <3>1
      <4> QED BY <2>4, <3>1, <4>1
    <3>2. CASE k \in 1..m
      <4>1. k - 1 \in 0..m /\ k \in 0..m /\ k # 0
        BY <3>2
      <4> QED BY <2>2, <2>3, <4>1
    <3>3. CASE k = 0
      BY <2>2, <2>3, <3>3
    <3> QED BY <3>1, <3>2, <3>3
  <2>7. Factors(z, c, g, m + 1)
    BY <2>5, <2>6 DEF Factors
  <2> QED BY <2>7
<1>3. Nat \subseteq Defined
  <2> HIDE DEF Defined
  <2> QED BY <1>1, <1>2, SetInduction
<1> QED BY <1>3

Turned(z, c, n, k) == (CHOOSE r : Factors(z, c, r, n))[k]

LEMMA TurnedSteps ==
    ASSUME NEW z \in Gauss, NEW n \in Nat, NEW c
    PROVE  /\ Coefficient(z, n, c) = Turned(z, c, n, n)
           /\ Turned(z, c, n, 0) = <<1, 0>>
           /\ \A k \in 0..n-1 : Turned(z, c, n, k + 1) = Mul(Turned(z, c, n, k), Factor(z, c, k))
           /\ \A k \in 0..n : Turned(z, c, n, k) \in Gauss
<1> DEFINE r == CHOOSE r : Factors(z, c, r, n)
<1>1. Factors(z, c, r, n)
  BY FactorsExist
<1>2. Coefficient(z, n, c) = r[n]
  BY DEF Coefficient, Factors, Factor
<1>3. \A k : Turned(z, c, n, k) = r[k]
  BY DEF Turned
<1> HIDE DEF r
<1>4. r[0] = <<1, 0>>
  BY <1>1 DEF Factors
<1>5. \A k \in 0..n-1 : r[k + 1] = Mul(r[k], Factor(z, c, k))
  <2> TAKE k \in 0..n-1
  <2>1. k + 1 \in 0..n /\ k + 1 # 0 /\ (k + 1) - 1 = k
    OBVIOUS
  <2>2. \A i \in 0..n : r[i] = IF i = 0 THEN <<1, 0>> ELSE Mul(r[i - 1], Factor(z, c, i - 1))
    BY <1>1 DEF Factors
  <2> QED BY <2>1, <2>2
<1>6. ASSUME NEW k \in Nat PROVE Factor(z, c, k) \in Gauss
  <2>1. Sin(z, k) \in Int /\ Cos(z, k) \in Int
    BY Angles
  <2>2. - Sin(z, k) \in Int
    BY <2>1
  <2> QED BY <2>1, <2>2, GaussPairs DEF Factor
<1> DEFINE Good == {k \in Nat : k <= n => r[k] \in Gauss}
<1>7. 0 \in Good
  BY <1>4, GaussPairs
<1>8. ASSUME NEW k \in Nat, k \in Good PROVE k + 1 \in Good
  <2> SUFFICES ASSUME k + 1 <= n PROVE r[k + 1] \in Gauss
    OBVIOUS
  <2>1. k \in 0..n-1 /\ r[k] \in Gauss
    BY <1>8
  <2> QED BY <1>5, <1>6, <2>1, MulAt
<1>9. Nat \subseteq Good
  <2> HIDE DEF Good
  <2> QED BY <1>7, <1>8, SetInduction
<1>10. \A k \in 0..n : r[k] \in Gauss
  BY <1>9
<1> QED BY <1>2, <1>3, <1>4, <1>5, <1>10

LEMMA TurnedParts ==
    ASSUME NEW z \in Gauss, NEW n \in Nat, NEW c, NEW k \in 0..n-1
    PROVE  LET a == Turned(z, c, n, k)
               b == Turned(z, c, n, k + 1)
           IN /\ a[1] \in Int /\ a[2] \in Int
              /\ k \in c => b[1] = Sin(z, k) * a[2] /\ b[2] = 0 - Sin(z, k) * a[1]
              /\ k \notin c => b[1] = Cos(z, k) * a[1] /\ b[2] = Cos(z, k) * a[2]
<1> DEFINE a == Turned(z, c, n, k)
<1> DEFINE b == Turned(z, c, n, k + 1)
<1> DEFINE s == Sin(z, k)
<1> DEFINE x == Cos(z, k)
<1>1. k \in 0..n /\ k \in Nat
  OBVIOUS
<1>2. a \in Gauss /\ b = Mul(a, Factor(z, c, k))
  BY <1>1, TurnedSteps
<1>3. s \in Int /\ x \in Int
  BY <1>1, Angles
<1>4. Factor(z, c, k) = IF k \in c THEN <<0, - s>> ELSE <<x, 0>>
  BY DEF Factor
<1> HIDE DEF a, b, s, x
<1>5. a[1] \in Int /\ a[2] \in Int
  BY <1>2, GaussPairs
<1>6. ASSUME k \in c PROVE b[1] = s * a[2] /\ b[2] = 0 - s * a[1]
  <2> DEFINE y == <<0, - s>>
  <2>1. - s \in Int /\ - s = 0 - s
    BY <1>3
  <2>2. y \in Gauss /\ y[1] = 0 /\ y[2] = 0 - s
    BY <2>1, GaussPairs
  <2>3. b = Mul(a, y)
    BY <1>2, <1>4, <1>6
  <2> HIDE DEF y
  <2>4. b[1] = a[1] * y[1] - a[2] * y[2] /\ b[2] = a[1] * y[2] + a[2] * y[1]
    BY <1>2, <2>2, <2>3, MulAt
  <2>5. \A p, q, t \in Int : p * 0 - q * (0 - t) = t * q /\ p * (0 - t) + q * 0 = 0 - t * p
    OBVIOUS
  <2> QED BY <1>3, <1>5, <2>2, <2>4, <2>5
<1>7. ASSUME k \notin c PROVE b[1] = x * a[1] /\ b[2] = x * a[2]
  <2> DEFINE y == <<x, 0>>
  <2>2. y \in Gauss /\ y[1] = x /\ y[2] = 0
    BY <1>3, GaussPairs
  <2>3. b = Mul(a, y)
    BY <1>2, <1>4, <1>7
  <2> HIDE DEF y
  <2>4. b[1] = a[1] * y[1] - a[2] * y[2] /\ b[2] = a[1] * y[2] + a[2] * y[1]
    BY <1>2, <2>2, <2>3, MulAt
  <2>5. \A p, q, t \in Int : p * t - q * 0 = t * p /\ p * 0 + q * t = t * q
    OBVIOUS
  <2> QED BY <1>3, <1>5, <2>2, <2>4, <2>5
<1> QED BY <1>5, <1>6, <1>7 DEF a, b, s, x

(* The transforms of the two parts of the ramp.                            *)
RampPart(z, m, n, part) == [q \in Indices(n) |-> Ramp(z, m, q, n)[part]]

LEMMA RampParts ==
    ASSUME NEW z \in Gauss, NEW n \in Nat
    PROVE  /\ \A m \in 0..n : RampPart(z, m, n, 1) \in Signals(n) /\ RampPart(z, m, n, 2) \in Signals(n)
           /\ RampPart(z, 0, n, 1) = Character({}, n)
           /\ \A q \in Indices(n) : RampPart(z, 0, n, 2)[q] = 0
<1>1. ASSUME NEW m \in 0..n, NEW q \in Indices(n)
      PROVE  Ramp(z, m, q, n)[1] \in Int /\ Ramp(z, m, q, n)[2] \in Int
  BY RampGauss, GaussPairs
<1>2. ASSUME NEW q \in Indices(n) PROVE Ramp(z, 0, q, n)[1] = 1 /\ Ramp(z, 0, q, n)[2] = 0
  BY RampGauss, GaussPairs
<1>3. \A q \in Indices(n) : walsh_character({}, q) = 1
  BY EmptyCharacter
<1>4. RampPart(z, 0, n, 1) = Character({}, n)
  BY <1>2, <1>3 DEF RampPart, Character
<1>5. \A q \in Indices(n) : RampPart(z, 0, n, 2)[q] = 0
  BY <1>2 DEF RampPart
<1>6. \A m \in 0..n : RampPart(z, m, n, 1) \in Signals(n) /\ RampPart(z, m, n, 2) \in Signals(n)
  BY <1>1 DEF RampPart, Signals
<1> QED BY <1>4, <1>5, <1>6

LEMMA RampPartsMove ==
    ASSUME NEW z \in Gauss, NEW n \in Nat, NEW m \in 0..n-1, NEW c \in SUBSET (0..n-1)
    PROVE  LET at == Combo(c, n)
               moved == Combo(Xor(c, {m}), n)
               real == fwht(RampPart(z, m, n, 1), n)
               imaginary == fwht(RampPart(z, m, n, 2), n)
           IN /\ fwht(RampPart(z, m + 1, n, 1), n)[at]
                    = Cos(z, m) * real[at] + Sin(z, m) * imaginary[moved]
              /\ fwht(RampPart(z, m + 1, n, 2), n)[at]
                    = Cos(z, m) * imaginary[at] - Sin(z, m) * real[moved]
              /\ real[at] \in Int /\ imaginary[at] \in Int
              /\ real[moved] \in Int /\ imaginary[moved] \in Int
<1> DEFINE at == Combo(c, n)
<1> DEFINE moved == Combo(Xor(c, {m}), n)
<1> DEFINE f == RampPart(z, m, n, 1)
<1> DEFINE g == RampPart(z, m, n, 2)
<1> DEFINE f1 == RampPart(z, m + 1, n, 1)
<1> DEFINE g1 == RampPart(z, m + 1, n, 2)
<1> DEFINE C == Cos(z, m)
<1> DEFINE S == Sin(z, m)
<1> DEFINE G == Generator(m, n)
<1>1. m \in 0..n /\ m + 1 \in 0..n /\ m \in Nat
  OBVIOUS
<1>2. f \in Signals(n) /\ g \in Signals(n)
  BY <1>1, RampParts
<1>3. f1 \in Signals(n) /\ g1 \in Signals(n)
  BY <1>1, RampParts
<1>4. C \in Int /\ S \in Int
  BY <1>1, Angles
<1>5. G \in Indices(n)
  BY GeneratorsDiffer
<1>6. at \in Indices(n) /\ moved = Xor(at, G) /\ moved \in Indices(n)
  <2>1. Xor(c, {m}) \in SUBSET (0..n-1) /\ moved = Xor(at, G)
    BY ComboToggles
  <2> QED BY <2>1, SubsetOfCombo
<1>7. ASSUME NEW q \in Indices(n)
      PROVE  /\ f1[q] = C * f[q] + S * (g[q] * walsh_character(G, q))
             /\ g1[q] = C * g[q] - S * (f[q] * walsh_character(G, q))
  BY RampGrows DEF RampPart
<1>8. \A q \in Indices(n) : f[q] \in Int /\ g[q] \in Int /\ walsh_character(G, q) \in Int
  BY <1>2 DEF Signals, walsh_character
<1> HIDE DEF at, moved, f, g, f1, g1, C, S, G
<1> DEFINE D == 0 - S
<1>9. D \in Int /\ \A x \in Int : S * x = 0 - D * x
  BY <1>4
<1>10. \A x, y \in Int : x * y \in Int
  OBVIOUS
<1> HIDE DEF D
<1>11. \A q \in Indices(n) : f1[q] = C * f[q] - D * (g[q] * walsh_character(G, q))
  <2> TAKE q \in Indices(n)
  <2> DEFINE x == g[q] * walsh_character(G, q)
  <2> DEFINE y == C * f[q]
  <2>1. x \in Int /\ y \in Int /\ f1[q] = y + S * x
    BY <1>4, <1>7, <1>8, <1>10
  <2> HIDE DEF x, y
  <2>2. D * x \in Int /\ S * x = 0 - D * x
    BY <1>9, <1>10, <2>1
  <2>3. f1[q] = y - D * x
    BY <2>1, <2>2
  <2> QED BY <2>3 DEF x, y
<1>12. fwht(f1, n)[at] = C * fwht(f, n)[at] - D * fwht(g, n)[Xor(at, G)]
  <2>1. /\ n \in Nat /\ f \in Signals(n) /\ g \in Signals(n) /\ f1 \in Signals(n)
        /\ G \in Indices(n) /\ C \in Int /\ D \in Int /\ at \in Indices(n)
    BY <1>2, <1>3, <1>4, <1>5, <1>6, <1>9
  <2> QED BY <1>11, <2>1, FwhtCombines
<1>13. \A q \in Indices(n) : g1[q] = C * g[q] - S * (f[q] * walsh_character(G, q))
  BY <1>7
<1>14. fwht(g1, n)[at] = C * fwht(g, n)[at] - S * fwht(f, n)[Xor(at, G)]
  <2>1. /\ n \in Nat /\ f \in Signals(n) /\ g \in Signals(n) /\ g1 \in Signals(n)
        /\ G \in Indices(n) /\ C \in Int /\ S \in Int /\ at \in Indices(n)
    BY <1>2, <1>3, <1>4, <1>5, <1>6
  <2> QED BY <1>13, <2>1, FwhtCombines
<1>15. fwht(f, n) \in Signals(n) /\ fwht(g, n) \in Signals(n)
  BY <1>2, FwhtSignal
<1>16. /\ fwht(f, n)[at] \in Int /\ fwht(g, n)[at] \in Int
       /\ fwht(f, n)[moved] \in Int /\ fwht(g, n)[moved] \in Int
  BY <1>6, <1>15 DEF Signals
<1>17. fwht(f1, n)[at] = C * fwht(f, n)[at] + S * fwht(g, n)[moved]
  <2> DEFINE x == fwht(g, n)[moved]
  <2> DEFINE y == C * fwht(f, n)[at]
  <2>1. x \in Int /\ y \in Int
    BY <1>4, <1>10, <1>16
  <2>2. fwht(f1, n)[at] = y - D * x
    BY <1>6, <1>12
  <2> HIDE DEF x, y
  <2>3. D * x \in Int /\ S * x = 0 - D * x
    BY <1>9, <1>10, <2>1
  <2>4. fwht(f1, n)[at] = y + S * x
    BY <2>1, <2>2, <2>3
  <2> QED BY <2>4 DEF x, y
<1> QED BY <1>6, <1>14, <1>16, <1>17 DEF at, moved, f, g, f1, g1, C, S

LEMMA RampSpectrum ==
    ASSUME NEW z \in Gauss, NEW n \in Nat, NEW d \in SUBSET (0..n-1)
    PROVE  /\ fwht(RampPart(z, n, n, 1), n)[Combo(d, n)] = 2^n * Turned(z, d, n, n)[1]
           /\ fwht(RampPart(z, n, n, 2), n)[Combo(d, n)] = 2^n * Turned(z, d, n, n)[2]
<1> DEFINE re(m) == fwht(RampPart(z, m, n, 1), n)
<1> DEFINE im(m) == fwht(RampPart(z, m, n, 2), n)
<1> DEFINE N == 2^n
<1> DEFINE Low(m) == d \cap (0..m-1)
<1> DEFINE T(m) == Turned(z, d, n, m)
<1> DEFINE Inside(m) == /\ re(m)[Combo(Low(m), n)] = N * T(m)[1]
                        /\ im(m)[Combo(Low(m), n)] = N * T(m)[2]
<1> DEFINE Outside(m) ==
        \A c \in SUBSET (0..n-1) :
            ~(c \subseteq 0..m-1) => re(m)[Combo(c, n)] = 0 /\ im(m)[Combo(c, n)] = 0
<1> DEFINE Good == {m \in Nat : m <= n => Inside(m) /\ Outside(m)}
<1>1. N \in Int
  BY PowersGrow
<1>2. 0 \in Good
  <2> SUFFICES Inside(0) /\ Outside(0)
    OBVIOUS
  <2>1. \A S \in Indices(n) : re(0)[S] = IF S = {} THEN N ELSE 0
    <3>1. {} \in Indices(n) /\ RampPart(z, 0, n, 1) = Character({}, n)
      BY RampParts DEF Indices
    <3> QED BY <3>1, Orthogonal
  <2>2. \A S \in Indices(n) : im(0)[S] = 0
    <3>1. RampPart(z, 0, n, 2) \in Signals(n) /\ \A q \in Indices(n) : RampPart(z, 0, n, 2)[q] = 0
      BY RampParts
    <3> DEFINE f == RampPart(z, 0, n, 2)
    <3>2. f \in Signals(n) /\ \A q \in Indices(n) : f[q] = 0
      BY <3>1
    <3> HIDE DEF f
    <3>3. \A S \in Indices(n) : fwht(f, n)[S] = 0
      BY <3>2, FwhtOfZero
    <3> QED BY <3>3 DEF f
  <2>3. T(0)[1] = 1 /\ T(0)[2] = 0
    BY TurnedSteps, GaussPairs
  <2>4. Low(0) = {} /\ Combo({}, n) = {} /\ {} \in Indices(n)
    BY EmptyCombo DEF Indices
  <2>5. N * 1 = N /\ N * 0 = 0
    BY <1>1
  <2> HIDE DEF re, im, N, T
  <2>6. Inside(0)
    BY <2>1, <2>2, <2>3, <2>4, <2>5
  <2>7. Outside(0)
    <3> SUFFICES ASSUME NEW c \in SUBSET (0..n-1), c # {}
                 PROVE  re(0)[Combo(c, n)] = 0 /\ im(0)[Combo(c, n)] = 0
      OBVIOUS
    <3>1. Combo(c, n) \in Indices(n)
      BY SubsetOfCombo
    <3>2. Combo(c, n) # {}
      <4>1. {} \in SUBSET (0..n-1)
        OBVIOUS
      <4> QED BY <2>4, <4>1, CombosDiffer
    <3> QED BY <2>1, <2>2, <3>1, <3>2
  <2> QED BY <2>6, <2>7
<1>3. ASSUME NEW m \in Nat, m \in Good PROVE m + 1 \in Good
  <2> SUFFICES ASSUME m + 1 <= n PROVE Inside(m + 1) /\ Outside(m + 1)
    OBVIOUS
  <2> DEFINE C == Cos(z, m)
  <2> DEFINE S == Sin(z, m)
  <2>1. m <= n /\ m \in 0..n-1
    OBVIOUS
  <2>2. Inside(m) /\ Outside(m)
    <3> HIDE DEF Inside, Outside
    <3> QED BY <1>3, <2>1
  <2>3. C \in Int /\ S \in Int
    BY Angles
  <2>4. ASSUME NEW c \in SUBSET (0..n-1)
        PROVE  /\ re(m + 1)[Combo(c, n)]
                     = C * re(m)[Combo(c, n)] + S * im(m)[Combo(Xor(c, {m}), n)]
               /\ im(m + 1)[Combo(c, n)]
                     = C * im(m)[Combo(c, n)] - S * re(m)[Combo(Xor(c, {m}), n)]
    BY <2>1, RampPartsMove
  <2>5. /\ T(m)[1] \in Int /\ T(m)[2] \in Int
        /\ m \in d => T(m + 1)[1] = S * T(m)[2] /\ T(m + 1)[2] = 0 - S * T(m)[1]
        /\ m \notin d => T(m + 1)[1] = C * T(m)[1] /\ T(m + 1)[2] = C * T(m)[2]
    BY <2>1, TurnedParts
  <2>6. \A x, y, t \in Int : /\ x * (y * t) = y * (x * t)
                             /\ x * 0 + y * (t * x) = t * (y * x)
    OBVIOUS
  <2>7. Low(m) \in SUBSET (0..n-1) /\ Low(m + 1) \in SUBSET (0..n-1)
    OBVIOUS
  <2> HIDE DEF re, im, N, T, C, S
  <2>8. Inside(m + 1)
    <3>1. CASE m \in d
      <4>1. Xor(Low(m + 1), {m}) = Low(m)
        BY <2>1, <3>1 DEF Xor
      <4>2. ~(Low(m + 1) \subseteq 0..m-1)
        BY <2>1, <3>1
      <4>3. re(m)[Combo(Low(m + 1), n)] = 0 /\ im(m)[Combo(Low(m + 1), n)] = 0
        BY <2>2, <2>7, <4>2
      <4>4. re(m)[Combo(Low(m), n)] = N * T(m)[1] /\ im(m)[Combo(Low(m), n)] = N * T(m)[2]
        BY <2>2
      <4>5. /\ re(m + 1)[Combo(Low(m + 1), n)] = C * 0 + S * (N * T(m)[2])
            /\ im(m + 1)[Combo(Low(m + 1), n)] = C * 0 - S * (N * T(m)[1])
        BY <2>4, <2>7, <4>1, <4>3, <4>4
      <4>6. \A x, y, t, u \in Int : x * 0 + y * (u * t) = u * (y * t)
                                    /\ x * 0 - y * (u * t) = u * (0 - y * t)
        OBVIOUS
      <4>7. /\ C * 0 + S * (N * T(m)[2]) = N * (S * T(m)[2])
            /\ C * 0 - S * (N * T(m)[1]) = N * (0 - S * T(m)[1])
        BY <1>1, <2>3, <2>5, <4>6 DEF N
      <4> QED BY <2>5, <3>1, <4>5, <4>7
    <3>2. CASE m \notin d
      <4>1. Low(m + 1) = Low(m)
        BY <2>1, <3>2
      <4>2. ~(Xor(Low(m), {m}) \subseteq 0..m-1) /\ Xor(Low(m), {m}) \in SUBSET (0..n-1)
        BY <2>1, <3>2 DEF Xor
      <4>3. /\ re(m)[Combo(Xor(Low(m), {m}), n)] = 0
            /\ im(m)[Combo(Xor(Low(m), {m}), n)] = 0
        BY <2>2, <4>2
      <4>4. re(m)[Combo(Low(m), n)] = N * T(m)[1] /\ im(m)[Combo(Low(m), n)] = N * T(m)[2]
        BY <2>2
      <4>5. /\ re(m + 1)[Combo(Low(m), n)] = C * (N * T(m)[1]) + S * 0
            /\ im(m + 1)[Combo(Low(m), n)] = C * (N * T(m)[2]) - S * 0
        BY <2>4, <2>7, <4>3, <4>4
      <4>6. \A x, y, t, u \in Int : x * (u * t) + y * 0 = u * (x * t)
                                    /\ x * (u * t) - y * 0 = u * (x * t)
        OBVIOUS
      <4>7. /\ C * (N * T(m)[1]) + S * 0 = N * (C * T(m)[1])
            /\ C * (N * T(m)[2]) - S * 0 = N * (C * T(m)[2])
        BY <1>1, <2>3, <2>5, <4>6 DEF N
      <4> QED BY <2>5, <3>2, <4>1, <4>5, <4>7
    <3> QED BY <3>1, <3>2
  <2>9. Outside(m + 1)
    <3> SUFFICES ASSUME NEW c \in SUBSET (0..n-1), ~(c \subseteq 0..m+1-1)
                 PROVE  re(m + 1)[Combo(c, n)] = 0 /\ im(m + 1)[Combo(c, n)] = 0
      OBVIOUS
    <3>1. /\ ~(c \subseteq 0..m-1) /\ ~(Xor(c, {m}) \subseteq 0..m-1)
          /\ Xor(c, {m}) \in SUBSET (0..n-1)
      <4>1. PICK x \in c : x \notin 0..m+1-1
        OBVIOUS
      <4>2. x # m /\ x \notin 0..m-1
        BY <2>1, <4>1
      <4> QED BY <2>1, <4>1, <4>2 DEF Xor
    <3>2. re(m)[Combo(c, n)] = 0 /\ im(m)[Combo(c, n)] = 0
      BY <2>2, <3>1
    <3>3. re(m)[Combo(Xor(c, {m}), n)] = 0 /\ im(m)[Combo(Xor(c, {m}), n)] = 0
      BY <2>2, <3>1
    <3>4. C * 0 + S * 0 = 0 /\ C * 0 - S * 0 = 0
      BY <2>3
    <3> QED BY <2>4, <3>2, <3>3, <3>4
  <2> QED BY <2>8, <2>9
<1>4. n \in Good
  <2> HIDE DEF Good
  <2> QED BY <1>2, <1>3, SetInduction
<1>5. Inside(n)
  <2> HIDE DEF Inside, Outside
  <2> QED BY <1>4
<1>6. Low(n) = d
  OBVIOUS
<1> QED BY <1>5, <1>6

-----------------------------------------------------------------------------
(* Energies of the closed form, shell by shell.                            *)
LEMMA SumApart ==
    ASSUME NEW f, NEW A, IsFiniteSet(A), NEW B, IsFiniteSet(B), A \cap B = {},
           Integral(f, A), Integral(f, B)
    PROVE  SumFunctionOnSet(f, A \cup B) = SumFunctionOnSet(f, A) + SumFunctionOnSet(f, B)
<1> DEFINE F(T) == SumFunctionOnSet(f, T)
<1> DEFINE Good == {T \in SUBSET B : F(A \cup T) = F(A) + F(T)}
<1>1. F(A) \in Int
  BY SumOne DEF Integral
<1>2. {} \in Good
  <2>1. F({}) = 0 /\ A \cup {} = A
    BY SumNone
  <2> HIDE DEF F
  <2>2. F(A \cup {}) = F(A) + F({})
    BY <1>1, <2>1
  <2> QED BY <2>2
<1>3. ASSUME NEW T \in SUBSET B, NEW x \in B, T \in Good, x \notin T PROVE T \cup {x} \in Good
  <2> DEFINE U == T \cup {x}
  <2> DEFINE W == A \cup U
  <2>1. IsFiniteSet(T) /\ IsFiniteSet(U) /\ IsFiniteSet(W)
    BY FS_Subset, FS_AddElement, FS_Union
  <2>2. x \in U /\ x \in W /\ U \ {x} = T /\ W \ {x} = A \cup T
    BY <1>3
  <2>3. (\A y \in U : f[y] \in Int) /\ (\A y \in W : f[y] \in Int) /\ (\A y \in T : f[y] \in Int)
    BY DEF Integral
  <2>4. F(A \cup T) = F(A) + F(T)
    BY <1>3
  <2> HIDE DEF U, W
  <2>5. F(U) = f[x] + F(U \ {x})
    BY <2>1, <2>2, <2>3, SumOne
  <2>6. F(W) = f[x] + F(W \ {x})
    BY <2>1, <2>2, <2>3, SumOne
  <2>7. F(T) \in Int
    BY <2>1, <2>3, SumOne
  <2>8. f[x] \in Int
    BY DEF Integral
  <2> HIDE DEF F
  <2>9. F(U) = f[x] + F(T) /\ F(W) = f[x] + (F(A) + F(T))
    BY <2>2, <2>4, <2>5, <2>6
  <2>10. \A p, q, r \in Int : p + (q + r) = q + (p + r)
    OBVIOUS
  <2>11. F(W) = F(A) + F(U)
    BY <1>1, <2>7, <2>8, <2>9, <2>10
  <2> QED BY <2>11 DEF U, W
<1>4. B \in Good
  <2> HIDE DEF Good
  <2> QED BY <1>2, <1>3, FiniteInduction
<1> QED BY <1>4

LEMMA TurnedLocal ==
    ASSUME NEW z \in Gauss, NEW n \in Nat, NEW k \in 0..n, NEW c, NEW d,
           c \cap (0..k-1) = d \cap (0..k-1)
    PROVE  Turned(z, c, n, k) = Turned(z, d, n, k)
<1> DEFINE Good == {m \in Nat : m <= k => Turned(z, c, n, m) = Turned(z, d, n, m)}
<1>1. 0 \in Good
  BY TurnedSteps
<1>2. ASSUME NEW m \in Nat, m \in Good PROVE m + 1 \in Good
  <2> SUFFICES ASSUME m + 1 <= k PROVE Turned(z, c, n, m + 1) = Turned(z, d, n, m + 1)
    OBVIOUS
  <2>1. m \in 0..n-1 /\ m \in 0..k-1 /\ Turned(z, c, n, m) = Turned(z, d, n, m)
    BY <1>2
  <2>2. Factor(z, c, m) = Factor(z, d, m)
    BY <2>1 DEF Factor
  <2>3. Turned(z, c, n, m + 1) = Mul(Turned(z, c, n, m), Factor(z, c, m))
    BY <2>1, TurnedSteps
  <2>4. Turned(z, d, n, m + 1) = Mul(Turned(z, d, n, m), Factor(z, d, m))
    BY <2>1, TurnedSteps
  <2> QED BY <2>1, <2>2, <2>3, <2>4
<1>3. k \in Nat /\ Nat \subseteq Good
  <2> HIDE DEF Good
  <2> QED BY <1>1, <1>2, SetInduction
<1> QED BY <1>3

LEMMA EnergyGrows ==
    ASSUME NEW z \in Gauss, NEW n \in Nat, NEW c
    PROVE  /\ Energy(Turned(z, c, n, 0)) = 1
           /\ \A k \in 0..n : Energy(Turned(z, c, n, k)) \in Int
           /\ \A k \in 0..n-1 :
                 /\ k \in c => Energy(Turned(z, c, n, k + 1)) =
                                   Square(Sin(z, k)) * Energy(Turned(z, c, n, k))
                 /\ k \notin c => Energy(Turned(z, c, n, k + 1)) =
                                      Square(Cos(z, k)) * Energy(Turned(z, c, n, k))
<1>1. Energy(Turned(z, c, n, 0)) = 1
  <2>1. Turned(z, c, n, 0)[1] = 1 /\ Turned(z, c, n, 0)[2] = 0
    BY TurnedSteps, GaussPairs
  <2>2. 1 * 1 + 0 * 0 = 1
    OBVIOUS
  <2> QED BY <2>1, <2>2 DEF Energy, Square
<1>2. ASSUME NEW k \in 0..n PROVE Energy(Turned(z, c, n, k)) \in Int
  <2>1. Turned(z, c, n, k)[1] \in Int /\ Turned(z, c, n, k)[2] \in Int
    BY TurnedSteps, GaussPairs
  <2>2. \A x, y \in Int : x * x + y * y \in Int
    OBVIOUS
  <2> QED BY <2>1, <2>2 DEF Energy, Square
<1>3. ASSUME NEW k \in 0..n-1
      PROVE  /\ k \in c => Energy(Turned(z, c, n, k + 1)) =
                             Square(Sin(z, k)) * Energy(Turned(z, c, n, k))
             /\ k \notin c => Energy(Turned(z, c, n, k + 1)) =
                             Square(Cos(z, k)) * Energy(Turned(z, c, n, k))
  <2> DEFINE a == Turned(z, c, n, k)
  <2> DEFINE b == Turned(z, c, n, k + 1)
  <2> DEFINE s == Sin(z, k)
  <2> DEFINE x == Cos(z, k)
  <2>1. /\ a[1] \in Int /\ a[2] \in Int
        /\ k \in c => b[1] = s * a[2] /\ b[2] = 0 - s * a[1]
        /\ k \notin c => b[1] = x * a[1] /\ b[2] = x * a[2]
    BY TurnedParts
  <2>2. s \in Int /\ x \in Int
    BY Angles
  <2> HIDE DEF a, b, s, x
  <2>3. CASE k \in c
    <3>1. \A p, q, t \in Int :
             (t * q) * (t * q) + (0 - t * p) * (0 - t * p) = (t * t) * (p * p + q * q)
      OBVIOUS
    <3>2. b[1] * b[1] + b[2] * b[2] = (s * s) * (a[1] * a[1] + a[2] * a[2])
      BY <2>1, <2>2, <2>3, <3>1
    <3> QED BY <2>3, <3>2 DEF Energy, Square, a, b, s
  <2>4. CASE k \notin c
    <3>1. \A p, q, t \in Int :
             (t * p) * (t * p) + (t * q) * (t * q) = (t * t) * (p * p + q * q)
      OBVIOUS
    <3>2. b[1] * b[1] + b[2] * b[2] = (x * x) * (a[1] * a[1] + a[2] * a[2])
      BY <2>1, <2>2, <2>4, <3>1
    <3> QED BY <2>4, <3>2 DEF Energy, Square, a, b, x
  <2> QED BY <2>3, <2>4
<1> QED BY <1>1, <1>2, <1>3

(* The distribution over shells that doppler_shell_energies builds.        *)
FirstShell(n) == [d \in 0..n |-> IF d = 0 THEN 1 ELSE 0]
NextShell(z, f, k, n) ==
    [d \in 0..n |-> f[d] * Square(Cos(z, k - 1))
                    + (IF d = 0 THEN 0 ELSE f[d - 1] * Square(Sin(z, k - 1)))]
ShellRounds(z, r, n, m) ==
    r = [k \in 0..m |-> IF k = 0 THEN FirstShell(n) ELSE NextShell(z, r[k - 1], k, n)]

LEMMA ShellRoundsExist ==
    ASSUME NEW z, NEW n, NEW p \in Nat
    PROVE  \E r : ShellRounds(z, r, n, p)
<1> DEFINE Defined == {m \in Nat : \E r : ShellRounds(z, r, n, m)}
<1>1. 0 \in Defined
  <2> DEFINE r == [k \in 0..0 |-> FirstShell(n)]
  <2>1. r = [k \in 0..0 |-> IF k = 0 THEN FirstShell(n) ELSE NextShell(z, r[k - 1], k, n)]
    OBVIOUS
  <2> QED BY <2>1 DEF ShellRounds
<1>2. ASSUME NEW m \in Nat, m \in Defined PROVE m + 1 \in Defined
  <2>1. PICK r : ShellRounds(z, r, n, m)
    BY <1>2
  <2>2. \A k \in 0..m : r[k] = IF k = 0 THEN FirstShell(n) ELSE NextShell(z, r[k - 1], k, n)
    BY <2>1 DEF ShellRounds
  <2> DEFINE g == [k \in 0..m+1 |-> IF k = m + 1 THEN NextShell(z, r[m], m + 1, n) ELSE r[k]]
  <2>3. \A k \in 0..m : g[k] = r[k]
    OBVIOUS
  <2>4. g[m + 1] = NextShell(z, r[m], m + 1, n)
    OBVIOUS
  <2>5. g = [k \in 0..m+1 |-> g[k]]
    OBVIOUS
  <2> HIDE DEF g
  <2>6. \A k \in 0..m+1 :
           g[k] = IF k = 0 THEN FirstShell(n) ELSE NextShell(z, g[k - 1], k, n)
    <3> TAKE k \in 0..m+1
    <3>1. CASE k = m + 1
      <4>1. k - 1 = m /\ k # 0 /\ g[m] = r[m]
        BY <2>3, <3>1
      <4> QED BY <2>4, <3>1, <4>1
    <3>2. CASE k \in 1..m
      <4>1. k - 1 \in 0..m /\ k \in 0..m /\ k # 0
        BY <3>2
      <4> QED BY <2>2, <2>3, <4>1
    <3>3. CASE k = 0
      BY <2>2, <2>3, <3>3
    <3> QED BY <3>1, <3>2, <3>3
  <2>7. ShellRounds(z, g, n, m + 1)
    BY <2>5, <2>6 DEF ShellRounds
  <2> QED BY <2>7
<1>3. Nat \subseteq Defined
  <2> HIDE DEF Defined
  <2> QED BY <1>1, <1>2, SetInduction
<1> QED BY <1>3

Sized(k, d) == {c \in SUBSET (0..k-1) : Cardinality(c) = d}
Energies(z, n, k) == [c \in SUBSET (0..n-1) |-> Energy(Turned(z, c, n, k))]

LEMMA SizedFinite ==
    ASSUME NEW n \in Nat, NEW k \in 0..n, NEW d, NEW z \in Gauss, NEW m \in 0..n
    PROVE  /\ Sized(k, d) \subseteq SUBSET (0..n-1) /\ IsFiniteSet(Sized(k, d))
           /\ Integral(Energies(z, n, m), Sized(k, d))
<1>1. Sized(k, d) \subseteq SUBSET (0..n-1)
  BY DEF Sized
<1>2. IsFiniteSet(SUBSET (0..n-1))
  BY IndicesFinite DEF Indices
<1>3. IsFiniteSet(Sized(k, d))
  BY <1>1, <1>2, FS_Subset
<1>4. \A c \in SUBSET (0..n-1) : Energies(z, n, m)[c] \in Int
  BY EnergyGrows DEF Energies
<1> QED BY <1>1, <1>3, <1>4 DEF Integral

LEMMA SizedGrows ==
    ASSUME NEW k \in Nat, NEW d \in Nat
    PROVE  LET new == {c \cup {k} : c \in Sized(k, d - 1)}
           IN /\ Sized(k + 1, d) = Sized(k, d) \cup new
              /\ Sized(k, d) \cap new = {}
<1> DEFINE new == {c \cup {k} : c \in Sized(k, d - 1)}
<1>1. \A c \in SUBSET (0..k) : IsFiniteSet(c) /\ Cardinality(c) \in Nat
  <2>1. IsFiniteSet(0..k)
    BY FS_Interval
  <2> QED BY <2>1, FS_Subset, FS_CardinalityType
<1>2. 0..k = (0..k-1) \cup {k} /\ k \notin 0..k-1 /\ (k + 1) - 1 = k
  OBVIOUS
<1>3. Sized(k, d) \cap new = {}
  BY <1>2 DEF Sized
<1>4. ASSUME NEW c \in Sized(k + 1, d) PROVE c \in Sized(k, d) \cup new
  <2>1. c \in SUBSET (0..k) /\ Cardinality(c) = d
    BY <1>2 DEF Sized
  <2>2. CASE k \in c
    <3> DEFINE e == c \ {k}
    <3>1. e \in SUBSET (0..k-1) /\ e \cup {k} = c
      BY <1>2, <2>1, <2>2
    <3>2. Cardinality(e) = d - 1
      BY <1>1, <2>1, <2>2, FS_RemoveElement
    <3>3. e \in Sized(k, d - 1)
      BY <3>1, <3>2 DEF Sized
    <3> HIDE DEF e
    <3> QED BY <3>1, <3>3
  <2>3. CASE k \notin c
    BY <1>2, <2>1, <2>3 DEF Sized
  <2> QED BY <2>2, <2>3
<1>5. ASSUME NEW c \in Sized(k, d) PROVE c \in Sized(k + 1, d)
  BY <1>2 DEF Sized
<1>6. ASSUME NEW c \in Sized(k, d - 1) PROVE c \cup {k} \in Sized(k + 1, d)
  <2>1. c \in SUBSET (0..k-1) /\ c \in SUBSET (0..k) /\ Cardinality(c) = d - 1 /\ k \notin c
    BY <1>2 DEF Sized
  <2>2. Cardinality(c \cup {k}) = Cardinality(c) + 1
    BY <1>1, <2>1, FS_AddElement
  <2>3. (d - 1) + 1 = d
    OBVIOUS
  <2>4. c \cup {k} \in SUBSET (0..(k+1)-1)
    BY <1>2, <2>1
  <2> QED BY <2>1, <2>2, <2>3, <2>4 DEF Sized
<1> QED BY <1>3, <1>4, <1>5, <1>6

LEMMA SumWithLast ==
    ASSUME NEW z \in Gauss, NEW n \in Nat, NEW k \in 0..n-1, NEW d \in Nat
    PROVE  LET new == {c \cup {k} : c \in Sized(k, d - 1)}
           IN /\ IsFiniteSet(new) /\ Integral(Energies(z, n, k + 1), new)
              /\ SumFunctionOnSet(Energies(z, n, k + 1), new)
                    = Square(Sin(z, k)) * SumFunctionOnSet(Energies(z, n, k), Sized(k, d - 1))
<1> DEFINE A == Sized(k, d - 1)
<1> DEFINE new == {c \cup {k} : c \in A}
<1> DEFINE E == Energies(z, n, k)
<1> DEFINE E1 == Energies(z, n, k + 1)
<1> DEFINE s == Square(Sin(z, k))
<1> DEFINE pi == [c \in A |-> c \cup {k}]
<1> DEFINE f == [c \in A |-> s * E[c]]
<1>1. k \in 0..n /\ k + 1 \in 0..n /\ k \in Nat
  OBVIOUS
<1>2. A \subseteq SUBSET (0..n-1) /\ IsFiniteSet(A) /\ Integral(E, A)
  <2>1. d - 1 = d - 1
    OBVIOUS
  <2> QED BY <1>1, SizedFinite
<1>3. s \in Int
  <2>1. Sin(z, k) \in Int
    BY <1>1, Angles
  <2>2. \A x \in Int : x * x \in Int
    OBVIOUS
  <2> QED BY <2>1, <2>2 DEF Square
<1>4. ASSUME NEW c \in A
      PROVE  c \cup {k} \in Sized(k + 1, d) /\ k \notin c /\ c \in SUBSET (0..n-1)
                /\ c \cup {k} \in SUBSET (0..n-1)
  <2>1. c \cup {k} \in Sized(k + 1, d)
    BY <1>1, SizedGrows
  <2>2. k \notin c
    BY <1>1 DEF Sized
  <2> QED BY <1>1, <1>2, <2>1, <2>2
<1>5. new \subseteq Sized(k + 1, d)
  BY <1>4
<1>6. IsFiniteSet(Sized(k + 1, d)) /\ Integral(E1, Sized(k + 1, d))
  BY <1>1, SizedFinite
<1>7. IsFiniteSet(new) /\ Integral(E1, new)
  <2> HIDE DEF new, E1
  <2> QED BY <1>5, <1>6, FS_Subset DEF Integral
<1>8. ASSUME NEW c \in A PROVE f[c] = E1[pi[c]]
  <2> DEFINE e == c \cup {k}
  <2>1. k \in e /\ e \cap (0..k-1) = c \cap (0..k-1)
    <3>1. k \notin 0..k-1
      BY <1>1
    <3> QED BY <3>1
  <2>0. e \in SUBSET (0..n-1) /\ c \in SUBSET (0..n-1)
    BY <1>4
  <2>2. pi[c] = e /\ E1[e] = Energy(Turned(z, e, n, k + 1)) /\ E[c] = Energy(Turned(z, c, n, k))
    BY <2>0 DEF Energies
  <2> HIDE DEF e
  <2>3. Turned(z, e, n, k) = Turned(z, c, n, k)
    BY <1>1, <2>1, TurnedLocal
  <2>4. Energy(Turned(z, e, n, k + 1)) = s * Energy(Turned(z, e, n, k))
    <3>1. k \in e
      BY <2>1
    <3> QED BY <3>1, EnergyGrows
  <2> QED BY <2>2, <2>3, <2>4
<1>9. \A x, y \in A : pi[x] = pi[y] => x = y
  <2> TAKE x, y \in A
  <2>1. k \notin x /\ k \notin y /\ pi[x] = x \cup {k} /\ pi[y] = y \cup {k}
    BY <1>4
  <2> QED BY <2>1
<1>10. pi \in [A -> Sized(k + 1, d)]
  BY <1>4
<1>11. Integral(f, A)
  <2>1. \A x, y \in Int : x * y \in Int
    OBVIOUS
  <2> QED BY <1>2, <1>3, <2>1 DEF Integral
<1>12. {pi[x] : x \in A} = new
  OBVIOUS
<1>13. \A c \in A : f[c] = s * E[c]
  OBVIOUS
<1> HIDE DEF A, E, E1, s, pi, f
<1>14. SumFunctionOnSet(E1, {pi[x] : x \in A}) = SumFunctionOnSet(f, A)
  BY <1>2, <1>8, <1>9, <1>10, <1>11, SumMoved
<1>15. SumFunctionOnSet(f, A) = s * SumFunctionOnSet(E, A)
  BY <1>2, <1>3, <1>13, SumScaled
<1> QED BY <1>7, <1>12, <1>14, <1>15 DEF A, E, E1, s

LEMMA SumWithoutLast ==
    ASSUME NEW z \in Gauss, NEW n \in Nat, NEW k \in 0..n-1, NEW d \in Nat
    PROVE  /\ IsFiniteSet(Sized(k, d)) /\ Integral(Energies(z, n, k + 1), Sized(k, d))
           /\ SumFunctionOnSet(Energies(z, n, k), Sized(k, d)) \in Int
           /\ SumFunctionOnSet(Energies(z, n, k + 1), Sized(k, d))
                = Square(Cos(z, k)) * SumFunctionOnSet(Energies(z, n, k), Sized(k, d))
<1> DEFINE A == Sized(k, d)
<1> DEFINE E == Energies(z, n, k)
<1> DEFINE E1 == Energies(z, n, k + 1)
<1> DEFINE s == Square(Cos(z, k))
<1>1. k \in 0..n /\ k + 1 \in 0..n /\ k \in Nat
  OBVIOUS
<1>2. A \subseteq SUBSET (0..n-1) /\ IsFiniteSet(A) /\ Integral(E, A)
  BY <1>1, SizedFinite
<1>3. Integral(E1, A)
  BY <1>1, SizedFinite
<1>4. s \in Int
  <2>1. Cos(z, k) \in Int
    BY <1>1, Angles
  <2>2. \A x \in Int : x * x \in Int
    OBVIOUS
  <2> QED BY <2>1, <2>2 DEF Square
<1>5. ASSUME NEW c \in A PROVE E1[c] = s * E[c]
  <2>1. k \notin c /\ c \in SUBSET (0..n-1)
    BY <1>1, <1>2 DEF Sized
  <2>2. E1[c] = Energy(Turned(z, c, n, k + 1)) /\ E[c] = Energy(Turned(z, c, n, k))
    BY <2>1 DEF Energies
  <2>3. Energy(Turned(z, c, n, k + 1)) = s * Energy(Turned(z, c, n, k))
    BY <2>1, EnergyGrows
  <2> QED BY <2>2, <2>3
<1> HIDE DEF A, E, E1, s
<1>6. SumFunctionOnSet(E1, A) = s * SumFunctionOnSet(E, A)
  BY <1>2, <1>4, <1>5, SumScaled
<1>7. SumFunctionOnSet(E, A) \in Int
  BY <1>2, SumOne DEF Integral
<1> QED BY <1>2, <1>3, <1>6, <1>7 DEF A, E, E1, s

LEMMA NoneSized ==
    ASSUME NEW k \in Nat
    PROVE  Sized(k, 0 - 1) = {} /\ {c \cup {k} : c \in Sized(k, 0 - 1)} = {}
<1>1. ASSUME NEW c \in SUBSET (0..k-1) PROVE Cardinality(c) # 0 - 1
  <2>1. IsFiniteSet(0..k-1)
    BY FS_Interval
  <2>2. Cardinality(c) \in Nat
    BY <2>1, FS_Subset, FS_CardinalityType
  <2> QED BY <2>2
<1>2. Sized(k, 0 - 1) = {}
  BY <1>1 DEF Sized
<1> QED BY <1>2

LEMMA ShellSums ==
    ASSUME NEW z \in Gauss, NEW n \in Nat
    PROVE  \A d \in 0..n :
              doppler_shell_energies(z, n)[d] = SumFunctionOnSet(Energies(z, n, n), Sized(n, d))
<1> DEFINE r == CHOOSE r : ShellRounds(z, r, n, n)
<1> DEFINE Sum(k, d) == SumFunctionOnSet(Energies(z, n, k), Sized(k, d))
<1> DEFINE Holds(k) == \A d \in 0..n : r[k][d] = Sum(k, d)
<1> DEFINE Good == {k \in Nat : k <= n => Holds(k)}
<1>1. ShellRounds(z, r, n, n)
  BY ShellRoundsExist
<1>2. doppler_shell_energies(z, n) = r[n]
  BY DEF doppler_shell_energies, ShellRounds, FirstShell, NextShell
<1> HIDE DEF r
<1>3. \A k \in 0..n : r[k] = IF k = 0 THEN FirstShell(n) ELSE NextShell(z, r[k - 1], k, n)
  BY <1>1 DEF ShellRounds
<1>4. 0 \in Good
  <2> SUFFICES ASSUME NEW d \in 0..n PROVE r[0][d] = Sum(0, d)
    OBVIOUS
  <2>1. r[0][d] = IF d = 0 THEN 1 ELSE 0
    <3>1. 0 \in 0..n
      OBVIOUS
    <3>2. r[0] = FirstShell(n)
      BY <1>3, <3>1
    <3> QED BY <3>2 DEF FirstShell
  <2>2. Cardinality({}) = 0 /\ SUBSET (0..0-1) = {{}}
    BY FS_EmptySet
  <2>3. Sized(0, d) = IF d = 0 THEN {{}} ELSE {}
    BY <2>2 DEF Sized
  <2> DEFINE E == Energies(z, n, 0)
  <2>4. E[{}] = 1
    BY EnergyGrows DEF Energies
  <2> HIDE DEF E
  <2>5. SumFunctionOnSet(E, {{}}) = 1
    <3>0. IsFiniteSet({{}})
      BY FS_Singleton
    <3>1. IsFiniteSet({{}}) /\ Integral(E, {{}}) /\ {} \in {{}}
      BY <2>4, <3>0 DEF Integral
    <3> DEFINE T == {{}}
    <3>2. \A x \in T : x # {} => E[x] = 0
      OBVIOUS
    <3>3. IsFiniteSet(T) /\ Integral(E, T) /\ {} \in T
      BY <3>1
    <3> HIDE DEF T
    <3>4. SumFunctionOnSet(E, T) = E[{}]
      BY <3>2, <3>3, SumSingle
    <3> QED BY <2>4, <3>4 DEF T
  <2>6. SumFunctionOnSet(E, {}) = 0
    BY SumNone
  <2> QED BY <2>1, <2>3, <2>5, <2>6 DEF E
<1>5. ASSUME NEW k \in Nat, k \in Good PROVE k + 1 \in Good
  <2> SUFFICES ASSUME k + 1 <= n, NEW d \in 0..n PROVE r[k + 1][d] = Sum(k + 1, d)
    OBVIOUS
  <2>1. k \in 0..n-1 /\ k + 1 \in 0..n /\ k + 1 # 0 /\ (k + 1) - 1 = k /\ d \in Nat
    OBVIOUS
  <2>2. Holds(k)
    <3>1. k <= n
      OBVIOUS
    <3> HIDE DEF Holds
    <3> QED BY <1>5, <3>1
  <2> DEFINE C == Square(Cos(z, k))
  <2> DEFINE S == Square(Sin(z, k))
  <2> DEFINE E1 == Energies(z, n, k + 1)
  <2> DEFINE A == Sized(k, d)
  <2> DEFINE new == {c \cup {k} : c \in Sized(k, d - 1)}
  <2>3. r[k + 1][d] = r[k][d] * C + (IF d = 0 THEN 0 ELSE r[k][d - 1] * S)
    <3>1. r[k + 1] = NextShell(z, r[k], k + 1, n)
      BY <1>3, <2>1
    <3> QED BY <2>1, <3>1 DEF NextShell
  <2>4. Sized(k + 1, d) = A \cup new /\ A \cap new = {}
    BY <2>1, SizedGrows
  <2>5. /\ IsFiniteSet(A) /\ Integral(E1, A) /\ Sum(k, d) \in Int
        /\ SumFunctionOnSet(E1, A) = C * Sum(k, d)
    BY <2>1, SumWithoutLast
  <2>6. /\ IsFiniteSet(new) /\ Integral(E1, new)
        /\ SumFunctionOnSet(E1, new) = S * Sum(k, d - 1)
    BY <2>1, SumWithLast
  <2>7. C \in Int /\ S \in Int
    <3>1. Cos(z, k) \in Int /\ Sin(z, k) \in Int
      BY <2>1, Angles
    <3>2. \A x \in Int : x * x \in Int
      OBVIOUS
    <3> QED BY <3>1, <3>2 DEF Square
  <2>8. Sum(k + 1, d) = SumFunctionOnSet(E1, Sized(k + 1, d))
    OBVIOUS
  <2>9. d = 0 => new = {}
    <3> SUFFICES ASSUME d = 0 PROVE new = {}
      OBVIOUS
    <3> QED BY NoneSized
  <2>10. d # 0 => Sum(k, d - 1) \in Int /\ r[k][d - 1] = Sum(k, d - 1)
    <3> SUFFICES ASSUME d # 0 PROVE Sum(k, d - 1) \in Int /\ r[k][d - 1] = Sum(k, d - 1)
      OBVIOUS
    <3>1. d - 1 \in 0..n /\ d - 1 \in Nat
      OBVIOUS
    <3>2. Sum(k, d - 1) \in Int
      <4> DEFINE e == d - 1
      <4>1. e \in Nat
        BY <3>1
      <4> HIDE DEF e
      <4>2. SumFunctionOnSet(Energies(z, n, k), Sized(k, e)) \in Int
        BY <2>1, <4>1, SumWithoutLast
      <4> QED BY <4>2 DEF e
    <3> QED BY <2>2, <3>1, <3>2
  <2>11. r[k][d] = Sum(k, d)
    BY <2>2
  <2> HIDE DEF Sum, C, S, E1, A, new
  <2>12. SumFunctionOnSet(E1, A \cup new) = SumFunctionOnSet(E1, A) + SumFunctionOnSet(E1, new)
    BY <2>4, <2>5, <2>6, SumApart
  <2>13. \A x, y \in Int : x * y = y * x /\ x * y \in Int
    OBVIOUS
  <2>14. CASE d = 0
    <3>1. SumFunctionOnSet(E1, A \cup new) = C * Sum(k, d)
      BY <2>5, <2>9, <2>14
    <3>2. r[k + 1][d] = Sum(k, d) * C + 0
      BY <2>3, <2>11, <2>14
    <3>3. Sum(k + 1, d) = C * Sum(k, d)
      BY <2>4, <2>8, <3>1
    <3>4. \A x, y \in Int : y * x + 0 = x * y
      OBVIOUS
    <3>5. Sum(k, d) * C + 0 = C * Sum(k, d)
      BY <2>5, <2>7, <3>4
    <3> QED BY <3>2, <3>3, <3>5
  <2>15. CASE d # 0
    <3>1. Sum(k + 1, d) = C * Sum(k, d) + S * Sum(k, d - 1)
      BY <2>4, <2>5, <2>6, <2>8, <2>12
    <3>2. r[k + 1][d] = Sum(k, d) * C + Sum(k, d - 1) * S
      BY <2>3, <2>10, <2>11, <2>15
    <3>3. Sum(k, d) * C = C * Sum(k, d) /\ Sum(k, d - 1) * S = S * Sum(k, d - 1)
      BY <2>5, <2>7, <2>10, <2>13, <2>15
    <3> QED BY <3>1, <3>2, <3>3
  <2> QED BY <2>14, <2>15
<1>6. n \in Good
  <2> HIDE DEF Good
  <2> QED BY <1>4, <1>5, SetInduction
<1>7. Holds(n)
  <2> HIDE DEF Holds
  <2> QED BY <1>6
<1> QED BY <1>2, <1>7

-----------------------------------------------------------------------------
(* What lies above the modeled shells.                                     *)
LEMMA ShellMembers ==
    ASSUME NEW n \in Nat, NEW order \in 0..n, NEW c \in SUBSET (0..n-1)
    PROVE  Combo(c, n) \in cumulative_shell_masks(n, order) <=> ~(Cardinality(c) > order)
<1> DEFINE e == Cardinality(c)
<1>1. e \in Nat
  <2>1. IsFiniteSet(0..n-1)
    BY FS_Interval
  <2> QED BY <2>1, FS_Subset, FS_CardinalityType
<1>2. ASSUME ~(e > order) PROVE Combo(c, n) \in cumulative_shell_masks(n, order)
  <2>1. e \in 0..order
    BY <1>1, <1>2
  <2>2. Combo(c, n) \in shell_masks(n, e)
    BY DEF shell_masks, Combo, kSubset
  <2> HIDE DEF e
  <2> QED BY <2>1, <2>2 DEF cumulative_shell_masks
<1>3. ASSUME Combo(c, n) \in cumulative_shell_masks(n, order) PROVE ~(e > order)
  <2>1. PICK d \in 0..order : Combo(c, n) \in shell_masks(n, d)
    BY <1>3 DEF cumulative_shell_masks
  <2>2. PICK b \in SUBSET (0..n-1) : Cardinality(b) = d /\ Combo(c, n) = Combo(b, n)
    BY <2>1 DEF shell_masks, Combo, kSubset
  <2>3. c = b
    BY <2>2, CombosDiffer
  <2> QED BY <2>1, <2>2, <2>3
<1> QED BY <1>2, <1>3

LEMMA TailSums ==
    ASSUME NEW z \in Gauss, NEW n \in Nat, NEW order \in 0..n
    PROVE  LET above == {c \in SUBSET (0..n-1) : Cardinality(c) > order}
           IN tail_energy(z, n, order) = SumFunctionOnSet(Energies(z, n, n), above)
<1> DEFINE shells == doppler_shell_energies(z, n)
<1> DEFINE E == Energies(z, n, n)
<1> DEFINE subsets == SUBSET (0..n-1)
<1> DEFINE between(e) == {c \in subsets : Cardinality(c) > order /\ Cardinality(c) <= e}
<1> DEFINE range(e) == order + 1..e
<1> DEFINE Agree(e) == SumFunctionOnSet(shells, range(e)) = SumFunctionOnSet(E, between(e))
<1> DEFINE Good == {k \in Nat : order + k <= n => Agree(order + k)}
<1>1. \A c \in subsets : Cardinality(c) \in Nat /\ Cardinality(c) <= n
  <2>1. IsFiniteSet(0..n-1) /\ Cardinality(0..n-1) = n
    <3> DEFINE m == n - 1
    <3>1. m \in Int /\ 0 \in Int /\ (0 > m <=> n = 0) /\ m - 0 + 1 = n
      OBVIOUS
    <3> HIDE DEF m
    <3>2. IsFiniteSet(0..m) /\ Cardinality(0..m) = IF 0 > m THEN 0 ELSE m - 0 + 1
      BY <3>1, FS_Interval
    <3> QED BY <3>1, <3>2 DEF m
  <2> QED BY <2>1, FS_Subset, FS_CardinalityType
<1>2. IsFiniteSet(subsets) /\ \A c \in subsets : E[c] \in Int
  <2>1. n \in 0..n
    OBVIOUS
  <2> QED BY <2>1, IndicesFinite, EnergyGrows DEF Indices, Energies
<1>3. \A T \in SUBSET subsets : IsFiniteSet(T) /\ Integral(E, T)
  <2> HIDE DEF E, subsets
  <2> QED BY <1>2, FS_Subset DEF Integral
<1>4. \A d \in 0..n : shells[d] = SumFunctionOnSet(E, Sized(n, d))
  BY ShellSums
<1>5. \A d : Sized(n, d) \in SUBSET subsets
  BY DEF Sized
<1>6. \A d \in 0..n : shells[d] \in Int
  <2> HIDE DEF E, shells
  <2> QED BY <1>3, <1>4, <1>5, SumOne DEF Integral
<1>7. 0 \in Good
  <2>1. range(order + 0) = {}
    OBVIOUS
  <2>2. between(order + 0) = {}
    <3> SUFFICES ASSUME NEW c \in subsets, Cardinality(c) > order, Cardinality(c) <= order + 0
                 PROVE  FALSE
      OBVIOUS
    <3> HIDE DEF subsets
    <3> QED BY <1>1
  <2>3. SumFunctionOnSet(shells, {}) = 0 /\ SumFunctionOnSet(E, {}) = 0
    BY SumNone
  <2> HIDE DEF shells, E, between, range
  <2> QED BY <2>1, <2>2, <2>3
<1>8. ASSUME NEW k \in Nat, k \in Good PROVE k + 1 \in Good
  <2> SUFFICES ASSUME order + (k + 1) <= n PROVE Agree(order + (k + 1))
    OBVIOUS
  <2> DEFINE e == order + k
  <2> DEFINE f == order + (k + 1)
  <2>1. e \in Nat /\ f = e + 1 /\ e <= n /\ f \in 0..n /\ e >= order
    OBVIOUS
  <2>2. Agree(e)
    <3> HIDE DEF Agree
    <3> QED BY <1>8, <2>1
  <2> DEFINE R == range(f)
  <2>3. f \in R /\ R \ {f} = range(e) /\ R \subseteq 0..n
    OBVIOUS
  <2>4. IsFiniteSet(R)
    <3>1. order + 1 \in Int /\ f \in Int
      OBVIOUS
    <3> QED BY <3>1, FS_Interval
  <2>5. between(f) = between(e) \cup Sized(n, f)
    <3>1. \A c \in subsets : Cardinality(c) > order /\ Cardinality(c) <= f
                               <=> \/ Cardinality(c) > order /\ Cardinality(c) <= e
                                   \/ Cardinality(c) = f
      <4> HIDE DEF e, f, subsets
      <4> QED BY <1>1, <2>1
    <3> HIDE DEF e, f
    <3> QED BY <3>1 DEF Sized
  <2>6. between(e) \cap Sized(n, f) = {}
    <3>1. \A c \in subsets : ~(Cardinality(c) <= e /\ Cardinality(c) = f)
      <4> HIDE DEF e, f, subsets
      <4> QED BY <1>1, <2>1
    <3> HIDE DEF e, f
    <3> QED BY <3>1 DEF Sized
  <2>7. between(e) \in SUBSET subsets
    OBVIOUS
  <2> DEFINE A == between(e)
  <2> DEFINE B == Sized(n, f)
  <2>8. IsFiniteSet(A) /\ Integral(E, A) /\ IsFiniteSet(B) /\ Integral(E, B) /\ A \cap B = {}
    <3> HIDE DEF E, subsets, between, e, f
    <3> QED BY <1>3, <1>5, <2>6, <2>7
  <2>9. SumFunctionOnSet(shells, R) = shells[f] + SumFunctionOnSet(shells, R \ {f})
    <3> HIDE DEF shells, R, f
    <3>1. \A d \in R : shells[d] \in Int
      BY <1>6, <2>3
    <3> QED BY <2>3, <2>4, <3>1, SumOne
  <2>10. SumFunctionOnSet(E, A \cup B) = SumFunctionOnSet(E, A) + SumFunctionOnSet(E, B)
    <3> HIDE DEF E, A, B
    <3> QED BY <2>8, SumApart
  <2>11. SumFunctionOnSet(E, A) \in Int /\ SumFunctionOnSet(E, B) \in Int
    <3> HIDE DEF E, A, B
    <3> QED BY <2>8, SumOne DEF Integral
  <2>12. shells[f] = SumFunctionOnSet(E, B)
    <3> HIDE DEF E, shells, f
    <3> QED BY <1>4, <2>1
  <2>13. SumFunctionOnSet(shells, R \ {f}) = SumFunctionOnSet(E, A)
    BY <2>2, <2>3
  <2> DEFINE p == SumFunctionOnSet(E, A)
  <2> DEFINE q == SumFunctionOnSet(E, B)
  <2>14. q + p = p + q
    <3> HIDE DEF p, q
    <3>1. p \in Int /\ q \in Int
      BY <2>11 DEF p, q
    <3> QED BY <3>1
  <2>15. SumFunctionOnSet(shells, R) = SumFunctionOnSet(E, A \cup B)
    <3> HIDE DEF E, A, B, R, shells, f
    <3> QED BY <2>9, <2>10, <2>12, <2>13, <2>14
  <2> QED BY <2>5, <2>15
<1>9. Agree(n)
  <2> DEFINE k == n - order
  <2>1. k \in Nat /\ order + k = n
    OBVIOUS
  <2> HIDE DEF k
  <2>2. k \in Good
    <3> HIDE DEF Good
    <3> QED BY <1>7, <1>8, <2>1, SetInduction
  <2> HIDE DEF Agree
  <2> QED BY <2>1, <2>2
<1>10. between(n) = {c \in subsets : Cardinality(c) > order}
  <2> HIDE DEF subsets
  <2> QED BY <1>1
<1> QED BY <1>9, <1>10 DEF tail_energy

LEMMA FiberTail ==
    ASSUME NEW z \in Gauss, NEW n \in Nat, NEW order \in 0..n
    PROVE  tail_energy(z, n, order) =
              SumFunctionOnSet([delta \in Indices(n) |->
                                   Energy(doppler_fiber_coefficients(z, n)[delta])],
                               Indices(n) \ cumulative_shell_masks(n, order))
<1> DEFINE E == Energies(z, n, n)
<1> DEFINE g == [delta \in Indices(n) |-> Energy(doppler_fiber_coefficients(z, n)[delta])]
<1> DEFINE above == {c \in SUBSET (0..n-1) : Cardinality(c) > order}
<1> DEFINE pi == [c \in above |-> Combo(c, n)]
<1> DEFINE masks == cumulative_shell_masks(n, order)
<1>1. tail_energy(z, n, order) = SumFunctionOnSet(E, above)
  BY TailSums
<1>2. n \in 0..n /\ above \subseteq SUBSET (0..n-1)
  OBVIOUS
<1>3. IsFiniteSet(above) /\ Integral(E, above)
  <2>1. \A c \in SUBSET (0..n-1) : E[c] \in Int
    BY <1>2, EnergyGrows DEF Energies
  <2>2. IsFiniteSet(SUBSET (0..n-1))
    BY IndicesFinite DEF Indices
  <2> HIDE DEF above, E
  <2> QED BY <1>2, <2>1, <2>2, FS_Subset DEF Integral
<1>4. ASSUME NEW c \in above
      PROVE  Combo(c, n) \in Indices(n) /\ Combo(c, n) \notin masks /\ E[c] = g[Combo(c, n)]
  <2>1. Combo(c, n) \in Indices(n) /\ SubsetOf(Combo(c, n), n) = c
    BY SubsetOfCombo
  <2>2. Combo(c, n) \notin masks
    BY ShellMembers
  <2>3. doppler_fiber_coefficients(z, n)[Combo(c, n)] = Coefficient(z, n, c)
    BY <2>1 DEF doppler_fiber_coefficients
  <2>4. Coefficient(z, n, c) = Turned(z, c, n, n)
    BY TurnedSteps
  <2>5. E[c] = Energy(Turned(z, c, n, n))
    BY DEF Energies
  <2>6. g[Combo(c, n)] = Energy(doppler_fiber_coefficients(z, n)[Combo(c, n)])
    BY <2>1
  <2> HIDE DEF E, g
  <2> QED BY <2>1, <2>2, <2>3, <2>4, <2>5, <2>6
<1>5. pi \in [above -> Indices(n)] /\ \A c \in above : E[c] = g[pi[c]]
  BY <1>4
<1>6. \A x, y \in above : pi[x] = pi[y] => x = y
  <2> TAKE x, y \in above
  <2> HAVE pi[x] = pi[y]
  <2>1. Combo(x, n) = Combo(y, n) /\ x \in SUBSET (0..n-1) /\ y \in SUBSET (0..n-1)
    OBVIOUS
  <2> QED BY <2>1, CombosDiffer
<1>7. {pi[c] : c \in above} = Indices(n) \ masks
  <2>1. ASSUME NEW c \in above PROVE pi[c] \in Indices(n) \ masks
    BY <1>4
  <2>2. ASSUME NEW S \in Indices(n) \ masks PROVE \E c \in above : S = pi[c]
    <3>1. PICK c \in SUBSET (0..n-1) : S = Combo(c, n)
      BY CombosReach
    <3>2. Cardinality(c) > order
      BY <3>1, ShellMembers
    <3> QED BY <3>1, <3>2
  <2> HIDE DEF pi, masks, above
  <2> QED BY <2>1, <2>2
<1> HIDE DEF E, g, above, pi, masks
<1>8. SumFunctionOnSet(g, {pi[c] : c \in above}) = SumFunctionOnSet(E, above)
  <2>1. /\ IsFiniteSet(above) /\ pi \in [above -> Indices(n)] /\ Integral(E, above)
        /\ (\A x, y \in above : pi[x] = pi[y] => x = y) /\ \A x \in above : E[x] = g[pi[x]]
    BY <1>3, <1>5, <1>6
  <2> QED BY <2>1, SumMoved
<1>9. tail_energy(z, n, order) = SumFunctionOnSet(g, Indices(n) \ masks)
  BY <1>1, <1>7, <1>8
<1> QED BY <1>9 DEF g, masks

LEMMA ScheduledFiber ==
    ASSUME NEW z \in Gauss, NEW n \in Nat
    PROVE  temporal_fiber_coefficients_for_order(z, gray_order(n), n) =
              [delta \in Indices(n) |-> Mul(<<2^n, 0>>, doppler_fiber_coefficients(z, n)[delta])]
<1> DEFINE N == 2^n
<1> DEFINE slot(q) == CHOOSE j \in 0..N-1 : gray_order(n)[j] = q
<1> DEFINE part(k) == [q \in Indices(n) |-> Sample(z, slot(q), N)[k]]
<1>1. \A k : part(k) = RampPart(z, n, n, k)
  <2> TAKE k
  <2>1. \A q \in Indices(n) : slot(q) = Rank(q, n, n)
    BY SlotOfQuery, RankGrows
  <2> HIDE DEF slot
  <2> QED BY <2>1 DEF RampPart, Ramp
<1> DEFINE real == fwht(RampPart(z, n, n, 1), n)
<1> DEFINE imaginary == fwht(RampPart(z, n, n, 2), n)
<1>2. temporal_fiber_coefficients_for_order(z, gray_order(n), n) =
          [delta \in Indices(n) |-> <<real[delta], imaginary[delta]>>]
  <2>1. temporal_fiber_coefficients_for_order(z, gray_order(n), n) =
          [delta \in Indices(n) |-> <<fwht(part(1), n)[delta], fwht(part(2), n)[delta]>>]
    BY DEF temporal_fiber_coefficients_for_order
  <2>2. fwht(part(1), n) = real /\ fwht(part(2), n) = imaginary
    BY <1>1
  <2> HIDE DEF part, real, imaginary
  <2> QED BY <2>1, <2>2
<1>3. ASSUME NEW delta \in Indices(n)
      PROVE  <<real[delta], imaginary[delta]>>
                = Mul(<<N, 0>>, doppler_fiber_coefficients(z, n)[delta])
  <2> DEFINE d == SubsetOf(delta, n)
  <2> DEFINE x == Turned(z, d, n, n)
  <2>1. d \in SUBSET (0..n-1) /\ delta = Combo(d, n)
    BY SubsetOfCombo
  <2>2. doppler_fiber_coefficients(z, n)[delta] = x
    <3>1. doppler_fiber_coefficients(z, n)[delta] = Coefficient(z, n, d)
      BY DEF doppler_fiber_coefficients
    <3> HIDE DEF d
    <3> QED BY <3>1, TurnedSteps
  <2>3. x \in Gauss /\ x[1] \in Int /\ x[2] \in Int
    <3>1. n \in 0..n
      OBVIOUS
    <3> HIDE DEF d
    <3>2. x \in Gauss
      BY <3>1, TurnedSteps
    <3> HIDE DEF x
    <3> QED BY <3>2, GaussPairs
  <2>4. real[delta] = N * x[1] /\ imaginary[delta] = N * x[2]
    <3> HIDE DEF d
    <3> QED BY <2>1, RampSpectrum
  <2>5. N \in Int
    BY PowersGrow
  <2> HIDE DEF d, x, N, real, imaginary
  <2> DEFINE a == <<N, 0>>
  <2>6. a \in Gauss /\ a[1] = N /\ a[2] = 0
    BY <2>5, GaussPairs
  <2> HIDE DEF a
  <2>7. /\ Mul(a, x) \in Gauss
        /\ Mul(a, x)[1] = a[1] * x[1] - a[2] * x[2]
        /\ Mul(a, x)[2] = a[1] * x[2] + a[2] * x[1]
    BY <2>3, <2>6, MulAt
  <2>8. \A p, q, r \in Int : p * q - 0 * r = p * q /\ p * r + 0 * q = p * r
    OBVIOUS
  <2>9. Mul(a, x)[1] = N * x[1] /\ Mul(a, x)[2] = N * x[2]
    BY <2>3, <2>5, <2>6, <2>7, <2>8
  <2>10. Mul(a, x) = <<N * x[1], N * x[2]>>
    <3>1. Mul(a, x) = <<Mul(a, x)[1], Mul(a, x)[2]>>
      BY <2>7, GaussPairs
    <3> QED BY <2>9, <3>1
  <2> QED BY <2>2, <2>4, <2>10 DEF a
<1> HIDE DEF real, imaginary
<1> QED BY <1>2, <1>3 DEF N

(* The two ways to obtain the decoder's atoms agree for Gray execution, at *)
(* every width and phase rate, and the aperture budget's tail is the       *)
(* energy of the coefficients outside the modeled shells.                  *)
THEOREM FiberFollowsSchedule == Spec => []FiberMatchesSchedule
<1>1. FiberMatchesSchedule
  <2> SUFFICES ASSUME NEW bits \in 1..TimeBits, NEW z \in Turns
      PROVE  LET fiber == doppler_fiber_coefficients(z, bits)
             IN /\ temporal_fiber_coefficients_for_order(z, gray_order(bits), bits) =
                     [delta \in Indices(bits) |-> Mul(<<2^bits, 0>>, fiber[delta])]
                /\ \A order \in 0..bits :
                     tail_energy(z, bits, order) =
                         SumFunctionOnSet([delta \in Indices(bits) |-> Energy(fiber[delta])],
                                          Indices(bits) \ cumulative_shell_masks(bits, order))
    BY DEF FiberMatchesSchedule
  <2>1. bits \in Nat /\ z \in Gauss
    BY PathAssumption DEF Gauss
  <2>2. temporal_fiber_coefficients_for_order(z, gray_order(bits), bits) =
            [delta \in Indices(bits) |->
                Mul(<<2^bits, 0>>, doppler_fiber_coefficients(z, bits)[delta])]
    BY <2>1, ScheduledFiber
  <2>3. \A order \in 0..bits :
            tail_energy(z, bits, order) =
                SumFunctionOnSet([delta \in Indices(bits) |->
                                     Energy(doppler_fiber_coefficients(z, bits)[delta])],
                                 Indices(bits) \ cumulative_shell_masks(bits, order))
    BY <2>1, FiberTail
  <2> QED BY <2>2, <2>3
<1> QED BY <1>1, PTL

=============================================================================
