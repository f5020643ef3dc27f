----------------------- MODULE FrameValidationProofs -----------------------
(***************************************************************************)
(* The abstraction by which ReconstructionRuntime replaces validate_frame, *)
(* justified for every frame, every plan and all limits.                   *)
(***************************************************************************)
EXTENDS FrameValidation, FiniteSetTheorems, TLAPS

(* No test but the second looks at the sequence id already taken.          *)
LEMMA OnlyStaleTestLooksBack ==
    ASSUME NEW f, NEW p, NEW i \in (1..12) \ {2}
    PROVE  Fails(i, f, p) <=> Fails(i, f, NoSequence)
BY DEF Fails

LEMMA StaleTest ==
    ASSUME NEW f, NEW p
    PROVE  /\ Fails(2, f, p) <=> Regresses(f.sequence_id, p)
           /\ ~Fails(2, f, NoSequence)
           /\ Fails(1, f, p) <=> f.plan_fingerprint # PlanFingerprint
BY DEF Fails, Regresses

(* If the plan matches, the id is stale and this is the first failure.     *)
LEMMA StaleIsFirst ==
    ASSUME NEW f, NEW p, ~Fails(1, f, p), Fails(2, f, p)
    PROVE  FirstFailure(f, p) = {2}
<1>1. DOMAIN Codes = 1..12 /\ 2 \in 1..12
  BY DEF Codes
<1>2. \A i \in 1..12 : i # 1 /\ i # 2 => 2 \in 1..i - 1
  OBVIOUS
<1>3. 1..2 - 1 = {1}
  OBVIOUS
<1> QED BY <1>1, <1>2, <1>3 DEF FirstFailure

(* Otherwise the id already taken makes no difference.                     *)
LEMMA FreshIsIrrelevant ==
    ASSUME NEW f, NEW p, Fails(1, f, p) \/ ~Fails(2, f, p)
    PROVE  FirstFailure(f, p) = FirstFailure(f, NoSequence)
<1>1. DOMAIN Codes = 1..12
  BY DEF Codes
<1>2. \A i \in (1..12) \ {2} : Fails(i, f, p) <=> Fails(i, f, NoSequence)
  BY OnlyStaleTestLooksBack
<1>3. CASE ~Fails(2, f, p)
  <2>1. \A i \in 1..12 : Fails(i, f, p) <=> Fails(i, f, NoSequence)
    BY <1>2, <1>3, StaleTest
  <2> QED BY <1>1, <2>1 DEF FirstFailure
<1>4. CASE Fails(1, f, p)
  <2>1. \A i \in 1..12 : i # 1 => 1 \in 1..i - 1
    OBVIOUS
  <2>2. 1..1 - 1 = {} /\ 1 \in 1..12
    OBVIOUS
  <2>3. Fails(1, f, NoSequence)
    BY <1>2, <1>4
  <2>4. FirstFailure(f, p) = {1}
    BY <1>1, <1>4, <2>1, <2>2 DEF FirstFailure
  <2>5. FirstFailure(f, NoSequence) = {1}
    BY <1>1, <2>1, <2>2, <2>3 DEF FirstFailure
  <2> QED BY <2>4, <2>5
<1> QED BY <1>3, <1>4

(* The fault of a frame whose first failing test is known.                 *)
LEMMA FaultOfFirst ==
    ASSUME NEW f, NEW p, NEW i \in 1..12, FirstFailure(f, p) = {i}
    PROVE  validate_frame(f, p) = RuntimeFault(Codes[i], Codes[i] \in QualityCodes)
<1>1. FirstFailure(f, p) # {} /\ (CHOOSE k \in FirstFailure(f, p) : TRUE) = i
  OBVIOUS
<1> QED BY <1>1 DEF validate_frame, FaultOf, Recoverable

LEMMA FirstIsUnique ==
    ASSUME NEW f, NEW p, FirstFailure(f, p) # {}
    PROVE  \E i \in 1..12 : FirstFailure(f, p) = {i}
<1>1. DOMAIN Codes = 1..12
  BY DEF Codes
<1>2. PICK i \in 1..12 : i \in FirstFailure(f, p)
  BY <1>1 DEF FirstFailure
<1>3. \A j \in FirstFailure(f, p) : j = i
  <2> SUFFICES ASSUME NEW j \in 1..12, j \in FirstFailure(f, p), j # i PROVE FALSE
    BY <1>1 DEF FirstFailure
  <2>1. i \in 1..j - 1 \/ j \in 1..i - 1
    OBVIOUS
  <2> QED BY <1>2, <2>1 DEF FirstFailure
<1> QED BY <1>2, <1>3

(* A frame is, to the runtime, its sequence id and the fault found in it   *)
(* when no id has been taken yet: a mismatched plan is reported before a   *)
(* stale id, and a stale id before anything else.                          *)
THEOREM VerdictAbstraction ==
    ASSUME NEW f, NEW p
    PROVE  validate_frame(f, p) =
           Verdict(f.sequence_id, validate_frame(f, NoSequence).code, p)
<1> DEFINE code == validate_frame(f, NoSequence).code
<1>0. 1 \in 1..12 /\ 2 \in 1..12 /\ DOMAIN Codes = 1..12 /\ 1 # 2
  BY DEF Codes
<1>1. Codes[1] = "plan_mismatch" /\ Codes[2] = "sequence_regression"
      /\ \A k \in 1..12 : k # 1 => Codes[k] # "plan_mismatch"
  BY DEF Codes
<1>2. CASE ~Fails(1, f, p) /\ Fails(2, f, p)
  <2>1. FirstFailure(f, p) = {2} /\ Regresses(f.sequence_id, p)
    BY <1>2, StaleIsFirst, StaleTest
  <2>2. validate_frame(f, p) =
          RuntimeFault("sequence_regression", "sequence_regression" \in QualityCodes)
    BY <1>0, <1>1, <2>1, FaultOfFirst
  <2>3. ("sequence_regression" \in QualityCodes) = FALSE
    BY DEF QualityCodes
  <2>4. code # "plan_mismatch"
    <3>1. ~Fails(1, f, NoSequence)
      BY <1>0, <1>2, OnlyStaleTestLooksBack
    <3>2. CASE FirstFailure(f, NoSequence) = {}
      BY <3>2 DEF validate_frame, FaultOf, NoFault, RuntimeFault
    <3>3. CASE FirstFailure(f, NoSequence) # {}
      <4>1. PICK i \in 1..12 : FirstFailure(f, NoSequence) = {i}
        BY <3>3, FirstIsUnique
      <4>2. i # 1
        BY <3>1, <4>1 DEF FirstFailure
      <4>3. code = Codes[i]
        BY <4>1, FaultOfFirst DEF RuntimeFault
      <4> QED BY <1>1, <4>2, <4>3
    <3> QED BY <3>2, <3>3
  <2> QED BY <2>1, <2>2, <2>3, <2>4, Zenon DEF Verdict
<1>3. CASE Fails(1, f, p) \/ ~Fails(2, f, p)
  <2>1. validate_frame(f, p) = validate_frame(f, NoSequence)
    <3>1. FirstFailure(f, p) = FirstFailure(f, NoSequence)
      BY <1>3, FreshIsIrrelevant
    <3> QED BY <3>1 DEF validate_frame
  <2>2. code = "plan_mismatch" \/ ~Regresses(f.sequence_id, p)
    <3>1. CASE Fails(1, f, p)
      <4>1. Fails(1, f, NoSequence)
        BY <1>0, <3>1, OnlyStaleTestLooksBack
      <4>2. 1..1 - 1 = {} /\ \A i \in 1..12 : i # 1 => 1 \in 1..i - 1
        OBVIOUS
      <4>3. FirstFailure(f, NoSequence) = {1}
        BY <1>0, <4>1, <4>2 DEF FirstFailure
      <4> QED BY <1>0, <1>1, <4>3, FaultOfFirst DEF RuntimeFault
    <3>2. CASE ~Fails(2, f, p)
      BY <3>2, StaleTest
    <3> QED BY <1>3, <3>1, <3>2
  <2>3. Verdict(f.sequence_id, code, p) = RuntimeFault(code, code \in QualityCodes)
    <3> HIDE DEF code
    <3> QED BY <2>2, Zenon DEF Verdict
  <2>4. validate_frame(f, NoSequence) = RuntimeFault(code, code \in QualityCodes)
    <3>1. CASE FirstFailure(f, NoSequence) = {}
      <4>1. validate_frame(f, NoSequence) = NoFault /\ code = "none"
        BY <3>1 DEF validate_frame, FaultOf, NoFault, RuntimeFault
      <4>2. ("none" \in QualityCodes) = FALSE
        BY DEF QualityCodes
      <4> QED BY <4>1, <4>2, Zenon DEF NoFault
    <3>2. CASE FirstFailure(f, NoSequence) # {}
      <4>1. PICK i \in 1..12 : FirstFailure(f, NoSequence) = {i}
        BY <3>2, FirstIsUnique
      <4>2. validate_frame(f, NoSequence) = RuntimeFault(Codes[i], Codes[i] \in QualityCodes)
        BY <4>1, FaultOfFirst
      <4>3. code = Codes[i]
        BY <4>2 DEF RuntimeFault
      <4> QED BY <4>2, <4>3
    <3> QED BY <3>1, <3>2
  <2> QED BY <2>1, <2>3, <2>4
<1> QED BY <1>2, <1>3

(* The runs of FrameValidation therefore never leave the abstraction.      *)
THEOREM AbstractionHolds == Spec => []AbstractionFaithful
<1>1. Init => AbstractionFaithful
  BY DEF Init, AbstractionFaithful, Judged
<1>2. AbstractionFaithful /\ [Next]_vars => AbstractionFaithful'
  BY VerdictAbstraction DEF AbstractionFaithful, Judged, Next, Validate, vars
<1> QED BY <1>1, <1>2, PTL DEF Spec
-----------------------------------------------------------------------------
(* Induction over the naturals, in the form of least elements.             *)
LEMMA LeastElement ==
    ASSUME NEW B \in SUBSET Nat, B # {}
    PROVE  \E m \in B : \A k \in B : m <= k
<1> DEFINE T == {0..k : k \in B}
<1>1. IsWellFoundedOn(StrictSubsetOrdering(Nat), FiniteSubsetsOf(Nat))
  BY FS_StrictSubsetOrderingWellFounded
<1>2. T \subseteq FiniteSubsetsOf(Nat) /\ T # {}
  <2>1. ASSUME NEW k \in B PROVE 0..k \in FiniteSubsetsOf(Nat)
    BY FS_Interval DEF FiniteSubsetsOf
  <2> QED BY <2>1
<1>3. \E x \in T : \A y \in T : <<y, x>> \notin StrictSubsetOrdering(Nat)
  <2> HIDE DEF T
  <2> QED BY <1>1, <1>2, WFMin
<1>4. PICK m \in B : \A k \in B : <<0..k, 0..m>> \notin StrictSubsetOrdering(Nat)
  BY <1>3
<1>5. ASSUME NEW k \in B, k < m PROVE FALSE
  <2>1. 0..k \subseteq 0..m /\ m \in 0..m /\ m \notin 0..k
    BY <1>5
  <2>2. <<0..k, 0..m>> \in StrictSubsetOrdering(Nat)
    BY <2>1 DEF StrictSubsetOrdering
  <2> QED BY <1>4, <2>2
<1> QED BY <1>5

LEMMA SetInduction ==
    ASSUME NEW S, 0 \in S, \A n \in Nat : n \in S => n + 1 \in S
    PROVE  Nat \subseteq S
<1> SUFFICES ASSUME Nat \ S # {} PROVE FALSE
  OBVIOUS
<1>1. PICK m \in Nat \ S : \A k \in Nat \ S : m <= k
  BY LeastElement
<1> QED BY <1>1

LEMMA MaxOfBounded ==
    ASSUME NEW n \in Nat, NEW B \in SUBSET (0..n), B # {}
    PROVE  Max(B) \in B /\ \A k \in B : Max(B) >= k
<1> DEFINE flipped == {n - k : k \in B}
<1>1. flipped \in SUBSET Nat /\ flipped # {}
  <2>1. PICK x \in B : TRUE
    OBVIOUS
  <2>2. n - x \in flipped
    OBVIOUS
  <2>3. \A k \in B : n - k \in Nat
    OBVIOUS
  <2> QED BY <2>2, <2>3
<1>2. PICK m \in flipped : \A k \in flipped : m <= k
  <2> HIDE DEF flipped
  <2> QED BY <1>1, LeastElement
<1>3. PICK x \in B : m = n - x
  BY <1>2
<1>4. \A y \in B : x >= y
  BY <1>2, <1>3
<1> QED BY <1>4 DEF Max

-----------------------------------------------------------------------------
(* The loop of _max_false_run, slot by slot.                               *)
Start == [best |-> 0, current |-> 0]
Grow(run, ok) ==
    LET current == IF ok THEN 0 ELSE run.current + 1
    IN  [best |-> Max({run.best, current}), current |-> current]

Folded(valid, g, n) ==
    g = [s \in SUBSET (1..n) |-> IF s = {} THEN Start ELSE Grow(g[s \ {Max(s)}], valid[Max(s)])]

LEMMA MaxOfPrefix ==
    ASSUME NEW n \in Nat, NEW s \in SUBSET (1..n+1), n + 1 \in s
    PROVE  Max(s) = n + 1 /\ s \ {n + 1} \in SUBSET (1..n)
<1> DEFINE m == n + 1
<1>1. m \in Nat /\ s \in SUBSET (0..m) /\ s # {} /\ m \in s /\ \A k \in s : k <= m
  OBVIOUS
<1> HIDE DEF m
<1>2. Max(s) \in s /\ \A k \in s : Max(s) >= k
  BY <1>1, MaxOfBounded
<1>3. Max(s) = m
  <2> DEFINE x == Max(s)
  <2>1. x \in Nat /\ x <= m /\ x >= m
    <3> HIDE DEF x
    <3>1. x \in s /\ \A k \in s : x >= k
      BY <1>2 DEF x
    <3> QED BY <1>1, <3>1
  <2> HIDE DEF x
  <2>2. x = m
    BY <1>1, <2>1
  <2> QED BY <2>2 DEF x
<1> USE DEF m
<1> QED BY <1>3

LEMMA FoldExists == ASSUME NEW valid, NEW n \in Nat PROVE \E g : Folded(valid, g, n)
<1> DEFINE Defined == {m \in Nat : \E g : Folded(valid, g, m)}
<1>1. 0 \in Defined
  <2> DEFINE g == [s \in {{}} |-> Start]
  <2>1. SUBSET (1..0) = {{}}
    OBVIOUS
  <2>2. g = [s \in SUBSET (1..0) |->
                IF s = {} THEN Start ELSE Grow(g[s \ {Max(s)}], valid[Max(s)])]
    BY <2>1
  <2> QED BY <2>2 DEF Folded
<1>2. ASSUME NEW m \in Nat, m \in Defined PROVE m + 1 \in Defined
  <2>1. PICK g : Folded(valid, g, m)
    BY <1>2
  <2>2. \A s \in SUBSET (1..m) :
            g[s] = IF s = {} THEN Start ELSE Grow(g[s \ {Max(s)}], valid[Max(s)])
    BY <2>1 DEF Folded
  <2> DEFINE h == [s \in SUBSET (1..m+1) |->
                      IF m + 1 \in s THEN Grow(g[s \ {m + 1}], valid[m + 1]) ELSE g[s]]
  <2>3. \A s \in SUBSET (1..m) : h[s] = g[s]
    OBVIOUS
  <2>4. \A s \in SUBSET (1..m+1) : m + 1 \in s => h[s] = Grow(g[s \ {m + 1}], valid[m + 1])
    OBVIOUS
  <2>5. h = [s \in SUBSET (1..m+1) |-> h[s]]
    OBVIOUS
  <2> HIDE DEF h
  <2>6. \A s \in SUBSET (1..m+1) :
            h[s] = IF s = {} THEN Start ELSE Grow(h[s \ {Max(s)}], valid[Max(s)])
    <3> TAKE s \in SUBSET (1..m+1)
    <3>1. CASE m + 1 \in s
      <4>1. Max(s) = m + 1 /\ s \ {m + 1} \in SUBSET (1..m)
        BY <3>1, MaxOfPrefix
      <4> QED BY <2>3, <2>4, <3>1, <4>1
    <3>2. CASE m + 1 \notin s
      <4>1. s \in SUBSET (1..m)
        BY <3>2
      <4>2. \A x : s \ {x} \in SUBSET (1..m)
        BY <4>1
      <4> QED BY <2>2, <2>3, <4>1, <4>2
    <3> QED BY <3>1, <3>2
  <2>7. Folded(valid, h, m + 1)
    BY <2>5, <2>6 DEF Folded
  <2> QED BY <2>7
<1>3. Nat \subseteq Defined
  <2> HIDE DEF Defined
  <2> QED BY <1>1, <1>2, SetInduction
<1> QED BY <1>3

LEMMA RunByRun ==
    ASSUME NEW valid \in Seq(BOOLEAN)
    PROVE  \E run : /\ run[0] = Start
                    /\ \A k \in 0..Len(valid)-1 : run[k + 1] = Grow(run[k], valid[k + 1])
                    /\ MaxFalseRun(valid) = run[Len(valid)].best
<1> DEFINE n == Len(valid)
<1>1. n \in Nat /\ DOMAIN valid = 1..n
  OBVIOUS
<1> HIDE DEF n
<1> DEFINE g == CHOOSE g : Folded(valid, g, n)
<1>2. Folded(valid, g, n)
  BY <1>1, FoldExists
<1>3. MaxFalseRun(valid) = g[1..n].best
  BY <1>1 DEF MaxFalseRun, FoldLeft, MapThenFoldSet, Folded, Grow, Start
<1> HIDE DEF g
<1>4. \A s \in SUBSET (1..n) :
          g[s] = IF s = {} THEN Start ELSE Grow(g[s \ {Max(s)}], valid[Max(s)])
  BY <1>2 DEF Folded
<1> DEFINE run == [k \in 0..n |-> g[1..k]]
<1>5. run[0] = Start
  <2>1. 1..0 = {} /\ 0 \in 0..n /\ {} \in SUBSET (1..n)
    BY <1>1
  <2>2. g[{}] = Start
    BY <1>4, <2>1
  <2>3. run[0] = g[1..0]
    BY <2>1
  <2> QED BY <2>1, <2>2, <2>3
<1>6. ASSUME NEW k \in 0..n-1 PROVE run[k + 1] = Grow(run[k], valid[k + 1])
  <2> HIDE DEF run
  <2>1. k \in Nat /\ k \in 0..n /\ k + 1 \in 0..n /\ k + 1 \in 1..k+1
    BY <1>1
  <2>4. 1..k+1 \in SUBSET (1..n) /\ 1..k+1 # {}
    <3>1. \A i \in 1..k+1 : i \in 1..n
      BY <1>1
    <3> QED BY <2>1, <3>1
  <2>5. (1..k+1) \ {k + 1} = 1..k
    BY <2>1
  <2>2. Max(1..k+1) = k + 1
    <3>1. 1..k+1 \in SUBSET (1..k+1)
      OBVIOUS
    <3> QED BY <2>1, <3>1, MaxOfPrefix
  <2>3. g[1..k+1] = Grow(g[1..k], valid[k + 1])
    BY <1>4, <2>2, <2>4, <2>5
  <2> QED BY <2>1, <2>3 DEF run
<1>7. run[n] = g[1..n]
  BY <1>1
<1> HIDE DEF run
<1> QED BY <1>3, <1>5, <1>6, <1>7 DEF n

LEMMA MaxOfTwo ==
    ASSUME NEW a \in Nat, NEW b \in Nat
    PROVE  Max({a, b}) = IF a >= b THEN a ELSE b
BY DEF Max

(* After k slots: the run under way ends at slot k and cannot be extended  *)
(* to the left; the best run is a window of invalid slots, and no window   *)
(* of invalid slots up to k is longer.                                     *)
Invalid(valid, a, b) == \A m \in a..b : ~valid[m]

Counted(valid, r, k) ==
    /\ r.current \in 0..k /\ r.best \in 0..k
    /\ Invalid(valid, k - r.current + 1, k)
    /\ r.current < k => valid[k - r.current]
    /\ \E j \in r.best..k : Invalid(valid, j - r.best + 1, j)
    /\ \A a, b \in 1..k : a <= b /\ Invalid(valid, a, b) => b - a + 1 <= r.best

LEMMA CountingStarts == ASSUME NEW valid PROVE Counted(valid, Start, 0)
<1>1. Invalid(valid, 1, 0)
  BY DEF Invalid
<1>2. \A a \in 1..0 : FALSE
  OBVIOUS
<1>3. Start.current = 0 /\ Start.best = 0
  BY DEF Start
<1>4. 0 - 0 + 1 = 1 /\ 0 \in 0..0
  OBVIOUS
<1> QED BY <1>1, <1>2, <1>3, <1>4 DEF Counted

LEMMA CountingStep ==
    ASSUME NEW valid \in Seq(BOOLEAN), NEW k \in Nat, k + 1 <= Len(valid),
           NEW r, Counted(valid, r, k)
    PROVE  Counted(valid, Grow(r, valid[k + 1]), k + 1)
<1> DEFINE c == r.current
<1> DEFINE best == r.best
<1> DEFINE n == k + 1
<1>1. c \in 0..k /\ best \in 0..k /\ c \in Nat /\ best \in Nat /\ n \in Nat /\ k + 1 = n
  BY DEF Counted
<1>2. /\ Invalid(valid, k - c + 1, k)
      /\ c < k => valid[k - c]
      /\ \E j \in best..k : Invalid(valid, j - best + 1, j)
      /\ \A a, b \in 1..k : a <= b /\ Invalid(valid, a, b) => b - a + 1 <= best
  BY DEF Counted
<1>3. CASE valid[n]
  <2>1. Grow(r, valid[n]) = [best |-> best, current |-> 0]
    <3>1. Max({best, 0}) = best
      BY <1>1, MaxOfTwo
    <3> QED BY <1>3, <3>1 DEF Grow
  <2> HIDE DEF c, best, n
  <2>2. \A a, b \in 1..n : a <= b /\ Invalid(valid, a, b) => b - a + 1 <= best
    <3> SUFFICES ASSUME NEW a \in 1..n, NEW b \in 1..n, a <= b, Invalid(valid, a, b)
                 PROVE  b - a + 1 <= best
      OBVIOUS
    <3>1. b # n
      BY <1>1, <1>3 DEF Invalid
    <3>2. a \in 1..k /\ b \in 1..k
      BY <1>1, <3>1
    <3> QED BY <1>2, <3>2
  <2>3. Invalid(valid, n - 0 + 1, n)
    BY <1>1 DEF Invalid
  <2>4. \E j \in best..n : Invalid(valid, j - best + 1, j)
    BY <1>1, <1>2
  <2>5. 0 \in 0..n /\ best \in 0..n /\ n - 0 = n
    BY <1>1
  <2> DEFINE q == [best |-> best, current |-> 0]
  <2>6. q.best = best /\ q.current = 0
    OBVIOUS
  <2> HIDE DEF q
  <2>7. Counted(valid, q, n)
    BY <1>1, <1>3, <2>2, <2>3, <2>4, <2>5, <2>6 DEF Counted
  <2> QED BY <2>1, <2>7 DEF q, n
<1>4. CASE ~valid[n]
  <2> DEFINE top == IF best >= c + 1 THEN best ELSE c + 1
  <2>1. Grow(r, valid[n]) = [best |-> top, current |-> c + 1]
    <3>1. c + 1 \in Nat
      BY <1>1
    <3>2. Max({best, c + 1}) = top
      BY <1>1, <3>1, MaxOfTwo
    <3> QED BY <1>4, <3>2 DEF Grow
  <2> HIDE DEF c, best, n
  <2>2. Invalid(valid, n - (c + 1) + 1, n)
    <3> SUFFICES ASSUME NEW m \in n - (c + 1) + 1..n PROVE ~valid[m]
      BY DEF Invalid
    <3>1. m = n \/ m \in k - c + 1..k
      BY <1>1
    <3> QED BY <1>2, <1>4, <3>1 DEF Invalid
  <2>3. \A a, b \in 1..n : a <= b /\ Invalid(valid, a, b) => b - a + 1 <= top
    <3> SUFFICES ASSUME NEW a \in 1..n, NEW b \in 1..n, a <= b, Invalid(valid, a, b)
                 PROVE  b - a + 1 <= top
      OBVIOUS
    <3>1. CASE b # n
      <4>1. a \in 1..k /\ b \in 1..k
        BY <1>1, <3>1
      <4>2. b - a + 1 <= best
        BY <1>2, <4>1
      <4> QED BY <1>1, <4>1, <4>2
    <3>2. CASE b = n
      <4>1. a > k - c
        <5> SUFFICES ASSUME a <= k - c PROVE FALSE
          BY <1>1
        <5>1. c < k /\ k - c \in a..b
          BY <1>1, <3>2
        <5> QED BY <1>2, <5>1 DEF Invalid
      <4> QED BY <1>1, <3>2, <4>1
    <3> QED BY <3>1, <3>2
  <2>4. \E j \in top..n : Invalid(valid, j - top + 1, j)
    <3>1. CASE best >= c + 1
      BY <1>1, <1>2, <3>1
    <3>2. CASE ~(best >= c + 1)
      <4>1. top = c + 1 /\ n \in top..n
        BY <1>1, <3>2
      <4> QED BY <2>2, <4>1
    <3> QED BY <3>1, <3>2
  <2>5. c + 1 \in 0..n /\ top \in 0..n /\ n - (c + 1) = k - c /\ (c + 1 < n => c < k)
    BY <1>1
  <2> DEFINE q == [best |-> top, current |-> c + 1]
  <2>6. q.best = top /\ q.current = c + 1
    OBVIOUS
  <2> HIDE DEF q, top
  <2>7. Counted(valid, q, n)
    BY <1>2, <2>2, <2>3, <2>4, <2>5, <2>6 DEF Counted
  <2> QED BY <2>1, <2>7 DEF q, n
<1> QED BY <1>3, <1>4

(* _max_false_run exceeds a limit exactly if some window one slot longer   *)
(* than the limit holds no valid slot.                                     *)
LEMMA BurstIsFound ==
    ASSUME NEW valid \in Seq(BOOLEAN), NEW c \in Nat
    PROVE  MaxFalseRun(valid) > c <=>
           \E k \in 1..Len(valid) - c : Invalid(valid, k, k + c)
<1> DEFINE n == Len(valid)
<1>0. n \in Nat
  OBVIOUS
<1>1. PICK run : /\ run[0] = Start
                 /\ \A k \in 0..n-1 : run[k + 1] = Grow(run[k], valid[k + 1])
                 /\ MaxFalseRun(valid) = run[n].best
  BY RunByRun
<1> DEFINE Good == {k \in Nat : k <= n => Counted(valid, run[k], k)}
<1>2. Nat \subseteq Good
  <2>1. 0 \in Good
    BY <1>1, CountingStarts
  <2>2. ASSUME NEW k \in Nat, k \in Good PROVE k + 1 \in Good
    <3> SUFFICES ASSUME k + 1 <= n PROVE Counted(valid, run[k + 1], k + 1)
      OBVIOUS
    <3>1. k \in 0..n-1 /\ k <= n
      BY <1>0
    <3>2. Counted(valid, run[k], k)
      BY <2>2, <3>1
    <3>3. run[k + 1] = Grow(run[k], valid[k + 1])
      BY <1>1, <3>1
    <3>4. Counted(valid, Grow(run[k], valid[k + 1]), k + 1)
      BY <3>2, CountingStep
    <3> QED BY <3>3, <3>4
  <2> HIDE DEF Good
  <2> QED BY <2>1, <2>2, SetInduction
<1> DEFINE best == run[n].best
<1>3. /\ best \in 0..n /\ best \in Nat
      /\ \E j \in best..n : Invalid(valid, j - best + 1, j)
      /\ \A a, b \in 1..n : a <= b /\ Invalid(valid, a, b) => b - a + 1 <= best
  <2>1. Counted(valid, run[n], n)
    BY <1>0, <1>2
  <2> QED BY <1>0, <2>1 DEF Counted
<1> HIDE DEF best, n
<1>4. ASSUME best > c PROVE \E k \in 1..n - c : Invalid(valid, k, k + c)
  <2>1. PICK j \in best..n : Invalid(valid, j - best + 1, j)
    BY <1>3
  <2>2. j - best + 1 \in 1..n - c
    BY <1>0, <1>3, <1>4
  <2>3. Invalid(valid, j - best + 1, j - best + 1 + c)
    <3>1. \A m \in j - best + 1..j - best + 1 + c : m \in j - best + 1..j
      BY <1>0, <1>3, <1>4
    <3> QED BY <2>1, <3>1 DEF Invalid
  <2> QED BY <2>2, <2>3
<1>5. ASSUME NEW k \in 1..n - c, Invalid(valid, k, k + c) PROVE best > c
  <2>1. k \in 1..n /\ k + c \in 1..n /\ k <= k + c /\ k + c - k + 1 = c + 1
    BY <1>0
  <2>2. k + c - k + 1 <= best
    BY <1>3, <1>5, <2>1
  <2> QED BY <1>3, <2>1, <2>2
<1>6. MaxFalseRun(valid) = best
  BY <1>1 DEF best
<1> QED BY <1>4, <1>5, <1>6 DEF n

-----------------------------------------------------------------------------
(* Slot timestamps: consecutive gaps are positive exactly if the sequence  *)
(* increases.                                                              *)
LEMMA GapsOfTimestamps ==
    ASSUME NEW ts \in Seq(Int), ts # << >>
    PROVE  /\ Gaps(ts) \in Seq(Int) /\ DOMAIN Gaps(ts) = 1..Len(ts) - 1
           /\ Len(Gaps(ts)) = Len(ts) - 1
           /\ \A k \in 1..Len(ts) - 1 : Gaps(ts)[k] = ts[k + 1] - ts[k]
<1> DEFINE n == Len(ts)
<1> DEFINE dt == [i \in 1..n - 1 |-> ts[i + 1] - ts[i]]
<1>1. n \in Nat /\ n # 0 /\ n - 1 \in Nat
  OBVIOUS
<1>2. \A i \in 1..n : ts[i] \in Int
  OBVIOUS
<1> HIDE DEF n
<1>3. \A i \in 1..n - 1 : ts[i + 1] - ts[i] \in Int
  BY <1>1, <1>2
<1>4. dt \in [1..n - 1 -> Int]
  BY <1>3
<1>5. dt \in Seq(Int) /\ Len(dt) = n - 1
  <2> HIDE DEF dt
  <2> DEFINE m == n - 1
  <2>1. m \in Nat /\ dt \in [1..m -> Int]
    BY <1>1, <1>4
  <2> HIDE DEF m
  <2>2. dt \in Seq(Int) /\ Len(dt) = m
    BY <2>1
  <2> QED BY <2>2 DEF m
<1>6. Gaps(ts) = dt
  BY DEF Gaps, n
<1> QED BY <1>5, <1>6 DEF n

LEMMA CadenceIncreases ==
    ASSUME NEW ts \in Seq(Int), ts # << >>
    PROVE  (\A k \in DOMAIN Gaps(ts) : Gaps(ts)[k] > 0) <=>
           (\A k, m \in 1..Len(ts) : k < m => ts[k] < ts[m])
<1> DEFINE n == Len(ts)
<1>1. n \in Nat /\ \A i \in 1..n : ts[i] \in Int
  OBVIOUS
<1>2. DOMAIN Gaps(ts) = 1..n - 1 /\ \A k \in 1..n - 1 : Gaps(ts)[k] = ts[k + 1] - ts[k]
  BY GapsOfTimestamps
<1> HIDE DEF n
<1>3. ASSUME \A k \in DOMAIN Gaps(ts) : Gaps(ts)[k] > 0
      PROVE  \A k, m \in 1..n : k < m => ts[k] < ts[m]
  <2>1. \A k \in 1..n - 1 : ts[k] < ts[k + 1]
    <3> TAKE k \in 1..n - 1
    <3>1. Gaps(ts)[k] > 0 /\ Gaps(ts)[k] = ts[k + 1] - ts[k]
      BY <1>2, <1>3
    <3>2. k \in 1..n /\ k + 1 \in 1..n
      BY <1>1
    <3> QED BY <1>1, <3>1, <3>2
  <2> DEFINE Good == {m \in Nat : m <= n => \A k \in 1..m : k < m => ts[k] < ts[m]}
  <2>2. 0 \in Good
    OBVIOUS
  <2>3. ASSUME NEW m \in Nat, m \in Good PROVE m + 1 \in Good
    <3> SUFFICES ASSUME m + 1 <= n, NEW k \in 1..m + 1, k < m + 1
                 PROVE  ts[k] < ts[m + 1]
      OBVIOUS
    <3>1. m \in 1..n - 1 /\ m \in 1..n /\ m + 1 \in 1..n /\ k \in 1..n /\ k \in 1..m
      BY <1>1
    <3>2. ts[m] < ts[m + 1]
      BY <2>1, <3>1
    <3>3. k = m \/ ts[k] < ts[m]
      BY <1>1, <2>3, <3>1
    <3> QED BY <1>1, <3>1, <3>2, <3>3
  <2>4. Nat \subseteq Good
    <3> HIDE DEF Good
    <3> QED BY <2>2, <2>3, SetInduction
  <2> QED BY <1>1, <2>4
<1>4. ASSUME \A k, m \in 1..n : k < m => ts[k] < ts[m],
             NEW k \in DOMAIN Gaps(ts)
      PROVE  Gaps(ts)[k] > 0
  <2>1. k \in 1..n - 1
    BY <1>2
  <2>2. k \in 1..n /\ k + 1 \in 1..n /\ k < k + 1
    BY <1>1, <2>1
  <2>3. ts[k] < ts[k + 1]
    BY <1>4, <2>2
  <2>4. Gaps(ts)[k] = ts[k + 1] - ts[k]
    BY <1>2, <2>1
  <2> QED BY <1>1, <2>2, <2>3, <2>4
<1> QED BY <1>3, <1>4 DEF n
-----------------------------------------------------------------------------
(* The k-th smallest of a sequence of naturals is one of them.             *)
LEMMA BoundedAbove ==
    ASSUME NEW s \in Seq(Nat)
    PROVE  \E b \in Nat : \A i \in DOMAIN s : s[i] <= b
<1> DEFINE n == Len(s)
<1>1. n \in Nat /\ DOMAIN s = 1..n /\ \A i \in 1..n : s[i] \in Nat
  OBVIOUS
<1> HIDE DEF n
<1> DEFINE Good == {m \in Nat : m <= n => \E b \in Nat : \A i \in 1..m : s[i] <= b}
<1>2. 0 \in Good
  OBVIOUS
<1>3. ASSUME NEW m \in Nat, m \in Good PROVE m + 1 \in Good
  <2> SUFFICES ASSUME m + 1 <= n PROVE \E b \in Nat : \A i \in 1..m + 1 : s[i] <= b
    OBVIOUS
  <2>1. PICK b \in Nat : \A i \in 1..m : s[i] <= b
    BY <1>1, <1>3
  <2>2. m + 1 \in 1..n /\ s[m + 1] \in Nat
    BY <1>1
  <2> DEFINE top == IF b >= s[m + 1] THEN b ELSE s[m + 1]
  <2>3. top \in Nat /\ top >= b /\ top >= s[m + 1]
    BY <2>2
  <2> HIDE DEF top
  <2>4. \A i \in 1..m + 1 : s[i] <= top
    <3> TAKE i \in 1..m + 1
    <3>1. i = m + 1 \/ i \in 1..m
      OBVIOUS
    <3>2. i \in 1..n /\ s[i] \in Nat
      BY <1>1
    <3> QED BY <2>1, <2>2, <2>3, <3>1, <3>2
  <2> QED BY <2>3, <2>4
<1>4. Nat \subseteq Good
  <2> HIDE DEF Good
  <2> QED BY <1>2, <1>3, SetInduction
<1>5. n \in Good /\ n <= n
  <2> HIDE DEF Good
  <2> QED BY <1>1, <1>4
<1> QED BY <1>1, <1>5

LEMMA KthSmallestIsNatural ==
    ASSUME NEW s \in Seq(Nat), NEW k \in 1..Len(s)
    PROVE  KthSmallest(s, k) \in ToSet(s) /\ KthSmallest(s, k) \in Nat
<1> DEFINE n == Len(s)
<1> DEFINE UpTo(v) == {i \in 1..n : s[i] <= v}
<1> DEFINE Below(v) == {i \in 1..n : s[i] < v}
<1>1. n \in Nat /\ DOMAIN s = 1..n /\ k \in 1..n /\ \A i \in 1..n : s[i] \in Nat
  OBVIOUS
<1> HIDE DEF n
<1>2. ASSUME NEW T \in SUBSET (1..n) PROVE Cardinality(T) \in Nat
  <2>1. IsFiniteSet(1..n)
    BY <1>1, FS_Interval
  <2>2. IsFiniteSet(T)
    BY <2>1, FS_Subset
  <2> QED BY <2>2, FS_CardinalityType
<1>0. \A u : UpTo(u) \in SUBSET (1..n) /\ Below(u) \in SUBSET (1..n)
  OBVIOUS
<1> DEFINE Enough == {v \in Nat : k <= Cardinality(UpTo(v))}
<1>3. Enough \in SUBSET Nat /\ Enough # {}
  <2>1. PICK b \in Nat : \A i \in 1..n : s[i] <= b
    BY <1>1, BoundedAbove
  <2>2. UpTo(b) = 1..n
    BY <2>1
  <2>3. Cardinality(1..n) = n
    BY <1>1, FS_Interval
  <2>4. b \in Enough
    <3> HIDE DEF UpTo
    <3>1. k <= Cardinality(UpTo(b))
      BY <1>1, <2>2, <2>3
    <3> QED BY <3>1
  <2> QED BY <2>4
<1>4. PICK v \in Enough : \A u \in Enough : v <= u
  <2> HIDE DEF Enough
  <2> QED BY <1>3, LeastElement
<1>5. v \in Nat /\ k <= Cardinality(UpTo(v))
  OBVIOUS
<1>6. Cardinality(Below(v)) < k
  <2>1. CASE v = 0
    <3>1. Below(v) = {}
      BY <1>1, <2>1
    <3>2. Cardinality(Below(v)) = 0
      BY <3>1, FS_EmptySet
    <3> QED BY <1>1, <3>2
  <2>2. CASE v # 0
    <3>1. v - 1 \in Nat /\ v - 1 \notin Enough
      <4>1. v - 1 \in Nat /\ ~(v <= v - 1)
        BY <1>5, <2>2
      <4> HIDE DEF Enough
      <4> QED BY <1>4, <4>1
    <3>2. Below(v) = UpTo(v - 1)
      <4>1. \A i \in 1..n : s[i] < v <=> s[i] <= v - 1
        BY <1>1, <1>5
      <4> QED BY <4>1
    <3>3. ~(k <= Cardinality(UpTo(v - 1)))
      BY <3>1
    <3>4. Cardinality(UpTo(v - 1)) \in Nat
      BY <1>2
    <3>5. Cardinality(UpTo(v - 1)) < k
      BY <1>1, <3>3, <3>4
    <3> QED BY <3>2, <3>5
  <2> QED BY <2>1, <2>2
<1>7. \E i \in 1..n : s[i] = v
  <2> SUFFICES ASSUME \A i \in 1..n : s[i] # v PROVE FALSE
    OBVIOUS
  <2>1. \A i \in 1..n : s[i] < v <=> s[i] <= v
    BY <1>1, <1>5
  <2>2. Below(v) = UpTo(v)
    BY <2>1
  <2>3. Cardinality(UpTo(v)) \in Nat
    BY <1>2
  <2> HIDE DEF Below, UpTo
  <2> QED BY <1>1, <1>5, <1>6, <2>2, <2>3
<1> DEFINE Right(u) == Cardinality(Below(u)) < k /\ k <= Cardinality(UpTo(u))
<1>8. \E u \in ToSet(s) : Right(u)
  BY <1>1, <1>5, <1>6, <1>7 DEF ToSet
<1>9. KthSmallest(s, k) = CHOOSE u \in ToSet(s) : Right(u)
  BY <1>1 DEF KthSmallest
<1>10. KthSmallest(s, k) \in ToSet(s)
  <2> HIDE DEF Right
  <2> QED BY <1>8, <1>9
<1> QED BY <1>1, <1>10 DEF ToSet

LEMMA NominalIsNatural ==
    ASSUME NEW dt \in Seq(Nat), dt # << >>
    PROVE  TwiceNominal(dt) \in Nat
<1> DEFINE n == Len(dt)
<1>1. n \in Nat /\ n # 0
  OBVIOUS
<1> HIDE DEF n
<1>2. (n + 1) \div 2 \in 1..n /\ (n + 2) \div 2 \in 1..n
  BY <1>1
<1>3. KthSmallest(dt, (n + 1) \div 2) \in Nat /\ KthSmallest(dt, (n + 2) \div 2) \in Nat
  BY <1>2, KthSmallestIsNatural DEF n
<1> QED BY <1>3 DEF TwiceNominal, n

-----------------------------------------------------------------------------
(* The jitter test without the absolute value: twice the gap lies within   *)
(* the fraction of twice the nominal gap.                                  *)
LEMMA JitterBounds ==
    ASSUME NEW d \in Int, NEW nominal \in Nat
    PROVE  Abs(2 * d - nominal) * JitterDen > JitterNum * nominal <=>
           ~ (/\ JitterDen * 2 * d <= (JitterDen + JitterNum) * nominal
              /\ JitterDen * 2 * d >= (JitterDen - JitterNum) * nominal)
<1>1. JitterNum \in Nat /\ JitterDen \in Nat /\ JitterDen > 0
  BY LimitsAssumption
<1> DEFINE x == 2 * d - nominal
<1> DEFINE slack == JitterNum * nominal
<1>2. x \in Int /\ slack \in Int /\ slack >= 0
  BY <1>1
<1>3. /\ JitterDen * 2 * d = x * JitterDen + JitterDen * nominal
      /\ (JitterDen + JitterNum) * nominal = JitterDen * nominal + slack
      /\ (JitterDen - JitterNum) * nominal = JitterDen * nominal - slack
      /\ (-x) * JitterDen = -(x * JitterDen)
      /\ x * JitterDen \in Int /\ JitterDen * nominal \in Int
  BY <1>1
<1>4. (x < 0 => x * JitterDen < 0) /\ (x >= 0 => x * JitterDen >= 0)
  BY <1>1, <1>2
<1>5. Abs(x) = IF x < 0 THEN -x ELSE x
  BY DEF Abs
<1> HIDE DEF x, slack
<1> DEFINE p == x * JitterDen
<1> DEFINE q == JitterDen * nominal
<1>6. Abs(x) * JitterDen = IF p < 0 THEN -p ELSE p
  BY <1>1, <1>2, <1>3, <1>4, <1>5
<1>7. p \in Int /\ q \in Int
  BY <1>3
<1>8. /\ JitterDen * 2 * d = p + q
      /\ (JitterDen + JitterNum) * nominal = q + slack
      /\ (JitterDen - JitterNum) * nominal = q - slack
  BY <1>3
<1> HIDE DEF p, q
<1>9. Abs(x) * JitterDen > slack <=> ~(p + q <= q + slack /\ p + q >= q - slack)
  BY <1>2, <1>6, <1>7
<1> QED BY <1>8, <1>9 DEF x, slack
-----------------------------------------------------------------------------
(* No first failing test means that no test fails.                         *)
LEMMA NothingFails ==
    ASSUME NEW f, NEW p
    PROVE  validate_frame(f, p) = NoFault <=> \A i \in 1..12 : ~Fails(i, f, p)
<1>1. DOMAIN Codes = 1..12
  BY DEF Codes
<1>2. ASSUME FirstFailure(f, p) = {} PROVE \A i \in 1..12 : ~Fails(i, f, p)
  <2> DEFINE B == {i \in 1..12 : Fails(i, f, p)}
  <2> SUFFICES ASSUME B # {} PROVE FALSE
    OBVIOUS
  <2>1. B \in SUBSET Nat
    OBVIOUS
  <2>2. PICK i \in B : \A j \in B : i <= j
    <3> HIDE DEF B
    <3> QED BY <2>1, LeastElement
  <2>3. \A j \in 1..i - 1 : j \in 1..12 /\ ~(i <= j)
    OBVIOUS
  <2>4. \A j \in 1..i - 1 : ~Fails(j, f, p)
    BY <2>2, <2>3
  <2>5. i \in FirstFailure(f, p)
    BY <1>1, <2>4 DEF FirstFailure
  <2> QED BY <1>2, <2>5
<1>3. ASSUME \A i \in 1..12 : ~Fails(i, f, p) PROVE FirstFailure(f, p) = {}
  BY <1>1, <1>3 DEF FirstFailure
<1>4. ASSUME FirstFailure(f, p) = {} PROVE validate_frame(f, p) = NoFault
  BY <1>4 DEF validate_frame, FaultOf
<1>5. ASSUME FirstFailure(f, p) # {} PROVE validate_frame(f, p) # NoFault
  <2>1. PICK i \in 1..12 : FirstFailure(f, p) = {i}
    BY <1>5, FirstIsUnique
  <2>2. validate_frame(f, p).code = Codes[i]
    BY <2>1, FaultOfFirst DEF RuntimeFault
  <2>3. Codes[i] # "none"
    BY DEF Codes
  <2> QED BY <2>2, <2>3 DEF NoFault, RuntimeFault
<1> QED BY <1>2, <1>3, <1>4, <1>5

(* The timestamps' part of the contract.                                   *)
OnTime(f, n) ==
    LET ts == f.slot_timestamps_ns IN
    /\ Len(ts) = n
    /\ \A k, m \in 1..n : k < m => ts[k] < ts[m]
    /\ \A k \in 1..n : ts[k] \in f.monotonic_start_ns..f.monotonic_end_ns
    /\ \A k \in 1..n - 1 :
           LET nominal == TwiceNominal(Gaps(ts)) IN
           /\ JitterDen * 2 * (ts[k+1] - ts[k]) <= (JitterDen + JitterNum) * nominal
           /\ JitterDen * 2 * (ts[k+1] - ts[k]) >= (JitterDen - JitterNum) * nominal

LEMMA TimestampTests ==
    ASSUME NEW f \in Captures, f.timestamped, Expected(f) \in Nat \ {0}, NEW p
    PROVE  (\A i \in 10..12 : ~Fails(i, f, p)) <=> OnTime(f, Expected(f))
<1> DEFINE n == Expected(f)
<1> DEFINE ts == f.slot_timestamps_ns
<1> DEFINE dt == Gaps(ts)
<1>1. /\ n \in Nat /\ n # 0 /\ ts \in Seq(Int)
      /\ f.monotonic_start_ns \in Int /\ f.monotonic_end_ns \in Int
  BY FramesAssumption DEF CaptureFrame
<1>2. /\ Fails(10, f, p) <=> Len(ts) # n \/ \E k \in DOMAIN dt : dt[k] <= 0
      /\ Fails(11, f, p) <=> ts[1] < f.monotonic_start_ns \/ ts[n] > f.monotonic_end_ns
      /\ Fails(12, f, p) <=> Jitters(ts)
  BY DEF Fails
<1>3. (\A i \in 10..12 : ~Fails(i, f, p)) <=>
        ~Fails(10, f, p) /\ ~Fails(11, f, p) /\ ~Fails(12, f, p)
  <2>1. \A i \in 10..12 : i = 10 \/ i = 11 \/ i = 12
    OBVIOUS
  <2>2. 10 \in 10..12 /\ 11 \in 10..12 /\ 12 \in 10..12
    OBVIOUS
  <2> QED BY <2>1, <2>2
<1>4. CASE Len(ts) # n
  BY <1>2, <1>3, <1>4 DEF OnTime
<1>5. CASE Len(ts) = n
  <2>0. ts # << >> /\ \A k \in 1..n : ts[k] \in Int
    BY <1>1, <1>5
  <2>1. /\ dt \in Seq(Int) /\ DOMAIN dt = 1..n - 1 /\ Len(dt) = n - 1
        /\ \A k \in 1..n - 1 : dt[k] = ts[k + 1] - ts[k] /\ dt[k] \in Int
    <3>1. /\ dt \in Seq(Int) /\ DOMAIN dt = 1..n - 1 /\ Len(dt) = n - 1
          /\ \A k \in 1..n - 1 : dt[k] = ts[k + 1] - ts[k]
      BY <1>1, <1>5, <2>0, GapsOfTimestamps
    <3>2. \A k \in 1..n - 1 : k \in 1..n /\ k + 1 \in 1..n
      BY <1>1
    <3> HIDE DEF dt, ts, n
    <3>3. \A k \in 1..n - 1 : dt[k] \in Int
      BY <2>0, <3>1, <3>2
    <3> QED BY <3>1, <3>3
  <2> DEFINE Increasing == \A k, m \in 1..n : k < m => ts[k] < ts[m]
  <2>2. (\A k \in DOMAIN dt : dt[k] > 0) <=> Increasing
    BY <1>1, <1>5, <2>0, CadenceIncreases
  <2>3. Fails(10, f, p) <=> ~Increasing
    <3> HIDE DEF Increasing, dt, ts, n
    <3>1. \A k \in DOMAIN dt : dt[k] > 0 <=> ~(dt[k] <= 0)
      BY <2>1
    <3> QED BY <1>2, <1>5, <2>2, <3>1
  <2>4. CASE ~Increasing
    BY <1>3, <2>3, <2>4 DEF OnTime
  <2>5. CASE Increasing
    <3>1. Fails(11, f, p) <=>
            ~ \A k \in 1..n : ts[k] \in f.monotonic_start_ns..f.monotonic_end_ns
      <4> DEFINE a == f.monotonic_start_ns
      <4> DEFINE b == f.monotonic_end_ns
      <4>1. \A k \in 1..n : ts[1] <= ts[k] /\ ts[k] <= ts[n]
        <5> TAKE k \in 1..n
        <5>1. 1 \in 1..n /\ n \in 1..n /\ (k = 1 \/ 1 < k) /\ (k = n \/ k < n)
          BY <1>1
        <5> HIDE DEF ts, n
        <5>2. (k = 1 \/ ts[1] < ts[k]) /\ (k = n \/ ts[k] < ts[n])
          BY <2>5, <5>1
        <5>3. ts[1] \in Int /\ ts[n] \in Int /\ ts[k] \in Int
          BY <2>0, <5>1
        <5> QED BY <5>2, <5>3
      <4>2. 1 \in 1..n /\ n \in 1..n /\ a \in Int /\ b \in Int
        BY <1>1
      <4>3. Fails(11, f, p) <=> ts[1] < a \/ ts[n] > b
        BY <1>2
      <4> HIDE DEF ts, n, a, b, Increasing
      <4>4. (ts[1] < a \/ ts[n] > b) <=> ~ \A k \in 1..n : ts[k] \in a..b
        BY <2>0, <4>1, <4>2
      <4> QED BY <4>3, <4>4 DEF a, b
    <3> DEFINE nominal == TwiceNominal(dt)
    <3> DEFINE Bounded(k) == /\ JitterDen * 2 * (ts[k+1] - ts[k]) <= (JitterDen + JitterNum) * nominal
                             /\ JitterDen * 2 * (ts[k+1] - ts[k]) >= (JitterDen - JitterNum) * nominal
    <3>2. Fails(12, f, p) <=> ~ \A k \in 1..n - 1 : Bounded(k)
      <4>1. Fails(12, f, p) <=>
              \E k \in 1..n - 1 : Abs(2 * dt[k] - nominal) * JitterDen > JitterNum * nominal
        BY <1>2, <2>1 DEF Jitters
      <4>2. CASE n = 1
        <5>1. 1..n - 1 = {}
          BY <4>2
        <5> QED BY <4>1, <5>1
      <4>3. CASE n # 1
        <5>1. nominal \in Nat
          <6>1. dt \in Seq(Nat)
            <7>1. \A k \in 1..n - 1 : dt[k] \in Nat
              <8>1. \A k \in 1..n - 1 : dt[k] > 0
                BY <2>1, <2>2, <2>5
              <8> HIDE DEF dt, ts, n, Increasing
              <8> QED BY <2>1, <8>1
            <7> DEFINE m == n - 1
            <7>2. m \in Nat /\ dt \in [1..m -> Int] /\ \A k \in 1..m : dt[k] \in Nat
              <8>1. dt \in [1..Len(dt) -> Int]
                BY <2>1
              <8>2. m \in Nat
                BY <1>1
              <8> QED BY <2>1, <7>1, <8>1, <8>2
            <7> HIDE DEF m, dt, ts, n, Increasing
            <7>3. dt \in [1..m -> Nat]
              BY <7>2
            <7> QED BY <7>2, <7>3
          <6>2. dt # << >>
            <7>1. Len(dt) # 0
              BY <1>1, <2>1, <4>3
            <7> HIDE DEF dt
            <7> QED BY <7>1
          <6> HIDE DEF dt
          <6> QED BY <6>1, <6>2, NominalIsNatural
        <5>2. ASSUME NEW k \in 1..n - 1
              PROVE  Abs(2 * dt[k] - nominal) * JitterDen > JitterNum * nominal <=> ~Bounded(k)
          <6>1. dt[k] \in Int /\ dt[k] = ts[k + 1] - ts[k]
            BY <2>1
          <6> DEFINE d == dt[k]
          <6> HIDE DEF d, dt, nominal
          <6>2. Abs(2 * d - nominal) * JitterDen > JitterNum * nominal <=>
                 ~ (/\ JitterDen * 2 * d <= (JitterDen + JitterNum) * nominal
                    /\ JitterDen * 2 * d >= (JitterDen - JitterNum) * nominal)
            BY <5>1, <6>1, JitterBounds DEF d
          <6>3. d = ts[k + 1] - ts[k]
            BY <6>1 DEF d
          <6> QED BY <6>2, <6>3 DEF d
        <5> HIDE DEF Bounded, nominal, dt, ts, n
        <5> QED BY <4>1, <5>2
      <4> QED BY <4>2, <4>3
    <3>3. OnTime(f, n) <=>
            /\ Increasing
            /\ \A k \in 1..n : ts[k] \in f.monotonic_start_ns..f.monotonic_end_ns
            /\ \A k \in 1..n - 1 : Bounded(k)
      BY <1>5 DEF OnTime
    <3> DEFINE Inside == \A k \in 1..n : ts[k] \in f.monotonic_start_ns..f.monotonic_end_ns
    <3> DEFINE Steady == \A k \in 1..n - 1 : Bounded(k)
    <3>4. /\ Fails(11, f, p) <=> ~Inside
          /\ Fails(12, f, p) <=> ~Steady
          /\ OnTime(f, n) <=> Increasing /\ Inside /\ Steady
      BY <3>1, <3>2, <3>3
    <3> HIDE DEF Bounded, Increasing, Inside, Steady
    <3> QED BY <1>3, <2>3, <2>5, <3>4
  <2> QED BY <2>4, <2>5
<1> QED BY <1>4, <1>5

(* The other tests, one by one.                                            *)
LEMMA UntimedTests ==
    ASSUME NEW f \in Captures, NEW p \in PreviousIds
    PROVE  LET n == Expected(f) IN
           (\A i \in 1..9 : ~Fails(i, f, p)) <=>
           /\ f.plan_fingerprint = PlanFingerprint
           /\ p < f.sequence_id
           /\ f.ndim \in {1, 2} /\ Len(f.finite) = n /\ Len(f.valid) = n
           /\ f.pass_count \in {1, 2, 4} /\ f.aperture_positive
           /\ f.n_rx >= MinReceivers /\ f.n_rx <= MaxReceivers
           /\ f.monotonic_start_ns < f.monotonic_end_ns
           /\ \A k \in 1..n : f.valid[k] => f.finite[k]
           /\ InvalidDen * Cardinality({k \in 1..n : ~f.valid[k]}) <= InvalidNum * n
           /\ \A k \in 1..n - MaxConsecutiveInvalid :
                  \E m \in k..k + MaxConsecutiveInvalid : f.valid[m]
<1> DEFINE n == Expected(f)
<1>1. /\ p \in Int /\ f.sequence_id \in Nat /\ (p \in Nat \/ p = NoSequence)
      /\ f.pass_count \in Int /\ f.n_rx \in Int
      /\ f.valid \in Seq(BOOLEAN) /\ f.finite \in Seq(BOOLEAN)
      /\ f.monotonic_start_ns \in Int /\ f.monotonic_end_ns \in Int
      /\ f.aperture_positive \in BOOLEAN
  BY FramesAssumption DEF NoSequence, CaptureFrame
<1>2. (\A i \in 1..9 : ~Fails(i, f, p)) <=>
        /\ ~Fails(1, f, p) /\ ~Fails(2, f, p) /\ ~Fails(3, f, p)
        /\ ~Fails(4, f, p) /\ ~Fails(5, f, p) /\ ~Fails(6, f, p)
        /\ ~Fails(7, f, p) /\ ~Fails(8, f, p) /\ ~Fails(9, f, p)
  <2>1. \A i \in 1..9 : \/ i = 1 \/ i = 2 \/ i = 3 \/ i = 4 \/ i = 5
                        \/ i = 6 \/ i = 7 \/ i = 8 \/ i = 9
    OBVIOUS
  <2>2. /\ 1 \in 1..9 /\ 2 \in 1..9 /\ 3 \in 1..9 /\ 4 \in 1..9 /\ 5 \in 1..9
        /\ 6 \in 1..9 /\ 7 \in 1..9 /\ 8 \in 1..9 /\ 9 \in 1..9
    OBVIOUS
  <2> QED BY <2>1, <2>2
<1>3. Fails(2, f, p) <=> ~(p < f.sequence_id)
  BY <1>1 DEF Fails, Regresses, NoSequence
<1>4. /\ Fails(1, f, p) <=> f.plan_fingerprint # PlanFingerprint
      /\ Fails(3, f, p) <=> f.ndim \notin {1, 2} \/ Len(f.finite) # n \/ Len(f.valid) # n
      /\ Fails(4, f, p) <=> f.pass_count \notin {1, 2, 4} \/ ~f.aperture_positive
      /\ Fails(5, f, p) <=> \E k \in DOMAIN f.valid : f.valid[k] /\ ~f.finite[k]
      /\ Fails(6, f, p) <=> f.n_rx \notin MinReceivers..MaxReceivers
      /\ Fails(7, f, p) <=> f.monotonic_end_ns <= f.monotonic_start_ns
      /\ Fails(8, f, p) <=> Cardinality(Erased(f)) * InvalidDen > InvalidNum * n
      /\ Fails(9, f, p) <=> MaxFalseRun(f.valid) > MaxConsecutiveInvalid
  BY DEF Fails
<1>5. Fails(6, f, p) <=> ~(f.n_rx >= MinReceivers /\ f.n_rx <= MaxReceivers)
  BY <1>1, <1>4, LimitsAssumption
<1>6. Fails(7, f, p) <=> ~(f.monotonic_start_ns < f.monotonic_end_ns)
  BY <1>1, <1>4
<1>7. CASE f.ndim \notin {1, 2} \/ Len(f.finite) # n \/ Len(f.valid) # n
  BY <1>2, <1>4, <1>7
<1>8. CASE f.pass_count \notin {1, 2, 4}
  BY <1>2, <1>4, <1>8
<1>9. CASE /\ f.ndim \in {1, 2} /\ Len(f.finite) = n /\ Len(f.valid) = n
           /\ f.pass_count \in {1, 2, 4}
  <2>1. DOMAIN f.valid = 1..n /\ n \in Nat
    <3>1. DOMAIN f.valid = 1..Len(f.valid) /\ Len(f.valid) \in Nat
      BY <1>1
    <3> QED BY <1>9, <3>1
  <2>2. Fails(5, f, p) <=> ~ \A k \in 1..n : f.valid[k] => f.finite[k]
    BY <1>4, <2>1
  <2> DEFINE bad == {k \in 1..n : ~f.valid[k]}
  <2>3. Erased(f) = bad
    BY <2>1 DEF Erased
  <2>4. Cardinality(bad) \in Nat
    <3>1. IsFiniteSet(1..n)
      BY <2>1, FS_Interval
    <3>2. IsFiniteSet(bad)
      BY <3>1, FS_Subset
    <3> QED BY <3>2, FS_CardinalityType
  <2>5. Fails(8, f, p) <=> ~(InvalidDen * Cardinality(bad) <= InvalidNum * n)
    <3> DEFINE c == Cardinality(bad)
    <3>1. c \in Nat /\ InvalidDen \in Nat /\ InvalidNum \in Nat
      BY <2>4, LimitsAssumption
    <3>2. Fails(8, f, p) <=> c * InvalidDen > InvalidNum * n
      BY <1>4, <2>3
    <3> HIDE DEF c, n
    <3>3. c * InvalidDen = InvalidDen * c /\ InvalidDen * c \in Int /\ InvalidNum * n \in Int
      BY <2>1, <3>1
    <3>4. Fails(8, f, p) <=> ~(InvalidDen * c <= InvalidNum * n)
      BY <3>2, <3>3
    <3> QED BY <3>4 DEF c
  <2> DEFINE c == MaxConsecutiveInvalid
  <2>6. Fails(9, f, p) <=> ~ \A k \in 1..n - c : \E m \in k..k + c : f.valid[m]
    <3>1. c \in Nat
      BY LimitsAssumption
    <3>2. MaxFalseRun(f.valid) > c <=> \E k \in 1..Len(f.valid) - c : Invalid(f.valid, k, k + c)
      BY <1>1, <3>1, BurstIsFound
    <3> QED BY <1>4, <1>9, <3>2 DEF Invalid
  <2> HIDE DEF bad, c, n
  <2> QED BY <1>2, <1>3, <1>4, <1>5, <1>6, <1>9, <2>2, <2>5, <2>6 DEF bad, c, n
<1> QED BY <1>7, <1>8, <1>9

(* Validation passes a frame exactly if the frame meets the contract.      *)
LEMMA PassesIffConformant ==
    ASSUME frame \in Captures, previous_sequence_id \in PreviousIds
    PROVE  validate_frame(frame, previous_sequence_id) = NoFault <=> Conformant
<1> DEFINE n == Expected(frame)
<1> DEFINE p == previous_sequence_id
<1>1. validate_frame(frame, p) = NoFault <=> \A i \in 1..12 : ~Fails(i, frame, p)
  BY NothingFails
<1>2. (\A i \in 1..12 : ~Fails(i, frame, p)) <=>
        (\A i \in 1..9 : ~Fails(i, frame, p)) /\ (\A i \in 10..12 : ~Fails(i, frame, p))
  <2>1. \A i : i \in 1..12 <=> i \in 1..9 \/ i \in 10..12
    OBVIOUS
  <2> QED BY <2>1
<1> DEFINE Untimed ==
           /\ frame.plan_fingerprint = PlanFingerprint
           /\ p < frame.sequence_id
           /\ frame.ndim \in {1, 2} /\ Len(frame.finite) = n /\ Len(frame.valid) = n
           /\ frame.pass_count \in {1, 2, 4} /\ frame.aperture_positive
           /\ frame.n_rx >= MinReceivers /\ frame.n_rx <= MaxReceivers
           /\ frame.monotonic_start_ns < frame.monotonic_end_ns
           /\ \A k \in 1..n : frame.valid[k] => frame.finite[k]
           /\ InvalidDen * Cardinality({k \in 1..n : ~frame.valid[k]}) <= InvalidNum * n
           /\ \A k \in 1..n - MaxConsecutiveInvalid :
                  \E m \in k..k + MaxConsecutiveInvalid : frame.valid[m]
<1>3. (\A i \in 1..9 : ~Fails(i, frame, p)) <=> Untimed
  BY UntimedTests
<1>4. Conformant <=> Untimed /\ (frame.timestamped => OnTime(frame, n))
  BY DEF Conformant, OnTime, Expected
<1>5. Untimed => n \in Nat \ {0}
  <2>1. frame.pass_count \in {1, 2, 4} => n \in Nat \ {0}
    BY LimitsAssumption DEF Expected
  <2> QED BY <2>1
<1> HIDE DEF Untimed, n, p
<1>6. CASE ~frame.timestamped
  <2>1. \A i \in 10..12 : ~Fails(i, frame, p)
    <3>1. ~Fails(10, frame, p) /\ ~Fails(11, frame, p) /\ ~Fails(12, frame, p)
      BY <1>6 DEF Fails
    <3>2. \A i \in 10..12 : i = 10 \/ i = 11 \/ i = 12
      OBVIOUS
    <3> QED BY <3>1, <3>2
  <2> QED BY <1>1, <1>2, <1>3, <1>4, <1>6, <2>1 DEF p
<1>7. CASE frame.timestamped
  <2>1. Untimed => ((\A i \in 10..12 : ~Fails(i, frame, p)) <=> OnTime(frame, n))
    BY <1>5, <1>7, TimestampTests DEF n
  <2> QED BY <1>1, <1>2, <1>3, <1>4, <1>7, <2>1 DEF p
<1> QED BY <1>6, <1>7

(* The frame and the id are those of the call, and the verdict, once given,*)
(* is that of validate_frame on them.                                      *)
CallInv ==
    /\ frame \in Captures /\ previous_sequence_id \in PreviousIds
    /\ verdict \in {Unjudged, validate_frame(frame, previous_sequence_id)}

LEMMA CallInvariant == Spec => []CallInv
<1>1. Init => CallInv
  BY DEF Init, CallInv
<1>2. CallInv /\ [Next]_vars => CallInv'
  BY DEF CallInv, Next, Validate, vars
<1> QED BY <1>1, <1>2, PTL DEF Spec

(* The order of the tests hides nothing, and the loops over slots find     *)
(* every burst, gap and bad sample, for every plan, limits and frame: a    *)
(* frame passes exactly if it meets the contract of docs/INTEGRATION.md.   *)
THEOREM AcceptsTheContract == Spec => []AcceptedIffConformant
<1>1. CallInv => AcceptedIffConformant
  BY PassesIffConformant DEF CallInv, AcceptedIffConformant, Judged, Accepted
<1> QED BY <1>1, CallInvariant, PTL
-----------------------------------------------------------------------------
(* Repeating an acquisition without the disturbance clears every fault of  *)
(* quality: only the tests for shape, plan, id and interval remain.        *)
LEMMA CuredPasses ==
    ASSUME NEW f \in Captures, NEW p \in PreviousIds,
           f.timestamped => Separable(f),
           \A i \in 1..7 : ~Fails(i, f, p)
    PROVE  validate_frame(Cured(f), p) = NoFault
<1> DEFINE n == Expected(f)
<1> DEFINE start == f.monotonic_start_ns
<1> DEFINE length == f.monotonic_end_ns - f.monotonic_start_ns
<1> DEFINE step == length \div n
<1> DEFINE c == Cured(f)
<1> DEFINE ts == [k \in 1..n |-> start + step * (k - 1)]
<1>1. /\ ~Fails(1, f, p) /\ ~Fails(2, f, p) /\ ~Fails(3, f, p) /\ ~Fails(4, f, p)
      /\ ~Fails(6, f, p) /\ ~Fails(7, f, p)
  <2>1. /\ 1 \in 1..7 /\ 2 \in 1..7 /\ 3 \in 1..7 /\ 4 \in 1..7 /\ 6 \in 1..7 /\ 7 \in 1..7
    OBVIOUS
  <2> QED BY <2>1
<1>2. f \in CaptureFrame
  BY FramesAssumption
<1>3. /\ c.plan_fingerprint = f.plan_fingerprint /\ c.sequence_id = f.sequence_id
      /\ c.pass_count = f.pass_count /\ c.aperture_positive = f.aperture_positive
      /\ c.ndim = f.ndim /\ c.n_rx = f.n_rx /\ c.timestamped = f.timestamped
      /\ c.monotonic_start_ns = f.monotonic_start_ns
      /\ c.monotonic_end_ns = f.monotonic_end_ns
      /\ c.valid = [k \in 1..n |-> TRUE] /\ c.finite = [k \in 1..n |-> TRUE]
      /\ c.slot_timestamps_ns = ts
  BY <1>2 DEF Cured, CaptureFrame
<1>4. n \in Nat /\ n # 0 /\ Expected(c) = n
  <2>1. f.pass_count \in {1, 2, 4}
    BY <1>1 DEF Fails
  <2> QED BY <1>3, <2>1, LimitsAssumption DEF Expected
<1>5. start \in Int /\ f.monotonic_end_ns \in Int /\ length \in Int /\ length > 0
  <2>1. f.monotonic_start_ns \in Int /\ f.monotonic_end_ns \in Int
    BY <1>2 DEF CaptureFrame
  <2>2. ~(f.monotonic_end_ns <= f.monotonic_start_ns)
    BY <1>1 DEF Fails
  <2> QED BY <2>1, <2>2
<1>6. step \in Nat /\ n * step <= length /\ (length >= n => step > 0)
  <2> HIDE DEF n, length
  <2>1. step \in Int /\ length % n \in 0..n-1 /\ length % n = length - n * step
    BY <1>4, <1>5
  <2> HIDE DEF step
  <2>2. n * step <= length /\ length < n * step + n
    BY <1>4, <1>5, <2>1
  <2>3. step >= 0
    <3> SUFFICES ASSUME step <= -1 PROVE FALSE
      BY <2>1
    <3> DEFINE excess == -1 - step
    <3>1. excess \in Nat /\ step = -1 - excess
      BY <2>1
    <3> HIDE DEF excess
    <3>2. n * step = -n - n * excess /\ n * excess \in Nat
      BY <1>4, <3>1
    <3> QED BY <1>4, <1>5, <2>2, <3>2
  <2>4. length >= n => step > 0
    <3> SUFFICES ASSUME length >= n, step = 0 PROVE FALSE
      BY <2>1, <2>3
    <3> QED BY <1>4, <1>5, <2>2
  <2> QED BY <2>1, <2>2, <2>3, <2>4
<1>7. Len(c.valid) = n /\ Len(c.finite) = n /\ c.valid \in Seq(BOOLEAN)
      /\ DOMAIN c.valid = 1..n /\ \A k \in 1..n : c.valid[k] /\ c.finite[k]
  <2> DEFINE yes == [k \in 1..n |-> TRUE]
  <2>1. c.valid = yes /\ c.finite = yes
    BY <1>3
  <2> HIDE DEF n, c
  <2>2. yes \in Seq(BOOLEAN) /\ Len(yes) = n /\ DOMAIN yes = 1..n /\ \A k \in 1..n : yes[k]
    BY <1>4
  <2> HIDE DEF yes
  <2> QED BY <2>1, <2>2
<1> HIDE DEF c
<1>8. /\ ~Fails(1, c, p) /\ ~Fails(2, c, p) /\ ~Fails(3, c, p) /\ ~Fails(4, c, p)
      /\ ~Fails(6, c, p) /\ ~Fails(7, c, p)
  BY <1>1, <1>3, <1>4, <1>7 DEF Fails
<1>9. ~Fails(5, c, p)
  BY <1>7 DEF Fails
<1>10. ~Fails(8, c, p)
  <2>1. Erased(c) = {}
    BY <1>7 DEF Erased
  <2>2. Cardinality(Erased(c)) = 0
    BY <2>1, FS_EmptySet
  <2>3. InvalidNum * n >= 0 /\ 0 * InvalidDen = 0 /\ InvalidNum * n \in Int
    BY <1>4, LimitsAssumption
  <2>4. Fails(8, c, p) <=> Cardinality(Erased(c)) * InvalidDen > InvalidNum * Expected(c)
    BY DEF Fails
  <2> HIDE DEF n
  <2> QED BY <1>4, <2>2, <2>3, <2>4
<1>11. ~Fails(9, c, p)
  <2>1. MaxConsecutiveInvalid \in Nat
    BY LimitsAssumption
  <2>2. ASSUME NEW k \in 1..n - MaxConsecutiveInvalid,
               Invalid(c.valid, k, k + MaxConsecutiveInvalid)
        PROVE  FALSE
    <3>1. k \in k..k + MaxConsecutiveInvalid /\ k \in 1..n
      BY <1>4, <2>1
    <3> QED BY <1>7, <2>2, <3>1 DEF Invalid
  <2>3. ~(MaxFalseRun(c.valid) > MaxConsecutiveInvalid)
    BY <1>7, <2>1, <2>2, BurstIsFound
  <2> QED BY <2>3 DEF Fails
<1>12. ASSUME f.timestamped
       PROVE  ~Fails(10, c, p) /\ ~Fails(11, c, p) /\ ~Fails(12, c, p)
  <2>1. step > 0 /\ step \in Nat
    <3>1. length >= n
      BY <1>12 DEF Separable
    <3> QED BY <1>6, <3>1
  <2> HIDE DEF step, start
  <2>2. ts \in Seq(Int) /\ Len(ts) = n
    <3>1. \A k \in 1..n : start + step * (k - 1) \in Int
      <4> TAKE k \in 1..n
      <4>1. k - 1 \in Int
        BY <1>4
      <4>2. step * (k - 1) \in Int
        BY <2>1, <4>1
      <4> QED BY <1>5, <4>2
    <3> HIDE DEF n
    <3> QED BY <1>4, <3>1
  <2>3. ts # << >> /\ \A k \in 1..n : ts[k] = start + step * (k - 1)
    <3> HIDE DEF n
    <3> QED BY <1>4, <2>2
  <2> HIDE DEF ts
  <2> DEFINE dt == Gaps(ts)
  <2>4. /\ dt \in Seq(Int) /\ DOMAIN dt = 1..n - 1 /\ Len(dt) = n - 1
        /\ \A k \in 1..n - 1 : dt[k] = step
    <3>1. /\ dt \in Seq(Int) /\ DOMAIN dt = 1..n - 1 /\ Len(dt) = n - 1
          /\ \A k \in 1..n - 1 : dt[k] = ts[k + 1] - ts[k]
      BY <2>2, <2>3, GapsOfTimestamps
    <3>2. ASSUME NEW k \in 1..n - 1 PROVE dt[k] = step
      <4>1. k \in 1..n /\ k + 1 \in 1..n /\ k \in Int /\ (k + 1) - 1 = k
        BY <1>4
      <4> HIDE DEF n, dt
      <4>2. ts[k + 1] = start + step * k /\ ts[k] = start + step * (k - 1)
        BY <2>3, <4>1
      <4>3. step * (k - 1) = step * k - step /\ step * k \in Int
        BY <2>1, <4>1
      <4>4. dt[k] = ts[k + 1] - ts[k]
        BY <3>1
      <4> QED BY <1>5, <2>1, <4>2, <4>3, <4>4
    <3> QED BY <3>1, <3>2
  <2> HIDE DEF dt
  <2>5. ~Fails(10, c, p)
    <3>1. \A k \in DOMAIN dt : ~(dt[k] <= 0)
      BY <2>1, <2>4
    <3> QED BY <1>3, <1>4, <2>2, <3>1 DEF Fails, dt
  <2>6. ~Fails(11, c, p)
    <3>1. 1 \in 1..n /\ n \in 1..n /\ n \in Int /\ 1 - 1 = 0
      BY <1>4
    <3>2. ts[1] = start /\ ts[n] = start + step * (n - 1)
      <4>1. step * 0 = 0 /\ start + 0 = start
        BY <1>5, <2>1
      <4> HIDE DEF n
      <4>2. ts[1] = start + step * (1 - 1) /\ ts[n] = start + step * (n - 1)
        BY <2>3, <3>1
      <4> QED BY <3>1, <4>1, <4>2
    <3>3. step * (n - 1) <= length
      <4> HIDE DEF n, length
      <4>1. step * (n - 1) = n * step - step /\ n * step \in Int
        BY <1>4, <2>1
      <4> QED BY <1>5, <1>6, <2>1, <4>1
    <3>4. step * (n - 1) \in Int
      BY <1>4, <2>1
    <3>5. ~(ts[1] < f.monotonic_start_ns) /\ ~(ts[n] > f.monotonic_end_ns)
      <4> HIDE DEF n
      <4> QED BY <1>5, <3>2, <3>3, <3>4 DEF start
    <3> QED BY <1>3, <1>4, <3>5 DEF Fails
  <2>7. ~Fails(12, c, p)
    <3> SUFFICES ASSUME NEW i \in DOMAIN dt PROVE
            ~(Abs(2 * dt[i] - TwiceNominal(dt)) * JitterDen > JitterNum * TwiceNominal(dt))
      BY <1>3 DEF Fails, Jitters, dt
    <3>1. i \in 1..n - 1 /\ n - 1 \in Nat /\ n - 1 # 0 /\ dt[i] = step
      BY <1>4, <2>4
    <3>2. dt \in Seq(Nat)
      <4> DEFINE m == n - 1
      <4>1. m \in Nat /\ dt \in [1..m -> Int] /\ \A k \in 1..m : dt[k] \in Nat
        <5>1. dt \in [1..Len(dt) -> Int]
          BY <2>4
        <5> QED BY <2>1, <2>4, <3>1, <5>1
      <4> HIDE DEF m, n
      <4>2. dt \in [1..m -> Nat]
        BY <4>1
      <4> QED BY <4>1, <4>2
    <3>3. ToSet(dt) = {step}
      <4>1. \A k \in DOMAIN dt : dt[k] = step
        BY <2>4
      <4> HIDE DEF n
      <4> QED BY <3>1, <4>1 DEF ToSet
    <3> DEFINE m == n - 1
    <3>4. m \in Nat /\ m # 0 /\ Len(dt) = m
      BY <2>4, <3>1
    <3> HIDE DEF m
    <3>5. (m + 1) \div 2 \in 1..m /\ (m + 2) \div 2 \in 1..m
      BY <3>4
    <3>6. KthSmallest(dt, (m + 1) \div 2) = step /\ KthSmallest(dt, (m + 2) \div 2) = step
      BY <3>2, <3>3, <3>4, <3>5, KthSmallestIsNatural
    <3>7. TwiceNominal(dt) = 2 * step
      BY <2>1, <3>4, <3>6 DEF TwiceNominal
    <3>8. Abs(2 * step - 2 * step) * JitterDen = 0
      BY <2>1, LimitsAssumption DEF Abs
    <3>9. JitterNum * (2 * step) >= 0
      BY <2>1, LimitsAssumption
    <3>10. JitterNum * (2 * step) \in Int
      BY <2>1, LimitsAssumption
    <3> QED BY <3>1, <3>7, <3>8, <3>9, <3>10
  <2> QED BY <2>5, <2>6, <2>7
<1>13. ASSUME ~f.timestamped
       PROVE  ~Fails(10, c, p) /\ ~Fails(11, c, p) /\ ~Fails(12, c, p)
  BY <1>3, <1>13 DEF Fails
<1>14. \A i \in 1..12 : ~Fails(i, c, p)
  <2>1. \A i \in 1..12 : \/ i = 1 \/ i = 2 \/ i = 3 \/ i = 4 \/ i = 5 \/ i = 6
                        \/ i = 7 \/ i = 8 \/ i = 9 \/ i = 10 \/ i = 11 \/ i = 12
    OBVIOUS
  <2>2. ~Fails(10, c, p) /\ ~Fails(11, c, p) /\ ~Fails(12, c, p)
    BY <1>12, <1>13
  <2> QED BY <1>8, <1>9, <1>10, <1>11, <2>1, <2>2
<1> QED BY <1>14, NothingFails DEF c

LEMMA RecoverableFaults ==
    ASSUME NEW f, NEW p, validate_frame(f, p).recoverable
    PROVE  \A j \in 1..7 : ~Fails(j, f, p)
<1>1. FirstFailure(f, p) # {}
  BY DEF validate_frame, FaultOf, NoFault, RuntimeFault
<1>2. PICK i \in 1..12 : FirstFailure(f, p) = {i}
  BY <1>1, FirstIsUnique
<1>3. Codes[i] \in QualityCodes
  <2>1. validate_frame(f, p) = RuntimeFault(Codes[i], Codes[i] \in QualityCodes)
    BY <1>2, FaultOfFirst
  <2>2. RuntimeFault(Codes[i], Codes[i] \in QualityCodes).recoverable
    BY <2>1
  <2> QED BY <2>2, Zenon DEF RuntimeFault
<1>4. i \in {8, 9, 12}
  <2>0. /\ Codes[1] = "plan_mismatch" /\ Codes[2] = "sequence_regression"
        /\ Codes[3] = "slot_count_mismatch" /\ Codes[4] = "invalid_timing"
        /\ Codes[5] = "nonfinite_input" /\ Codes[6] = "receiver_count"
        /\ Codes[7] = "invalid_timing" /\ Codes[10] = "invalid_timing"
        /\ Codes[11] = "invalid_timing"
    BY DEF Codes
  <2>1. \/ i = 1 \/ i = 2 \/ i = 3 \/ i = 4 \/ i = 5 \/ i = 6
        \/ i = 7 \/ i = 8 \/ i = 9 \/ i = 10 \/ i = 11 \/ i = 12
    OBVIOUS
  <2> QED BY <1>3, <2>0, <2>1 DEF QualityCodes
<1>5. \A j \in 1..i - 1 : ~Fails(j, f, p)
  BY <1>2 DEF FirstFailure
<1>6. \A j \in 1..7 : j \in 1..i - 1
  BY <1>4
<1> QED BY <1>5, <1>6

(* Reacquisitions are spent on disturbances only: whatever the plan, the   *)
(* limits and the frame, an acquisition of the same plan, id, shape and    *)
(* interval without erasures and with an even cadence would pass.          *)
THEOREM RetriesAreSpentWell == Spec => []RetryIsWorthwhile
<1>1. CallInv => RetryIsWorthwhile
  BY CuredPasses, RecoverableFaults DEF CallInv, RetryIsWorthwhile, Judged
<1> QED BY <1>1, CallInvariant, PTL
=============================================================================
