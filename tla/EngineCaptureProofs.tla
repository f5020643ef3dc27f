------------------------ MODULE EngineCaptureProofs ------------------------
(***************************************************************************)
(* What the engine makes of erased and of measured slots, for any plan,    *)
(* number of passes, switch response and erasures, with the error order of *)
(* the switch inverse by induction over the capture.                       *)
(***************************************************************************)
EXTENDS EngineCapture, FiniteSetTheorems, TLAPS

(* The spectra a view can end with.                                        *)
Ends(v) == {Synthesized(v), repair_erased_gray_slots(Synthesized(v))}
Spectra == UNION {Ends(v) : v \in 0..PlanViews-1}

(* One spectrum for each view that is done, in their order.                *)
Shape ==
    /\ spectra \in Seq(Spectra)
    /\ detected \in Seq(BOOLEAN)
    /\ Len(detected) = Len(spectra)
    /\ stage \in {"called", "raised"} => spectra = <<>>
    /\ stage = "viewing" => Len(spectra) < PlanViews

NoZeros(samples) == \A query \in Buckets : samples[query].from # "zero"
ViewsDone ==
    \A v \in 0..Len(spectra)-1 :
        /\ spectra[v + 1] \in Ends(v)
        /\ detected[v + 1] => NoZeros(spectra[v + 1])

CaptureInv == Shape /\ ViewsDone

(* A query that is not erased in every pass is measured, before and after  *)
(* a repair.                                                               *)
LEMMA EndsMeasured ==
    ASSUME NEW v \in Nat, NEW samples \in Ends(v), NEW query \in Buckets,
           ~(Physical(v, query) \subseteq erased)
    PROVE  samples[query].from = "measured"
<1>1. Observations(v, query) # {}
  BY DEF Observations
<1>2. Synthesized(v)[query].from = "measured"
  BY <1>1 DEF Synthesized
<1>3. repair_erased_gray_slots(Synthesized(v))[query].from = "measured"
  BY <1>2 DEF repair_erased_gray_slots
<1> QED BY <1>2, <1>3 DEF Ends

(* CaptureInv strengthens the properties of the run.                       *)
LEMMA InvGivesProperties ==
    CaptureInv => ObservedQueriesMeasured /\ DetectedOnlyAfterRepair
<1> SUFFICES ASSUME CaptureInv PROVE ObservedQueriesMeasured /\ DetectedOnlyAfterRepair
  OBVIOUS
<1>1. Len(spectra) \in Nat
  BY DEF CaptureInv, Shape
<1>2. ASSUME NEW v \in 0..Len(spectra)-1, NEW query \in Buckets,
             ~(Physical(v, query) \subseteq erased)
      PROVE  spectra[v + 1][query].from = "measured"
  <2>1. v \in Nat /\ spectra[v + 1] \in Ends(v)
    BY <1>1 DEF CaptureInv, ViewsDone
  <2> QED BY <1>2, <2>1, EndsMeasured
<1>3. ObservedQueriesMeasured
  BY <1>2 DEF ObservedQueriesMeasured, view
<1>4. DetectedOnlyAfterRepair
  BY DEF CaptureInv, ViewsDone, NoZeros, DetectedOnlyAfterRepair, view
<1> QED BY <1>3, <1>4

(* Initially no view is done.                                              *)
LEMMA InitInv == Init => CaptureInv
<1> SUFFICES ASSUME Init PROVE CaptureInv
  OBVIOUS
<1>1. Len(<<>>) = 0 /\ <<>> \in Seq(Spectra) /\ <<>> \in Seq(BOOLEAN)
  OBVIOUS
<1> QED BY <1>1 DEF Init, CaptureInv, Shape, ViewsDone

(* What a view can end with is settled once the capture is prepared.       *)
LEMMA EndsStay ==
    ASSUME UNCHANGED <<pass_count, length, erased, error>>, NEW v
    PROVE  Synthesized(v)' = Synthesized(v) /\ Ends(v)' = Ends(v)
<1>1. \A query : Observations(v, query)' = Observations(v, query)
  <2>1. \A query : Physical(v, query)' = Physical(v, query)
    BY DEF Physical, Block
  <2> QED BY <2>1 DEF Observations
<1>2. error' = error
  OBVIOUS
<1>3. \A query : OrdersSeen(v, query)' = OrdersSeen(v, query)
  BY <1>1, <1>2 DEF OrdersSeen
<1>4. Synthesized(v)' = Synthesized(v)
  BY <1>1, <1>3 DEF Synthesized
<1> QED BY <1>4 DEF Ends, repair_erased_gray_slots

(* A view whose decoding proposes buckets ends without zeros: either no    *)
(* query was zero, or a first decoding proposed some and all were repaired.*)
LEMMA DecodedEnd ==
    ASSUME NEW v, NEW initial \in BOOLEAN, NEW final \in BOOLEAN,
           (~(SomeInvalid(Synthesized(v)) /\ initial)) => final = initial
    PROVE  LET end == IF SomeInvalid(Synthesized(v)) /\ initial
                      THEN repair_erased_gray_slots(Synthesized(v)) ELSE Synthesized(v)
           IN end \in Ends(v) /\ (final => NoZeros(end))
<1>1. CASE SomeInvalid(Synthesized(v)) /\ initial
  BY <1>1 DEF Ends, NoZeros, repair_erased_gray_slots
<1>2. CASE ~(SomeInvalid(Synthesized(v)) /\ initial)
  BY <1>2 DEF Ends, NoZeros, SomeInvalid
<1> QED BY <1>1, <1>2

(* A turn of the loop adds the end of the next view.                       *)
LEMMA DecodeKeeps == CaptureInv /\ DecodeView => CaptureInv'
<1> SUFFICES ASSUME CaptureInv, DecodeView PROVE CaptureInv'
  OBVIOUS
<1> DEFINE n == Len(spectra)
<1>1. PICK initial \in BOOLEAN, final \in BOOLEAN :
          /\ (~(SomeInvalid(Synthesized(n)) /\ initial)) => final = initial
          /\ spectra' = Append(spectra, IF SomeInvalid(Synthesized(n)) /\ initial
                                        THEN repair_erased_gray_slots(Synthesized(n))
                                        ELSE Synthesized(n))
          /\ detected' = Append(detected, final)
  BY DEF DecodeView, view
<1> DEFINE end == IF SomeInvalid(Synthesized(n)) /\ initial
                  THEN repair_erased_gray_slots(Synthesized(n)) ELSE Synthesized(n)
<1>2. end \in Ends(n) /\ (final => NoZeros(end))
  BY <1>1, DecodedEnd
<1>3. /\ n \in Nat /\ n < PlanViews /\ n \in 0..PlanViews-1
      /\ spectra \in Seq(Spectra) /\ detected \in Seq(BOOLEAN) /\ Len(detected) = n
  BY CaptureAssumption DEF CaptureInv, Shape, DecodeView
<1>4. end \in Spectra
  BY <1>2, <1>3 DEF Spectra
<1> HIDE DEF end
<1>5. spectra' = Append(spectra, end) /\ detected' = Append(detected, final)
  BY <1>1 DEF end
<1>6. \A v : Ends(v)' = Ends(v)
  BY EndsStay DEF DecodeView
<1>7. Spectra' = Spectra
  BY <1>6 DEF Spectra
<1>8. /\ spectra' \in Seq(Spectra) /\ detected' \in Seq(BOOLEAN)
      /\ Len(spectra') = n + 1 /\ Len(detected') = n + 1
      /\ \A i \in 1..n : spectra'[i] = spectra[i] /\ detected'[i] = detected[i]
      /\ spectra'[n + 1] = end /\ detected'[n + 1] = final
  BY <1>3, <1>4, <1>5
<1>9. Shape'
  <2>1. /\ stage' \in {"viewing", "returned"}
        /\ stage' = "viewing" => n + 1 # PlanViews
    BY DEF DecodeView, view
  <2>2. stage' = "viewing" => n + 1 < PlanViews
    BY <1>3, <2>1, CaptureAssumption
  <2> QED BY <1>3, <1>7, <1>8, <2>1, <2>2 DEF Shape
<1>10. ViewsDone'
  <2> SUFFICES ASSUME NEW v \in 0..n
               PROVE  /\ spectra'[v + 1] \in Ends(v)
                      /\ detected'[v + 1] => NoZeros(spectra'[v + 1])
    BY <1>3, <1>6, <1>8 DEF ViewsDone, NoZeros
  <2>1. CASE v = n
    BY <1>2, <1>8, <2>1
  <2>2. CASE v \in 0..n-1
    <3>1. v + 1 \in 1..n
      BY <1>3, <2>2
    <3> QED BY <1>8, <2>2, <3>1 DEF CaptureInv, ViewsDone
  <2> QED BY <1>3, <2>1, <2>2
<1> QED BY <1>9, <1>10 DEF CaptureInv

(* CaptureInv is inductive.                                                *)
LEMMA InvariantHolds == Spec => []CaptureInv
<1>1. CaptureInv /\ [Next]_vars => CaptureInv'
  <2> SUFFICES ASSUME CaptureInv, [Next]_vars PROVE CaptureInv'
    OBVIOUS
  <2>1. CASE Refuse \/ Prepare
    <3>1. spectra = <<>> /\ detected = <<>> /\ spectra' = <<>> /\ detected' = <<>>
      BY <2>1 DEF Refuse, Prepare, CaptureInv, Shape
    <3>2. stage' \in {"raised", "viewing"} /\ Len(<<>>) < PlanViews
      BY <2>1, CaptureAssumption DEF Refuse, Prepare
    <3>3. <<>> \in Seq(Spectra') /\ <<>> \in Seq(BOOLEAN) /\ Len(<<>>) = 0
      OBVIOUS
    <3> QED BY <3>1, <3>2, <3>3 DEF CaptureInv, Shape, ViewsDone
  <2>2. CASE DecodeView
    BY <2>2, DecodeKeeps
  <2>3. CASE UNCHANGED vars
    <3>1. \A v : Ends(v)' = Ends(v)
      BY <2>3, EndsStay DEF vars
    <3>2. Spectra' = Spectra
      BY <3>1 DEF Spectra
    <3>3. Shape'
      BY <2>3, <3>2 DEF vars, CaptureInv, Shape
    <3>4. ViewsDone'
      BY <2>3, <3>1 DEF vars, CaptureInv, ViewsDone, NoZeros
    <3> QED BY <3>3, <3>4 DEF CaptureInv
  <2> QED BY <2>1, <2>2, <2>3 DEF Next
<1> QED BY InitInv, <1>1, PTL DEF Spec

(* A query that any pass observed reaches the final spectrum as measured.  *)
THEOREM MeasurementsKept == Spec => []ObservedQueriesMeasured
  BY InvariantHolds, InvGivesProperties, PTL

(* Buckets are proposed only from spectra without zeros for erased slots.  *)
THEOREM NothingFoundInZeros == Spec => []DetectedOnlyAfterRepair
  BY InvariantHolds, InvGivesProperties, PTL
-----------------------------------------------------------------------------
(* The order of the error, slot by slot.  deconvolve_fir_memory is a       *)
(* recursion over the slots; induction over the naturals is taken here in  *)
(* the form of least elements, from the well-foundedness of finite sets.   *)

LEMMA LeastElement ==
    ASSUME NEW B \in SUBSET Nat, B # {}
    PROVE  \E m \in B : \A k \in B : m <= k
<1> DEFINE T == {0..k : k \in B}
<1>1. IsWellFoundedOn(StrictSubsetOrdering(Nat), FiniteSubsetsOf(Nat))
  BY FS_StrictSubsetOrderingWellFounded
<1>2. T \subseteq FiniteSubsetsOf(Nat) /\ T # {}
  <2>1. ASSUME NEW k \in B PROVE 0..k \in FiniteSubsetsOf(Nat)
    BY FS_Interval DEF FiniteSubsetsOf
  <2> QED BY <2>1
<1>3. \E x \in T : \A y \in T : <<y, x>> \notin StrictSubsetOrdering(Nat)
  <2> HIDE DEF T
  <2> QED BY <1>1, <1>2, WFMin
<1>4. PICK m \in B : \A k \in B : <<0..k, 0..m>> \notin StrictSubsetOrdering(Nat)
  BY <1>3
<1>5. ASSUME NEW k \in B, k < m PROVE FALSE
  <2>1. 0..k \subseteq 0..m /\ m \in 0..m /\ m \notin 0..k
    BY <1>5
  <2>2. <<0..k, 0..m>> \in StrictSubsetOrdering(Nat)
    BY <2>1 DEF StrictSubsetOrdering
  <2> QED BY <1>4, <2>2
<1> QED BY <1>5

LEMMA SetInduction ==
    ASSUME NEW S, 0 \in S, \A n \in Nat : n \in S => n + 1 \in S
    PROVE  Nat \subseteq S
<1> SUFFICES ASSUME Nat \ S # {} PROVE FALSE
  OBVIOUS
<1>1. PICK m \in Nat \ S : \A k \in Nat \ S : m <= k
  BY LeastElement
<1> QED BY <1>1

LEMMA MinOfNaturals ==
    ASSUME NEW B \in SUBSET Nat, B # {}
    PROVE  Min(B) \in B /\ \A k \in B : Min(B) <= k
  BY LeastElement DEF Min

LEMMA MaxOfBounded ==
    ASSUME NEW n \in Nat, NEW B \in SUBSET (0..n), B # {}
    PROVE  Max(B) \in B /\ \A k \in B : Max(B) >= k
<1> DEFINE flipped == {n - k : k \in B}
<1>1. flipped \in SUBSET Nat /\ flipped # {}
  <2>1. PICK x \in B : TRUE
    OBVIOUS
  <2>2. n - x \in flipped
    OBVIOUS
  <2>3. \A k \in B : n - k \in Nat
    OBVIOUS
  <2> QED BY <2>2, <2>3
<1>2. PICK m \in flipped : \A k \in flipped : m <= k
  <2> HIDE DEF flipped
  <2> QED BY <1>1, LeastElement
<1>3. PICK x \in B : m = n - x
  BY <1>2
<1>4. \A y \in B : x >= y
  BY <1>2, <1>3
<1> QED BY <1>4 DEF Max

(* A capture has a natural number of slots: 2^n counts a set's subsets.    *)
LEMMA PowerOfTwo == ASSUME NEW n \in Nat PROVE 2^n \in Nat
<1>1. IsFiniteSet(1..n) /\ Cardinality(1..n) = n
  BY FS_Interval
<1>2. IsFiniteSet(SUBSET (1..n)) /\ Cardinality(SUBSET (1..n)) = 2^n
  BY <1>1, FS_SUBSET
<1> QED BY <1>2, FS_CardinalityType
-----------------------------------------------------------------------------
(* The recursion of deconvolve_fir_memory, one turn at a time.             *)
Order(S, x, i) ==
    IF i \in S \/ Reach(i) \cap S # {} THEN 1
    ELSE Min({Exact} \cup {x[j + 1] + 1 : j \in Reach(i)})

Extend(S, x, n) == Append(x, Order(S, x, n - 1))

Turns(S, f, N) == f = [n \in 0..N |-> IF n = 0 THEN <<>> ELSE Extend(S, f[n - 1], n)]

LEMMA TurnsExist == ASSUME NEW S, NEW N \in Nat PROVE \E f : Turns(S, f, N)
<1> DEFINE Defined == {N0 \in Nat : \E f : Turns(S, f, N0)}
<1>1. 0 \in Defined
  <2> DEFINE f == [n \in 0..0 |-> <<>>]
  <2>1. f = [n \in 0..0 |-> IF n = 0 THEN <<>> ELSE Extend(S, f[n - 1], n)]
    OBVIOUS
  <2> QED BY <2>1 DEF Turns
<1>2. ASSUME NEW m \in Nat, m \in Defined PROVE m + 1 \in Defined
  <2>1. PICK f : Turns(S, f, m)
    BY <1>2
  <2>2. \A n \in 0..m : f[n] = IF n = 0 THEN <<>> ELSE Extend(S, f[n - 1], n)
    BY <2>1 DEF Turns
  <2> DEFINE g == [n \in 0..m+1 |-> IF n = m + 1 THEN Extend(S, f[m], m + 1) ELSE f[n]]
  <2>3. \A n \in 0..m : g[n] = f[n]
    OBVIOUS
  <2>4. \A n \in 0..m+1 : g[n] = IF n = 0 THEN <<>> ELSE Extend(S, g[n - 1], n)
    <3> TAKE n \in 0..m+1
    <3>1. CASE n = m + 1
      BY <2>3, <3>1
    <3>2. CASE n \in 1..m
      <4>1. n - 1 \in 0..m /\ n \in 0..m
        BY <3>2
      <4> HIDE DEF g
      <4> QED BY <2>2, <2>3, <3>2, <4>1
    <3>3. CASE n = 0
      BY <2>2, <2>3, <3>3
    <3> QED BY <3>1, <3>2, <3>3
  <2>5. g = [n \in 0..m+1 |-> g[n]]
    OBVIOUS
  <2> HIDE DEF g
  <2>6. Turns(S, g, m + 1)
    BY <2>4, <2>5 DEF Turns
  <2> QED BY <2>6
<1>3. Nat \subseteq Defined
  <2> HIDE DEF Defined
  <2> QED BY <1>1, <1>2, SetInduction
<1> QED BY <1>3

(* What InverseErrorDecays says of a slot, for any orders of the slots.    *)
Before(S, i) == {e \in S : e < i}
Decayed(S, i, order) ==
    \/ order = Exact
    \/ Before(S, i) # {} /\ order * (Taps - 1) >= i - Max(Before(S, i))

Decays(S, x, n) ==
    /\ x \in Seq(Nat) /\ Len(x) = n
    /\ \A i \in 0..n-1 : i \notin S => Decayed(S, i, x[i + 1])

LEMMA ProductStep ==
    ASSUME NEW x \in Nat, NEW t \in Nat, NEW k \in 0..t, NEW m \in Int, x * t >= m
    PROVE  (x + 1) * t >= m + k
  BY SMT

(* The error of a slot is at most one order below that of a slot within    *)
(* reach, and its distance to the last erasure at most one reach longer.   *)
LEMMA OrderDecays ==
    ASSUME length \in Nat, NEW S \in SUBSET CaptureSlots,
           NEW i \in 0..length-1, NEW x, Decays(S, x, i)
    PROVE  Order(S, x, i) \in Nat /\ (i \notin S => Decayed(S, i, Order(S, x, i)))
<1>1. /\ Taps \in Nat \ {0} /\ Exact \in Nat /\ i \in Nat
      /\ S \subseteq 0..length-1
  BY CaptureAssumption DEF Exact, CaptureSlots
<1>2. \A j \in Reach(i) : /\ j \in 0..i-1 /\ i - j \in 1..Taps-1
                          /\ \A e \in j..i-1 : e \in Reach(i)
  <2>1. {Taps - 1, i} \in SUBSET Nat /\ {Taps - 1, i} # {}
    BY <1>1
  <2> DEFINE most == Min({Taps - 1, i})
  <2>2. most \in Nat /\ most <= i /\ most <= Taps - 1
    BY <2>1, MinOfNaturals
  <2> HIDE DEF most
  <2>3. Reach(i) = {i - k : k \in 1..most}
    BY DEF Reach, most
  <2>4. ASSUME NEW k \in 1..most, NEW e \in i - k..i-1 PROVE e \in Reach(i)
    <3>1. i - e \in 1..most /\ e = i - (i - e)
      BY <1>1, <2>2
    <3> QED BY <2>3, <3>1
  <2> QED BY <1>1, <2>2, <2>3, <2>4
<1>3. \A e \in 0..i-1 : i - e \in 1..Taps-1 => e \in Reach(i)
  <2> TAKE e \in 0..i-1
  <2> HAVE i - e \in 1..Taps-1
  <2>1. {Taps - 1, i} \in SUBSET Nat /\ {Taps - 1, i} # {}
    BY <1>1
  <2>2. i - e \in 1..Min({Taps - 1, i}) /\ e = i - (i - e)
    BY <1>1, <2>1, MinOfNaturals
  <2> QED BY <2>2 DEF Reach
<1>4. ASSUME NEW b \in S, b < i
      PROVE  /\ Before(S, i) # {}
             /\ Max(Before(S, i)) \in 0..length
             /\ Max(Before(S, i)) >= b
  <2>1. 0..length-1 \subseteq 0..length
    OBVIOUS
  <2>2. Before(S, i) \in SUBSET (0..length) /\ b \in Before(S, i)
    BY <1>1, <1>4, <2>1 DEF Before
  <2> QED BY <2>2, MaxOfBounded
<1>5. CASE i \in S
  BY <1>5 DEF Order
<1>6. CASE i \notin S /\ Reach(i) \cap S # {}
  <2>1. PICK e \in Reach(i) : e \in S
    BY <1>6
  <2>2. e \in 0..i-1 /\ i - e \in 1..Taps-1
    BY <1>2
  <2>3. Max(Before(S, i)) >= e /\ Max(Before(S, i)) \in Nat /\ Before(S, i) # {}
    <3>1. e < i
      BY <1>1, <2>2
    <3> QED BY <1>4, <2>1, <3>1
  <2>4. Order(S, x, i) = 1
    BY <1>6 DEF Order
  <2>5. 1 * (Taps - 1) >= i - Max(Before(S, i))
    BY <1>1, <2>2, <2>3
  <2> QED BY <2>3, <2>4, <2>5 DEF Decayed
<1>7. CASE i \notin S /\ Reach(i) \cap S = {}
  <2> DEFINE orders == {Exact} \cup {x[j + 1] + 1 : j \in Reach(i)}
  <2>1. Order(S, x, i) = Min(orders)
    BY <1>7 DEF Order
  <2>2. ASSUME NEW j \in Reach(i)
        PROVE  /\ j + 1 \in 1..i /\ x[j + 1] \in Nat
               /\ Decayed(S, j, x[j + 1])
    <3>1. j \in 0..i-1 /\ j \notin S /\ j + 1 \in 1..i
      BY <1>1, <1>2, <1>7
    <3> QED BY <3>1 DEF Decays
  <2>3. orders \in SUBSET Nat /\ orders # {}
    BY <1>1, <2>2
  <2>4. Min(orders) \in orders /\ Min(orders) <= Exact /\ Min(orders) \in Nat
    <3> HIDE DEF orders
    <3>1. Min(orders) \in orders /\ \A k \in orders : Min(orders) <= k
      BY <2>3, MinOfNaturals
    <3>2. Exact \in orders
      BY DEF orders
    <3> QED BY <2>3, <3>1, <3>2
  <2>5. CASE Min(orders) = Exact
    BY <2>1, <2>4, <2>5 DEF Decayed
  <2>6. CASE Min(orders) # Exact
    <3>1. PICK j \in Reach(i) : Min(orders) = x[j + 1] + 1
      BY <2>4, <2>6
    <3>2. x[j + 1] \in Nat /\ x[j + 1] # Exact
      BY <1>1, <2>2, <2>4, <3>1
    <3>3. Before(S, j) # {} /\ x[j + 1] * (Taps - 1) >= j - Max(Before(S, j))
      BY <2>2, <3>2 DEF Decayed
    <3>4. j \in 0..i-1 /\ i - j \in 0..Taps-1
      BY <1>1, <1>2
    <3>5. Before(S, i) = Before(S, j)
      <4>1. ASSUME NEW e \in S, e < i PROVE e < j
        BY <1>1, <1>2, <1>7, <3>4, <4>1
      <4>2. ASSUME NEW e \in S, e < j PROVE e < i
        BY <1>1, <3>4, <4>2
      <4> QED BY <4>1, <4>2 DEF Before
    <3>6. Max(Before(S, i)) \in Nat
      <4>1. PICK b \in S : b < i
        BY <3>3, <3>5 DEF Before
      <4> QED BY <1>4, <4>1
    <3>7. (x[j + 1] + 1) * (Taps - 1) >= (j - Max(Before(S, i))) + (i - j)
      <4>1. Taps - 1 \in Nat /\ j - Max(Before(S, i)) \in Int
        BY <1>1, <3>4, <3>6
      <4> QED BY <3>2, <3>3, <3>4, <3>5, <4>1, ProductStep
    <3>8. (j - Max(Before(S, i))) + (i - j) = i - Max(Before(S, i))
      BY <1>1, <3>4, <3>6
    <3>9. Min(orders) * (Taps - 1) >= i - Max(Before(S, i))
      BY <3>1, <3>7, <3>8
    <3> HIDE DEF orders
    <3> QED BY <2>1, <2>4, <3>3, <3>5, <3>9 DEF Decayed
  <2> QED BY <2>5, <2>6
<1> QED BY <1>5, <1>6, <1>7

(* By induction over the turns, so it is for the whole capture.            *)
LEMMA InverseDecays ==
    ASSUME length \in Nat, NEW S \in SUBSET CaptureSlots
    PROVE  Decays(S, deconvolve_fir_memory(S), length)
<1> DEFINE first == CHOOSE f : Turns(S, f, length)
<1>1. deconvolve_fir_memory(S) = first[length]
  BY DEF deconvolve_fir_memory, Turns, Extend, Order
<1>2. Turns(S, first, length)
  BY TurnsExist
<1> HIDE DEF first
<1>3. \A n \in 0..length : first[n] = IF n = 0 THEN <<>> ELSE Extend(S, first[n - 1], n)
  BY <1>2 DEF Turns
<1> DEFINE Good == {n \in Nat : n <= length => Decays(S, first[n], n)}
<1>4. 0 \in Good
  <2>1. first[0] = <<>>
    BY <1>3
  <2>2. <<>> \in Seq(Nat) /\ Len(<<>>) = 0 /\ 0..0-1 = {}
    OBVIOUS
  <2>3. Decays(S, first[0], 0)
    BY <2>1, <2>2 DEF Decays
  <2> QED BY <2>3
<1>5. ASSUME NEW n \in Nat, n \in Good PROVE n + 1 \in Good
  <2> SUFFICES ASSUME n + 1 <= length PROVE Decays(S, first[n + 1], n + 1)
    OBVIOUS
  <2> DEFINE x == first[n]
             order == Order(S, x, n)
  <2>1. Decays(S, x, n) /\ n \in 0..length-1
    BY <1>5
  <2>2. order \in Nat /\ (n \notin S => Decayed(S, n, order))
    BY <2>1, OrderDecays
  <2>3. first[n + 1] = Append(x, order)
    <3>1. n + 1 \in 0..length /\ n + 1 # 0 /\ (n + 1) - 1 = n
      OBVIOUS
    <3> QED BY <1>3, <3>1 DEF Extend
  <2> HIDE DEF x, order
  <2>4. /\ first[n + 1] \in Seq(Nat) /\ Len(first[n + 1]) = n + 1
        /\ \A i \in 1..n : first[n + 1][i] = x[i]
        /\ first[n + 1][n + 1] = order
    BY <2>1, <2>2, <2>3 DEF Decays
  <2>5. ASSUME NEW i \in 0..n, i \notin S PROVE Decayed(S, i, first[n + 1][i + 1])
    <3>1. CASE i = n
      BY <2>2, <2>4, <2>5, <3>1
    <3>2. CASE i \in 0..n-1
      <4>1. i + 1 \in 1..n
        BY <3>2
      <4> QED BY <2>1, <2>4, <2>5, <3>2, <4>1 DEF Decays
    <3> QED BY <3>1, <3>2
  <2> QED BY <2>4, <2>5 DEF Decays
<1>6. Nat \subseteq Good
  <2> HIDE DEF Good
  <2> QED BY <1>4, <1>5, SetInduction
<1>7. length \in Good
  <2> HIDE DEF Good
  <2> QED BY <1>6
<1> QED BY <1>1, <1>7

(* The slots given, and what _prepare_views made of them.                  *)
PreparedInv ==
    /\ length \in Nat /\ erased \subseteq CaptureSlots
    /\ stage = "viewing" => error = deconvolve_fir_memory(erased)

LEMMA PreparedHolds == Spec => []PreparedInv
<1>1. Init => PreparedInv
  <2> SUFFICES ASSUME Init PROVE PreparedInv
    OBVIOUS
  <2>1. length \in Nat
    <3>1. 2^LocalBits \in Nat
      BY PowerOfTwo, LocalBitsAssumption
    <3>2. PICK passes \in PassCounts : length = PlanViews * (passes * 2^LocalBits)
      BY DEF Init, Expected, Block
    <3> QED BY <3>1, <3>2, CaptureAssumption DEF PassCounts
  <2>2. erased \subseteq CaptureSlots
    <3>1. CASE erased = {}
      BY <3>1
    <3>2. CASE erased # {}
      <4>1. PICK f \in [1..MaxErased -> CaptureSlots] : erased = Range(f)
        BY <3>2 DEF Init
      <4> QED BY <4>1 DEF Range
    <3> QED BY <3>1, <3>2
  <2> QED BY <2>1, <2>2 DEF Init, PreparedInv
<1>2. PreparedInv /\ [Next]_vars => PreparedInv'
  <2> SUFFICES ASSUME PreparedInv, [Next]_vars PROVE PreparedInv'
    OBVIOUS
  <2>1. UNCHANGED <<length, erased>>
    BY DEF Next, Refuse, Prepare, DecodeView, vars
  <2>2. deconvolve_fir_memory(erased)' = deconvolve_fir_memory(erased)
    BY <2>1 DEF deconvolve_fir_memory, Exact
  <2>3. stage' = "viewing" => error' = deconvolve_fir_memory(erased)
    BY DEF PreparedInv, Next, Refuse, Prepare, DecodeView, vars
  <2> QED BY <2>1, <2>2, <2>3 DEF PreparedInv, CaptureSlots
<1> QED BY <1>1, <1>2, PTL DEF Spec

LEMMA PreparedDecays == PreparedInv => InverseErrorDecays
<1> SUFFICES ASSUME PreparedInv, stage = "viewing", NEW i \in CaptureSlots \ erased
             PROVE  Decayed(erased, i, error[i + 1])
  BY DEF InverseErrorDecays, Decayed, Before
<1>1. Decays(erased, error, length)
  BY InverseDecays DEF PreparedInv
<1> QED BY <1>1 DEF Decays, CaptureSlots

(* The error that an erasure leaves shrinks by one order with each reach   *)
(* of the switch response, for any response and any erasures: the inverse  *)
(* feeds corrected samples back, and not observed ones.                    *)
THEOREM ErasureErrorDecays == Spec => []InverseErrorDecays
  BY PreparedHolds, PreparedDecays, PTL
=============================================================================
