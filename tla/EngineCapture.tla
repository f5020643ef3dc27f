--------------------------- MODULE EngineCapture ---------------------------
(***************************************************************************)
(* process_capture in engine.py, with temporal/transient.py and            *)
(* temporal/erasure.py: what becomes of each slot of a capture on its way  *)
(* to the spectra that identities are recovered from.                      *)
(*                                                                         *)
(* A sample is abstracted to where it comes from, and to the order of the  *)
(* error that the switch response leaves in it: a sample of order k is off *)
(* by k-fold products of the later taps; Exact says that it is not off.    *)
(* Receiver calibration divides samples and changes neither.               *)
(***************************************************************************)
EXTENDS LocalOrder, Sequences

CONSTANTS
    PlanViews,   \* n_views of the plan
    Taps,        \* number of taps of the switch response
    Ordering,    \* ordering of the plan
    MaxErased    \* bound: erased slots of a capture

ASSUME CaptureAssumption ==
    /\ PlanViews \in Nat \ {0}
    /\ Taps \in Nat \ {0}
    /\ Ordering \in {"gray", "binary", "random"}
    /\ MaxErased \in Nat

VARIABLES
    stage,       \* "called", "viewing", "returned", "raised"
    pass_count,  \* argument of process_capture
    length,      \* number of physical slots given
    well_formed, \* whether mask, calibration and taps have the shapes required
    erased,      \* the slots whose valid flag is false
    error,       \* error[i + 1]: order of the error left in slot i
    spectra,     \* spectra[v + 1]: samples the final spectrum of view v is from
    detected     \* detected[v + 1]: whether view v proposes any bucket

vars == <<stage, pass_count, length, well_formed, erased, error, spectra, detected>>
-----------------------------------------------------------------------------
Block(passes) == passes * 2^LocalBits
Expected(passes) == PlanViews * Block(passes)
Exact == length + 1
CaptureSlots == 0..length-1

(* deconvolve_fir_memory.  A slot that is valid, but for which one of the  *)
(* slots the response reaches back to is not, keeps the observed value.    *)
(* A plausible slip: correct with the observed samples before this one     *)
(* instead of the corrected ones.                                          *)
Reach(i) == {i - k : k \in 1..Min({Taps - 1, i})}
CorrectedOnce(S) ==
    [n \in 1..length |->
        IF n - 1 \in S \/ Reach(n - 1) \cap S # {} THEN 1
        ELSE IF Reach(n - 1) = {} THEN Exact ELSE 2]
deconvolve_fir_memory(S) ==
    LET order(x, i) ==
            IF i \in S \/ Reach(i) \cap S # {} THEN 1
            ELSE Min({Exact} \cup {x[j + 1] + 1 : j \in Reach(i)})
        first[n \in 0..length] ==
            IF n = 0 THEN <<>>
            ELSE LET x == first[n - 1] IN Append(x, order(x, n - 1))
    IN first[length]

(* The slots at which the passes of a view observe a query.  A plausible   *)
(* slip: only queries seen in every pass count as observed.                *)
LocalOrderOfPlan == CHOOSE order \in compile_order(Ordering) : TRUE
Physical(v, query) ==
    {slot \in v * Block(pass_count)..(v + 1) * Block(pass_count)-1 :
        LET pass == (slot - v * Block(pass_count)) \div 2^LocalBits
        IN pass_orders(LocalOrderOfPlan, pass_count)[pass][slot % 2^LocalBits] = query}
SeenInEveryPass(v, query) ==
    IF Physical(v, query) \cap erased = {} THEN Physical(v, query) ELSE {}
Observations(v, query) == Physical(v, query) \ erased

(* _synthesize_view: a query that no pass observes stays the zero it was   *)
(* initialized with; the others are combined to the least of their orders. *)
OrdersSeen(v, query) == {error[i + 1] : i \in Observations(v, query)}
Synthesized(v) ==
    [query \in Buckets |->
        IF Observations(v, query) = {} THEN [from |-> "zero", order |-> 0]
        ELSE [from |-> "measured", order |-> Min(OrdersSeen(v, query))]]

(* repair_erased_gray_slots: the queries without observation get the       *)
(* prediction of a fit to the others.  A plausible slip: every query gets  *)
(* the prediction.                                                         *)
PredictAll(samples) == [query \in Buckets |-> [from |-> "fit", order |-> 0]]
repair_erased_gray_slots(samples) ==
    [query \in Buckets |->
        IF samples[query].from = "zero" THEN [from |-> "fit", order |-> 0]
        ELSE samples[query]]

(* not np.all(view_valid).  A plausible slip: not np.any(view_valid).      *)
AllInvalid(samples) == \A query \in Buckets : samples[query].from = "zero"
SomeInvalid(samples) == \E query \in Buckets : samples[query].from = "zero"
-----------------------------------------------------------------------------
Init ==
    /\ stage = "called"
    /\ pass_count \in 0..4
    /\ length \in {Expected(passes) : passes \in PassCounts}
    /\ well_formed \in BOOLEAN
    /\ erased \in {{}} \cup {Range(f) : f \in [1..MaxErased -> CaptureSlots]}
    /\ error = <<>>
    /\ spectra = <<>>
    /\ detected = <<>>

(* A pass count that is not supported, slots of another pass count, or a   *)
(* mask, a calibration or taps of another shape.                           *)
Acceptable == pass_count \in PassCounts /\ length = Expected(pass_count) /\ well_formed
Refuse ==
    /\ stage = "called"
    /\ ~Acceptable
    /\ stage' = "raised"
    /\ UNCHANGED <<pass_count, length, well_formed, erased, error, spectra, detected>>

(* _prepare_views: erased slots are zeroed, and the response is inverted   *)
(* over the whole capture, across passes and views.                        *)
Prepare ==
    /\ stage = "called"
    /\ Acceptable
    /\ error' = deconvolve_fir_memory(erased)
    /\ stage' = "viewing"
    /\ UNCHANGED <<pass_count, length, well_formed, erased, spectra, detected>>

(* One turn of the loop over the views.  The decoder may or may not find   *)
(* buckets, but finds the same in the same samples.                        *)
view == Len(spectra)
DecodeView ==
    /\ stage = "viewing"
    /\ \E initial, final \in BOOLEAN :
          LET samples == Synthesized(view)
              repaired == SomeInvalid(samples) /\ initial
          IN /\ ~repaired => final = initial
             /\ spectra' = Append(spectra, IF repaired THEN repair_erased_gray_slots(samples)
                                                       ELSE samples)
             /\ detected' = Append(detected, final)
    /\ stage' = IF view + 1 = PlanViews THEN "returned" ELSE stage
    /\ UNCHANGED <<pass_count, length, well_formed, erased, error>>

Next == Refuse \/ Prepare \/ DecodeView

Spec == Init /\ [][Next]_vars
-----------------------------------------------------------------------------
(* The error that an erasure leaves in the slots after it shrinks by one   *)
(* order with each reach of the switch response, over the ends of passes   *)
(* and views; before the first erasure the inverse is exact                *)
(* (transient.py:35).                                                      *)
InverseErrorDecays ==
    stage = "viewing" =>
        \A i \in CaptureSlots \ erased :
            LET before == {e \in erased : e < i} IN
            \/ error[i + 1] = Exact
            \/ before # {} /\ error[i + 1] * (Taps - 1) >= i - Max(before)

(* A query observed in any pass reaches the spectrum as it was measured:   *)
(* an erasure in one pass does not discard the others, and repair never    *)
(* overwrites a measurement.                                               *)
ObservedQueriesMeasured ==
    \A v \in 0..view-1, query \in Buckets :
        Physical(v, query) \subseteq erased \/ spectra[v + 1][query].from = "measured"

(* Buckets are only ever proposed from spectra without zeros in the place  *)
(* of erased samples: a view with erasures is repaired, or proposes none.  *)
DetectedOnlyAfterRepair ==
    \A v \in 0..view-1 :
        detected[v + 1] => \A query \in Buckets : spectra[v + 1][query].from # "zero"

(* README.md:110: no slot is accepted as a measured zero.                  *)
NoMeasuredZero ==
    stage = "returned" =>
        \A v \in 0..PlanViews-1, query \in Buckets :
            Physical(v, query) \subseteq erased => spectra[v + 1][query].from # "zero"
=============================================================================
