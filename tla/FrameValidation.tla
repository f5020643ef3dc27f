--------------------------- MODULE FrameValidation ---------------------------
(***************************************************************************)
(* validate_frame (runtime/validation.py) on concrete frames: the clauses  *)
(* of the frame contract in the order the code tests them, the verdict     *)
(* being the first one that fails.  Samples are finite or not; receivers   *)
(* are counted; limits are exact fractions; times are integers far from    *)
(* the ends of int64.                                                      *)
(***************************************************************************)
EXTENDS RuntimeContracts, FiniteSets, SequencesExt

CONSTANTS
    PlanFingerprint,        \* plan.fingerprint()
    PhysicalSlots,          \* plan.physical_slots
    InvalidNum, InvalidDen, \* limits.max_invalid_fraction
    MaxConsecutiveInvalid,  \* limits.max_consecutive_invalid
    JitterNum, JitterDen,   \* limits.max_slot_timing_error_fraction
    MinReceivers, MaxReceivers,
    Captures,               \* the frames a backend may return
    PreviousIds             \* sequence ids already taken, or NoSequence

ASSUME LimitsAssumption ==
    /\ PhysicalSlots \in Nat \ {0}
    /\ InvalidNum \in Nat /\ InvalidDen \in Nat \ {0} /\ InvalidNum < InvalidDen
    /\ MaxConsecutiveInvalid \in Nat
    /\ JitterNum \in Nat /\ JitterDen \in Nat \ {0}
    /\ MinReceivers \in Nat \ {0} /\ MaxReceivers \in Nat /\ MaxReceivers >= MinReceivers

(* The fields of a CaptureFrame that validate_frame reads.                 *)
CaptureFrame ==
    [plan_fingerprint : STRING, sequence_id : Nat, pass_count : Int,
     aperture_positive : BOOLEAN, ndim : Nat, n_rx : Int,
     valid : Seq(BOOLEAN), finite : Seq(BOOLEAN),
     monotonic_start_ns : Int, monotonic_end_ns : Int,
     timestamped : BOOLEAN, slot_timestamps_ns : Seq(Int)]

ASSUME FramesAssumption ==
    /\ Captures \subseteq CaptureFrame
    /\ PreviousIds \subseteq Nat \cup {NoSequence}

VARIABLES frame, previous_sequence_id, verdict
vars == <<frame, previous_sequence_id, verdict>>
-----------------------------------------------------------------------------
Expected(f) == PhysicalSlots * f.pass_count
Erased(f) == {i \in DOMAIN f.valid : ~f.valid[i]}

(* A plausible slip: the run that counts is the one under way at the end.  *)
LastFalseRun(valid) ==
    FoldLeft(LAMBDA run, ok : IF ok THEN 0 ELSE run + 1, 0, valid)

(* _max_false_run: the longest run so far and the run under way.           *)
MaxFalseRun(valid) ==
    LET Extend(run, ok) ==
            LET current == IF ok THEN 0 ELSE run.current + 1
            IN  [best |-> Max({run.best, current}), current |-> current]
    IN  FoldLeft(Extend, [best |-> 0, current |-> 0], valid).best

Gaps(ts) == [i \in 1..Len(ts) - 1 |-> ts[i + 1] - ts[i]]

(* The k-th smallest value of a sequence.                                  *)
KthSmallest(s, k) ==
    CHOOSE v \in ToSet(s) :
        /\ Cardinality({i \in DOMAIN s : s[i] < v}) < k
        /\ k <= Cardinality({i \in DOMAIN s : s[i] <= v})

(* Twice np.median(dt), so that it is an integer.                          *)
TwiceNominal(dt) ==
    KthSmallest(dt, (Len(dt) + 1) \div 2) + KthSmallest(dt, (Len(dt) + 2) \div 2)

Abs(x) == IF x < 0 THEN -x ELSE x

Jitters(ts) ==
    LET dt == Gaps(ts)
        nominal == TwiceNominal(dt)
    IN  \E i \in DOMAIN dt :
            Abs(2 * dt[i] - nominal) * JitterDen > JitterNum * nominal

(* The tests in the order of the code, each with the code of its fault.    *)
Codes == <<"plan_mismatch", "sequence_regression", "slot_count_mismatch",
           "invalid_timing", "nonfinite_input", "receiver_count",
           "invalid_timing", "too_many_erasures", "erasure_burst",
           "invalid_timing", "invalid_timing", "timing_jitter">>

Fails(i, f, previous) ==
    CASE i = 1 -> f.plan_fingerprint # PlanFingerprint
      [] i = 2 -> Regresses(f.sequence_id, previous)
      [] i = 3 -> \/ f.ndim \notin {1, 2}
                  \/ Len(f.finite) # Expected(f) \/ Len(f.valid) # Expected(f)
      [] i = 4 -> f.pass_count \notin {1, 2, 4} \/ ~f.aperture_positive
      [] i = 5 -> \E k \in DOMAIN f.valid : f.valid[k] /\ ~f.finite[k]
      [] i = 6 -> f.n_rx \notin MinReceivers..MaxReceivers
      [] i = 7 -> f.monotonic_end_ns <= f.monotonic_start_ns
      [] i = 8 -> Cardinality(Erased(f)) * InvalidDen > InvalidNum * Expected(f)
      [] i = 9 -> MaxFalseRun(f.valid) > MaxConsecutiveInvalid
      [] i = 10 -> f.timestamped /\
                   \/ Len(f.slot_timestamps_ns) # Expected(f)
                   \/ \E k \in DOMAIN Gaps(f.slot_timestamps_ns) :
                          Gaps(f.slot_timestamps_ns)[k] <= 0
      [] i = 11 -> f.timestamped /\
                   \/ f.slot_timestamps_ns[1] < f.monotonic_start_ns
                   \/ f.slot_timestamps_ns[Expected(f)] > f.monotonic_end_ns
      [] i = 12 -> f.timestamped /\ Jitters(f.slot_timestamps_ns)

(* A plausible slip: an impossible timing record is retried like jitter.   *)
TimingRecoverable(code) == code \in QualityCodes \cup {"invalid_timing"}

(* Only these may be cured by acquiring again.                             *)
Recoverable(code) == code \in QualityCodes

(* A plausible slip: a stale id is reported before a mismatched plan.      *)
StaleFirst(f, previous) ==
    IF Fails(2, f, previous) THEN {2}
    ELSE {i \in DOMAIN Codes :
             (\A j \in 1..i - 1 : ~Fails(j, f, previous)) /\ Fails(i, f, previous)}

(* The first test that fails; later ones are not evaluated.                *)
FirstFailure(f, previous) ==
    {i \in DOMAIN Codes :
        (\A j \in 1..i - 1 : ~Fails(j, f, previous)) /\ Fails(i, f, previous)}

FaultOf(first) ==
    IF first = {} THEN NoFault
    ELSE LET code == Codes[CHOOSE i \in first : TRUE]
         IN  RuntimeFault(code, Recoverable(code))

validate_frame(f, previous) == FaultOf(FirstFailure(f, previous))

Unjudged == RuntimeFault("unjudged", FALSE)

Init ==
    /\ frame \in Captures
    /\ previous_sequence_id \in PreviousIds
    /\ verdict = Unjudged

Validate ==
    /\ verdict = Unjudged
    /\ verdict' = validate_frame(frame, previous_sequence_id)
    /\ UNCHANGED <<frame, previous_sequence_id>>

Next == Validate
Spec == Init /\ [][Next]_vars
-----------------------------------------------------------------------------
Judged == verdict # Unjudged
Accepted == verdict = NoFault

(* The frame contract of docs/INTEGRATION.md, stated without reference to  *)
(* the code's order or loops: this plan, a new id, the right size, finite  *)
(* valid samples, few erasures, no window without a valid slot, and, if    *)
(* there are timestamps, an increasing cadence inside the interval whose   *)
(* gaps stay close to their median.                                        *)
Conformant ==
    LET n == PhysicalSlots * frame.pass_count
        ts == frame.slot_timestamps_ns
    IN  /\ frame.plan_fingerprint = PlanFingerprint
        /\ previous_sequence_id < frame.sequence_id
        /\ frame.ndim \in {1, 2} /\ Len(frame.finite) = n /\ Len(frame.valid) = n
        /\ frame.pass_count \in {1, 2, 4} /\ frame.aperture_positive
        /\ frame.n_rx >= MinReceivers /\ frame.n_rx <= MaxReceivers
        /\ frame.monotonic_start_ns < frame.monotonic_end_ns
        /\ \A k \in 1..n : frame.valid[k] => frame.finite[k]
        /\ InvalidDen * Cardinality({k \in 1..n : ~frame.valid[k]}) <= InvalidNum * n
        /\ \A k \in 1..n - MaxConsecutiveInvalid :
               \E m \in k..k + MaxConsecutiveInvalid : frame.valid[m]
        /\ frame.timestamped =>
               /\ Len(ts) = n
               /\ \A k, m \in 1..n : k < m => ts[k] < ts[m]
               /\ \A k \in 1..n : ts[k] \in frame.monotonic_start_ns..frame.monotonic_end_ns
               /\ \A k \in 1..n - 1 :
                      LET nominal == TwiceNominal(Gaps(ts)) IN
                      /\ JitterDen * 2 * (ts[k+1] - ts[k]) <= (JitterDen + JitterNum) * nominal
                      /\ JitterDen * 2 * (ts[k+1] - ts[k]) >= (JitterDen - JitterNum) * nominal

(* A frame passes validation exactly if it meets the contract: no test     *)
(* hides another, and the loops find every burst, gap and sample.          *)
AcceptedIffConformant == Judged => (Accepted <=> Conformant)

(* A frame as it would be had the same acquisition been undisturbed.       *)
Cured(f) ==
    LET n == Expected(f)
        step == (f.monotonic_end_ns - f.monotonic_start_ns) \div n
    IN  [f EXCEPT !.valid = [k \in 1..n |-> TRUE],
                  !.finite = [k \in 1..n |-> TRUE],
                  !.slot_timestamps_ns =
                      [k \in 1..n |-> f.monotonic_start_ns + step * (k - 1)]]

(* The interval lasts at least as many nanoseconds as it has slots.        *)
Separable(f) == f.monotonic_end_ns - f.monotonic_start_ns >= Expected(f)

(* A recoverable fault is one that an undisturbed repetition of the same   *)
(* acquisition would not have: the runtime never spends its reacquisitions *)
(* on a wrong plan, a stale id, a wrong shape or an impossible interval.   *)
(* (Erasures are tested before the timestamps: those of a frame whose      *)
(* interval is too short for its slots are retried in vain.)               *)
RetryIsWorthwhile ==
    Judged /\ verdict.recoverable /\ (frame.timestamped => Separable(frame)) =>
        validate_frame(Cured(frame), previous_sequence_id) = NoFault

(* What the runtime model assumes of validation: the verdict depends on    *)
(* the frame's id and on the defect found in it when no id is remembered.  *)
AbstractionFaithful ==
    Judged => verdict = Verdict(frame.sequence_id,
                                validate_frame(frame, NoSequence).code,
                                previous_sequence_id)

(* docs/OPERATIONS.md: a malformed timing record is a hard fault.          *)
MalformedTimingIsHard ==
    /\ Judged
    /\ frame.timestamped
    /\ \/ Len(frame.slot_timestamps_ns) # Expected(frame)
       \/ \E k, m \in DOMAIN frame.slot_timestamps_ns :
              k < m /\ frame.slot_timestamps_ns[k] >= frame.slot_timestamps_ns[m]
    => ~Accepted /\ ~verdict.recoverable
=============================================================================
