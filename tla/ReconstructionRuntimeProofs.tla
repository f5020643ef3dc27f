-------------------- MODULE ReconstructionRuntimeProofs --------------------
(***************************************************************************)
(* Theorems about ReconstructionRuntime, for every budget, every set of    *)
(* sequence ids, defects and spans, and a sink that may raise or not.      *)
(***************************************************************************)
EXTENDS ReconstructionRuntime, SequenceTheorems, TLAPS

-----------------------------------------------------------------------------
(* Operators the model is built from.                                      *)

(* Multiplying aperture scales yields an aperture scale.                   *)
LEMMA TimesFraction ==
    ASSUME NEW x \in Fraction, NEW y \in Fraction
    PROVE  Times(x, y) \in Fraction
<1>1. x.num * y.num \in Nat \ {0}
  BY DEF Fraction
<1>2. x.den * y.den \in Nat \ {0}
  BY DEF Fraction
<1> QED BY <1>1, <1>2 DEF Times, Fraction

(* A span outside the budget is positive, and its compression factor is a  *)
(* positive fraction.                                                      *)
LEMMA CompressionFactorFraction ==
    ASSUME NEW s \in Nat, ~WithinBudget(s)
    PROVE  CompressionFactor(s) \in Fraction
<1>1. s \in Nat \ {0} /\ MinScale \in Nat \ {0} /\ Unit \in Nat \ {0} /\ Safety \in Nat \ {0}
  BY ControllerAssumption DEF WithinBudget
<1>2. Unit * s \in Nat \ {0} /\ MinScale * s \in Nat \ {0} /\ Safety * Allowed \in Nat
  BY <1>1, ControllerAssumption
<1>3. CASE Safety * Allowed < MinScale * s
  BY <1>1, <1>3 DEF CompressionFactor, Fraction
<1>4. CASE ~(Safety * Allowed < MinScale * s)
  BY <1>1, <1>2, <1>4 DEF CompressionFactor, Fraction, One
<1> QED BY <1>3, <1>4

(* The controller accepts or compresses, never anything else.              *)
LEMMA DecideType ==
    ASSUME NEW s \in Nat
    PROVE  /\ decide(s) \in Decisions
           /\ decide(s).action \in {"accept", "compress"}
<1>1. One \in Fraction
  BY DEF One, Fraction
<1> QED BY <1>1, CompressionFactorFraction DEF decide, Decisions, Actions

(* validate_frame's verdict: a fault is recoverable exactly if its code is *)
(* a quality code, and none is raised outside the validation vocabulary.   *)
LEMMA VerdictType ==
    ASSUME NEW n, NEW d \in Defect, NEW p, NEW v, v = Verdict(n, d, p)
    PROVE  /\ v \in Faults
           /\ v.code # NoDefect =>
                v.code \in QualityCodes \cup ContractCodes \cup {"sequence_regression"}
           /\ v.recoverable <=> v.code \in QualityCodes
           /\ v.code = NoDefect => ~Regresses(n, p)
           /\ v.code = "sequence_regression" => Regresses(n, p)
<1>1. CASE d # "plan_mismatch" /\ Regresses(n, p)
  <2>1. v = [code |-> "sequence_regression", recoverable |-> FALSE]
    BY <1>1 DEF Verdict, RuntimeFault
  <2> QED BY <1>1, <2>1 DEF Faults, FaultCode, QualityCodes, NoDefect
<1>2. CASE ~(d # "plan_mismatch" /\ Regresses(n, p))
  <2>1. v = RuntimeFault(d, d \in QualityCodes)
    BY <1>2 DEF Verdict
  <2>2. CASE d \in QualityCodes
    <3>1. v = [code |-> d, recoverable |-> TRUE]
      BY <2>1, <2>2, Zenon DEF RuntimeFault
    <3> QED BY <2>2, <3>1 DEF Faults, FaultCode, QualityCodes, NoDefect
  <2>3. CASE d \notin QualityCodes
    <3> (d \in QualityCodes) = FALSE
      BY <2>3
    <3>1. v = [code |-> d, recoverable |-> FALSE]
      BY <2>1, Zenon DEF RuntimeFault
    <3>2. d \in FaultCode \cup {NoDefect} /\ d # "sequence_regression"
      BY DEF FaultCode, Defect, QualityCodes, ContractCodes, NoDefect
    <3>3. d = NoDefect => ~Regresses(n, p)
      BY <1>2 DEF NoDefect
    <3> QED BY <2>3, <3>1, <3>2, <3>3 DEF Faults, Defect
  <2> QED BY <2>2, <2>3
<1> QED BY <1>1, <1>2
-----------------------------------------------------------------------------
(* Type correctness.                                                       *)

HoldsFrame == pc \in {"validating", "calibrating", "reconstructing", "deciding"}

(* TypeOK is inductive once it says when the frame of the attempt is one   *)
(* the backend returned.                                                   *)
TypeInv == TypeOK /\ (HoldsFrame => frame \in Frames)

LEMMA TypeInit == Init => TypeInv
<1> SUFFICES ASSUME Init PROVE TypeInv
  OBVIOUS
<1>1. One \in Fraction
  BY DEF One, Fraction
<1>2. Pending \in Outcomes
  BY DEF Pending, Outcome, Outcomes, NoFault, RuntimeFault, Faults, Id, NoDefect
<1>3. ~HoldsFrame
  BY DEF Init, HoldsFrame
<1> QED BY <1>1, <1>2, <1>3, RuntimeAssumption
  DEF Init, TypeInv, TypeOK, Id, Steps, Defect, NoDefect

(* Every record the steps append or return has its type.                   *)
LEMMA RecordTypes ==
    ASSUME TypeInv
    PROVE  /\ Pending \in Outcomes /\ Raised \in Outcomes
           /\ \A r \in Id, f \in Faults : Faulted(r, f) \in Outcomes
           /\ \A r \in Id : Outcome("completed", r, NoFault) \in Outcomes
           /\ \A d \in Decisions, n \in Id, f \in Faults : Attempt(d, n, f) \in Attempts
           /\ NoDecision \in Decisions /\ NoFault \in Faults
           /\ Exhausted \in Faults
           /\ Requested(attempt_index, aperture_scale) \in Events
           /\ \A c \in FaultCode : Rejected(c) \in Events /\ Failed(c) \in Events
           /\ \A n \in Nat, a \in Actions : Completed(attempt_index, n, a) \in Events
<1>1. NoFault \in Faults /\ Exhausted \in Faults /\ NoSequence \in Id
  BY DEF NoFault, Exhausted, RuntimeFault, Faults, FaultCode, Id, NoDefect
<1>2. /\ Pending \in Outcomes /\ Raised \in Outcomes
      /\ \A r \in Id, f \in Faults : Faulted(r, f) \in Outcomes
      /\ \A r \in Id : Outcome("completed", r, NoFault) \in Outcomes
  BY <1>1 DEF Pending, Raised, Faulted, Outcome, Outcomes
<1>3. aperture_scale \in Fraction /\ attempt_index \in Nat
  BY DEF TypeInv, TypeOK
<1>4. \A d \in Decisions, n \in Id, f \in Faults : Attempt(d, n, f) \in Attempts
  BY <1>3 DEF Attempt, Attempts
<1>5. NoDecision \in Decisions
  BY DEF NoDecision, Decisions, Actions, One, Fraction
<1>6. Requested(attempt_index, aperture_scale) \in Events
  BY <1>3 DEF Requested, Events
<1>7. \A c \in FaultCode : Rejected(c) \in Events /\ Failed(c) \in Events
  BY DEF Rejected, Failed, Events
<1>8. \A n \in Nat, a \in Actions : Completed(attempt_index, n, a) \in Events
  BY <1>3 DEF Completed, Events
<1> QED BY <1>1, <1>2, <1>4, <1>5, <1>6, <1>7, <1>8

(* Recording an attempt and emitting an event keep the two logs typed.     *)
LEMMA RecordKeepsType ==
    ASSUME TypeInv, NEW d \in Decisions, NEW n \in Id, NEW f \in Faults,
           Record(d, n, f)
    PROVE  attempts' \in Seq(Attempts)
<1>1. Attempt(d, n, f) \in Attempts
  BY RecordTypes
<1>2. attempts \in Seq(Attempts)
  BY DEF TypeInv, TypeOK
<1> QED BY <1>1, <1>2, AppendProperties DEF Record

LEMMA JournalKeepsType ==
    ASSUME TypeInv, NEW e \in Events, journal' \in {journal, Append(journal, e)}
    PROVE  journal' \in Seq(Events)
<1>1. journal \in Seq(Events)
  BY DEF TypeInv, TypeOK
<1> QED BY <1>1, AppendProperties

(* TypeInv is inductive.                                                   *)
LEMMA TypeStep == TypeInv /\ [Next]_vars => TypeInv'
<1> SUFFICES ASSUME TypeInv, [Next]_vars PROVE TypeInv'
  OBVIOUS
<1> USE DEF TypeInv, TypeOK
<1>0. /\ Pending \in Outcomes /\ Raised \in Outcomes
      /\ One \in Fraction /\ <<>> \in Seq(Attempts) /\ <<>> \in Seq(Events)
      /\ 0 \in 0..MaxReacquisitions /\ NoSequence \in Id /\ Nat \subseteq Id
  BY RecordTypes, RuntimeAssumption DEF One, Fraction, Id
<1>1. CASE RunOnce
  BY <1>0, <1>1 DEF RunOnce, Steps, HoldsFrame
<1>2. CASE RequestAcquisition
  <2>1. journal' \in Seq(Events)
    BY <1>2, RecordTypes, JournalKeepsType DEF RequestAcquisition, Emit
  <2>2. outcome' \in Outcomes /\ pc' \in {"acquiring", "idle"} /\ UNCHANGED request
    BY <1>0, <1>2 DEF RequestAcquisition, Emit, Proceed, Return
  <2> QED BY <1>2, <2>1, <2>2 DEF RequestAcquisition, request, Steps, HoldsFrame
<1>3. CASE AcquisitionFails
  <2> DEFINE fault == RuntimeFault("acquisition", TRUE)
  <2>1. fault \in Faults /\ "acquisition" \in FaultCode
    BY DEF RuntimeFault, Faults, FaultCode
  <2>2. attempts' \in Seq(Attempts)
    BY <1>0, <1>3, <2>1, RecordTypes, RecordKeepsType DEF AcquisitionFails
  <2>3. journal' \in Seq(Events)
    BY <1>3, <2>1, RecordTypes, JournalKeepsType DEF AcquisitionFails, Emit
  <2>4. outcome' \in Outcomes /\ pc' = "idle" /\ UNCHANGED request
    BY <1>0, <1>3, <2>1, RecordTypes DEF AcquisitionFails, Emit, Return
  <2> QED BY <1>3, <2>2, <2>3, <2>4 DEF AcquisitionFails, request, Steps, HoldsFrame
<1>4. ASSUME NEW f \in Frames, AcquireReturns(f) PROVE TypeInv'
  <2>1. f \in [sequence_id : Id, defect : Defect]
    BY RuntimeAssumption DEF Frames, Id
  <2> QED BY <1>4, <2>1 DEF AcquireReturns, Proceed, request, Steps, HoldsFrame
<1>5. CASE RetryRejected \/ FaultRejected
  <2>1. FrameVerdict \in Faults /\ FrameVerdict.code \in FaultCode
    BY <1>5, VerdictType DEF RetryRejected, FaultRejected, RejectFrame, FrameVerdict, FaultCode
  <2>2. Record(NoDecision, frame.sequence_id, FrameVerdict)
    BY <1>5 DEF RetryRejected, FaultRejected, RejectFrame
  <2>3. attempts' \in Seq(Attempts)
    BY <2>1, <2>2, RecordTypes, RecordKeepsType
  <2>4. journal' \in {journal, Append(journal, Rejected(FrameVerdict.code))}
    BY <1>5 DEF RetryRejected, FaultRejected, RejectFrame, Emit
  <2>5. journal' \in Seq(Events)
    BY <2>1, <2>4, RecordTypes, JournalKeepsType
  <2>6. /\ outcome' \in Outcomes /\ pc' \in {"requesting", "idle"}
        /\ attempt_index' \in 0..MaxReacquisitions /\ aperture_scale' \in Fraction
    <3>1. CASE RetryRejected
      BY <1>0, <3>1, RuntimeAssumption
      DEF RetryRejected, RejectFrame, Emit, Reacquire, Return, MayRetry, request
    <3>2. CASE FaultRejected
      BY <1>0, <2>1, <3>2, RecordTypes DEF FaultRejected, RejectFrame, Emit, Return, request
    <3> QED BY <1>5, <3>1, <3>2
  <2>7. UNCHANGED <<last_sequence_id, frame, span, consumed>>
    BY <1>5 DEF RetryRejected, FaultRejected, RejectFrame
  <2> QED BY <2>3, <2>5, <2>6, <2>7 DEF Steps, HoldsFrame
<1>6. CASE AcceptFrame
  <2>1. frame.sequence_id \in Nat
    BY <1>6, RuntimeAssumption DEF AcceptFrame, HoldsFrame, Frames
  <2>2. consumed' \in Seq(Nat)
    BY <1>6, <2>1, AppendProperties DEF AcceptFrame
  <2> QED BY <1>0, <1>6, <2>1, <2>2 DEF AcceptFrame, Proceed, request, Steps, HoldsFrame
<1>7. CASE CalibrationFails \/ ReconstructionFails
  <2>1. PICK c \in {"calibration", "reconstruction"} :
          \E step \in {"calibrating", "reconstructing"} : ProcessingFails(step, c)
    BY <1>7 DEF CalibrationFails, ReconstructionFails
  <2> DEFINE fault == RuntimeFault(c, FALSE)
  <2>2. fault \in Faults /\ c \in FaultCode
    BY DEF RuntimeFault, Faults, FaultCode
  <2>3. attempts' \in Seq(Attempts)
    BY <2>1, <2>2, RecordTypes, RecordKeepsType DEF ProcessingFails
  <2>4. journal' \in Seq(Events)
    BY <2>1, <2>2, RecordTypes, JournalKeepsType DEF ProcessingFails, Emit
  <2>5. outcome' \in Outcomes /\ pc' = "idle" /\ UNCHANGED request
    BY <1>0, <2>1, <2>2, RecordTypes DEF ProcessingFails, Emit, Return
  <2> QED BY <2>1, <2>3, <2>4, <2>5 DEF ProcessingFails, request, Steps, HoldsFrame
<1>8. CASE SnapshotCalibration
  BY <1>8 DEF SnapshotCalibration, Proceed, request, Steps, HoldsFrame
<1>9. ASSUME NEW s \in Spans, Reconstruct(s) PROVE TypeInv'
  BY <1>9, RuntimeAssumption DEF Reconstruct, Proceed, request, Steps, HoldsFrame
<1>10. CASE AcceptResult \/ ExhaustBudget \/ CompressAperture
  <2> DEFINE d == decide(span)
  <2>1. frame.sequence_id \in Nat /\ pc = "deciding"
    BY <1>10, RuntimeAssumption
    DEF AcceptResult, ExhaustBudget, CompressAperture, Decide, HoldsFrame, Frames
  <2>2. d \in Decisions /\ d.action \in Actions /\ d.factor \in Fraction
    BY DecideType DEF Decisions
  <2>3. Record(d, frame.sequence_id, NoFault)
    BY <1>10 DEF AcceptResult, ExhaustBudget, CompressAperture, Decide
  <2>4. attempts' \in Seq(Attempts)
    BY <1>0, <2>1, <2>2, <2>3, RecordTypes, RecordKeepsType
  <2>5. journal' \in {journal, Append(journal, Completed(attempt_index, frame.sequence_id, d.action))}
    BY <1>10 DEF AcceptResult, ExhaustBudget, CompressAperture, Decide, Emit
  <2>6. journal' \in Seq(Events)
    BY <2>1, <2>2, <2>5, RecordTypes, JournalKeepsType
  <2>7. /\ outcome' \in Outcomes /\ pc' \in {"requesting", "idle"}
        /\ attempt_index' \in 0..MaxReacquisitions /\ aperture_scale' \in Fraction
    <3>1. CASE AcceptResult
      BY <1>0, <2>1, <3>1, RecordTypes DEF AcceptResult, Decide, Emit, Return, request
    <3>2. CASE ExhaustBudget
      BY <1>0, <2>1, <3>2, RecordTypes DEF ExhaustBudget, Decide, Emit, Return, request
    <3>3. CASE CompressAperture
      <4>1. Times(aperture_scale, d.factor) \in Fraction
        BY <2>2, TimesFraction
      <4> QED BY <1>0, <3>3, <4>1, RuntimeAssumption
          DEF CompressAperture, Decide, Emit, Reacquire, Return, request
    <3> QED BY <1>10, <3>1, <3>2, <3>3
  <2>8. UNCHANGED <<last_sequence_id, frame, span, consumed>>
    BY <1>10 DEF AcceptResult, ExhaustBudget, CompressAperture, Decide
  <2> QED BY <2>4, <2>6, <2>7, <2>8 DEF Steps, HoldsFrame
<1>11. CASE UNCHANGED vars
  BY <1>11 DEF vars, local, HoldsFrame
<1> QED BY <1>1, <1>2, <1>3, <1>4, <1>5, <1>6, <1>7, <1>8, <1>9, <1>10, <1>11 DEF Next, Step

(* Type correctness, for every budget and every behaviour of the backend,  *)
(* the calibration provider, the engine and the sink.                      *)
THEOREM TypeCorrectness == Spec => []TypeOK
<1>1. TypeInv => TypeOK
  BY DEF TypeInv
<1> QED BY <1>1, TypeInit, TypeStep, PTL DEF Spec
-----------------------------------------------------------------------------
(* The inductive invariant.  The safety properties speak of what is        *)
(* recorded; to be inductive they need what a run under way still holds.   *)

HoldsConsumed == pc \in {"calibrating", "reconstructing", "deciding"}

(* A frame past validation is the newest consumed, and not yet reported.   *)
HeldFrame == HoldsConsumed =>
    /\ consumed # <<>>
    /\ frame.sequence_id = last_sequence_id
    /\ \A i \in 1..Len(attempts) : WasConsumed(attempts[i]) =>
           attempts[i].frame_sequence_id < last_sequence_id

(* The journal of an attempt under way ends with its request.              *)
OpenRequest ==
    /\ pc = "requesting" => Len(journal) = 2 * Len(attempts)
    /\ pc \notin {"idle", "requesting"} =>
          /\ Len(journal) = 2 * Len(attempts) + 1
          /\ journal[2 * Len(attempts) + 1] = Requested(attempt_index, aperture_scale)

OutcomePending == pc # "idle" => outcome = Pending

IInv ==
    /\ TypeInv
    /\ HeldFrame
    /\ OpenRequest
    /\ OutcomePending
    /\ ConsumedIncreasing
    /\ FramesAccounted
    /\ LedgerChains
    /\ OutcomeExplained
    /\ JournalTellsAttempts

(* Eight actions close an attempt.  They differ in the attempt they record *)
(* and in where they go; this is all that the invariants need of them.     *)
Closing ==
    \/ AcquisitionFails
    \/ RetryRejected \/ FaultRejected
    \/ CalibrationFails \/ ReconstructionFails
    \/ AcceptResult \/ ExhaustBudget \/ CompressAperture

Aborted ==
    TelemetryMayFail /\ pc' = "idle" /\ outcome' = Raised /\ UNCHANGED journal

GoesAround(a) ==
    /\ attempt_index < MaxReacquisitions
    /\ Continues(a)
    /\ pc' = "requesting"
    /\ attempt_index' = attempt_index + 1
    /\ aperture_scale' = NextScale(a)
    /\ UNCHANGED outcome

Explains(a, o) ==
    \/ /\ a.decision.action = "accept"
       /\ o = Outcome("completed", a.frame_sequence_id, NoFault)
    \/ /\ Compresses(a)
       /\ attempt_index = MaxReacquisitions
       /\ o = Faulted(a.frame_sequence_id, Exhausted)
    \/ /\ a.decision.action = "none"
       /\ a.fault.code # NoDefect
       /\ a.fault.code \in QualityCodes => attempt_index = MaxReacquisitions
       /\ o = Faulted(NoSequence, a.fault)

Concludes(a) == pc' = "idle" /\ UNCHANGED attempt_index /\ Explains(a, outcome')

CloseAttempt(a) ==
    /\ attempts' = Append(attempts, a)
    /\ a.aperture_scale = aperture_scale
    /\ pc \notin {"idle", "requesting"}
    /\ WasConsumed(a) \/ a.decision.action # "none" =>
          HoldsConsumed /\ a.frame_sequence_id = frame.sequence_id
    /\ a.fault.code = "sequence_regression" =>
          Regresses(a.frame_sequence_id, last_sequence_id)
    /\ UNCHANGED <<last_sequence_id, frame, consumed>>
    /\ \/ Aborted
       \/ /\ journal' = Append(journal, ClosingEvent(a, attempt_index + 1))
          /\ GoesAround(a) \/ Concludes(a)

LEMMA ClosingStep ==
    ASSUME TypeInv, Closing
    PROVE  \E a \in Attempts : CloseAttempt(a)
<1>0. /\ attempt_index \in Nat /\ attempt_index <= MaxReacquisitions
      /\ MaxReacquisitions \in Nat /\ attempt_index + 1 - 1 = attempt_index
      /\ aperture_scale \in Fraction /\ NoSequence \in Id
      /\ frame.sequence_id \in Id /\ frame.defect \in Defect /\ span \in Nat
  BY RuntimeAssumption DEF TypeInv, TypeOK, Id
<1>1. CASE AcquisitionFails
  <2> DEFINE fault == RuntimeFault("acquisition", TRUE)
             a == Attempt(NoDecision, NoSequence, fault)
  <2>1. fault \in Faults
    BY DEF RuntimeFault, Faults, FaultCode
  <2>2. a \in Attempts
    BY <1>0, <2>1, RecordTypes
  <2>3. /\ a.aperture_scale = aperture_scale /\ a.decision.action = "none"
        /\ a.frame_sequence_id = NoSequence /\ a.fault = fault
        /\ fault.code = "acquisition"
    BY DEF Attempt, NoDecision, RuntimeFault
  <2>4. ~WasConsumed(a) /\ ~WasRejected(a) /\ fault.code # NoDefect
        /\ fault.code \notin QualityCodes /\ fault.code # "sequence_regression"
    BY <2>3 DEF WasConsumed, WasRejected, QualityCodes, ContractCodes, NoDefect
  <2>5. ClosingEvent(a, attempt_index + 1) = Failed("acquisition")
    BY <2>3, <2>4 DEF ClosingEvent
  <2>6. /\ pc = "acquiring"
        /\ attempts' = Append(attempts, a)
        /\ UNCHANGED <<last_sequence_id, frame, consumed>>
        /\ \/ Aborted
           \/ /\ journal' = Append(journal, Failed("acquisition"))
              /\ pc' = "idle" /\ UNCHANGED attempt_index /\ outcome' = Faulted(NoSequence, fault)
    BY <1>1 DEF AcquisitionFails, Record, Emit, Return, Aborted, request
  <2> HIDE DEF a, fault
  <2>7. CloseAttempt(a)
    BY <2>3, <2>4, <2>5, <2>6 DEF CloseAttempt, Explains, Concludes
  <2> QED BY <2>2, <2>7
<1>2. CASE RetryRejected \/ FaultRejected
  <2> DEFINE a == Attempt(NoDecision, frame.sequence_id, FrameVerdict)
  <2>1. /\ FrameVerdict \in Faults
        /\ FrameVerdict.code # NoDefect
        /\ FrameVerdict.code \in QualityCodes \cup ContractCodes \cup {"sequence_regression"}
        /\ FrameVerdict.recoverable <=> FrameVerdict.code \in QualityCodes
        /\ FrameVerdict.code = "sequence_regression" =>
              Regresses(frame.sequence_id, last_sequence_id)
    BY <1>0, <1>2, VerdictType DEF RetryRejected, FaultRejected, RejectFrame, FrameVerdict
  <2>2. a \in Attempts
    BY <1>0, <2>1, RecordTypes
  <2>3. /\ a.aperture_scale = aperture_scale /\ a.decision.action = "none"
        /\ a.frame_sequence_id = frame.sequence_id /\ a.fault = FrameVerdict
    BY DEF Attempt, NoDecision
  <2>4. /\ ~WasConsumed(a) /\ WasRejected(a) /\ ~Compresses(a)
        /\ NextScale(a) = aperture_scale
    BY <2>1, <2>3 DEF WasConsumed, WasRejected, Compresses, NextScale
  <2>5. ClosingEvent(a, attempt_index + 1) = Rejected(FrameVerdict.code)
    BY <2>3, <2>4 DEF ClosingEvent
  <2>6. /\ pc = "validating"
        /\ attempts' = Append(attempts, a)
        /\ UNCHANGED <<last_sequence_id, frame, consumed>>
    BY <1>2 DEF RetryRejected, FaultRejected, RejectFrame, Record
  <2>7. \/ Aborted
        \/ /\ journal' = Append(journal, Rejected(FrameVerdict.code))
           /\ GoesAround(a) \/ Concludes(a)
    <3>1. CASE RetryRejected
      <4>1. Continues(a) /\ attempt_index < MaxReacquisitions
        BY <2>3, <2>4, <3>1 DEF RetryRejected, MayRetry, Continues
      <4> QED BY <2>4, <3>1, <4>1
          DEF RetryRejected, RejectFrame, Emit, Return, Reacquire, Aborted, GoesAround
    <3>2. CASE FaultRejected
      <4>1. FrameVerdict.code \in QualityCodes => attempt_index = MaxReacquisitions
        BY <1>0, <2>1, <3>2 DEF FaultRejected, MayRetry
      <4>2. \/ Aborted
            \/ /\ journal' = Append(journal, Rejected(FrameVerdict.code))
               /\ pc' = "idle" /\ UNCHANGED attempt_index /\ outcome' = Faulted(NoSequence, FrameVerdict)
        BY <3>2 DEF FaultRejected, RejectFrame, Emit, Return, Aborted, request
      <4> HIDE DEF a
      <4> QED BY <2>1, <2>3, <4>1, <4>2 DEF Explains, Concludes
    <3> QED BY <1>2, <3>1, <3>2
  <2> HIDE DEF a
  <2>8. CloseAttempt(a)
    BY <2>1, <2>3, <2>4, <2>5, <2>6, <2>7 DEF CloseAttempt
  <2> QED BY <2>2, <2>8
<1>3. CASE CalibrationFails \/ ReconstructionFails
  <2>1. PICK step \in {"calibrating", "reconstructing"},
             c \in {"calibration", "reconstruction"} : ProcessingFails(step, c)
    BY <1>3 DEF CalibrationFails, ReconstructionFails
  <2> DEFINE fault == RuntimeFault(c, FALSE)
             a == Attempt(NoDecision, frame.sequence_id, fault)
  <2>2. fault \in Faults
    BY DEF RuntimeFault, Faults, FaultCode
  <2>3. a \in Attempts
    BY <1>0, <2>2, RecordTypes
  <2>4. /\ a.aperture_scale = aperture_scale /\ a.decision.action = "none"
        /\ a.frame_sequence_id = frame.sequence_id /\ a.fault = fault
        /\ fault.code = c
    BY DEF Attempt, NoDecision, RuntimeFault
  <2>5. /\ ~WasRejected(a) /\ c # NoDefect
        /\ c \notin QualityCodes /\ c # "sequence_regression"
    BY <2>4 DEF WasRejected, QualityCodes, ContractCodes, NoDefect
  <2>6. ClosingEvent(a, attempt_index + 1) = Failed(c)
    BY <2>4, <2>5 DEF ClosingEvent
  <2>7. /\ pc = step
        /\ attempts' = Append(attempts, a)
        /\ UNCHANGED <<last_sequence_id, frame, consumed>>
        /\ \/ Aborted
           \/ /\ journal' = Append(journal, Failed(c))
              /\ pc' = "idle" /\ UNCHANGED attempt_index /\ outcome' = Faulted(NoSequence, fault)
    BY <2>1 DEF ProcessingFails, Record, Emit, Return, Aborted, request
  <2>8. HoldsConsumed /\ pc \notin {"idle", "requesting"}
    BY <2>7 DEF HoldsConsumed
  <2> HIDE DEF a, fault
  <2>9. CloseAttempt(a)
    BY <2>4, <2>5, <2>6, <2>7, <2>8 DEF CloseAttempt, Explains, Concludes
  <2> QED BY <2>3, <2>9
<1>4. CASE AcceptResult \/ ExhaustBudget \/ CompressAperture
  <2> DEFINE d == decide(span)
             a == Attempt(d, frame.sequence_id, NoFault)
  <2>1. d \in Decisions /\ d.action \in {"accept", "compress"}
    BY <1>0, DecideType
  <2>2. a \in Attempts
    BY <1>0, <2>1, RecordTypes
  <2>3. /\ a.aperture_scale = aperture_scale /\ a.decision = d
        /\ a.frame_sequence_id = frame.sequence_id /\ a.fault.code = NoDefect
    BY DEF Attempt, NoFault, RuntimeFault, NoDefect
  <2>4. /\ pc = "deciding"
        /\ attempts' = Append(attempts, a)
        /\ UNCHANGED <<last_sequence_id, frame, consumed>>
    BY <1>4 DEF AcceptResult, ExhaustBudget, CompressAperture, Decide, Record
  <2> DEFINE e == Completed(attempt_index, frame.sequence_id, d.action)
  <2>5. ClosingEvent(a, attempt_index + 1) = e
    BY <1>0, <2>1, <2>3 DEF ClosingEvent
  <2>6. \/ Aborted
        \/ /\ journal' = Append(journal, e)
           /\ GoesAround(a) \/ Concludes(a)
    <3>1. CASE AcceptResult
      <4>1. d.action = "accept"
        BY <3>1 DEF AcceptResult, Decide
      <4>2. \/ Aborted
            \/ /\ journal' = Append(journal, e) /\ pc' = "idle" /\ UNCHANGED attempt_index
               /\ outcome' = Outcome("completed", frame.sequence_id, NoFault)
        BY <3>1, <4>1 DEF AcceptResult, Decide, Emit, Return, Aborted, request
      <4> QED BY <2>3, <4>1, <4>2 DEF Explains, Concludes
    <3>2. CASE ExhaustBudget
      <4>1. d.action = "compress" /\ attempt_index = MaxReacquisitions
        BY <1>0, <3>2 DEF ExhaustBudget, Decide
      <4>2. \/ Aborted
            \/ /\ journal' = Append(journal, e) /\ pc' = "idle" /\ UNCHANGED attempt_index
               /\ outcome' = Faulted(frame.sequence_id, Exhausted)
        BY <3>2, <4>1 DEF ExhaustBudget, Decide, Emit, Return, Aborted, request
      <4> QED BY <2>3, <4>1, <4>2 DEF Explains, Concludes, Compresses
    <3>3. CASE CompressAperture
      <4>1. d.action = "compress" /\ attempt_index < MaxReacquisitions
        BY <3>3 DEF CompressAperture, Decide
      <4>2. \/ Aborted
            \/ /\ journal' = Append(journal, e)
               /\ Reacquire(Times(aperture_scale, d.factor))
        BY <3>3, <4>1 DEF CompressAperture, Decide, Emit, Return, Aborted, request
      <4>3. Continues(a) /\ NextScale(a) = Times(aperture_scale, d.factor)
        BY <2>3, <4>1 DEF Continues, Compresses, NextScale
      <4> HIDE DEF a, d
      <4> QED BY <4>1, <4>2, <4>3 DEF GoesAround, Reacquire
    <3> QED BY <1>4, <3>1, <3>2, <3>3
  <2>7. HoldsConsumed /\ NoDefect # "sequence_regression"
    BY <2>4 DEF HoldsConsumed, NoDefect
  <2> HIDE DEF a, d, e
  <2>8. CloseAttempt(a)
    BY <2>3, <2>4, <2>5, <2>6, <2>7 DEF CloseAttempt
  <2> QED BY <2>2, <2>8
<1> QED BY <1>1, <1>2, <1>3, <1>4 DEF Closing

(* Closing an attempt preserves the invariant.                             *)
LEMMA ClosePreserves ==
    ASSUME IInv, TypeInv', NEW a \in Attempts, CloseAttempt(a)
    PROVE  IInv'
<1> DEFINE n == Len(attempts)
<1>1. /\ n \in Nat /\ Len(attempts') = n + 1
      /\ \A i \in 1..n : attempts'[i] = attempts[i]
      /\ attempts'[n + 1] = a
      /\ attempts' # <<>>
  BY AppendProperties DEF CloseAttempt, IInv, TypeInv, TypeOK
<1>2. n = attempt_index /\ n <= MaxReacquisitions /\ MaxReacquisitions \in Nat
  BY RuntimeAssumption DEF CloseAttempt, IInv, LedgerChains, TypeInv, TypeOK
<1>3. /\ Len(journal) = 2 * n + 1 /\ outcome = Pending
      /\ outcome.state = "pending"
  BY DEF CloseAttempt, IInv, OpenRequest, OutcomePending, Pending, Outcome
<1>4. UNCHANGED <<last_sequence_id, frame, consumed>>
  BY DEF CloseAttempt
<1>5. pc' \in {"idle", "requesting"}
  BY DEF CloseAttempt, Aborted, GoesAround, Concludes
<1> DEFINE e == ClosingEvent(a, attempt_index + 1)
<1>6. /\ journal' \in {journal, Append(journal, e)}
      /\ ~Aborted => journal' = Append(journal, e)
  BY DEF CloseAttempt, Aborted
<1>7. /\ Len(journal') \in {2 * n + 1, 2 * n + 2}
      /\ \A k \in 1..2 * n + 1 : journal'[k] = journal[k]
      /\ Len(journal') = 2 * n + 2 => journal'[2 * n + 2] = e
      /\ ~Aborted => Len(journal') = 2 * n + 2
  <2>1. journal \in Seq(Events) /\ journal' \in Seq(Events)
    BY DEF IInv, TypeInv, TypeOK
  <2>2. CASE journal' = journal
    <3>1. Aborted
      BY <1>3, <1>6, <2>1, <2>2
    <3> QED BY <1>1, <1>3, <2>2, <3>1
  <2>3. CASE journal' = Append(journal, e)
    <3> HIDE DEF e
    <3>1. /\ Len(journal') = 2 * n + 2
          /\ \A k \in 1..2 * n + 1 : journal'[k] = journal[k]
          /\ journal'[2 * n + 2] = e
      BY <1>1, <1>3, <2>1, <2>3
    <3> QED BY <3>1
  <2> QED BY <1>6, <2>2, <2>3
<1> HIDE DEF n, e
<1>8. HeldFrame'
  BY <1>5 DEF HeldFrame, HoldsConsumed
<1>9. OpenRequest'
  <2>1. pc' = "requesting" => ~Aborted
    BY DEF Aborted
  <2> QED BY <1>1, <1>5, <1>7, <2>1 DEF OpenRequest
<1>10. OutcomePending'
  BY <1>3, <1>5 DEF CloseAttempt, GoesAround, Concludes, OutcomePending, Aborted
<1>11. ConsumedIncreasing'
  BY <1>4 DEF IInv, ConsumedIncreasing
<1>12. FramesAccounted'
  <2>1. FramesAccounted /\ HeldFrame
    BY DEF IInv
  <2>2. ASSUME NEW i \in 1..n
        PROVE  /\ WasConsumed(attempts'[i]) =>
                     /\ \E k \in 1..Len(consumed) :
                            consumed[k] = attempts'[i].frame_sequence_id
                     /\ \A j \in 1..i-1 : WasConsumed(attempts'[j]) =>
                          attempts'[j].frame_sequence_id < attempts'[i].frame_sequence_id
               /\ attempts'[i].fault.code = "sequence_regression" =>
                     attempts'[i].frame_sequence_id <= last_sequence_id
    <3>1. attempts'[i] = attempts[i] /\ \A j \in 1..i-1 : attempts'[j] = attempts[j]
      BY <1>1
    <3> QED BY <1>1, <2>1, <3>1 DEF FramesAccounted, n
  <2>3. ASSUME WasConsumed(a)
        PROVE  /\ \E k \in 1..Len(consumed) : consumed[k] = a.frame_sequence_id
               /\ \A j \in 1..n : WasConsumed(attempts'[j]) =>
                     attempts'[j].frame_sequence_id < a.frame_sequence_id
    <3>1. /\ a.frame_sequence_id = last_sequence_id /\ consumed # <<>>
          /\ \A j \in 1..n : WasConsumed(attempts[j]) =>
                attempts[j].frame_sequence_id < last_sequence_id
      BY <2>1, <2>3 DEF CloseAttempt, HeldFrame, n
    <3>2. consumed \in Seq(Nat) /\ last_sequence_id = consumed[Len(consumed)]
      BY <3>1 DEF IInv, ConsumedIncreasing, TypeInv, TypeOK
    <3>3. Len(consumed) \in 1..Len(consumed)
      BY <3>1, <3>2, EmptySeq, LenProperties
    <3> QED BY <1>1, <3>1, <3>2, <3>3
  <2>4. a.fault.code = "sequence_regression" => a.frame_sequence_id <= last_sequence_id
    BY DEF CloseAttempt, Regresses
  <2>5. ASSUME NEW i \in 1..n + 1
        PROVE  /\ WasConsumed(attempts'[i]) =>
                     /\ \E k \in 1..Len(consumed) :
                            consumed[k] = attempts'[i].frame_sequence_id
                     /\ \A j \in 1..i-1 : WasConsumed(attempts'[j]) =>
                          attempts'[j].frame_sequence_id < attempts'[i].frame_sequence_id
               /\ attempts'[i].fault.code = "sequence_regression" =>
                     attempts'[i].frame_sequence_id <= last_sequence_id
    <3>1. CASE i \in 1..n
      BY <2>2, <3>1
    <3>2. CASE i = n + 1
      <4>1. attempts'[i] = a /\ 1..i-1 = 1..n
        BY <1>1, <3>2
      <4> QED BY <2>3, <2>4, <4>1
    <3> QED BY <1>1, <3>1, <3>2
  <2> QED BY <1>1, <1>4, <2>5 DEF FramesAccounted
<1>13. LedgerChains'
  <2>1. LedgerChains /\ pc # "idle"
    BY DEF IInv, CloseAttempt
  <2>2. a.aperture_scale = IF n = 0 THEN One ELSE NextScale(attempts[n])
    BY <1>1, <2>1, EmptySeq DEF LedgerChains, CloseAttempt, n, IInv, TypeInv, TypeOK
  <2>3. n # 0 => Continues(attempts[n])
    BY <1>1, <2>1, EmptySeq DEF LedgerChains, n
  <2>4. attempts'[1].aperture_scale = One
    <3>1. CASE n = 0
      BY <1>1, <2>2, <3>1
    <3>2. CASE n # 0
      <4>1. attempts # <<>> /\ attempts'[1] = attempts[1]
        BY <1>1, <3>2 DEF n
      <4> QED BY <2>1, <4>1 DEF LedgerChains
    <3> QED BY <3>1, <3>2
  <2>5. ASSUME NEW i \in 1..n
        PROVE  /\ Continues(attempts'[i])
               /\ attempts'[i + 1].aperture_scale = NextScale(attempts'[i])
    <3>1. attempts'[i] = attempts[i]
      BY <1>1
    <3>2. CASE i = n
      BY <1>1, <2>2, <2>3, <3>1, <3>2
    <3>3. CASE i # n
      <4>1. i \in 1..n - 1 /\ attempts'[i + 1] = attempts[i + 1]
        BY <1>1, <3>3
      <4> QED BY <2>1, <3>1, <4>1 DEF LedgerChains, n
    <3> QED BY <3>2, <3>3
  <2>6. pc' # "idle" => /\ Len(attempts') = attempt_index'
                        /\ Continues(a)
                        /\ aperture_scale' = NextScale(a)
    BY <1>1, <1>2 DEF CloseAttempt, Aborted, GoesAround, Concludes
  <2>7. Len(attempts') - 1 = n /\ Len(attempts') <= MaxReacquisitions + 1
    BY <1>1, <1>2
  <2> QED BY <1>1, <2>4, <2>5, <2>6, <2>7 DEF LedgerChains
<1>14. OutcomeExplained'
  <2>1. CASE Aborted
    BY <2>1 DEF Aborted, Raised, Outcome, OutcomeExplained
  <2>2. CASE GoesAround(a)
    BY <1>3, <2>2 DEF GoesAround, OutcomeExplained
  <2>3. CASE Explains(a, outcome')
    <3>1. a.decision.action # "none" => a.frame_sequence_id = last_sequence_id
      BY DEF CloseAttempt, HoldsConsumed, IInv, HeldFrame
    <3>2. attempts'[Len(attempts')] = a /\ attempts' # <<>>
      BY <1>1
    <3>3. attempt_index = MaxReacquisitions => Len(attempts') = MaxReacquisitions + 1
      BY <1>1, <1>2
    <3>4. CASE /\ a.decision.action = "accept"
               /\ outcome' = Outcome("completed", a.frame_sequence_id, NoFault)
      <4>1. /\ outcome'.state = "completed" /\ outcome'.fault = NoFault
            /\ outcome'.result = a.frame_sequence_id
        BY <3>4 DEF Outcome
      <4> QED BY <1>4, <3>1, <3>2, <3>4, <4>1 DEF OutcomeExplained
    <3>5. CASE /\ Compresses(a)
               /\ attempt_index = MaxReacquisitions
               /\ outcome' = Faulted(a.frame_sequence_id, Exhausted)
      <4>1. /\ outcome'.state = "faulted" /\ outcome'.fault = Exhausted
            /\ outcome'.result = a.frame_sequence_id
        BY <3>5 DEF Outcome, Faulted
      <4>2. a.frame_sequence_id = last_sequence_id
        BY <3>1, <3>5 DEF Compresses
      <4> QED BY <1>4, <3>2, <3>3, <3>5, <4>1, <4>2 DEF OutcomeExplained
    <3>6. CASE /\ a.decision.action = "none"
               /\ a.fault.code # NoDefect
               /\ a.fault.code \in QualityCodes => attempt_index = MaxReacquisitions
               /\ outcome' = Faulted(NoSequence, a.fault)
      <4>1. /\ outcome'.state = "faulted" /\ outcome'.fault = a.fault
            /\ outcome'.result = NoSequence
        BY <3>6 DEF Outcome, Faulted
      <4>2. ~Compresses(a)
        BY <3>6 DEF Compresses
      <4> QED BY <3>2, <3>3, <3>6, <4>1, <4>2 DEF OutcomeExplained
    <3> QED BY <2>3, <3>4, <3>5, <3>6 DEF Explains, Concludes
  <2> QED BY <2>1, <2>2, <2>3 DEF CloseAttempt, Concludes
<1>15. JournalTellsAttempts'
  <2>1. JournalTellsAttempts
    BY DEF IInv
  <2>2. ASSUME NEW i \in 1..n
        PROVE  /\ 2 * i <= Len(journal')
               /\ journal'[2 * i - 1] = Requested(i - 1, attempts'[i].aperture_scale)
               /\ journal'[2 * i] = ClosingEvent(attempts'[i], i)
    <3>1. /\ 2 * i - 1 \in 1..2 * n + 1 /\ 2 * i \in 1..2 * n + 1
          /\ 2 * i <= Len(journal) /\ 2 * i <= Len(journal')
      BY <1>1, <1>3, <1>7 DEF n
    <3>2. /\ journal[2 * i - 1] = Requested(i - 1, attempts[i].aperture_scale)
          /\ journal[2 * i] = ClosingEvent(attempts[i], i)
      BY <2>1, <3>1 DEF JournalTellsAttempts, n
    <3> QED BY <1>1, <1>7, <3>1, <3>2
  <2>3. journal[2 * n + 1] = Requested(n, a.aperture_scale)
    BY <1>2 DEF IInv, OpenRequest, CloseAttempt, n
  <2>4. /\ 2 * (n + 1) - 1 <= Len(journal')
        /\ journal'[2 * (n + 1) - 1] = Requested(n + 1 - 1, a.aperture_scale)
        /\ 2 * (n + 1) <= Len(journal') => journal'[2 * (n + 1)] = ClosingEvent(a, n + 1)
    <3>1. 2 * (n + 1) - 1 = 2 * n + 1 /\ n + 1 - 1 = n /\ 2 * (n + 1) = 2 * n + 2
      BY <1>1
    <3> QED BY <1>1, <1>2, <1>7, <2>3, <3>1 DEF e
  <2>5. ASSUME NEW i \in 1..n + 1
        PROVE  /\ 2 * i - 1 <= Len(journal')
               /\ journal'[2 * i - 1] = Requested(i - 1, attempts'[i].aperture_scale)
               /\ 2 * i <= Len(journal') => journal'[2 * i] = ClosingEvent(attempts'[i], i)
    <3>1. CASE i \in 1..n
      BY <1>1, <1>7, <2>2, <3>1
    <3>2. CASE i = n + 1
      BY <1>1, <2>4, <3>2
    <3> QED BY <1>1, <3>1, <3>2
  <2>6. outcome'.state \in {"completed", "faulted"} => ~Aborted
    BY DEF Aborted, Raised, Outcome
  <2> QED BY <1>1, <1>7, <2>5, <2>6 DEF JournalTellsAttempts
<1> QED BY <1>8, <1>9, <1>10, <1>11, <1>12, <1>13, <1>14, <1>15 DEF IInv

(* Before a run, and at the start of one, there is nothing to account for. *)
LEMMA FreshPreserves ==
    ASSUME TypeInv, ConsumedIncreasing,
           attempts = <<>>, journal = <<>>, outcome = Pending,
           pc = "idle" \/ (pc = "requesting" /\ attempt_index = 0 /\ aperture_scale = One)
    PROVE  IInv
<1>1. Len(attempts) = 0 /\ Len(journal) = 0 /\ outcome.state = "pending"
  BY EmptySeq DEF Pending, Outcome
<1>2. MaxReacquisitions \in Nat
  BY RuntimeAssumption
<1> QED BY <1>1, <1>2
    DEF IInv, HeldFrame, HoldsConsumed, OpenRequest, OutcomePending, FramesAccounted,
        LedgerChains, OutcomeExplained, JournalTellsAttempts

LEMMA SafetyInit == Init => IInv
<1> SUFFICES ASSUME Init PROVE IInv
  OBVIOUS
<1>1. ConsumedIncreasing
  BY EmptySeq DEF Init, ConsumedIncreasing
<1> QED BY <1>1, TypeInit, FreshPreserves DEF Init

(* Emitting the request of an attempt preserves the invariant.             *)
LEMMA RequestPreserves ==
    ASSUME IInv, TypeInv', RequestAcquisition
    PROVE  IInv'
<1> DEFINE n == Len(attempts)
           e == Requested(attempt_index, aperture_scale)
<1>1. /\ pc = "requesting" /\ pc' \in {"acquiring", "idle"}
      /\ UNCHANGED <<last_sequence_id, frame, attempts, consumed, attempt_index, aperture_scale>>
      /\ \/ journal' = Append(journal, e) /\ outcome' = outcome /\ pc' = "acquiring"
         \/ journal' = journal /\ outcome' = Raised /\ pc' = "idle"
  BY DEF RequestAcquisition, Emit, Proceed, Return, request
<1>2. /\ n \in Nat /\ n = attempt_index
      /\ Len(journal) = 2 * n
      /\ outcome = Pending /\ outcome.state = "pending"
      /\ journal \in Seq(Events) /\ journal' \in Seq(Events)
  BY <1>1 DEF IInv, TypeInv, TypeOK, LedgerChains, OpenRequest, OutcomePending, Pending, Outcome
<1>3. /\ \A k \in 1..2 * n : journal'[k] = journal[k]
      /\ pc' = "acquiring" => /\ Len(journal') = 2 * n + 1
                              /\ journal'[2 * n + 1] = e
      /\ pc' = "idle" => Len(journal') = 2 * n
  <2>1. CASE journal' = journal
    BY <1>1, <1>2, <2>1
  <2>2. CASE journal' = Append(journal, e)
    <3> HIDE DEF e
    <3> QED BY <1>1, <1>2, <2>2
  <2> QED BY <1>1, <2>1, <2>2
<1>4. HeldFrame' /\ OutcomePending'
  BY <1>1, <1>2 DEF HeldFrame, HoldsConsumed, OutcomePending
<1>5. OpenRequest'
  BY <1>1, <1>2, <1>3 DEF OpenRequest
<1>6. ConsumedIncreasing' /\ FramesAccounted'
  BY <1>1 DEF IInv, ConsumedIncreasing, FramesAccounted
<1>7. LedgerChains'
  BY <1>1 DEF IInv, LedgerChains
<1>8. OutcomeExplained'
  BY <1>1, <1>2 DEF OutcomeExplained, Raised, Outcome
<1>9. JournalTellsAttempts'
  <2>1. \A i \in 1..n : 2 * i - 1 \in 1..2 * n /\ 2 * i \in 1..2 * n
    BY <1>2
  <2>2. /\ outcome'.state \notin {"completed", "faulted"}
        /\ 2 * n <= Len(journal') /\ Len(journal') <= 2 * n + 1
    BY <1>1, <1>2, <1>3 DEF Raised, Outcome
  <2> HIDE DEF e
  <2> QED BY <1>1, <1>2, <1>3, <2>1, <2>2 DEF IInv, JournalTellsAttempts
<1> QED BY <1>4, <1>5, <1>6, <1>7, <1>8, <1>9 DEF IInv

(* Validating a frame preserves the invariant: the frame is newer than     *)
(* all that were consumed before, so than all that were reported.          *)
LEMMA AcceptFramePreserves ==
    ASSUME IInv, TypeInv', AcceptFrame
    PROVE  IInv'
<1> DEFINE id == frame.sequence_id
           m == Len(consumed)
<1>1. /\ pc = "validating" /\ pc' = "calibrating"
      /\ last_sequence_id' = id /\ consumed' = Append(consumed, id)
      /\ UNCHANGED <<frame, attempts, journal, outcome, attempt_index, aperture_scale>>
  BY DEF AcceptFrame, Proceed, request
<1>2. /\ id \in Nat /\ m \in Nat /\ consumed \in Seq(Nat) /\ frame.defect \in Defect
      /\ last_sequence_id \in Id
  BY <1>1, RuntimeAssumption DEF IInv, TypeInv, TypeOK, HoldsFrame, Frames
<1>3. last_sequence_id < id
  <2>1. ~Regresses(id, last_sequence_id)
    BY <1>2, VerdictType DEF AcceptFrame, FrameVerdict
  <2> QED BY <1>2, <2>1 DEF Regresses, Id, NoSequence
<1>4. /\ Len(consumed') = m + 1 /\ consumed' # <<>> /\ consumed'[m + 1] = id
      /\ \A k \in 1..m : consumed'[k] = consumed[k]
  BY <1>1, <1>2, AppendProperties
<1>5. \A k \in 1..m : consumed[k] <= last_sequence_id
  <2>1. ConsumedIncreasing
    BY DEF IInv
  <2> SUFFICES ASSUME NEW k \in 1..m PROVE consumed[k] <= last_sequence_id
    OBVIOUS
  <2>2. m \in 1..m /\ consumed # <<>>
    BY <1>2, EmptySeq
  <2>3. last_sequence_id = consumed[m]
    BY <2>1, <2>2 DEF ConsumedIncreasing
  <2>4. consumed[k] \in Nat /\ consumed[m] \in Nat
    BY <1>2, <2>2, ElementOfSeq
  <2>5. k = m \/ consumed[k] < consumed[m]
    BY <1>2, <2>1, <2>2 DEF ConsumedIncreasing
  <2> QED BY <2>3, <2>4, <2>5
<1>6. ConsumedIncreasing'
  <2>1. ASSUME NEW i \in 1..m + 1, NEW j \in 1..m + 1, i < j
        PROVE  consumed'[i] < consumed'[j]
    <3>1. i \in 1..m /\ consumed[i] \in Nat
      BY <1>2, <2>1, ElementOfSeq
    <3>2. CASE j \in 1..m
      BY <1>4, <2>1, <3>1, <3>2 DEF IInv, ConsumedIncreasing
    <3>3. CASE j = m + 1
      <4>1. consumed'[j] = id /\ consumed'[i] = consumed[i]
        BY <1>4, <3>1, <3>3
      <4> QED BY <1>2, <1>3, <1>5, <3>1, <4>1 DEF Id, NoSequence
    <3> QED BY <1>2, <3>2, <3>3
  <2> HIDE DEF id
  <2> QED BY <1>1, <1>4, <2>1 DEF ConsumedIncreasing
<1>7. FramesAccounted'
  <2>1. \A x : (\E k \in 1..m : consumed[k] = x)
                  => (\E k \in 1..Len(consumed') : consumed'[k] = x)
    BY <1>2, <1>4
  <2>2. \A i \in 1..Len(attempts) : attempts[i].frame_sequence_id \in Id
    <3>1. attempts \in Seq(Attempts)
      BY DEF IInv, TypeInv, TypeOK
    <3>2. \A i \in 1..Len(attempts) : attempts[i] \in Attempts
      BY <3>1, ElementOfSeq
    <3> QED BY <3>2 DEF Attempts
  <2>3. \A x \in Id : x <= last_sequence_id => x <= id
    BY <1>2, <1>3 DEF Id, NoSequence
  <2> HIDE DEF id
  <2> QED BY <1>1, <2>1, <2>2, <2>3 DEF IInv, FramesAccounted
<1>8. HeldFrame'
  <2>1. ASSUME NEW i \in 1..Len(attempts), WasConsumed(attempts[i])
        PROVE  attempts[i].frame_sequence_id < id
    <3>1. PICK k \in 1..m : consumed[k] = attempts[i].frame_sequence_id
      BY <2>1 DEF IInv, FramesAccounted
    <3>2. consumed[k] \in Nat
      BY <1>2, ElementOfSeq
    <3> QED BY <1>2, <1>3, <1>5, <3>1, <3>2 DEF Id, NoSequence
  <2> HIDE DEF id
  <2>2. frame'.sequence_id = last_sequence_id'
    BY <1>1 DEF id
  <2> QED BY <1>1, <1>4, <2>1, <2>2 DEF HeldFrame
<1>9. OpenRequest' /\ OutcomePending' /\ JournalTellsAttempts'
  BY <1>1 DEF IInv, OpenRequest, OutcomePending, JournalTellsAttempts
<1>10. LedgerChains'
  BY <1>1 DEF IInv, LedgerChains
<1>11. OutcomeExplained'
  BY <1>1 DEF IInv, OutcomePending, Pending, Outcome, OutcomeExplained
<1> QED BY <1>6, <1>7, <1>8, <1>9, <1>10, <1>11 DEF IInv

(* The steps that only hand the frame on change nothing that is recorded.  *)
LEMMA QuietPreserves ==
    ASSUME IInv, TypeInv',
           UNCHANGED <<last_sequence_id, attempt_index, aperture_scale, attempts,
                       outcome, journal, consumed>>,
           \/ pc = "acquiring" /\ pc' = "validating"
           \/ HoldsConsumed /\ pc' \in {"reconstructing", "deciding"} /\ UNCHANGED frame
           \/ UNCHANGED <<pc, frame>>
    PROVE  IInv'
<1>1. HeldFrame'
  BY DEF IInv, HeldFrame, HoldsConsumed
<1>2. OpenRequest' /\ OutcomePending' /\ JournalTellsAttempts'
  BY DEF IInv, OpenRequest, OutcomePending, JournalTellsAttempts, HoldsConsumed
<1>3. ConsumedIncreasing' /\ FramesAccounted'
  BY DEF IInv, ConsumedIncreasing, FramesAccounted
<1>4. LedgerChains'
  BY DEF IInv, LedgerChains, HoldsConsumed
<1>5. OutcomeExplained'
  BY DEF IInv, OutcomeExplained
<1> QED BY <1>1, <1>2, <1>3, <1>4, <1>5 DEF IInv

LEMMA SafetyStep == IInv /\ [Next]_vars => IInv'
<1> SUFFICES ASSUME IInv, [Next]_vars PROVE IInv'
  OBVIOUS
<1>0. TypeInv'
  BY TypeStep DEF IInv
<1>1. CASE RunOnce
  <2>1. ConsumedIncreasing'
    BY <1>1 DEF RunOnce, IInv, ConsumedIncreasing
  <2>2. /\ attempts' = <<>> /\ journal' = <<>> /\ outcome' = Pending
        /\ pc' = "requesting" /\ attempt_index' = 0 /\ aperture_scale' = One
    BY <1>1 DEF RunOnce
  <2>3. Len(attempts') = 0 /\ Len(journal') = 0 /\ outcome'.state = "pending"
    BY <2>2, EmptySeq DEF Pending, Outcome
  <2> QED BY <1>0, <2>1, <2>2, <2>3, RuntimeAssumption
      DEF IInv, HeldFrame, HoldsConsumed, OpenRequest, OutcomePending, FramesAccounted,
          LedgerChains, OutcomeExplained, JournalTellsAttempts
<1>2. CASE RequestAcquisition
  BY <1>0, <1>2, RequestPreserves
<1>3. CASE Closing
  <2>1. PICK a \in Attempts : CloseAttempt(a)
    BY <1>3, ClosingStep DEF IInv
  <2> QED BY <1>0, <2>1, ClosePreserves
<1>4. CASE AcceptFrame
  BY <1>0, <1>4, AcceptFramePreserves
<1>5. CASE \/ \E f \in Frames : AcquireReturns(f)
           \/ SnapshotCalibration
           \/ \E s \in Spans : Reconstruct(s)
           \/ UNCHANGED vars
  <2>1. UNCHANGED <<last_sequence_id, attempt_index, aperture_scale, attempts,
                    outcome, journal, consumed>>
    BY <1>5 DEF AcquireReturns, SnapshotCalibration, Reconstruct, Proceed, request, vars, local
  <2>2. \/ pc = "acquiring" /\ pc' = "validating"
        \/ HoldsConsumed /\ pc' \in {"reconstructing", "deciding"} /\ UNCHANGED frame
        \/ UNCHANGED <<pc, frame>>
    BY <1>5 DEF AcquireReturns, SnapshotCalibration, Reconstruct, Proceed, HoldsConsumed, vars, local
  <2> QED BY <1>0, <2>1, <2>2, QuietPreserves
<1> QED BY <1>1, <1>2, <1>3, <1>4, <1>5 DEF Next, Step, Closing

(* IInv, the strengthening of all the safety properties, is an invariant.  *)
THEOREM InvariantHolds == Spec => []IInv
BY SafetyInit, SafetyStep, PTL DEF Spec

(* Frames reach the engine at most once and in order, for the whole life   *)
(* of the runtime.                                                         *)
THEOREM FramesConsumedInOrder == Spec => []ConsumedIncreasing
<1>1. IInv => ConsumedIncreasing
  BY DEF IInv
<1> QED BY <1>1, InvariantHolds, PTL

(* The attempts of a run account for the frames it consumed and rejected.  *)
THEOREM AttemptsAccountForFrames == Spec => []FramesAccounted
<1>1. IInv => FramesAccounted
  BY DEF IInv
<1> QED BY <1>1, InvariantHolds, PTL

(* The ledger is one chain within the shared budget of reacquisitions.     *)
THEOREM AttemptsChain == Spec => []LedgerChains
<1>1. IInv => LedgerChains
  BY DEF IInv
<1> QED BY <1>1, InvariantHolds, PTL

(* What a run returns is what its last attempt says.                       *)
THEOREM OutcomesExplained == Spec => []OutcomeExplained
<1>1. IInv => OutcomeExplained
  BY DEF IInv
<1> QED BY <1>1, InvariantHolds, PTL

(* The telemetry of a run retells its attempts.                            *)
THEOREM TelemetryTellsAttempts == Spec => []JournalTellsAttempts
<1>1. IInv => JournalTellsAttempts
  BY DEF IInv
<1> QED BY <1>1, InvariantHolds, PTL
-----------------------------------------------------------------------------
(* run_once implements the documented cycle.                               *)

LEMMA CycleInit == Init => Cycle!Init
BY DEF Init, Cycle!Init, CycleState, CycleReacquisitions, Pending, Outcome

(* What the mapping says in each phase of the runtime.                     *)
LEMMA CyclePhases ==
    ASSUME IInv
    PROVE  /\ attempt_index \in Nat
           /\ pc = "requesting" /\ attempt_index = 0 =>
                CycleState = "acquiring" /\ CycleReacquisitions = attempt_index
           /\ pc = "requesting" /\ attempt_index # 0 =>
                CycleState = "reacquire_pending" /\ CycleReacquisitions = attempt_index - 1
           /\ pc \in {"acquiring", "validating"} =>
                CycleState = "acquiring" /\ CycleReacquisitions = attempt_index
           /\ HoldsConsumed =>
                CycleState = "reconstructing" /\ CycleReacquisitions = attempt_index
           /\ pc = "idle" /\ outcome.state \in {"completed", "faulted"} =>
                CycleState = outcome.state /\ CycleReacquisitions = attempt_index
           /\ pc = "idle" /\ outcome.state \notin {"completed", "faulted"} =>
                CycleState = "idle" /\ CycleReacquisitions = 0
           /\ pc \in Steps
<1>1. attempt_index \in Nat /\ pc \in Steps
  BY RuntimeAssumption DEF IInv, TypeInv, TypeOK
<1> QED BY <1>1 DEF CycleState, CycleReacquisitions, HoldsConsumed, Steps

LEMMA CycleStep == IInv /\ IInv' /\ [Next]_vars => [Cycle!Next]_(Cycle!cycle)
<1> SUFFICES ASSUME IInv, IInv', [Next]_vars
             PROVE  Cycle!Next \/ UNCHANGED <<CycleState, CycleReacquisitions>>
  BY DEF Cycle!cycle
<1> USE DEF Cycle!Next
<1>1. CASE RunOnce
  <2>1. /\ pc = "idle" /\ pc' = "requesting" /\ attempt_index' = 0
    BY <1>1 DEF RunOnce
  <2>2. CycleState \in {"idle", "completed", "faulted"}
    BY <2>1, CyclePhases
  <2>3. CycleState' = "acquiring" /\ CycleReacquisitions' = 0
    BY <2>1 DEF CycleState, CycleReacquisitions
  <2> QED BY <2>2, <2>3 DEF Cycle!Begin
<1>2. CASE RequestAcquisition
  <2>1. /\ pc = "requesting" /\ UNCHANGED attempt_index
        /\ \/ pc' = "acquiring"
           \/ TelemetryMayFail /\ pc' = "idle" /\ outcome' = Raised
    BY <1>2 DEF RequestAcquisition, Emit, Proceed, Return, request
  <2>2. CASE pc' = "acquiring"
    <3>1. CycleState' = "acquiring" /\ CycleReacquisitions' = attempt_index
      BY <2>1, <2>2 DEF CycleState, CycleReacquisitions
    <3>2. CASE attempt_index = 0
      BY <2>1, <3>1, <3>2, CyclePhases
    <3>3. CASE attempt_index # 0
      BY <2>1, <3>1, <3>3, CyclePhases DEF Cycle!Reacquire
    <3> QED BY <3>2, <3>3
  <2>3. CASE TelemetryMayFail /\ pc' = "idle" /\ outcome' = Raised
    <3>1. CycleState' = "idle" /\ CycleReacquisitions' = 0
      BY <2>3 DEF CycleState, CycleReacquisitions, Raised, Outcome
    <3> QED BY <2>1, <2>3, <3>1, CyclePhases DEF Cycle!Abort
  <2> QED BY <2>1, <2>2, <2>3
<1>3. CASE Closing
  <2>1. PICK a \in Attempts : CloseAttempt(a)
    BY <1>3, ClosingStep DEF IInv
  <2>2. /\ CycleState \in {"acquiring", "reconstructing"}
        /\ CycleReacquisitions = attempt_index
        /\ a.decision.action # "none" => CycleState = "reconstructing"
    BY <2>1, CyclePhases DEF CloseAttempt, HoldsConsumed, Steps
  <2>3. CASE Aborted
    <3>1. CycleState' = "idle" /\ CycleReacquisitions' = 0
      BY <2>3 DEF Aborted, CycleState, CycleReacquisitions, Raised, Outcome
    <3> QED BY <2>2, <2>3, <3>1 DEF Aborted, Cycle!Abort
  <2>4. CASE GoesAround(a)
    <3>1. attempt_index \in Nat
      BY CyclePhases
    <3>2. CycleState' = "reacquire_pending" /\ CycleReacquisitions' = attempt_index
      BY <2>4, <3>1 DEF GoesAround, CycleState, CycleReacquisitions
    <3> QED BY <2>2, <2>4, <3>2 DEF GoesAround, Cycle!Postpone, Cycle!Move
  <2>5. CASE Concludes(a)
    <3>1. CASE /\ a.decision.action = "accept"
               /\ outcome' = Outcome("completed", a.frame_sequence_id, NoFault)
      <4>1. CycleState' = "completed" /\ CycleReacquisitions' = attempt_index
        BY <2>5, <3>1 DEF Concludes, CycleState, CycleReacquisitions, Outcome
      <4> QED BY <2>2, <3>1, <4>1 DEF Cycle!Complete, Cycle!Move
    <3>2. CASE outcome' \in {Faulted(a.frame_sequence_id, Exhausted), Faulted(NoSequence, a.fault)}
      <4>1. CycleState' = "faulted" /\ CycleReacquisitions' = attempt_index
        BY <2>5, <3>2 DEF Concludes, CycleState, CycleReacquisitions, Faulted, Outcome
      <4> QED BY <2>2, <4>1 DEF Cycle!Fault, Cycle!Move
    <3> QED BY <2>5, <3>1, <3>2 DEF Concludes, Explains
  <2> QED BY <2>1, <2>3, <2>4, <2>5 DEF CloseAttempt
<1>4. CASE AcceptFrame
  <2>1. pc = "validating" /\ pc' = "calibrating" /\ UNCHANGED attempt_index
    BY <1>4 DEF AcceptFrame, Proceed, request
  <2>2. CycleState' = "reconstructing" /\ CycleReacquisitions' = attempt_index
    BY <2>1 DEF CycleState, CycleReacquisitions
  <2> QED BY <2>1, <2>2, CyclePhases DEF Cycle!Validated, Cycle!Move
<1>5. CASE \/ \E f \in Frames : AcquireReturns(f)
           \/ SnapshotCalibration
           \/ \E s \in Spans : Reconstruct(s)
           \/ UNCHANGED vars
  BY <1>5 DEF AcquireReturns, SnapshotCalibration, Reconstruct, Proceed, request,
              CycleState, CycleReacquisitions, vars, local
<1> QED BY <1>1, <1>2, <1>3, <1>4, <1>5 DEF Next, Step, Closing

(* Every behaviour of the runtime is a behaviour of the bounded operating  *)
(* cycle of docs/ARCHITECTURE.md, aborted only by the telemetry sink.      *)
THEOREM RuntimeImplementsCycle == Spec => ImplementsCycle
<1>1. Init => Cycle!Init
  BY CycleInit
<1>2. IInv /\ IInv' /\ [Next]_vars => [Cycle!Next]_(Cycle!cycle)
  BY CycleStep
<1> QED BY <1>1, <1>2, InvariantHolds, PTL DEF Spec, Cycle!Spec, ImplementsCycle

-----------------------------------------------------------------------------
(* What a run has left to do.                                              *)
Left == [place \in {"requesting", "acquiring", "validating", "calibrating",
                    "reconstructing", "deciding"} |->
           CASE place = "requesting" -> 6
             [] place = "acquiring" -> 5
             [] place = "validating" -> 4
             [] place = "calibrating" -> 3
             [] place = "reconstructing" -> 2
             [] place = "deciding" -> 1]

RemainingTold ==
    /\ attempt_index \in Nat /\ MaxReacquisitions \in Nat
    /\ attempt_index <= MaxReacquisitions
    /\ pc = "idle" => Remaining = 0
    /\ pc # "idle" =>
         /\ Remaining = 6 * (MaxReacquisitions - attempt_index) + Left[pc]
         /\ Left[pc] \in 1..6
         /\ pc = "requesting" <=> Left[pc] = 6

LEMMA RemainingIs == TypeOK => RemainingTold
<1> SUFFICES ASSUME TypeOK PROVE RemainingTold
  OBVIOUS
<1>1. /\ attempt_index \in Nat /\ MaxReacquisitions \in Nat
      /\ attempt_index <= MaxReacquisitions
  BY RuntimeAssumption DEF TypeOK
<1>2. pc = "idle" => Remaining = 0
  BY DEF Remaining
<1>3. ASSUME pc # "idle"
      PROVE  /\ Remaining = 6 * (MaxReacquisitions - attempt_index) + Left[pc]
             /\ Left[pc] \in 1..6
             /\ pc = "requesting" <=> Left[pc] = 6
  <2>1. pc \in {"requesting", "acquiring", "validating", "calibrating",
                "reconstructing", "deciding"}
    BY <1>3 DEF TypeOK, Steps
  <2>2. StepsToGo = Left[pc]
    BY <2>1 DEF StepsToGo, Left
  <2>3. Left[pc] \in 1..6 /\ (pc = "requesting" <=> Left[pc] = 6)
    BY <2>1 DEF Left
  <2> QED BY <1>3, <2>2, <2>3 DEF Remaining, AttemptSteps
<1> QED BY <1>1, <1>2, <1>3 DEF RemainingTold

(* A step leaves the run, goes on within the attempt, or begins another.   *)
LEMMA StepGoes ==
    ASSUME IInv, IInv', Step
    PROVE  /\ pc # "idle"
           /\ \/ pc' = "idle"
              \/ /\ pc' # "idle" /\ attempt_index' = attempt_index
                 /\ Left[pc'] < Left[pc]
              \/ /\ pc' = "requesting" /\ attempt_index' = attempt_index + 1
                 /\ pc # "requesting"
<1>1. CASE RequestAcquisition
  BY <1>1 DEF RequestAcquisition, Emit, Proceed, Return, request, Left
<1>2. CASE Closing
  <2>1. PICK a \in Attempts : CloseAttempt(a)
    BY <1>2, ClosingStep DEF IInv
  <2>2. pc \notin {"idle", "requesting"}
    BY <2>1 DEF CloseAttempt
  <2>3. Aborted \/ GoesAround(a) \/ Concludes(a)
    BY <2>1 DEF CloseAttempt
  <2> QED BY <2>2, <2>3 DEF Aborted, GoesAround, Concludes
<1>3. CASE \E f \in Frames : AcquireReturns(f)
  BY <1>3 DEF AcquireReturns, Proceed, request, Left
<1>4. CASE AcceptFrame
  BY <1>4 DEF AcceptFrame, Proceed, request, Left
<1>5. CASE SnapshotCalibration
  BY <1>5 DEF SnapshotCalibration, Proceed, request, Left
<1>6. CASE \E s \in Spans : Reconstruct(s)
  BY <1>6 DEF Reconstruct, Proceed, request, Left
<1> QED BY <1>1, <1>2, <1>3, <1>4, <1>5, <1>6 DEF Step, Closing

LEMMA StepSpends ==
    ASSUME IInv, IInv', Step
    PROVE  Remaining' \in Nat /\ Remaining' < Remaining
<1> DEFINE M == MaxReacquisitions
<1>1. /\ attempt_index \in Nat /\ M \in Nat /\ attempt_index <= M
      /\ pc # "idle"
      /\ Remaining = 6 * (M - attempt_index) + Left[pc]
      /\ Left[pc] \in 1..6
      /\ pc = "requesting" <=> Left[pc] = 6
  BY RemainingIs, StepGoes DEF IInv, TypeInv, RemainingTold
<1>2. /\ attempt_index' \in Nat /\ attempt_index' <= M
      /\ pc' = "idle" => Remaining' = 0
      /\ pc' # "idle" => /\ Remaining' = 6 * (M - attempt_index') + Left[pc']
                         /\ Left[pc'] \in 1..6
                         /\ pc' = "requesting" <=> Left[pc'] = 6
  <2>1. TypeOK'
    BY DEF IInv, TypeInv
  <2>2. RemainingTold'
    BY <2>1, RemainingIs, PTL
  <2> QED BY <2>2 DEF RemainingTold
<1> HIDE DEF M
<1>3. CASE pc' = "idle"
  BY <1>1, <1>2, <1>3
<1>4. CASE pc' # "idle" /\ attempt_index' = attempt_index /\ Left[pc'] < Left[pc]
  BY <1>1, <1>2, <1>4
<1>5. CASE pc' = "requesting" /\ attempt_index' = attempt_index + 1 /\ pc # "requesting"
  BY <1>1, <1>2, <1>5
<1> QED BY <1>3, <1>4, <1>5, StepGoes

(* A run has at most six steps for each attempt within its budget, for any *)
(* budget, frames, spans and failures: together with a scheduler that lets *)
(* it take them, it ends.                                                  *)
THEOREM RunsSpendTheirBudget == Spec => EveryStepSpends
<1>1. IInv /\ IInv' /\ [Next]_vars => [Step => Remaining' \in Nat /\ Remaining' < Remaining]_vars
  BY StepSpends
<1> QED BY <1>1, InvariantHolds, PTL DEF Spec, EveryStepSpends
=============================================================================
