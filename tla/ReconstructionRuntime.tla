----------------------- MODULE ReconstructionRuntime -----------------------
(***************************************************************************)
(* ReconstructionRuntime.run_once (runtime/service.py), one action per     *)
(* step between two calls that leave the runtime: the telemetry sink, the  *)
(* acquisition backend, the calibration provider and the engine.  All four *)
(* belong to the deployment: any of them may raise, and the backend may    *)
(* return any frame.                                                       *)
(*                                                                         *)
(* A frame is its sequence id and the defect validation would find; a      *)
(* reconstruction is the phase span the controller measures in it, and is  *)
(* named by the sequence id of its frame.                                  *)
(***************************************************************************)
EXTENDS RuntimeContracts, AdaptiveController, Sequences

CONSTANTS
    MaxReacquisitions,  \* limits.max_reacquisitions
    SequenceIds,        \* sequence ids the backend may put on a frame
    FrameDefects,       \* defects its frames may have
    Spans,              \* phase spans a reconstruction may measure
    TelemetryMayFail    \* whether the sink may raise

ASSUME RuntimeAssumption ==
    /\ MaxReacquisitions \in Nat
    /\ SequenceIds \subseteq Nat
    /\ FrameDefects \subseteq Defect
    /\ Spans \subseteq Nat
    /\ TelemetryMayFail \in BOOLEAN

VARIABLES
    last_sequence_id,  \* self._last_sequence_id: survives from run to run
    pc,                \* where run_once is; "idle" when no run is under way
    attempt_index,     \* the loop variable
    aperture_scale,    \* request.aperture_scale
    frame,             \* the frame of this attempt
    span,              \* the span measured in it
    attempts,          \* the attempts appended so far
    outcome,           \* what the last run returned
    journal,           \* the telemetry events of this run, in order
    consumed           \* history: every sequence id that passed validation

request == <<attempt_index, aperture_scale>>
local == <<pc, attempt_index, aperture_scale, frame, span, attempts, outcome>>
vars == <<local, last_sequence_id, journal, consumed>>

Frames == [sequence_id : SequenceIds, defect : FrameDefects]

NoDecision == [action |-> "none", factor |-> One, span |-> 0]

(* RuntimeAttempt.  An attempt has a result exactly if it has a decision.  *)
Attempt(decision, sequence_id, fault) ==
    [aperture_scale |-> aperture_scale, decision |-> decision,
     frame_sequence_id |-> sequence_id, fault |-> fault]

(* RuntimeOutcome; Pending before a run ends, Raised if an exception of    *)
(* the sink left run_once without one.                                     *)
Outcome(state, result, fault) ==
    [state |-> state, result |-> result, fault |-> fault]
Pending == Outcome("pending", NoSequence, NoFault)
Raised == Outcome("raised", NoSequence, NoFault)
Faulted(result, fault) == Outcome("faulted", result, fault)

Requested(i, scale) ==
    [event |-> "acquisition_requested", attempt |-> i, aperture_scale |-> scale]
Rejected(code) == [event |-> "frame_rejected", code |-> code]
Failed(code) == [event |-> "runtime_fault", code |-> code]
Completed(i, sequence_id, action) ==
    [event |-> "reconstruction_completed", attempt |-> i,
     sequence_id |-> sequence_id, decision |-> action]
-----------------------------------------------------------------------------
(* Ways to leave a step: to the next one, by returning, or by going around *)
(* the loop with a new request.  A plausible slip: the retry is not counted*)
(* as a reacquisition.                                                     *)
Proceed(step) == pc' = step /\ UNCHANGED <<request, outcome>>
Return(result) == pc' = "idle" /\ outcome' = result /\ UNCHANGED request
ReacquireUncounted(scale) ==
    /\ pc' = "requesting"
    /\ aperture_scale' = scale
    /\ UNCHANGED <<attempt_index, outcome>>
Reacquire(scale) ==
    /\ pc' = "requesting"
    /\ attempt_index' = attempt_index + 1
    /\ aperture_scale' = scale
    /\ UNCHANGED outcome

(* _emit: the sink records the event, or its exception leaves run_once.    *)
Emit(event, Then) ==
    \/ journal' = Append(journal, event) /\ Then
    \/ TelemetryMayFail /\ UNCHANGED journal /\ Return(Raised)

Record(decision, sequence_id, fault) ==
    attempts' = Append(attempts, Attempt(decision, sequence_id, fault))

Init ==
    /\ last_sequence_id = NoSequence
    /\ pc = "idle"
    /\ attempt_index = 0
    /\ aperture_scale = One
    /\ frame = [sequence_id |-> NoSequence, defect |-> NoDefect]
    /\ span = 0
    /\ attempts = <<>>
    /\ outcome = Pending
    /\ journal = <<>>
    /\ consumed = <<>>

(* A caller enters run_once.                                               *)
RunOnce ==
    /\ pc = "idle"
    /\ pc' = "requesting"
    /\ attempt_index' = 0
    /\ aperture_scale' = One
    /\ attempts' = <<>>
    /\ outcome' = Pending
    /\ journal' = <<>>
    /\ UNCHANGED <<last_sequence_id, frame, span, consumed>>

RequestAcquisition ==
    /\ pc = "requesting"
    /\ Emit(Requested(attempt_index, aperture_scale), Proceed("acquiring"))
    /\ UNCHANGED <<last_sequence_id, frame, span, attempts, consumed>>

(* backend.acquire raises: recoverable by its flag, but never retried.     *)
AcquisitionFails ==
    LET fault == RuntimeFault("acquisition", TRUE) IN
    /\ pc = "acquiring"
    /\ Record(NoDecision, NoSequence, fault)
    /\ Emit(Failed("acquisition"), Return(Faulted(NoSequence, fault)))
    /\ UNCHANGED <<last_sequence_id, frame, span, consumed>>

AcquireReturns(f) ==
    /\ pc = "acquiring"
    /\ frame' = f
    /\ Proceed("validating")
    /\ UNCHANGED <<last_sequence_id, span, attempts, journal, consumed>>

FrameVerdict == Verdict(frame.sequence_id, frame.defect, last_sequence_id)

(* A plausible slip: a rejection is recorded but not emitted.              *)
RejectFrameSilently(Then) ==
    /\ pc = "validating"
    /\ FrameVerdict.code # NoDefect
    /\ Record(NoDecision, frame.sequence_id, FrameVerdict)
    /\ Then
    /\ UNCHANGED <<last_sequence_id, frame, span, journal, consumed>>

(* A rejected frame is dropped: its sequence id is not remembered.         *)
RejectFrame(Then) ==
    /\ pc = "validating"
    /\ FrameVerdict.code # NoDefect
    /\ Record(NoDecision, frame.sequence_id, FrameVerdict)
    /\ Emit(Rejected(FrameVerdict.code), Then)
    /\ UNCHANGED <<last_sequence_id, frame, span, consumed>>

(* Plausible slips: no budget, or a budget of one attempt less.            *)
MayRetryForever(fault) == fault.recoverable
MayRetryOnceLess(fault) == fault.recoverable /\ attempt_index + 1 < MaxReacquisitions

MayRetry(fault) == fault.recoverable /\ attempt_index < MaxReacquisitions

(* A plausible slip: the retry starts over from a default request.         *)
RetryFullAperture == MayRetry(FrameVerdict) /\ RejectFrame(Reacquire(One))

RetryRejected == MayRetry(FrameVerdict) /\ RejectFrame(Reacquire(aperture_scale))

FaultRejected ==
    ~MayRetry(FrameVerdict) /\ RejectFrame(Return(Faulted(NoSequence, FrameVerdict)))

(* A plausible slip: the frame is used but its sequence id not remembered. *)
AcceptFrameForgotten ==
    /\ pc = "validating"
    /\ FrameVerdict.code = NoDefect
    /\ consumed' = Append(consumed, frame.sequence_id)
    /\ Proceed("calibrating")
    /\ UNCHANGED <<last_sequence_id, frame, span, attempts, journal>>

AcceptFrame ==
    /\ pc = "validating"
    /\ FrameVerdict.code = NoDefect
    /\ last_sequence_id' = frame.sequence_id
    /\ consumed' = Append(consumed, frame.sequence_id)
    /\ Proceed("calibrating")
    /\ UNCHANGED <<frame, span, attempts, journal>>

(* The calibration provider or the engine raises on a validated frame.     *)
ProcessingFails(step, code) ==
    LET fault == RuntimeFault(code, FALSE) IN
    /\ pc = step
    /\ Record(NoDecision, frame.sequence_id, fault)
    /\ Emit(Failed(code), Return(Faulted(NoSequence, fault)))
    /\ UNCHANGED <<last_sequence_id, frame, span, consumed>>

CalibrationFails == ProcessingFails("calibrating", "calibration")
ReconstructionFails == ProcessingFails("reconstructing", "reconstruction")

SnapshotCalibration ==
    /\ pc = "calibrating"
    /\ Proceed("reconstructing")
    /\ UNCHANGED <<last_sequence_id, frame, span, attempts, journal, consumed>>

(* process_capture returns a result in which the controller measures s.    *)
Reconstruct(s) ==
    /\ pc = "reconstructing"
    /\ span' = s
    /\ Proceed("deciding")
    /\ UNCHANGED <<last_sequence_id, frame, attempts, journal, consumed>>

(* The decision is recorded and emitted before it is acted on.             *)
Decide(action, Then) ==
    /\ pc = "deciding"
    /\ decide(span).action = action
    /\ Record(decide(span), frame.sequence_id, NoFault)
    /\ Emit(Completed(attempt_index, frame.sequence_id, action), Then)
    /\ UNCHANGED <<last_sequence_id, frame, span, consumed>>

AcceptResult ==
    Decide("accept", Return(Outcome("completed", frame.sequence_id, NoFault)))

Exhausted == RuntimeFault("reacquire_exhausted", FALSE)

(* A plausible slip: the last attempt is taken for one that may go on.     *)
ExhaustTooLate ==
    /\ attempt_index > MaxReacquisitions
    /\ Decide("compress", Return(Faulted(frame.sequence_id, Exhausted)))

ExhaustBudget ==
    /\ attempt_index >= MaxReacquisitions
    /\ Decide("compress", Return(Faulted(frame.sequence_id, Exhausted)))

CompressAperture ==
    /\ attempt_index < MaxReacquisitions
    /\ Decide("compress", Reacquire(Times(aperture_scale, decide(span).factor)))

Step ==
    \/ RequestAcquisition
    \/ AcquisitionFails
    \/ \E f \in Frames : AcquireReturns(f)
    \/ RetryRejected
    \/ FaultRejected
    \/ AcceptFrame
    \/ CalibrationFails
    \/ SnapshotCalibration
    \/ ReconstructionFails
    \/ \E s \in Spans : Reconstruct(s)
    \/ AcceptResult
    \/ ExhaustBudget
    \/ CompressAperture

Next == RunOnce \/ Step

(* run_once is one synchronous call: once entered it keeps taking steps,   *)
(* provided the four external calls return.  Nothing obliges the caller.   *)
Spec == Init /\ [][Next]_vars
FairSpec == Spec /\ WF_vars(Step)
-----------------------------------------------------------------------------
Steps == {"idle", "requesting", "acquiring", "validating", "calibrating",
          "reconstructing", "deciding"}
Actions == {"none", "accept", "compress"}
Id == Nat \cup {NoSequence}
Decisions == [action : Actions, factor : Fraction, span : Nat]
Faults == [code : FaultCode \cup {NoDefect}, recoverable : BOOLEAN]
Attempts == [aperture_scale : Fraction, decision : Decisions,
             frame_sequence_id : Id, fault : Faults]
Outcomes == [state : {"pending", "raised", "completed", "faulted"},
             result : Id, fault : Faults]
Events ==
    [event : {"acquisition_requested"}, attempt : Nat, aperture_scale : Fraction]
    \cup [event : {"frame_rejected", "runtime_fault"}, code : FaultCode]
    \cup [event : {"reconstruction_completed"}, attempt : Nat,
          sequence_id : Nat, decision : Actions]

(* Every variable keeps its type; in particular the loop variable stays    *)
(* within range(max_reacquisitions + 1), so the loop never falls through   *)
(* to the "unreachable runtime loop exit" of service.py.                   *)
TypeOK ==
    /\ last_sequence_id \in Id
    /\ pc \in Steps
    /\ attempt_index \in 0..MaxReacquisitions
    /\ aperture_scale \in Fraction
    /\ frame \in [sequence_id : Id, defect : Defect]
    /\ span \in Nat
    /\ attempts \in Seq(Attempts)
    /\ outcome \in Outcomes
    /\ journal \in Seq(Events)
    /\ consumed \in Seq(Nat)

(* Over the whole life of the runtime, whatever faulted or raised in       *)
(* between, no frame reaches calibration and the engine twice or out of    *)
(* order: the ids that passed validation strictly increase, and the id the *)
(* next frame is compared with is the last of them.                        *)
ConsumedIncreasing ==
    /\ \A i, j \in 1..Len(consumed) : i < j => consumed[i] < consumed[j]
    /\ last_sequence_id = IF consumed = <<>> THEN NoSequence
                           ELSE consumed[Len(consumed)]

WasRejected(a) == a.fault.code \in QualityCodes \cup ContractCodes
                                   \cup {"sequence_regression"}
WasConsumed(a) == a.frame_sequence_id # NoSequence /\ ~WasRejected(a)

(* The attempts of a run account for its frames: two attempts never share  *)
(* a frame that passed validation, every such frame was remembered, and a  *)
(* frame rejected for its sequence id is indeed not newer than a frame     *)
(* already taken.                                                          *)
FramesAccounted ==
    \A i \in 1..Len(attempts) :
        /\ WasConsumed(attempts[i]) =>
               /\ \E k \in 1..Len(consumed) :
                      consumed[k] = attempts[i].frame_sequence_id
               /\ \A j \in 1..i-1 : WasConsumed(attempts[j]) =>
                      attempts[j].frame_sequence_id < attempts[i].frame_sequence_id
        /\ attempts[i].fault.code = "sequence_regression" =>
               attempts[i].frame_sequence_id <= last_sequence_id

Compresses(a) == a.decision.action = "compress"
Continues(a) == Compresses(a) \/ (WasRejected(a) /\ a.fault.recoverable)
NextScale(a) == IF Compresses(a) THEN Times(a.aperture_scale, a.decision.factor)
                ELSE a.aperture_scale

(* The ledger of attempts is one chain within the shared budget: each      *)
(* attempt but the last was a recoverable rejection or a compression, and  *)
(* the aperture asked for next is the one it justifies.  A retry after a   *)
(* bad frame never widens an aperture that a decision had compressed.      *)
LedgerChains ==
    /\ Len(attempts) <= MaxReacquisitions + 1
    /\ pc # "idle" => Len(attempts) = attempt_index
    /\ attempts # <<>> => attempts[1].aperture_scale = One
    /\ \A i \in 1..Len(attempts) - 1 :
           /\ Continues(attempts[i])
           /\ attempts[i+1].aperture_scale = NextScale(attempts[i])
    /\ pc # "idle" =>
           IF attempts = <<>> THEN aperture_scale = One
           ELSE /\ Continues(attempts[Len(attempts)])
                /\ aperture_scale = NextScale(attempts[Len(attempts)])

(* What run_once returns is what its last attempt says.  A result comes    *)
(* with the newest consumed frame; a fault that only exhausted retries may *)
(* report comes after max_reacquisitions + 1 attempts; a run that faulted  *)
(* for another reason carries that attempt's fault and no result.          *)
OutcomeExplained ==
    LET last == attempts[Len(attempts)]
        spent == Len(attempts) = MaxReacquisitions + 1
    IN  /\ outcome.state \in {"completed", "faulted"} => attempts # <<>>
        /\ outcome.state = "completed" =>
               /\ last.decision.action = "accept"
               /\ outcome.result = last.frame_sequence_id
               /\ outcome.result = last_sequence_id
               /\ outcome.fault = NoFault
        /\ outcome.state = "faulted" =>
               IF Compresses(last)
               THEN /\ outcome.fault = Exhausted /\ spent
                    /\ outcome.result = last.frame_sequence_id
                    /\ outcome.result = last_sequence_id
               ELSE /\ outcome.fault = last.fault
                    /\ outcome.fault.code # NoDefect
                    /\ outcome.result = NoSequence
                    /\ outcome.fault.code \in QualityCodes => spent

ClosingEvent(a, i) ==
    IF a.decision.action # "none"
    THEN Completed(i - 1, a.frame_sequence_id, a.decision.action)
    ELSE IF WasRejected(a) THEN Rejected(a.fault.code) ELSE Failed(a.fault.code)

(* The telemetry of a run retells its attempts: a request and one closing  *)
(* event for each, in order.  It may stop short only by the event whose    *)
(* sink raised, and never in a run that returned an outcome.               *)
JournalTellsAttempts ==
    /\ \A i \in 1..Len(attempts) :
           /\ 2 * i - 1 <= Len(journal)
           /\ journal[2 * i - 1] = Requested(i - 1, attempts[i].aperture_scale)
           /\ 2 * i <= Len(journal) => journal[2 * i] = ClosingEvent(attempts[i], i)
    /\ Len(journal) <= 2 * Len(attempts) + 1
    /\ outcome.state \in {"completed", "faulted"} =>
           Len(journal) = 2 * Len(attempts)

(* docs/OPERATIONS.md lists reacquire_exhausted among the structured codes *)
(* the runtime emits: the fault of a faulted run is in its telemetry.      *)
FaultIsEmitted ==
    outcome.state = "faulted" =>
        \E k \in 1..Len(journal) :
            journal[k] \in {Rejected(outcome.fault.code), Failed(outcome.fault.code)}

(* Every call of run_once ends, with an outcome or with an exception of    *)
(* the sink: frames that keep failing or spans that stay too wide cannot   *)
(* keep it reacquiring.                                                    *)
EveryRunEnds == pc # "idle" ~> pc = "idle"

(* Why it ends: a run has at most six steps for each attempt its budget    *)
(* leaves, and every step, of whatever kind and outcome, uses up some.     *)
AttemptSteps == 6
StepsToGo ==
    CASE pc = "requesting" -> 6
      [] pc = "acquiring" -> 5
      [] pc = "validating" -> 4
      [] pc = "calibrating" -> 3
      [] pc = "reconstructing" -> 2
      [] pc = "deciding" -> 1
Remaining ==
    IF pc = "idle" THEN 0
    ELSE AttemptSteps * (MaxReacquisitions - attempt_index) + StepsToGo
EveryStepSpends == [][Step => Remaining' \in Nat /\ Remaining' < Remaining]_vars
-----------------------------------------------------------------------------
(* The runtime implements the documented cycle: it is acquiring until a    *)
(* frame passes validation, and reacquire_pending from the decision to go  *)
(* around to the emission of the next request.                             *)
CycleState ==
    CASE pc = "idle" -> IF outcome.state \in {"completed", "faulted"}
                        THEN outcome.state ELSE "idle"
      [] pc = "requesting" -> IF attempt_index = 0
                              THEN "acquiring" ELSE "reacquire_pending"
      [] pc \in {"acquiring", "validating"} -> "acquiring"
      [] OTHER -> "reconstructing"

CycleReacquisitions ==
    CASE CycleState = "idle" -> 0
      [] CycleState = "reacquire_pending" -> attempt_index - 1
      [] OTHER -> attempt_index

Cycle == INSTANCE ReconstructionCycle WITH
    state <- CycleState, reacquisitions <- CycleReacquisitions,
    MayAbort <- TelemetryMayFail

(* Every behaviour of run_once is one of the bounded cycle of              *)
(* docs/ARCHITECTURE.md, aborted only by the telemetry sink.               *)
ImplementsCycle == Cycle!Spec
=============================================================================
