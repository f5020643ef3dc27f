-------------------------- MODULE RuntimeContracts --------------------------
(***************************************************************************)
(* The vocabulary of the runtime boundary (runtime/contracts.py): fault    *)
(* codes, faults, and the verdict of frame validation on a frame that is   *)
(* abstracted to its sequence id and the first defect that validation      *)
(* would report whatever the sequence id is.                               *)
(***************************************************************************)
EXTENDS Integers

(* Sequence ids are naturals; Python's None, before any frame, is -1.      *)
NoSequence == -1

(* Validation faults the runtime may retry, and those it may not.          *)
QualityCodes == {"too_many_erasures", "erasure_burst", "timing_jitter"}
ContractCodes == {"plan_mismatch", "slot_count_mismatch", "nonfinite_input",
                  "invalid_timing", "receiver_count"}
FaultCode == QualityCodes \cup ContractCodes \cup
             {"sequence_regression", "calibration", "acquisition",
              "reconstruction", "reacquire_exhausted"}

NoDefect == "none"
Defect == QualityCodes \cup ContractCodes \cup {NoDefect}

RuntimeFault(code, recoverable) == [code |-> code, recoverable |-> recoverable]
NoFault == RuntimeFault("none", FALSE)

(* A plausible slip: a repeated sequence id passes.                        *)
RegressesStrictly(sequence_id, previous_sequence_id) ==
    previous_sequence_id # NoSequence /\ sequence_id < previous_sequence_id

Regresses(sequence_id, previous_sequence_id) ==
    previous_sequence_id # NoSequence /\ sequence_id <= previous_sequence_id

(* validate_frame tests the plan first, the sequence id second, and the    *)
(* rest of the frame after that; only quality faults are recoverable.      *)
Verdict(sequence_id, defect, previous_sequence_id) ==
    IF defect # "plan_mismatch" /\ Regresses(sequence_id, previous_sequence_id)
    THEN RuntimeFault("sequence_regression", FALSE)
    ELSE RuntimeFault(defect, defect \in QualityCodes)
=============================================================================
