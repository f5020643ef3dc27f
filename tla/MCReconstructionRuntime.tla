---------------------- MODULE MCReconstructionRuntime ----------------------
(***************************************************************************)
(* Small instances of ReconstructionRuntime for TLC.  Sequence ids repeat, *)
(* regress and jump within 0..3; frames are sound, or have a hard or a     *)
(* recoverable defect; spans are within the budget, need a moderate        *)
(* compression, or run into the controller's minimal factor.               *)
(***************************************************************************)
EXTENDS ReconstructionRuntime

MCSequenceIds == 0..3
MCFrameDefects == {NoDefect, "plan_mismatch", "receiver_count", "timing_jitter"}
MCSpans == {0, 6, 40}

(* The fewest kinds of frames that still retry, fault, accept, compress.   *)
MCFewDefects == {NoDefect, "receiver_count", "timing_jitter"}
MCFewSpans == {0, 6}
=============================================================================
