------------------------ MODULE ReconstructionCycle ------------------------
(***************************************************************************)
(* What the runtime promises: the bounded operating cycle of               *)
(* docs/ARCHITECTURE.md over the states of RuntimeState                    *)
(* (runtime/contracts.py).  Nothing is said about why a cycle faults or    *)
(* reacquires, only when it may.                                           *)
(***************************************************************************)
EXTENDS Naturals

CONSTANTS
    MaxReacquisitions,
    MayAbort  \* whether an exception may end the cycle without an outcome

VARIABLES state, reacquisitions

cycle == <<state, reacquisitions>>

RuntimeState == {"idle", "acquiring", "reconstructing", "reacquire_pending",
                 "completed", "faulted"}

Init == state = "idle" /\ reacquisitions = 0

Begin ==
    /\ state \in {"idle", "completed", "faulted"}
    /\ state' = "acquiring"
    /\ reacquisitions' = 0

Move(from, to) == state = from /\ state' = to /\ UNCHANGED reacquisitions

Validated == Move("acquiring", "reconstructing")
Complete == Move("reconstructing", "completed")
Fault == \E s \in {"acquiring", "reconstructing"} : Move(s, "faulted")

(* A retry of a rejected frame and a compressed aperture share one budget. *)
Postpone ==
    /\ reacquisitions < MaxReacquisitions
    /\ \E s \in {"acquiring", "reconstructing"} : Move(s, "reacquire_pending")

Reacquire ==
    /\ state = "reacquire_pending"
    /\ state' = "acquiring"
    /\ reacquisitions' = reacquisitions + 1

Abort ==
    /\ MayAbort
    /\ state \in {"acquiring", "reconstructing", "reacquire_pending"}
    /\ state' = "idle"
    /\ reacquisitions' = 0

Next ==
    \/ Begin
    \/ Validated
    \/ Complete
    \/ Fault
    \/ Postpone
    \/ Reacquire
    \/ Abort

Spec == Init /\ [][Next]_cycle
=============================================================================
