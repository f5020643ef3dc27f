--------------------------- MODULE SerialRuntime ---------------------------
(***************************************************************************)
(* What a guard buys (PORTING.md:24): each runtime serves one run_once     *)
(* after another, and takes a frame or refuses it in a single step, with   *)
(* the frames it took before.  Nothing is said of who calls, of the clock, *)
(* of calibrations, nor of a deployment without a guard.                   *)
(***************************************************************************)
EXTENDS Naturals, Sequences

CONSTANTS
    Runtimes,
    Callers,           \* who may call run_once
    Ids,               \* sequence ids of frames
    MaxReacquisitions

VARIABLES
    guarded,   \* whether the deployment guards its runtimes
    phase,     \* phase[r]: "idle", "seeking" a frame, or "holding" one
    retries,   \* retries[r]: reacquisitions of the run under way
    taken,     \* taken[r]: the frames taken, in order
    refused    \* frames refused for their sequence id, with their callers

serial == <<guarded, phase, retries, taken, refused>>

Init ==
    /\ guarded \in BOOLEAN
    /\ phase = [r \in Runtimes |-> "idle"]
    /\ retries = [r \in Runtimes |-> 0]
    /\ taken = [r \in Runtimes |-> <<>>]
    /\ refused = {}

Newer(id, frames) == frames = <<>> \/ id > frames[Len(frames)]

Move(r, from, to) == phase[r] = from /\ phase' = [phase EXCEPT ![r] = to]
Stop(r, from) == Move(r, from, "idle") /\ retries' = [retries EXCEPT ![r] = 0]

Begin(r) == Move(r, "idle", "seeking") /\ UNCHANGED <<retries, taken, refused>>

Take(r, id) ==
    /\ Newer(id, taken[r])
    /\ Move(r, "seeking", "holding")
    /\ taken' = [taken EXCEPT ![r] = Append(@, id)]
    /\ UNCHANGED <<retries, refused>>

Refuse(r, caller, id) ==
    /\ ~Newer(id, taken[r])
    /\ Stop(r, "seeking")
    /\ refused' = refused \cup {<<caller, id>>}
    /\ UNCHANGED taken

(* A decision for another attempt, within the run's budget.                *)
Again(r) ==
    /\ retries[r] < MaxReacquisitions
    /\ Move(r, "holding", "seeking")
    /\ retries' = [retries EXCEPT ![r] = @ + 1]
    /\ UNCHANGED <<taken, refused>>

End(r) ==
    /\ Stop(r, "seeking") \/ Stop(r, "holding")
    /\ UNCHANGED <<taken, refused>>

Turn(r) ==
    \/ Begin(r)
    \/ \E id \in Ids : Take(r, id)
    \/ \E caller \in Callers, id \in Ids : Refuse(r, caller, id)
    \/ Again(r)
    \/ End(r)

Next == (guarded => \E r \in Runtimes : Turn(r)) /\ UNCHANGED guarded

Spec == Init /\ [][Next]_serial
=============================================================================
