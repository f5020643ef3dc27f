-------------------------- MODULE TelemetryJournal --------------------------
(***************************************************************************)
(* JsonlTelemetrySink.emit (runtime/telemetry.py) called by several        *)
(* threads of one process on one sink.  A call formats its event before it *)
(* takes the lock, then opens the file for appending, writes the line and  *)
(* closes the file.  A short line reaches the file in one system call as   *)
(* the handle is closed; a line longer than Python's buffer reaches it in  *)
(* two or more.  A system call may fail, and the process may die, between  *)
(* any two of them.                                                        *)
(*                                                                         *)
(* The file is a sequence of pieces: the head of a line, and its tail with *)
(* the newline.  An event is its emitter and its number.  Its wall_time_ns *)
(* is left out: the wall clock may stand still or be set back, so that the *)
(* stamps order nothing; what is followed is the order of the calls.       *)
(***************************************************************************)
EXTENDS Naturals, Sequences, FiniteSets

CONSTANTS
    Emitters,     \* threads that share the sink
    MaxEvents,    \* bound on the events of each emitter
    MaxFailures   \* bound on failed system calls and crashes together

Nobody == "nobody"

ASSUME JournalAssumption ==
    /\ IsFiniteSet(Emitters) /\ Nobody \notin Emitters
    /\ MaxEvents \in Nat /\ MaxFailures \in Nat

VARIABLES
    pc,        \* where each emitter is in emit
    number,    \* the number of its last event
    begun,     \* history: begun[e]: how many calls began before that of e
    calls,     \* history: how many calls of emit have begun, and one
    lock,      \* the emitter that holds self._lock
    file,      \* the pieces on the disk
    returned,  \* history: events whose emit returned
    failures   \* history: events whose emit raised or died

vars == <<pc, number, begun, calls, lock, file, returned, failures>>

Event == Emitters \X (1..MaxEvents)
Current(t) == <<t, number[t]>>
HeadOf(e) == [event |-> e, part |-> "head"]
TailOf(e) == [event |-> e, part |-> "tail"]

Init ==
    /\ pc = [t \in Emitters |-> "idle"]
    /\ number = [t \in Emitters |-> 0]
    /\ begun = [e \in Event |-> 0]
    /\ calls = 1
    /\ lock = Nobody
    /\ file = <<>>
    /\ returned = {}
    /\ failures = {}

Goto(t, step) == pc' = [pc EXCEPT ![t] = step]

(* emit begins: the record is made and formatted outside the lock.         *)
Begin(t) ==
    /\ pc[t] = "idle" /\ number[t] < MaxEvents
    /\ number' = [number EXCEPT ![t] = @ + 1]
    /\ begun' = [begun EXCEPT ![<<t, number[t] + 1>>] = calls]
    /\ calls' = calls + 1
    /\ Goto(t, "waiting")
    /\ UNCHANGED <<lock, file, returned, failures>>

(* A plausible slip: the file is opened without the lock.                  *)
OpenUnlocked(t) ==
    /\ pc[t] = "waiting"
    /\ lock' = t
    /\ Goto(t, "open")
    /\ UNCHANGED <<number, begun, calls, file, returned, failures>>

Open(t) ==
    /\ pc[t] = "waiting" /\ lock = Nobody
    /\ lock' = t
    /\ Goto(t, "open")
    /\ UNCHANGED <<number, begun, calls, file, returned, failures>>

Put(pieces) ==
    /\ file' = file \o pieces
    /\ UNCHANGED <<number, begun, calls, lock, returned, failures>>

(* A plausible slip: what a failed emit could not write is kept, and       *)
(* written before the next line.                                           *)
Unwritten(t) ==
    {n \in 1..number[t]-1 : \A i \in 1..Len(file) : file[i].event # <<t, n>>}
Backlog(t) ==
    IF Unwritten(t) = {} THEN <<>>
    ELSE LET n == CHOOSE n \in Unwritten(t) : \A m \in Unwritten(t) : n <= m
         IN <<HeadOf(<<t, n>>), TailOf(<<t, n>>)>>
WriteBacklog(t) ==
    /\ pc[t] = "open"
    /\ Put(Backlog(t) \o <<HeadOf(Current(t)), TailOf(Current(t))>>)
    /\ Goto(t, "written")

WriteLine(t) ==
    /\ pc[t] = "open"
    /\ Put(<<HeadOf(Current(t)), TailOf(Current(t))>>)
    /\ Goto(t, "written")

WriteHead(t) ==
    /\ pc[t] = "open"
    /\ Put(<<HeadOf(Current(t))>>)
    /\ Goto(t, "partial")

WriteTail(t) ==
    /\ pc[t] = "partial"
    /\ Put(<<TailOf(Current(t))>>)
    /\ Goto(t, "written")

(* The file is closed and the lock released.                               *)
Return(t) ==
    /\ pc[t] = "written"
    /\ lock' = Nobody
    /\ returned' = returned \cup {Current(t)}
    /\ Goto(t, "idle")
    /\ UNCHANGED <<number, begun, calls, file, failures>>

(* A plausible slip: a failed emit is tried again by the sink.             *)
RetryFailed(t) ==
    /\ pc[t] \in {"open", "partial", "written"}
    /\ Cardinality(failures) < MaxFailures
    /\ failures' = failures \cup {Current(t)}
    /\ lock' = Nobody
    /\ Goto(t, "waiting")
    /\ UNCHANGED <<number, begun, calls, file, returned>>

(* Opening, writing or closing raises; both with statements are left.      *)
Fail(t) ==
    /\ pc[t] \in {"open", "partial", "written"}
    /\ Cardinality(failures) < MaxFailures
    /\ failures' = failures \cup {Current(t)}
    /\ lock' = Nobody
    /\ Goto(t, "idle")
    /\ UNCHANGED <<number, begun, calls, file, returned>>

(* The process dies with all its emitters; a new one starts them again.    *)
Crash ==
    LET died == {Current(t) : t \in {u \in Emitters : pc[u] # "idle"}} IN
    /\ died # {}
    /\ Cardinality(failures) < MaxFailures
    /\ failures' = failures \cup died
    /\ lock' = Nobody
    /\ pc' = [t \in Emitters |-> "idle"]
    /\ UNCHANGED <<number, begun, calls, file, returned>>

Next ==
    \/ \E t \in Emitters :
           \/ Begin(t)
           \/ Open(t)
           \/ WriteLine(t)
           \/ WriteHead(t)
           \/ WriteTail(t)
           \/ Return(t)
           \/ Fail(t)
    \/ Crash

Spec == Init /\ [][Next]_vars
-----------------------------------------------------------------------------
Pieces(e) == {i \in 1..Len(file) : file[i].event = e}

(* Where the line of an event starts, if head and tail stand together.     *)
Starts(e) == {i \in 1..Len(file) - 1 : file[i] = HeadOf(e) /\ file[i + 1] = TailOf(e)}

OwnLine(e) == \E i \in Starts(e) : i = 1 \/ file[i - 1].part = "tail"

(* An emit that returned has its record whole in the file, and the only    *)
(* thing that can spoil its line is the unfinished record, just before it, *)
(* of an emit that raised or died: one failure costs at most one event     *)
(* beside its own, whatever the threads and the length of their lines.     *)
DamageIsLocal ==
    \A e \in returned :
        \/ OwnLine(e)
        \/ \E i \in Starts(e) : i > 1 /\ file[i - 1].event \in failures

(* No event is recorded twice, not even one whose emit raised after its    *)
(* record had reached the file.                                            *)
RecordedOnce == \A e \in Event : Cardinality(Pieces(e)) <= 2

(* The lock is taken after the call has begun, so lines may be out of the  *)
(* order of their calls; but whatever the threads do and whichever calls   *)
(* fail, no line is followed by a call of its own thread that began before *)
(* it, nor by more than one such call of any other: the file itself, and no*)
(* clock, tells the order of two events up to one event per thread.        *)
LinesFollowCalls ==
    \A i \in 1..Len(file) : \A t \in Emitters :
        Cardinality({e \in {t} \X (1..MaxEvents) :
            /\ begun[e] < begun[file[i].event]
            /\ \E j \in Pieces(e) : j > i}) <= IF t = file[i].event[1] THEN 0 ELSE 1

(* docs/OPERATIONS.md: the JSONL sink records one event per line.  Every   *)
(* event whose emit returned would have a line of its own.                 *)
OneEventPerLine == \A e \in returned : OwnLine(e)
=============================================================================
