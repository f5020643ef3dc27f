--------------------------- MODULE SharedRuntime ---------------------------
(***************************************************************************)
(* run_once (runtime/service.py) called by several threads, over a         *)
(* calibration file that is replaced while they run                        *)
(* (calibration/store.py and model.py).                                    *)
(*                                                                         *)
(* PORTING.md:24 leaves it to the deployment to guard a runtime by an      *)
(* external stream key (an instance for each stream), or by an external    *)
(* lock.  Both are modelled, and their absence.  Sequence ids grow within  *)
(* a stream and say nothing across streams.  Frames are sound but for      *)
(* their sequence id; the other tests are in FrameValidation.              *)
(***************************************************************************)
EXTENDS Integers, Sequences

CONSTANTS
    Threads,          \* callers of run_once
    Streams,          \* acquisition streams
    Guards,           \* the guards of the deployments: sets of "lock", "key"
    Calibrations,     \* [issued, valid_until, usable]: files to install
    MaxFrames,        \* bound: frames a stream delivers
    MaxReacquisitions,
    MaxReplacements   \* bound: replacements of the calibration file

ASSUME SharedAssumption ==
    /\ \A c \in Calibrations :
          c.issued \in Int /\ c.valid_until \in Int /\ c.usable \in BOOLEAN
    /\ MaxFrames \in Nat /\ MaxReacquisitions \in Nat /\ MaxReplacements \in Nat

VARIABLES
    guard,          \* how this deployment guards its runtimes
    stream,         \* stream[t]: what the backend of t's runtime acquires from
    last,           \* last[r]: _last_sequence_id of runtime r, 0 for None
    held,           \* held[r]: the threads inside the external lock of r
    pc,             \* pc[t]: where t is in run_once
    attempt,        \* attempt[t]: attempt_index
    frame,          \* frame[t]: the frame acquired last
    applied,        \* applied[t]: the snapshot, a copy of the file's content
    age,            \* history: age[t]: replacements begun when it was read
    delivered,      \* delivered[s]: frames the stream has delivered
    now,            \* monotonic clock: a tick for each frame
    file,           \* content of the calibration file; Torn while rewritten
    replacements,   \* replacements begun
    consumed,       \* consumed[r]: frames consumed by runtime r, in order
    refused,        \* frames refused for their sequence id, with what was known
    attempts        \* RuntimeAttempts that have a calibration

vars == <<guard, stream, last, held, pc, attempt, frame, applied, age, delivered,
          now, file, replacements, consumed, refused, attempts>>

None == 0
Torn == [issued |-> 0, valid_until |-> 0, usable |-> FALSE]
Runtimes == Streams \cup {"shared"}
-----------------------------------------------------------------------------
(* The instance a thread calls.  A plausible slip: the sequence id is      *)
(* kept by the class, and so shared by all instances.                      *)
ClassAttribute(t) == "shared"
RuntimeOf(t) == IF "key" \in guard THEN stream[t] ELSE "shared"

(* validate_frame's test.  A plausible slip: only smaller ids regress.     *)
OnlySmaller(previous, id) == previous # None /\ id < previous
Regresses(previous, id) == previous # None /\ id <= previous

(* The store's and CalibrationSnapshot.validate's tests, for the end of    *)
(* the capture: taps and gains are usable, as many gains as receivers, and *)
(* the interval covers the end.  A plausible slip: only expiry is tested.  *)
NotExpired(c, end) == c.usable /\ end <= c.valid_until
Covers(c, end) == c.usable /\ c.issued <= end /\ end <= c.valid_until

Init ==
    /\ guard \in Guards
    /\ stream \in [Threads -> Streams]
    /\ last = [r \in Runtimes |-> None]
    /\ held = [r \in Runtimes |-> {}]
    /\ pc = [t \in Threads |-> "idle"]
    /\ attempt = [t \in Threads |-> 0]
    /\ frame = [t \in Threads |-> [id |-> None, end |-> 0]]
    /\ applied = [t \in Threads |-> Torn]
    /\ age = [t \in Threads |-> 0]
    /\ delivered = [s \in Streams |-> 0]
    /\ now = 0
    /\ file \in Calibrations
    /\ replacements = 0
    /\ consumed = [r \in Runtimes |-> <<>>]
    /\ refused = {}
    /\ attempts = {}

Goto(t, place) == pc' = [pc EXCEPT ![t] = place]
Leave(t) ==
    /\ Goto(t, "idle")
    /\ held' = [held EXCEPT ![RuntimeOf(t)] = @ \ {t}]

Enter(t) ==
    /\ pc[t] = "idle"
    /\ delivered[stream[t]] < MaxFrames
    /\ "lock" \in guard => held[RuntimeOf(t)] = {}
    /\ held' = [held EXCEPT ![RuntimeOf(t)] = @ \cup {t}]
    /\ attempt' = [attempt EXCEPT ![t] = 0]
    /\ Goto(t, "acquiring")
    /\ UNCHANGED <<guard, stream, last, frame, applied, age, delivered, now, file,
                   replacements, consumed, refused, attempts>>

(* backend.acquire returns the next frame of the stream, or raises when    *)
(* there is none.                                                          *)
Acquire(t) ==
    /\ pc[t] = "acquiring"
    /\ delivered[stream[t]] < MaxFrames
    /\ delivered' = [delivered EXCEPT ![stream[t]] = @ + 1]
    /\ now' = now + 1
    /\ frame' = [frame EXCEPT ![t] = [id |-> delivered[stream[t]] + 1, end |-> now + 1]]
    /\ Goto(t, "validating")
    /\ UNCHANGED <<guard, stream, last, held, attempt, applied, age, file, replacements,
                   consumed, refused, attempts>>
AcquireRaises(t) ==
    /\ pc[t] = "acquiring"
    /\ delivered[stream[t]] = MaxFrames
    /\ Leave(t)
    /\ UNCHANGED <<guard, stream, last, attempt, frame, applied, age, delivered, now,
                   file, replacements, consumed, refused, attempts>>

(* _last_sequence_id is read for the call of validate_frame, and assigned  *)
(* after it has returned: other threads run in between.                    *)
Validate(t) ==
    /\ pc[t] = "validating"
    /\ IF Regresses(last[RuntimeOf(t)], frame[t].id)
       THEN /\ Leave(t)
            /\ refused' = refused \cup {<<t, frame[t].id>>}
       ELSE /\ Goto(t, "assigning")
            /\ UNCHANGED <<held, refused>>
    /\ UNCHANGED <<guard, stream, last, attempt, frame, applied, age, delivered, now,
                   file, replacements, consumed, attempts>>
Assign(t) ==
    /\ pc[t] = "assigning"
    /\ last' = [last EXCEPT ![RuntimeOf(t)] = frame[t].id]
    /\ consumed' = [consumed EXCEPT ![RuntimeOf(t)] = Append(@, frame[t].id)]
    /\ Goto(t, "calibrating")
    /\ UNCHANGED <<guard, stream, held, attempt, frame, applied, age, delivered, now,
                   file, replacements, refused, attempts>>

(* JsonCalibrationStore.snapshot reads the file anew, and raises when it   *)
(* is half written or does not cover the end of the capture.  A plausible  *)
(* slip: a thread keeps the snapshot it has read while that one covers.    *)
Use(t, calibration, read) ==
    IF Covers(calibration, frame[t].end)
    THEN /\ applied' = [applied EXCEPT ![t] = calibration]
         /\ age' = [age EXCEPT ![t] = read]
         /\ Goto(t, "reconstructing")
         /\ UNCHANGED held
    ELSE /\ Leave(t)
         /\ UNCHANGED <<applied, age>>
KeptSnapshot(t) ==
    /\ pc[t] = "calibrating"
    /\ IF Covers(applied[t], frame[t].end) THEN Use(t, applied[t], age[t])
       ELSE Use(t, file, replacements)
    /\ UNCHANGED <<guard, stream, last, attempt, frame, delivered, now, file,
                   replacements, consumed, refused, attempts>>
Snapshot(t) ==
    /\ pc[t] = "calibrating"
    /\ Use(t, file, replacements)
    /\ UNCHANGED <<guard, stream, last, attempt, frame, delivered, now, file,
                   replacements, consumed, refused, attempts>>

(* The reconstruction returns or raises, and in either case an attempt is  *)
(* recorded with the calibration of its snapshot.  If it raised, or was    *)
(* accepted, or is the last, the run ends; else the next attempt acquires  *)
(* again, and takes a snapshot of its own.                                 *)
Reconstruct(t) ==
    /\ pc[t] = "reconstructing"
    /\ attempts' = attempts \cup
          {[runtime |-> RuntimeOf(t), id |-> frame[t].id, end |-> frame[t].end,
            applied |-> applied[t], age |-> age[t]]}
    /\ \/ Leave(t) /\ UNCHANGED attempt
       \/ /\ attempt[t] < MaxReacquisitions
          /\ attempt' = [attempt EXCEPT ![t] = @ + 1]
          /\ Goto(t, "acquiring")
          /\ UNCHANGED held
    /\ UNCHANGED <<guard, stream, last, frame, applied, age, delivered, now, file,
                   replacements, consumed, refused>>

(* The operator rewrites the file in place, which is read torn meanwhile.  *)
BeginReplacement ==
    /\ file # Torn
    /\ replacements < MaxReplacements
    /\ file' = Torn
    /\ replacements' = replacements + 1
    /\ UNCHANGED <<guard, stream, last, held, pc, attempt, frame, applied, age,
                   delivered, now, consumed, refused, attempts>>
EndReplacement ==
    /\ file = Torn
    /\ file' \in Calibrations
    /\ UNCHANGED <<guard, stream, last, held, pc, attempt, frame, applied, age,
                   delivered, now, replacements, consumed, refused, attempts>>

Next ==
    \/ \E t \in Threads :
          \/ Enter(t) \/ Acquire(t) \/ AcquireRaises(t) \/ Validate(t) \/ Assign(t)
          \/ Snapshot(t) \/ Reconstruct(t)
    \/ BeginReplacement \/ EndReplacement

Spec == Init /\ [][Next]_vars
-----------------------------------------------------------------------------
(* A deployment follows PORTING.md:24 when callers of one runtime exclude  *)
(* each other, or every runtime has a stream and a caller of its own.      *)
Guarded ==
    \/ "lock" \in guard
    \/ "key" \in guard /\ \A t, u \in Threads : stream[t] = stream[u] => t = u

(* A guarded runtime consumes frames in the order of their sequence ids    *)
(* and none twice, although it reads the last id and assigns it in two     *)
(* steps (service.py:76, :102).                                            *)
ConsumedInOrder ==
    Guarded => \A r \in Runtimes : \A i, j \in DOMAIN consumed[r] :
                   i < j => consumed[r][i] < consumed[r][j]

(* A guarded runtime that serves one stream refuses none of its frames: no *)
(* frame is lost to another thread, and none to another stream's ids.      *)
SoundFramesPass ==
    (Guarded /\ ("key" \in guard \/ \A t, u \in Threads : stream[t] = stream[u]))
        => refused = {}

(* Whoever replaces the file and whenever, every reconstruction begun was  *)
(* made with a calibration that covers the end of its capture              *)
(* (INTEGRATION.md, on expiry).                                            *)
CalibrationCoversFrame ==
    \A a \in attempts :
        a.applied.usable /\ a.applied.issued <= a.end /\ a.end <= a.applied.valid_until

(* A guarded runtime never goes back to an older calibration: of two       *)
(* frames it reconstructed, the one it consumed later was reconstructed    *)
(* with the same content of the file, or with a later one, although the    *)
(* frame is taken first, the file read after, and replaced at any time.    *)
CalibrationsInOrder ==
    Guarded => \A a, b \in attempts :
                   a.runtime = b.runtime /\ a.id < b.id => a.age <= b.age
-----------------------------------------------------------------------------
(* As seen from a runtime: it seeks a frame until Assign has remembered the*)
(* one that passed, and holds it until the thread leaves or goes around.   *)
Inside(r) == {t \in Threads : pc[t] # "idle" /\ RuntimeOf(t) = r}
Caller(r) == CHOOSE t \in Inside(r) : TRUE
Phase(r) ==
    IF Inside(r) = {} THEN "idle"
    ELSE IF pc[Caller(r)] \in {"acquiring", "validating", "assigning"} THEN "seeking"
    ELSE "holding"
Retries(r) == IF Inside(r) = {} THEN 0 ELSE attempt[Caller(r)]

Serial == INSTANCE SerialRuntime WITH
    Callers <- Threads, Ids <- 1..MaxFrames, guarded <- Guarded,
    phase <- [r \in Runtimes |-> Phase(r)],
    retries <- [r \in Runtimes |-> Retries(r)],
    taken <- consumed

(* However threads interleave, a guarded deployment is one of runtimes that*)
(* serve one call after another: no frame passes or is refused by an id    *)
(* that another thread has replaced since, and no thread spends another's  *)
(* reacquisitions.                                                         *)
ImplementsSerial == Serial!Spec
=============================================================================
