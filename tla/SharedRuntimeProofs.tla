------------------------ MODULE SharedRuntimeProofs ------------------------
(***************************************************************************)
(* The properties of SharedRuntime for any threads, streams, guards,       *)
(* calibrations and bounds: what an external lock or a stream key, as      *)
(* PORTING.md:24 asks for, is enough for, and what holds without either.   *)
(***************************************************************************)
EXTENDS SharedRuntime, TLAPS

Places == {"idle", "acquiring", "validating", "assigning", "calibrating",
           "reconstructing"}

TypeInv ==
    /\ stream \in [Threads -> Streams]
    /\ last \in [Runtimes -> Nat]
    /\ held \in [Runtimes -> SUBSET Threads]
    /\ pc \in [Threads -> Places]
    /\ frame \in [Threads -> [id : Nat, end : Nat]]
    /\ applied \in [Threads -> Calibrations \cup {Torn}]
    /\ age \in [Threads -> Nat] /\ replacements \in Nat
    /\ attempts \subseteq [runtime : Runtimes, id : Nat, end : Nat,
                            applied : Calibrations \cup {Torn}, age : Nat]
    /\ delivered \in [Streams -> Nat]
    /\ now \in Nat
    /\ file \in Calibrations \cup {Torn}
    /\ consumed \in [Runtimes -> Seq(Nat)]

(* What is applied covers the frame, and so does what is recorded.         *)
SnapshotCovers ==
    \A t \in Threads : pc[t] = "reconstructing" =>
        applied[t] \in Calibrations /\ Covers(applied[t], frame[t].end)
AttemptsTold ==
    \A a \in attempts :
        a.applied \in Calibrations /\ Covers(a.applied, a.end)
CalibrationInv == SnapshotCovers /\ AttemptsTold

(* Under a lock, who is in run_once holds the lock of its runtime; so no   *)
(* two threads are in one runtime, and the id read by Validate is still    *)
(* the last one when Assign replaces it.                                   *)
LockHeld ==
    "lock" \in guard => \A t \in Threads : pc[t] # "idle" => t \in held[RuntimeOf(t)]
Exclusive ==
    \A t, u \in Threads :
        (pc[t] # "idle" /\ pc[u] # "idle" /\ RuntimeOf(t) = RuntimeOf(u)) => t = u
AssignedIsNewer ==
    \A t \in Threads : pc[t] = "assigning" => frame[t].id > last[RuntimeOf(t)]
Increasing(s) == \A i, j \in DOMAIN s : i < j => s[i] < s[j]
ConsumedUpToLast ==
    \A r \in Runtimes : Increasing(consumed[r]) /\ \A i \in DOMAIN consumed[r] :
        consumed[r][i] <= last[r]
FramesNumbered == \A t \in Threads : pc[t] = "validating" => frame[t].id > 0
OrderInv ==
    /\ FramesNumbered
    /\ Guarded => LockHeld /\ Exclusive /\ AssignedIsNewer /\ ConsumedUpToLast

(* In a runtime that serves one stream, the last id is one the stream has  *)
(* delivered, and the frame to be validated has been delivered after it.   *)
OneStream == "key" \in guard \/ \A t, u \in Threads : stream[t] = stream[u]
StreamAhead ==
    \A t \in Threads :
        /\ last[RuntimeOf(t)] <= delivered[stream[t]]
        /\ frame[t].id <= delivered[stream[t]]
        /\ pc[t] = "validating" => last[RuntimeOf(t)] < frame[t].id
StreamInv == (Guarded /\ OneStream) => (refused = {} /\ StreamAhead)

(* Who has a frame and not yet a record of it has the newest frame of its  *)
(* runtime; whoever is recorded there read the file no later than it did.  *)
AgesBounded ==
    /\ \A a \in attempts : a.id <= last[a.runtime] /\ a.age <= replacements
    /\ \A t \in Threads : age[t] <= replacements
HolderIsNewest ==
    \A t \in Threads : pc[t] \in {"calibrating", "reconstructing"} =>
        /\ frame[t].id = last[RuntimeOf(t)]
        /\ \A a \in attempts : a.runtime = RuntimeOf(t) =>
               a.id < frame[t].id /\ (pc[t] = "reconstructing" => a.age <= age[t])
AgesInOrder ==
    \A a, b \in attempts : a.runtime = b.runtime /\ a.id < b.id => a.age <= b.age
AgeInv == Guarded => AgesBounded /\ HolderIsNewest /\ AgesInOrder

SharedInv == TypeInv /\ CalibrationInv /\ OrderInv /\ StreamInv /\ AgeInv

(* SharedInv strengthens the properties of the run.                        *)
LEMMA InvGivesProperties ==
    SharedInv => /\ ConsumedInOrder
                 /\ SoundFramesPass
                 /\ CalibrationCoversFrame
                 /\ CalibrationsInOrder
<1> SUFFICES ASSUME SharedInv
             PROVE  ConsumedInOrder /\ SoundFramesPass /\ CalibrationCoversFrame
                        /\ CalibrationsInOrder
  OBVIOUS
<1>1. ConsumedInOrder
  BY DEF SharedInv, OrderInv, ConsumedUpToLast, Increasing, ConsumedInOrder
<1>2. SoundFramesPass
  BY DEF SharedInv, StreamInv, OneStream, SoundFramesPass
<1>3. CalibrationCoversFrame
  BY DEF SharedInv, CalibrationInv, AttemptsTold, Covers, CalibrationCoversFrame
<1>4. CalibrationsInOrder
  BY DEF SharedInv, AgeInv, AgesInOrder, CalibrationsInOrder
<1> QED BY <1>1, <1>2, <1>3, <1>4
-----------------------------------------------------------------------------
(* The runtime of a thread is one of the runtimes.                         *)
LEMMA RuntimeIsOne == TypeInv => \A t \in Threads : RuntimeOf(t) \in Runtimes
  BY DEF TypeInv, RuntimeOf, Runtimes

(* Initially no thread is in run_once and nothing is recorded.             *)
LEMMA InitInv == Init => SharedInv
<1> SUFFICES ASSUME Init PROVE SharedInv
  OBVIOUS
<1> USE DEF Init, None
<1>1. TypeInv
  <2>1. <<>> \in Seq(Nat)
    OBVIOUS
  <2>2. consumed \in [Runtimes -> Seq(Nat)]
    BY <2>1
  <2> QED BY <2>2 DEF TypeInv, Places
<1>2. CalibrationInv
  BY DEF CalibrationInv, SnapshotCovers, AttemptsTold
<1>3. OrderInv
  BY DEF OrderInv, FramesNumbered, LockHeld, Exclusive, AssignedIsNewer,
         ConsumedUpToLast, Increasing
<1>4. StreamInv
  BY <1>1, RuntimeIsOne DEF StreamInv, StreamAhead, TypeInv
<1>5. AgeInv
  BY <1>1 DEF AgeInv, AgesBounded, HolderIsNewest, AgesInOrder, TypeInv
<1> QED BY <1>1, <1>2, <1>3, <1>4, <1>5 DEF SharedInv

(* A thread leaves with its place and its lock.                            *)
LEMMA LeaveFacts ==
    ASSUME TypeInv, NEW t \in Threads, Leave(t)
    PROVE  /\ pc' \in [Threads -> Places]
           /\ held' \in [Runtimes -> SUBSET Threads]
           /\ \A u \in Threads : pc'[u] = IF u = t THEN "idle" ELSE pc[u]
           /\ \A r \in Runtimes, u \in Threads :
                  u \in held[r] /\ u # t => u \in held'[r]
  BY RuntimeIsOne DEF Leave, Goto, TypeInv, Places

(* A thread goes to a place.                                               *)
LEMMA GotoFacts ==
    ASSUME TypeInv, NEW t \in Threads, NEW place \in Places, Goto(t, place)
    PROVE  /\ pc' \in [Threads -> Places]
           /\ \A u \in Threads : pc'[u] = IF u = t THEN place ELSE pc[u]
  BY DEF Goto, TypeInv

(* A snapshot is used if it covers the frame, and else the thread leaves.  *)
LEMMA SnapshotCases ==
    ASSUME NEW t \in Threads, Snapshot(t)
    PROVE  \/ Leave(t) /\ UNCHANGED <<applied, age>>
           \/ /\ Covers(file, frame[t].end)
              /\ applied' = [applied EXCEPT ![t] = file]
              /\ age' = [age EXCEPT ![t] = replacements]
              /\ Goto(t, "reconstructing") /\ UNCHANGED held
  BY DEF Snapshot, Use

(* Every step keeps the types.                                             *)
LEMMA StepType == TypeInv /\ Next => TypeInv'
<1> SUFFICES ASSUME TypeInv, Next PROVE TypeInv'
  OBVIOUS
<1>1. ASSUME NEW t \in Threads, Enter(t) PROVE TypeInv'
  <2>1. pc' \in [Threads -> Places]
    BY <1>1, GotoFacts DEF Enter, Places
  <2>2. held' \in [Runtimes -> SUBSET Threads]
    BY <1>1, RuntimeIsOne DEF Enter, TypeInv
  <2> QED BY <1>1, <2>1, <2>2 DEF Enter, TypeInv
<1>2. ASSUME NEW t \in Threads, Acquire(t) PROVE TypeInv'
  <2>1. pc' \in [Threads -> Places]
    BY <1>2, GotoFacts DEF Acquire, Places
  <2>2. delivered[stream[t]] \in Nat /\ now + 1 \in Nat
    BY DEF TypeInv
  <2>3. delivered' \in [Streams -> Nat]
    BY <1>2, <2>2 DEF Acquire, TypeInv
  <2>4. frame' \in [Threads -> [id : Nat, end : Nat]]
    BY <1>2, <2>2 DEF Acquire, TypeInv
  <2> QED BY <1>2, <2>1, <2>2, <2>3, <2>4 DEF Acquire, TypeInv
<1>3. ASSUME NEW t \in Threads, AcquireRaises(t) PROVE TypeInv'
  BY <1>3, LeaveFacts DEF AcquireRaises, TypeInv
<1>4. ASSUME NEW t \in Threads, Validate(t) PROVE TypeInv'
  <2>1. pc' \in [Threads -> Places] /\ held' \in [Runtimes -> SUBSET Threads]
    <3>1. CASE Leave(t)
      BY <3>1, LeaveFacts
    <3>2. CASE Goto(t, "assigning") /\ UNCHANGED held
      BY <3>2, GotoFacts DEF Places, TypeInv
    <3> QED BY <1>4, <3>1, <3>2 DEF Validate
  <2> QED BY <1>4, <2>1 DEF Validate, TypeInv
<1>5. ASSUME NEW t \in Threads, Assign(t) PROVE TypeInv'
  <2>1. pc' \in [Threads -> Places]
    BY <1>5, GotoFacts DEF Assign, Places
  <2>2. frame[t].id \in Nat /\ RuntimeOf(t) \in Runtimes
    BY RuntimeIsOne DEF TypeInv
  <2>3. last' \in [Runtimes -> Nat]
    BY <1>5, <2>2 DEF Assign, TypeInv
  <2>4. Append(consumed[RuntimeOf(t)], frame[t].id) \in Seq(Nat)
    BY <2>2 DEF TypeInv
  <2>5. consumed' \in [Runtimes -> Seq(Nat)]
    BY <1>5, <2>4 DEF Assign, TypeInv
  <2> QED BY <1>5, <2>1, <2>3, <2>5 DEF Assign, TypeInv
<1>6. ASSUME NEW t \in Threads, Snapshot(t) PROVE TypeInv'
  <2>1. /\ pc' \in [Threads -> Places] /\ held' \in [Runtimes -> SUBSET Threads]
        /\ applied' \in [Threads -> Calibrations \cup {Torn}]
        /\ age' \in [Threads -> Nat]
    <3>1. CASE Leave(t) /\ UNCHANGED <<applied, age>>
      BY <3>1, LeaveFacts DEF TypeInv
    <3>2. CASE Goto(t, "reconstructing") /\ UNCHANGED held
                   /\ applied' = [applied EXCEPT ![t] = file]
                   /\ age' = [age EXCEPT ![t] = replacements]
      BY <3>2, GotoFacts DEF Places, TypeInv
    <3> QED BY <1>6, <3>1, <3>2, SnapshotCases
  <2> QED BY <1>6, <2>1 DEF Snapshot, TypeInv
<1>7. ASSUME NEW t \in Threads, Reconstruct(t) PROVE TypeInv'
  <2>1. pc' \in [Threads -> Places] /\ held' \in [Runtimes -> SUBSET Threads]
    <3>1. CASE Leave(t)
      BY <3>1, LeaveFacts
    <3>2. CASE Goto(t, "acquiring") /\ UNCHANGED held
      BY <3>2, GotoFacts DEF Places, TypeInv
    <3> QED BY <1>7, <3>1, <3>2 DEF Reconstruct
  <2>2. attempts' \subseteq [runtime : Runtimes, id : Nat, end : Nat,
                             applied : Calibrations \cup {Torn}, age : Nat]
    BY <1>7, RuntimeIsOne DEF Reconstruct, TypeInv
  <2> QED BY <1>7, <2>1, <2>2 DEF Reconstruct, TypeInv
<1>8. CASE BeginReplacement
  BY <1>8 DEF BeginReplacement, TypeInv
<1>9. CASE EndReplacement
  BY <1>9 DEF EndReplacement, TypeInv
<1> QED BY <1>1, <1>2, <1>3, <1>4, <1>5, <1>6, <1>7, <1>8, <1>9 DEF Next
-----------------------------------------------------------------------------
(* Who begins to reconstruct has just tested its snapshot, and nothing     *)
(* that happens to the file afterwards changes the copy.                   *)
LEMMA StepCalibration == TypeInv /\ CalibrationInv /\ Next => CalibrationInv'
<1> SUFFICES ASSUME TypeInv, CalibrationInv, Next PROVE CalibrationInv'
  OBVIOUS
<1> USE DEF CalibrationInv
<1>1. ASSUME NEW t \in Threads, Enter(t) PROVE CalibrationInv'
  <2>1. \A u \in Threads : pc'[u] = IF u = t THEN "acquiring" ELSE pc[u]
    BY <1>1, GotoFacts DEF Enter, Places
  <2> QED BY <1>1, <2>1 DEF Enter, SnapshotCovers, AttemptsTold
<1>2. ASSUME NEW t \in Threads, Acquire(t) PROVE CalibrationInv'
  <2>1. \A u \in Threads : pc'[u] = IF u = t THEN "validating" ELSE pc[u]
    BY <1>2, GotoFacts DEF Acquire, Places
  <2>2. \A u \in Threads : u # t => frame'[u] = frame[u]
    BY <1>2 DEF Acquire, TypeInv
  <2> QED BY <1>2, <2>1, <2>2 DEF Acquire, SnapshotCovers, AttemptsTold
<1>3. ASSUME NEW t \in Threads, AcquireRaises(t) PROVE CalibrationInv'
  <2>1. \A u \in Threads : pc'[u] = IF u = t THEN "idle" ELSE pc[u]
    BY <1>3, LeaveFacts DEF AcquireRaises
  <2> QED BY <1>3, <2>1 DEF AcquireRaises, SnapshotCovers, AttemptsTold
<1>4. ASSUME NEW t \in Threads, Validate(t) PROVE CalibrationInv'
  <2>1. \A u \in Threads : pc'[u] = "reconstructing" => pc[u] = "reconstructing"
    <3>1. CASE Leave(t)
      BY <3>1, LeaveFacts
    <3>2. CASE Goto(t, "assigning")
      BY <3>2, GotoFacts DEF Places
    <3> QED BY <1>4, <3>1, <3>2 DEF Validate
  <2> QED BY <1>4, <2>1 DEF Validate, SnapshotCovers, AttemptsTold
<1>5. ASSUME NEW t \in Threads, Assign(t) PROVE CalibrationInv'
  <2>1. \A u \in Threads : pc'[u] = IF u = t THEN "calibrating" ELSE pc[u]
    BY <1>5, GotoFacts DEF Assign, Places
  <2> QED BY <1>5, <2>1 DEF Assign, SnapshotCovers, AttemptsTold
<1>6. ASSUME NEW t \in Threads, Snapshot(t) PROVE CalibrationInv'
  <2>1. CASE Leave(t) /\ UNCHANGED applied
    <3>1. \A u \in Threads : pc'[u] = IF u = t THEN "idle" ELSE pc[u]
      BY <2>1, LeaveFacts
    <3> QED BY <1>6, <2>1, <3>1 DEF Snapshot, SnapshotCovers, AttemptsTold
  <2>2. CASE /\ Covers(file, frame[t].end)
             /\ applied' = [applied EXCEPT ![t] = file] /\ Goto(t, "reconstructing")
    <3>1. \A u \in Threads : pc'[u] = IF u = t THEN "reconstructing" ELSE pc[u]
      BY <2>2, GotoFacts DEF Places
    <3>2. \A u \in Threads : applied'[u] = IF u = t THEN file ELSE applied[u]
      BY <2>2 DEF TypeInv
    <3>3. file \in Calibrations
      BY <2>2 DEF TypeInv, Covers, Torn
    <3>4. SnapshotCovers'
      BY <1>6, <2>2, <3>1, <3>2, <3>3 DEF Snapshot, SnapshotCovers
    <3> QED BY <1>6, <3>4 DEF Snapshot, AttemptsTold
  <2> QED BY <1>6, <2>1, <2>2, SnapshotCases
<1>7. ASSUME NEW t \in Threads, Reconstruct(t) PROVE CalibrationInv'
  <2>1. \A u \in Threads : pc'[u] = "reconstructing" => pc[u] = "reconstructing"
    <3>1. CASE Leave(t)
      BY <3>1, LeaveFacts
    <3>2. CASE Goto(t, "acquiring")
      BY <3>2, GotoFacts DEF Places
    <3> QED BY <1>7, <3>1, <3>2 DEF Reconstruct
  <2>2. SnapshotCovers'
    BY <1>7, <2>1 DEF Reconstruct, SnapshotCovers
  <2>3. AttemptsTold'
    BY <1>7 DEF Reconstruct, SnapshotCovers, AttemptsTold
  <2> QED BY <2>2, <2>3
<1>8. CASE BeginReplacement
  BY <1>8 DEF BeginReplacement, SnapshotCovers, AttemptsTold
<1>9. CASE EndReplacement
  BY <1>9 DEF EndReplacement, SnapshotCovers, AttemptsTold
<1> QED BY <1>1, <1>2, <1>3, <1>4, <1>5, <1>6, <1>7, <1>8, <1>9 DEF Next
-----------------------------------------------------------------------------
(* Every step but Enter leaves in run_once only threads that were there,   *)
(* with the locks they held.                                               *)
StillInside ==
    \A u \in Threads : pc'[u] # "idle" =>
        /\ pc[u] # "idle"
        /\ \A r \in Runtimes : u \in held[r] => u \in held'[r]

(* Neither the guard nor the streams of a deployment change.               *)
LEMMA DeploymentStays ==
    ASSUME TypeInv, Next
    PROVE  /\ guard' = guard /\ stream' = stream
           /\ Guarded' = Guarded /\ OneStream' = OneStream
           /\ \A t \in Threads : RuntimeOf(t)' = RuntimeOf(t)
<1>1. guard' = guard /\ stream' = stream
  BY DEF Next, Enter, Acquire, AcquireRaises, Validate, Assign, Snapshot, Reconstruct,
         BeginReplacement, EndReplacement
<1>2. Guarded' = Guarded
  BY <1>1 DEF Guarded
<1>3. OneStream' = OneStream
  BY <1>1 DEF OneStream
<1>4. \A t \in Threads : RuntimeOf(t)' = RuntimeOf(t)
  BY <1>1 DEF RuntimeOf
<1> QED BY <1>1, <1>2, <1>3, <1>4

(* Exclusion outlasts every step after which nobody is newly inside.       *)
LEMMA InsideStays ==
    ASSUME TypeInv, Next, LockHeld, Exclusive, StillInside
    PROVE  LockHeld' /\ Exclusive'
  BY DeploymentStays, RuntimeIsOne DEF StillInside, LockHeld, Exclusive

(* A thread enters a runtime that no thread is in: under a lock, because   *)
(* whoever is in it holds the lock; under a key, because nobody else has   *)
(* its stream.                                                             *)
LEMMA EnterExclusive ==
    ASSUME TypeInv, Next, Guarded, LockHeld, Exclusive, NEW t \in Threads, Enter(t)
    PROVE  LockHeld' /\ Exclusive'
<1>1. \A u \in Threads : pc'[u] = IF u = t THEN "acquiring" ELSE pc[u]
  BY GotoFacts DEF Enter, Places
<1>2. \A u \in Threads : RuntimeOf(u)' = RuntimeOf(u) /\ RuntimeOf(u) \in Runtimes
  BY DeploymentStays, RuntimeIsOne
<1>3. /\ t \in held'[RuntimeOf(t)]
      /\ \A r \in Runtimes, u \in Threads : u \in held[r] => u \in held'[r]
  BY <1>2 DEF Enter, TypeInv
<1>4. LockHeld'
  BY <1>1, <1>2, <1>3, DeploymentStays DEF LockHeld
<1>5. \A u \in Threads : pc[u] # "idle" /\ RuntimeOf(u) = RuntimeOf(t) => u = t
  <2>1. CASE "lock" \in guard
    BY <2>1 DEF Enter, LockHeld
  <2>2. CASE "key" \in guard /\ \A v, w \in Threads : stream[v] = stream[w] => v = w
    BY <2>2 DEF RuntimeOf
  <2> QED BY <2>1, <2>2 DEF Guarded
<1>6. Exclusive'
  BY <1>1, <1>2, <1>5 DEF Exclusive
<1> QED BY <1>4, <1>6

(* What each step does to the place of a thread.                           *)
LEMMA PlaceOf ==
    ASSUME TypeInv, NEW t \in Threads
    PROVE  /\ Enter(t) => \A u \in Threads : pc'[u] = IF u = t THEN "acquiring" ELSE pc[u]
           /\ Acquire(t) => \A u \in Threads : pc'[u] = IF u = t THEN "validating" ELSE pc[u]
           /\ Assign(t) => \A u \in Threads : pc'[u] = IF u = t THEN "calibrating" ELSE pc[u]
           /\ AcquireRaises(t) \/ Snapshot(t) \/ Reconstruct(t) =>
                  \A u \in Threads : pc'[u] \in {"validating", "assigning"} => pc'[u] = pc[u]
           /\ Validate(t) => \A u \in Threads :
                  /\ u # t => pc'[u] = pc[u]
                  /\ pc'[u] # "validating" \/ u # t
<1>1. Enter(t) => \A u \in Threads : pc'[u] = IF u = t THEN "acquiring" ELSE pc[u]
  BY GotoFacts DEF Enter, Places
<1>2. Acquire(t) => \A u \in Threads : pc'[u] = IF u = t THEN "validating" ELSE pc[u]
  BY GotoFacts DEF Acquire, Places
<1>3. Assign(t) => \A u \in Threads : pc'[u] = IF u = t THEN "calibrating" ELSE pc[u]
  BY GotoFacts DEF Assign, Places
<1>4. Leave(t) => \A u \in Threads : pc'[u] = IF u = t THEN "idle" ELSE pc[u]
  BY LeaveFacts
<1>5. Goto(t, "reconstructing") =>
          \A u \in Threads : pc'[u] = IF u = t THEN "reconstructing" ELSE pc[u]
  BY GotoFacts DEF Places
<1>6. Goto(t, "acquiring") =>
          \A u \in Threads : pc'[u] = IF u = t THEN "acquiring" ELSE pc[u]
  BY GotoFacts DEF Places
<1>7. Goto(t, "assigning") =>
          \A u \in Threads : pc'[u] = IF u = t THEN "assigning" ELSE pc[u]
  BY GotoFacts DEF Places
<1>8. AcquireRaises(t) \/ Snapshot(t) \/ Reconstruct(t) =>
          Leave(t) \/ Goto(t, "reconstructing") \/ Goto(t, "acquiring")
  BY SnapshotCases DEF AcquireRaises, Reconstruct
<1>9. Validate(t) => Leave(t) \/ Goto(t, "assigning")
  BY DEF Validate
<1> QED BY <1>1, <1>2, <1>3, <1>4, <1>5, <1>6, <1>7, <1>8, <1>9

(* The steps of a thread that was inside leave only such threads inside.   *)
LEMMA InsideSteps ==
    ASSUME TypeInv, NEW t \in Threads,
           Acquire(t) \/ AcquireRaises(t) \/ Validate(t) \/ Assign(t) \/ Snapshot(t)
               \/ Reconstruct(t)
    PROVE  StillInside
<1>1. pc[t] # "idle"
  BY DEF Acquire, AcquireRaises, Validate, Assign, Snapshot, Reconstruct
<1>2. CASE Leave(t)
  BY <1>1, <1>2, LeaveFacts DEF StillInside
<1>3. CASE held' = held /\ \E place \in Places : Goto(t, place)
  BY <1>1, <1>3, GotoFacts DEF StillInside
<1>4. Leave(t) \/ (held' = held /\ \E place \in Places : Goto(t, place))
  <2>1. AcquireRaises(t) => Leave(t)
    BY DEF AcquireRaises
  <2>2. Acquire(t) \/ Assign(t) => held' = held /\ \E place \in Places : Goto(t, place)
    BY DEF Acquire, Assign, Places
  <2>3. Validate(t) => Leave(t) \/ (held' = held /\ Goto(t, "assigning"))
    BY DEF Validate
  <2>4. Snapshot(t) => Leave(t) \/ (held' = held /\ Goto(t, "reconstructing"))
    BY SnapshotCases
  <2>5. Reconstruct(t) => Leave(t) \/ (held' = held /\ Goto(t, "acquiring"))
    BY DEF Reconstruct
  <2> QED BY <2>1, <2>2, <2>3, <2>4, <2>5 DEF Places
<1> QED BY <1>2, <1>3, <1>4
-----------------------------------------------------------------------------
(* Only Acquire changes a frame, and only the thread's own.                *)
LEMMA FrameStays ==
    ASSUME TypeInv, Next
    PROVE  \A u \in Threads : pc'[u] = "validating" \/ frame'[u] = frame[u]
<1>1. ASSUME NEW t \in Threads, Acquire(t)
      PROVE  \A u \in Threads : pc'[u] = "validating" \/ frame'[u] = frame[u]
  BY <1>1, PlaceOf DEF Acquire, TypeInv
<1>2. (\A t \in Threads : ~Acquire(t)) => frame' = frame
  BY DEF Next, Enter, AcquireRaises, Validate, Assign, Snapshot, Reconstruct,
         BeginReplacement, EndReplacement
<1> QED BY <1>1, <1>2

(* A thread is about to validate a frame that Acquire has just numbered.   *)
LEMMA StepNumbered == TypeInv /\ FramesNumbered /\ Next => FramesNumbered'
<1> SUFFICES ASSUME TypeInv, FramesNumbered, Next, NEW u \in Threads,
                    pc'[u] = "validating"
             PROVE  frame'[u].id > 0
  BY DEF FramesNumbered
<1>1. ASSUME NEW t \in Threads, Acquire(t) PROVE frame'[u].id > 0
  <2>1. \A w \in Threads : pc'[w] = IF w = t THEN "validating" ELSE pc[w]
    BY <1>1, PlaceOf
  <2>2. CASE u = t
    <3>1. frame'[t].id = delivered[stream[t]] + 1 /\ delivered[stream[t]] \in Nat
      BY <1>1 DEF Acquire, TypeInv
    <3> QED BY <2>2, <3>1
  <2>3. CASE u # t
    <3>1. frame'[u] = frame[u]
      BY <1>1, <2>3 DEF Acquire, TypeInv
    <3> QED BY <2>1, <2>3, <3>1 DEF FramesNumbered
  <2> QED BY <2>2, <2>3
<1>2. CASE \A t \in Threads : ~Acquire(t)
  <2>1. frame' = frame
    BY <1>2 DEF Next, Enter, AcquireRaises, Validate, Assign, Snapshot, Reconstruct,
                BeginReplacement, EndReplacement
  <2>2. pc[u] = "validating"
    <3>1. ASSUME NEW t \in Threads,
                 Enter(t) \/ AcquireRaises(t) \/ Validate(t) \/ Assign(t) \/ Snapshot(t)
                     \/ Reconstruct(t)
          PROVE  pc[u] = "validating"
      BY <3>1, PlaceOf
    <3>2. BeginReplacement \/ EndReplacement => pc' = pc
      BY DEF BeginReplacement, EndReplacement
    <3> QED BY <1>2, <3>1, <3>2 DEF Next
  <2> QED BY <2>1, <2>2 DEF FramesNumbered
<1> QED BY <1>1, <1>2

(* Exclusion is kept by every step.                                        *)
LEMMA StepExclusive ==
    ASSUME TypeInv, Next, Guarded, LockHeld, Exclusive
    PROVE  LockHeld' /\ Exclusive'
<1>1. ASSUME NEW t \in Threads, Enter(t) PROVE LockHeld' /\ Exclusive'
  BY <1>1, EnterExclusive
<1>2. ASSUME NEW t \in Threads,
             Acquire(t) \/ AcquireRaises(t) \/ Validate(t) \/ Assign(t) \/ Snapshot(t)
                 \/ Reconstruct(t)
      PROVE  LockHeld' /\ Exclusive'
  BY <1>2, InsideSteps, InsideStays
<1>3. CASE BeginReplacement \/ EndReplacement
  <2>1. pc' = pc /\ held' = held
    BY <1>3 DEF BeginReplacement, EndReplacement
  <2>2. StillInside
    BY <2>1 DEF StillInside
  <2> QED BY <2>2, InsideStays
<1> QED BY <1>1, <1>2, <1>3 DEF Next

(* Assign puts into its runtime an id greater than all before, and no      *)
(* other thread of the runtime is between its test and its assignment.     *)
LEMMA AssignOrder ==
    ASSUME TypeInv, Next, Exclusive, AssignedIsNewer, ConsumedUpToLast,
           NEW t \in Threads, Assign(t)
    PROVE  AssignedIsNewer' /\ ConsumedUpToLast'
<1> DEFINE r == RuntimeOf(t)
           id == frame[t].id
<1>1. r \in Runtimes /\ id \in Nat /\ id > last[r] /\ last[r] \in Nat
  BY RuntimeIsOne DEF Assign, AssignedIsNewer, TypeInv
<1>2. /\ \A s \in Runtimes : last'[s] = IF s = r THEN id ELSE last[s]
      /\ \A s \in Runtimes : s # r => consumed'[s] = consumed[s]
      /\ consumed'[r] = Append(consumed[r], id)
      /\ frame' = frame
  BY <1>1 DEF Assign, TypeInv
<1>3. \A u \in Threads : RuntimeOf(u)' = RuntimeOf(u) /\ RuntimeOf(u) \in Runtimes
  BY DeploymentStays, RuntimeIsOne
<1>4. \A u \in Threads : pc'[u] = IF u = t THEN "calibrating" ELSE pc[u]
  BY PlaceOf
<1>5. AssignedIsNewer'
  <2> SUFFICES ASSUME NEW u \in Threads, pc'[u] = "assigning"
               PROVE  frame'[u].id > last'[RuntimeOf(u)]
    BY <1>3 DEF AssignedIsNewer
  <2>1. u # t /\ pc[u] = "assigning"
    BY <1>4
  <2>2. RuntimeOf(u) # r
    BY <2>1 DEF Exclusive, Assign
  <2> QED BY <1>2, <1>3, <2>1, <2>2 DEF AssignedIsNewer
<1>6. ConsumedUpToLast'
  <2> SUFFICES ASSUME NEW s \in Runtimes
               PROVE  /\ Increasing(consumed'[s])
                      /\ \A i \in DOMAIN consumed'[s] : consumed'[s][i] <= last'[s]
    BY DEF ConsumedUpToLast, Increasing
  <2>1. CASE s # r
    BY <1>2, <2>1 DEF ConsumedUpToLast
  <2>2. CASE s = r
    <3> DEFINE old == consumed[r]
               new == consumed'[r]
    <3>1. old \in Seq(Nat) /\ new = Append(old, id)
      BY <1>1, <1>2 DEF TypeInv
    <3>2. /\ DOMAIN old = 1..Len(old) /\ Len(old) \in Nat
          /\ DOMAIN new = 1..(Len(old) + 1)
          /\ \A i \in 1..Len(old) : new[i] = old[i] /\ old[i] \in Nat
          /\ new[Len(old) + 1] = id
      BY <1>1, <3>1
    <3>3. \A i \in 1..Len(old) : new[i] < id
      BY <1>1, <3>2 DEF ConsumedUpToLast
    <3>4. Increasing(new)
      <4> SUFFICES ASSUME NEW i \in DOMAIN new, NEW j \in DOMAIN new, i < j
                   PROVE  new[i] < new[j]
        BY DEF Increasing
      <4>1. i \in 1..Len(old)
        BY <3>2
      <4>2. CASE j = Len(old) + 1
        BY <3>2, <3>3, <4>1, <4>2
      <4>3. CASE j \in 1..Len(old)
        BY <1>1, <3>2, <4>1, <4>3 DEF ConsumedUpToLast, Increasing
      <4> QED BY <3>2, <4>2, <4>3
    <3>5. \A i \in DOMAIN new : new[i] <= id
      BY <1>1, <3>2, <3>3
    <3> QED BY <1>1, <1>2, <2>2, <3>4, <3>5
  <2> QED BY <2>1, <2>2
<1> QED BY <1>5, <1>6

(* The other steps assign nothing; Validate lets pass what is newer.       *)
LEMMA OtherOrder ==
    ASSUME TypeInv, Next, FramesNumbered, AssignedIsNewer, ConsumedUpToLast,
           \A t \in Threads : ~Assign(t)
    PROVE  AssignedIsNewer' /\ ConsumedUpToLast'
<1>1. last' = last /\ consumed' = consumed
  BY DEF Next, Enter, Acquire, AcquireRaises, Validate, Assign, Snapshot, Reconstruct,
         BeginReplacement, EndReplacement
<1>2. ConsumedUpToLast'
  BY <1>1 DEF ConsumedUpToLast, Increasing
<1>3. AssignedIsNewer'
  <2> SUFFICES ASSUME NEW u \in Threads, pc'[u] = "assigning"
               PROVE  frame'[u].id > last'[RuntimeOf(u)]
    BY DeploymentStays DEF AssignedIsNewer
  <2>1. frame'[u] = frame[u]
    BY FrameStays
  <2>2. CASE pc[u] = "assigning"
    BY <1>1, <2>1, <2>2 DEF AssignedIsNewer
  <2>3. CASE pc[u] # "assigning"
    <3>1. PICK t \in Threads : Validate(t)
      <4>1. BeginReplacement \/ EndReplacement => pc' = pc
        BY DEF BeginReplacement, EndReplacement
      <4>2. \A t \in Threads :
                Enter(t) \/ Acquire(t) \/ AcquireRaises(t) \/ Snapshot(t) \/ Reconstruct(t)
                    => pc[u] = "assigning"
        BY PlaceOf
      <4> QED BY <2>3, <4>1, <4>2 DEF Next
    <3>2. u = t
      BY <2>3, <3>1, PlaceOf
    <3>3. ~Leave(t)
      BY <3>2, LeaveFacts
    <3>4. pc[t] = "validating" /\ ~Regresses(last[RuntimeOf(t)], frame[t].id)
      BY <3>1, <3>3 DEF Validate
    <3>5. /\ frame[t].id \in Nat /\ frame[t].id > 0
          /\ last[RuntimeOf(t)] \in Nat
      BY <3>4, RuntimeIsOne DEF FramesNumbered, TypeInv
    <3> QED BY <1>1, <2>1, <3>2, <3>4, <3>5 DEF Regresses, None
  <2> QED BY <2>2, <2>3
<1> QED BY <1>2, <1>3

(* Every step keeps the order of what is consumed.                         *)
LEMMA StepOrder == TypeInv /\ OrderInv /\ Next => OrderInv'
<1> SUFFICES ASSUME TypeInv, OrderInv, Next PROVE OrderInv'
  OBVIOUS
<1>1. FramesNumbered'
  BY StepNumbered DEF OrderInv
<1>2. ASSUME Guarded
      PROVE  LockHeld' /\ Exclusive' /\ AssignedIsNewer' /\ ConsumedUpToLast'
  <2>1. FramesNumbered /\ LockHeld /\ Exclusive /\ AssignedIsNewer /\ ConsumedUpToLast
    BY <1>2 DEF OrderInv
  <2>2. LockHeld' /\ Exclusive'
    BY <1>2, <2>1, StepExclusive
  <2>3. CASE \E t \in Threads : Assign(t)
    BY <2>1, <2>2, <2>3, AssignOrder
  <2>4. CASE \A t \in Threads : ~Assign(t)
    BY <2>1, <2>2, <2>4, OtherOrder
  <2> QED BY <2>3, <2>4
<1> QED BY <1>1, <1>2, DeploymentStays DEF OrderInv
-----------------------------------------------------------------------------
(* Threads in one runtime acquire from one stream.                         *)
LEMMA SameStream ==
    ASSUME TypeInv, OneStream, NEW t \in Threads, NEW u \in Threads,
           RuntimeOf(t) = RuntimeOf(u)
    PROVE  stream[t] = stream[u]
  BY DEF OneStream, RuntimeOf

(* A new frame is numbered after all that its stream delivered, and so     *)
(* after the last one of its runtime.                                      *)
LEMMA AcquireStream ==
    ASSUME TypeInv, Next, StreamAhead, NEW t \in Threads, Acquire(t)
    PROVE  StreamAhead'
<1>1. /\ \A u \in Threads : /\ delivered[stream[u]] \in Nat
                            /\ last[RuntimeOf(u)] \in Nat /\ frame[u].id \in Nat
      /\ last' = last /\ stream' = stream
  BY RuntimeIsOne DEF Acquire, TypeInv
<1>2. \A u \in Threads : RuntimeOf(u)' = RuntimeOf(u)
  BY DeploymentStays
<1>3. \A u \in Threads : pc'[u] = IF u = t THEN "validating" ELSE pc[u]
  BY PlaceOf
<1>4. \A s \in Streams :
          delivered'[s] = IF s = stream[t] THEN delivered[s] + 1 ELSE delivered[s]
  BY DEF Acquire, TypeInv
<1>5. frame'[t].id = delivered[stream[t]] + 1 /\ \A u \in Threads : u # t => frame'[u] = frame[u]
  BY DEF Acquire, TypeInv
<1>6. \A u \in Threads : stream[u] \in Streams
  BY DEF TypeInv
<1> SUFFICES ASSUME NEW u \in Threads
             PROVE  /\ last[RuntimeOf(u)] <= delivered'[stream[u]]
                    /\ frame'[u].id <= delivered'[stream[u]]
                    /\ pc'[u] = "validating" => last[RuntimeOf(u)] < frame'[u].id
  BY <1>1, <1>2 DEF StreamAhead
<1>7. CASE u = t
  BY <1>1, <1>4, <1>5, <1>6, <1>7 DEF StreamAhead
<1>8. CASE u # t
  BY <1>1, <1>3, <1>4, <1>5, <1>6, <1>8 DEF StreamAhead
<1> QED BY <1>7, <1>8

(* The assigned id is one that the stream has delivered, and no other      *)
(* thread is about to validate in the same runtime.                        *)
LEMMA AssignStream ==
    ASSUME TypeInv, Next, OneStream, Exclusive, StreamAhead, NEW t \in Threads, Assign(t)
    PROVE  StreamAhead'
<1>1. \A s \in Runtimes : last'[s] = IF s = RuntimeOf(t) THEN frame[t].id ELSE last[s]
  BY RuntimeIsOne DEF Assign, TypeInv
<1>2. frame' = frame /\ delivered' = delivered /\ stream' = stream
  BY DEF Assign
<1>3. \A u \in Threads : RuntimeOf(u)' = RuntimeOf(u) /\ RuntimeOf(u) \in Runtimes
  BY DeploymentStays, RuntimeIsOne
<1>4. \A u \in Threads : pc'[u] = IF u = t THEN "calibrating" ELSE pc[u]
  BY PlaceOf
<1>5. pc[t] # "idle"
  BY DEF Assign
<1> SUFFICES ASSUME NEW u \in Threads
             PROVE  /\ last'[RuntimeOf(u)] <= delivered[stream[u]]
                    /\ frame[u].id <= delivered[stream[u]]
                    /\ pc'[u] = "validating" => last'[RuntimeOf(u)] < frame[u].id
  BY <1>2, <1>3 DEF StreamAhead
<1>6. CASE RuntimeOf(u) = RuntimeOf(t)
  <2>1. stream[u] = stream[t]
    BY <1>6, SameStream
  <2>2. pc'[u] = "validating" => FALSE
    BY <1>4, <1>5, <1>6 DEF Exclusive
  <2> QED BY <1>1, <1>3, <1>6, <2>1, <2>2 DEF StreamAhead
<1>7. CASE RuntimeOf(u) # RuntimeOf(t)
  BY <1>1, <1>3, <1>4, <1>7 DEF StreamAhead
<1> QED BY <1>6, <1>7

(* Every step keeps the streams ahead, and a frame that is newer than the  *)
(* last one of its runtime is not refused.                                 *)
LEMMA StepStream == TypeInv /\ OrderInv /\ StreamInv /\ Next => StreamInv'
<1> SUFFICES ASSUME TypeInv, OrderInv, StreamInv, Next, Guarded, OneStream
             PROVE  refused' = {} /\ StreamAhead'
  BY DeploymentStays DEF StreamInv
<1>1. refused = {} /\ StreamAhead /\ Exclusive
  BY DEF StreamInv, OrderInv
<1>2. refused' = {}
  <2>1. ASSUME NEW t \in Threads, Validate(t) PROVE refused' = {}
    <3>1. last[RuntimeOf(t)] < frame[t].id
      BY <1>1, <2>1 DEF StreamAhead, Validate
    <3>2. last[RuntimeOf(t)] \in Nat /\ frame[t].id \in Nat
      BY RuntimeIsOne DEF TypeInv
    <3>3. ~Regresses(last[RuntimeOf(t)], frame[t].id)
      BY <3>1, <3>2 DEF Regresses
    <3> QED BY <1>1, <2>1, <3>3 DEF Validate
  <2>2. (\A t \in Threads : ~Validate(t)) => refused' = refused
    BY DEF Next, Enter, Acquire, AcquireRaises, Assign, Snapshot, Reconstruct,
           BeginReplacement, EndReplacement
  <2> QED BY <1>1, <2>1, <2>2
<1>3. ASSUME NEW t \in Threads, Acquire(t) PROVE StreamAhead'
  BY <1>1, <1>3, AcquireStream
<1>4. ASSUME NEW t \in Threads, Assign(t) PROVE StreamAhead'
  BY <1>1, <1>4, AssignStream
<1>5. ASSUME \A t \in Threads : ~Acquire(t) /\ ~Assign(t) PROVE StreamAhead'
  <2>1. last' = last /\ frame' = frame /\ delivered' = delivered /\ stream' = stream
    BY <1>5 DEF Next, Enter, AcquireRaises, Validate, Snapshot, Reconstruct,
                BeginReplacement, EndReplacement
  <2>2. \A u \in Threads : pc'[u] = "validating" => pc[u] = "validating"
    <3>1. \A t \in Threads :
              Enter(t) \/ AcquireRaises(t) \/ Validate(t) \/ Snapshot(t) \/ Reconstruct(t)
                  => \A u \in Threads : pc'[u] = "validating" => pc[u] = "validating"
      BY PlaceOf
    <3>2. BeginReplacement \/ EndReplacement => pc' = pc
      BY DEF BeginReplacement, EndReplacement
    <3> QED BY <1>5, <3>1, <3>2 DEF Next
  <2>3. \A u \in Threads : RuntimeOf(u)' = RuntimeOf(u)
    BY DeploymentStays
  <2> QED BY <1>1, <2>1, <2>2, <2>3 DEF StreamAhead
<1> QED BY <1>2, <1>3, <1>4, <1>5
-----------------------------------------------------------------------------
(* Steps after which no thread is newly about to record, and that record   *)
(* and assign nothing.                                                     *)
LEMMA QuietAge ==
    ASSUME TypeInv, Next, AgesBounded, HolderIsNewest, AgesInOrder,
           UNCHANGED <<attempts, last, age>>, replacements' >= replacements,
           \A u \in Threads : pc'[u] \in {"calibrating", "reconstructing"} =>
               pc'[u] = pc[u] /\ frame'[u] = frame[u]
    PROVE  AgesBounded' /\ HolderIsNewest' /\ AgesInOrder'
<1>1. \A u \in Threads : RuntimeOf(u)' = RuntimeOf(u)
  BY DeploymentStays
<1>2. AgesBounded'
  <2>1. replacements \in Nat /\ replacements' \in Nat
    BY StepType DEF TypeInv
  <2>2. \A n \in Nat : n <= replacements => n <= replacements'
    BY <2>1
  <2>3. \A a \in attempts : a.age \in Nat
    BY DEF TypeInv
  <2>4. \A u \in Threads : age[u] \in Nat
    BY DEF TypeInv
  <2> QED BY <2>2, <2>3, <2>4 DEF AgesBounded
<1>3. HolderIsNewest'
  BY <1>1 DEF HolderIsNewest
<1>4. AgesInOrder'
  BY DEF AgesInOrder
<1> QED BY <1>2, <1>3, <1>4

(* The assigned id is greater than all that were recorded in the runtime,  *)
(* and no other thread of the runtime is inside.                           *)
LEMMA AssignAge ==
    ASSUME TypeInv, Next, Exclusive, AssignedIsNewer, AgesBounded, HolderIsNewest,
           AgesInOrder, NEW t \in Threads, Assign(t)
    PROVE  AgesBounded' /\ HolderIsNewest' /\ AgesInOrder'
<1> DEFINE r == RuntimeOf(t)
<1>1. r \in Runtimes /\ frame[t].id \in Nat /\ last[r] \in Nat /\ frame[t].id > last[r]
  BY RuntimeIsOne DEF Assign, AssignedIsNewer, TypeInv
<1>2. /\ \A s \in Runtimes : last'[s] = IF s = r THEN frame[t].id ELSE last[s]
      /\ UNCHANGED <<frame, attempts, age, replacements>> /\ pc[t] = "assigning"
  BY <1>1 DEF Assign, TypeInv
<1>3. \A u \in Threads : RuntimeOf(u)' = RuntimeOf(u) /\ RuntimeOf(u) \in Runtimes
  BY DeploymentStays, RuntimeIsOne
<1>4. \A u \in Threads : pc'[u] = IF u = t THEN "calibrating" ELSE pc[u]
  BY PlaceOf
<1>5. \A a \in attempts :
          /\ a.runtime \in Runtimes /\ a.id \in Nat /\ a.id <= last[a.runtime]
          /\ last[a.runtime] \in Nat /\ a.age <= replacements
  BY DEF AgesBounded, TypeInv
<1>6. AgesBounded'
  <2>1. \A a \in attempts : a.id <= last'[a.runtime]
    BY <1>1, <1>2, <1>5
  <2> QED BY <1>2, <2>1 DEF AgesBounded
<1>7. HolderIsNewest'
  <2> SUFFICES ASSUME NEW u \in Threads, pc'[u] \in {"calibrating", "reconstructing"}
               PROVE  /\ frame[u].id = last'[RuntimeOf(u)]
                      /\ \A a \in attempts : a.runtime = RuntimeOf(u) =>
                             /\ a.id < frame[u].id
                             /\ pc'[u] = "reconstructing" => a.age <= age[u]
    BY <1>2, <1>3 DEF HolderIsNewest
  <2>1. CASE u = t
    BY <1>1, <1>2, <1>4, <1>5, <2>1
  <2>2. CASE u # t
    <3>1. pc[u] = pc'[u]
      BY <1>4, <2>2
    <3>2. RuntimeOf(u) # r
      BY <1>2, <2>2, <3>1 DEF Exclusive
    <3> QED BY <1>2, <1>3, <3>1, <3>2 DEF HolderIsNewest
  <2> QED BY <2>1, <2>2
<1>8. AgesInOrder'
  BY <1>2 DEF AgesInOrder
<1> QED BY <1>6, <1>7, <1>8

(* What is read now is no older than anything read before.                 *)
LEMMA SnapshotAge ==
    ASSUME TypeInv, Next, AgesBounded, HolderIsNewest, AgesInOrder,
           NEW t \in Threads, Snapshot(t), Goto(t, "reconstructing"),
           age' = [age EXCEPT ![t] = replacements]
    PROVE  AgesBounded' /\ HolderIsNewest' /\ AgesInOrder'
<1>1. UNCHANGED <<frame, attempts, last, replacements>> /\ pc[t] = "calibrating"
  BY DEF Snapshot
<1>2. \A u \in Threads : RuntimeOf(u)' = RuntimeOf(u)
  BY DeploymentStays
<1>3. \A u \in Threads : /\ pc'[u] = IF u = t THEN "reconstructing" ELSE pc[u]
                         /\ age'[u] = IF u = t THEN replacements ELSE age[u]
  BY GotoFacts DEF Places, TypeInv
<1>4. AgesBounded'
  BY <1>1, <1>3 DEF AgesBounded, TypeInv
<1>5. HolderIsNewest'
  BY <1>1, <1>2, <1>3 DEF HolderIsNewest, AgesBounded
<1>6. AgesInOrder'
  BY <1>1 DEF AgesInOrder
<1> QED BY <1>4, <1>5, <1>6

(* The new record is of the newest frame, and no other thread is about to  *)
(* record in its runtime.                                                  *)
LEMMA ReconstructAge ==
    ASSUME TypeInv, Next, Exclusive, AgesBounded, HolderIsNewest, AgesInOrder,
           NEW t \in Threads, Reconstruct(t)
    PROVE  AgesBounded' /\ HolderIsNewest' /\ AgesInOrder'
<1> DEFINE new == [runtime |-> RuntimeOf(t), id |-> frame[t].id, end |-> frame[t].end,
                   applied |-> applied[t], age |-> age[t]]
<1>1. /\ attempts' = attempts \cup {new} /\ pc[t] = "reconstructing"
      /\ UNCHANGED <<frame, last, age, replacements>>
  BY DEF Reconstruct
<1>2. \A u \in Threads : RuntimeOf(u)' = RuntimeOf(u)
  BY DeploymentStays
<1>3. \A u \in Threads : pc'[u] \in {"calibrating", "reconstructing"} =>
          u # t /\ pc'[u] = pc[u]
  <2>1. CASE Leave(t)
    BY <2>1, LeaveFacts
  <2>2. CASE Goto(t, "acquiring")
    BY <2>2, GotoFacts DEF Places
  <2> QED BY <2>1, <2>2 DEF Reconstruct
<1>4. /\ frame[t].id = last[RuntimeOf(t)] /\ frame[t].id \in Nat
      /\ age[t] <= replacements /\ age[t] \in Nat
      /\ \A a \in attempts : a.runtime = RuntimeOf(t) =>
             a.id < frame[t].id /\ a.age <= age[t]
  BY <1>1 DEF HolderIsNewest, AgesBounded, TypeInv
<1>5. /\ new.runtime = RuntimeOf(t) /\ new.id = frame[t].id /\ new.age = age[t]
      /\ \A a \in attempts : a.id \in Nat /\ a.age \in Nat
  BY DEF TypeInv
<1> HIDE DEF new
<1>6. AgesBounded'
  BY <1>1, <1>4, <1>5 DEF AgesBounded
<1>7. HolderIsNewest'
  <2> SUFFICES ASSUME NEW u \in Threads, pc'[u] \in {"calibrating", "reconstructing"}
               PROVE  /\ frame[u].id = last[RuntimeOf(u)]
                      /\ \A a \in attempts' : a.runtime = RuntimeOf(u) =>
                             /\ a.id < frame[u].id
                             /\ pc'[u] = "reconstructing" => a.age <= age[u]
    BY <1>1, <1>2 DEF HolderIsNewest
  <2>1. u # t /\ pc'[u] = pc[u]
    BY <1>3
  <2>2. RuntimeOf(u) # new.runtime
    BY <1>1, <1>5, <2>1 DEF Exclusive
  <2> QED BY <1>1, <2>1, <2>2 DEF HolderIsNewest
<1>8. AgesInOrder'
  <2> SUFFICES ASSUME NEW a \in attempts', NEW b \in attempts',
                      a.runtime = b.runtime, a.id < b.id
               PROVE  a.age <= b.age
    BY DEF AgesInOrder
  <2>1. CASE a \in attempts /\ b \in attempts
    BY <2>1 DEF AgesInOrder
  <2>2. CASE a \in attempts /\ b = new
    BY <1>4, <1>5, <2>2
  <2>3. CASE a = new /\ b \in attempts
    <3>1. b.id < a.id /\ a.id \in Nat /\ b.id \in Nat
      BY <1>4, <1>5, <2>3
    <3> QED BY <3>1
  <2>4. CASE a = new /\ b = new
    BY <1>4, <1>5, <2>4
  <2> QED BY <1>1, <2>1, <2>2, <2>3, <2>4
<1> QED BY <1>6, <1>7, <1>8

LEMMA StepAge == TypeInv /\ OrderInv /\ AgeInv /\ Next => AgeInv'
<1> SUFFICES ASSUME TypeInv, OrderInv, AgeInv, Next, Guarded
             PROVE  AgesBounded' /\ HolderIsNewest' /\ AgesInOrder'
  BY DeploymentStays DEF AgeInv
<1>1. /\ AgesBounded /\ HolderIsNewest /\ AgesInOrder
      /\ Exclusive /\ AssignedIsNewer /\ replacements \in Nat
  BY DEF AgeInv, OrderInv, TypeInv
<1> DEFINE NobodyComes == \A u \in Threads :
               pc'[u] \in {"calibrating", "reconstructing"} => pc'[u] = pc[u]
           Quiet == UNCHANGED <<attempts, last, age>> /\ replacements' >= replacements
<1>2. ASSUME Quiet, NobodyComes PROVE AgesBounded' /\ HolderIsNewest' /\ AgesInOrder'
  <2>1. \A u \in Threads : pc'[u] \in {"calibrating", "reconstructing"} =>
            pc'[u] = pc[u] /\ frame'[u] = frame[u]
    BY <1>2, FrameStays
  <2> QED BY <1>1, <1>2, <2>1, QuietAge
<1>3. ASSUME NEW t \in Threads, Enter(t) \/ Acquire(t) PROVE Quiet /\ NobodyComes
  BY <1>1, <1>3, PlaceOf DEF Enter, Acquire
<1>4. ASSUME NEW t \in Threads, AcquireRaises(t) \/ Validate(t) PROVE Quiet /\ NobodyComes
  <2>1. NobodyComes
    <3>1. CASE Leave(t)
      BY <3>1, LeaveFacts
    <3>2. CASE Goto(t, "assigning")
      BY <3>2, GotoFacts DEF Places
    <3> QED BY <1>4, <3>1, <3>2 DEF AcquireRaises, Validate
  <2> QED BY <1>1, <1>4, <2>1 DEF AcquireRaises, Validate
<1>5. ASSUME NEW t \in Threads, Snapshot(t)
      PROVE  AgesBounded' /\ HolderIsNewest' /\ AgesInOrder'
  <2>1. CASE Leave(t) /\ UNCHANGED <<applied, age>>
    <3>1. NobodyComes
      BY <2>1, LeaveFacts
    <3>2. Quiet
      BY <1>1, <1>5, <2>1 DEF Snapshot
    <3> QED BY <1>2, <3>1, <3>2
  <2>2. CASE Goto(t, "reconstructing") /\ age' = [age EXCEPT ![t] = replacements]
    BY <1>1, <1>5, <2>2, SnapshotAge
  <2> QED BY <1>5, <2>1, <2>2, SnapshotCases
<1>6. ASSUME BeginReplacement \/ EndReplacement PROVE Quiet /\ NobodyComes
  BY <1>1, <1>6 DEF BeginReplacement, EndReplacement
<1> HIDE DEF NobodyComes, Quiet
<1>7. ASSUME NEW t \in Threads, Assign(t) \/ Reconstruct(t)
      PROVE  AgesBounded' /\ HolderIsNewest' /\ AgesInOrder'
  BY <1>1, <1>7, AssignAge, ReconstructAge
<1> QED BY <1>2, <1>3, <1>4, <1>5, <1>6, <1>7 DEF Next
-----------------------------------------------------------------------------
(* SharedInv is inductive.                                                 *)
LEMMA InvariantHolds == Spec => []SharedInv
<1>1. SharedInv /\ [Next]_vars => SharedInv'
  <2> SUFFICES ASSUME SharedInv, [Next]_vars PROVE SharedInv'
    OBVIOUS
  <2>1. CASE Next
    BY <2>1, StepType, StepCalibration, StepOrder, StepStream, StepAge DEF SharedInv
  <2>2. CASE UNCHANGED vars
    <3>1. /\ TypeInv' /\ CalibrationInv'
      BY <2>2 DEF SharedInv, vars, TypeInv, CalibrationInv, SnapshotCovers, AttemptsTold
    <3>2. \A t \in Threads : RuntimeOf(t)' = RuntimeOf(t)
      BY <2>2 DEF vars, RuntimeOf
    <3>3. Guarded' = Guarded /\ OneStream' = OneStream
      BY <2>2 DEF vars, Guarded, OneStream
    <3>4. OrderInv'
      BY <2>2, <3>2, <3>3 DEF SharedInv, vars, OrderInv, FramesNumbered, LockHeld,
         Exclusive, AssignedIsNewer, ConsumedUpToLast, Increasing
    <3>5. StreamInv'
      BY <2>2, <3>2, <3>3 DEF SharedInv, vars, StreamInv, StreamAhead
    <3>6. AgeInv'
      BY <2>2, <3>2, <3>3 DEF SharedInv, vars, AgeInv, AgesBounded, HolderIsNewest,
         AgesInOrder
    <3> QED BY <3>1, <3>4, <3>5, <3>6 DEF SharedInv
  <2> QED BY <2>1, <2>2
<1> QED BY InitInv, <1>1, PTL DEF Spec

(* A runtime under an external lock, or with a stream and a caller of its  *)
(* own, consumes frames in order and none twice.                           *)
THEOREM GuardedRuntimesConsumeInOrder == Spec => []ConsumedInOrder
  BY InvariantHolds, InvGivesProperties, PTL

(* A guarded runtime that serves one stream refuses none of its frames.    *)
THEOREM GuardedRuntimesRefuseNothing == Spec => []SoundFramesPass
  BY InvariantHolds, InvGivesProperties, PTL

(* Reconstructions had a calibration valid at the end of the capture,      *)
(* whatever is done to the file and however runtimes are shared.           *)
THEOREM ReconstructionsCalibrated == Spec => []CalibrationCoversFrame
  BY InvariantHolds, InvGivesProperties, PTL

(* A guarded runtime never goes back to an older calibration, whenever the *)
(* file is replaced and however its callers interleave.                    *)
THEOREM CalibrationsKeepOrder == Spec => []CalibrationsInOrder
  BY InvariantHolds, InvGivesProperties, PTL

-----------------------------------------------------------------------------
(* The mapping to SerialRuntime: what a runtime that no two threads are in *)
(* shows of the thread in it.                                              *)
SeekingPlaces == {"acquiring", "validating", "assigning"}
PhaseAt(place) ==
    IF place = "idle" THEN "idle"
    ELSE IF place \in SeekingPlaces THEN "seeking" ELSE "holding"
RetriesAt(place, n) == IF place = "idle" THEN 0 ELSE n

Alone(t) == \A u \in Threads : (pc[u] # "idle" /\ RuntimeOf(u) = RuntimeOf(t)) => u = t
AloneShows ==
    \A t \in Threads : Alone(t) =>
        /\ Phase(RuntimeOf(t)) = PhaseAt(pc[t])
        /\ Retries(RuntimeOf(t)) = RetriesAt(pc[t], attempt[t])

LEMMA AloneIsShown == AloneShows
<1> SUFFICES ASSUME NEW t \in Threads, Alone(t)
             PROVE  /\ Phase(RuntimeOf(t)) = PhaseAt(pc[t])
                    /\ Retries(RuntimeOf(t)) = RetriesAt(pc[t], attempt[t])
  BY DEF AloneShows
<1> DEFINE r == RuntimeOf(t)
<1>1. CASE pc[t] = "idle"
  <2>1. Inside(r) = {}
    BY <1>1 DEF Inside, Alone
  <2> QED BY <1>1, <2>1 DEF Phase, Retries, PhaseAt, RetriesAt
<1>2. CASE pc[t] # "idle"
  <2>1. Inside(r) = {t}
    BY <1>2 DEF Inside, Alone
  <2>2. Caller(r) = t /\ Inside(r) # {}
    BY <2>1 DEF Caller
  <2> QED BY <1>2, <2>2 DEF Phase, Retries, PhaseAt, RetriesAt, SeekingPlaces
<1> QED BY <1>1, <1>2

(* A runtime shows nothing of the steps of threads of other runtimes.      *)
LEMMA OthersUnseen ==
    ASSUME TypeInv, Next, NEW r,
           \A u \in Threads : RuntimeOf(u) = r => pc'[u] = pc[u] /\ attempt'[u] = attempt[u]
    PROVE  Phase(r)' = Phase(r) /\ Retries(r)' = Retries(r)
<1>1. \A u \in Threads : RuntimeOf(u)' = RuntimeOf(u)
  BY DeploymentStays
<1>2. Inside(r)' = Inside(r)
  BY <1>1 DEF Inside
<1>3. Caller(r)' = Caller(r)
  BY <1>2 DEF Caller
<1>4. CASE Inside(r) = {}
  BY <1>2, <1>4 DEF Phase, Retries
<1>5. CASE Inside(r) # {}
  <2>1. Caller(r) \in Inside(r)
    BY <1>5 DEF Caller
  <2>2. pc'[Caller(r)] = pc[Caller(r)] /\ attempt'[Caller(r)] = attempt[Caller(r)]
    BY <2>1 DEF Inside
  <2> QED BY <1>2, <1>3, <1>5, <2>2 DEF Phase, Retries
<1> QED BY <1>4, <1>5

Phases == [r \in Runtimes |-> Phase(r)]
RetriesOf == [r \in Runtimes |-> Retries(r)]

(* What a step of one thread, in or into its runtime, changes of both.     *)
OnlyMoves(t) ==
    /\ \A u \in Threads : u # t => pc'[u] = pc[u] /\ attempt'[u] = attempt[u]
    /\ pc[t] # "idle" \/ pc'[t] # "idle"

LEMMA TurnOf ==
    ASSUME TypeInv, Next, Exclusive, Exclusive', NEW t \in Threads, OnlyMoves(t)
    PROVE  /\ RuntimeOf(t) \in Runtimes
           /\ Phases[RuntimeOf(t)] = PhaseAt(pc[t])
           /\ RetriesOf[RuntimeOf(t)] = RetriesAt(pc[t], attempt[t])
           /\ Phases' = [Phases EXCEPT ![RuntimeOf(t)] = PhaseAt(pc'[t])]
           /\ RetriesOf' = [RetriesOf EXCEPT ![RuntimeOf(t)] = RetriesAt(pc'[t], attempt'[t])]
<1> DEFINE r == RuntimeOf(t)
<1>1. r \in Runtimes /\ \A u \in Threads : RuntimeOf(u)' = RuntimeOf(u)
  BY RuntimeIsOne, DeploymentStays
<1>2. Alone(t) /\ Alone(t)'
  <2>1. \A u \in Threads : pc[u] # "idle" /\ RuntimeOf(u) = RuntimeOf(t) => u = t
    BY <1>1 DEF Exclusive, OnlyMoves
  <2>2. \A u \in Threads : pc'[u] # "idle" /\ RuntimeOf(u) = RuntimeOf(t) => u = t
    BY <2>1 DEF OnlyMoves
  <2> QED BY <1>1, <2>1, <2>2 DEF Alone
<1>3. AloneShows'
  BY AloneIsShown, PTL
<1>4. Phase(r) = PhaseAt(pc[t]) /\ Retries(r) = RetriesAt(pc[t], attempt[t])
  BY <1>2, AloneIsShown DEF AloneShows
<1>5. Phase(r)' = PhaseAt(pc'[t]) /\ Retries(r)' = RetriesAt(pc'[t], attempt'[t])
  <2>1. /\ Phase(RuntimeOf(t))' = PhaseAt(pc'[t])
        /\ Retries(RuntimeOf(t))' = RetriesAt(pc'[t], attempt'[t])
    BY <1>2, <1>3 DEF AloneShows, PhaseAt, RetriesAt
  <2> QED BY <2>1
<1>6. \A s \in Runtimes : s # r => Phase(s)' = Phase(s) /\ Retries(s)' = Retries(s)
  <2> SUFFICES ASSUME NEW s \in Runtimes, s # r
               PROVE  Phase(s)' = Phase(s) /\ Retries(s)' = Retries(s)
    OBVIOUS
  <2>1. \A u \in Threads : RuntimeOf(u) = s => pc'[u] = pc[u] /\ attempt'[u] = attempt[u]
    BY DEF OnlyMoves
  <2> QED BY <2>1, OthersUnseen
<1>7. /\ Phases' = [s \in Runtimes |-> Phase(s)']
      /\ RetriesOf' = [s \in Runtimes |-> Retries(s)']
  BY DEF Phases, RetriesOf, Runtimes
<1>8. Phases' = [Phases EXCEPT ![r] = PhaseAt(pc'[t])]
  BY <1>1, <1>5, <1>6, <1>7 DEF Phases
<1>9. RetriesOf' = [RetriesOf EXCEPT ![r] = RetriesAt(pc'[t], attempt'[t])]
  BY <1>1, <1>5, <1>6, <1>7 DEF RetriesOf
<1> QED BY <1>1, <1>4, <1>8, <1>9 DEF Phases, RetriesOf

-----------------------------------------------------------------------------
(* What the mapping needs besides SharedInv: the last id of a runtime is   *)
(* that of the frame it consumed last, so that None stands for none.       *)
AttemptsCounted == attempt \in [Threads -> Nat]
FramesDelivered ==
    \A t \in Threads : pc[t] \in {"validating", "assigning"} => frame[t].id \in 1..MaxFrames
LastTaken ==
    \A r \in Runtimes :
        IF consumed[r] = <<>> THEN last[r] = None
        ELSE last[r] = consumed[r][Len(consumed[r])] /\ last[r] > 0
TakenInv == AttemptsCounted /\ FramesDelivered /\ LastTaken

LEMMA InitTaken == Init => TakenInv
<1> SUFFICES ASSUME Init PROVE TakenInv
  OBVIOUS
<1>1. AttemptsCounted
  BY DEF Init, AttemptsCounted
<1>2. FramesDelivered
  BY DEF Init, FramesDelivered
<1>3. LastTaken
  BY DEF Init, LastTaken
<1> QED BY <1>1, <1>2, <1>3 DEF TakenInv

LEMMA StepCounted == AttemptsCounted /\ Next => AttemptsCounted'
<1> SUFFICES ASSUME AttemptsCounted, Next PROVE AttemptsCounted'
  OBVIOUS
<1>1. ASSUME NEW t \in Threads, Enter(t) PROVE AttemptsCounted'
  BY <1>1 DEF Enter, AttemptsCounted
<1>2. ASSUME NEW t \in Threads, Reconstruct(t) PROVE AttemptsCounted'
  BY <1>2 DEF Reconstruct, AttemptsCounted
<1>3. ASSUME NEW t \in Threads,
             Acquire(t) \/ AcquireRaises(t) \/ Validate(t) \/ Assign(t) \/ Snapshot(t)
      PROVE  AttemptsCounted'
  BY <1>3 DEF Acquire, AcquireRaises, Validate, Assign, Snapshot, AttemptsCounted
<1>4. CASE BeginReplacement \/ EndReplacement
  BY <1>4 DEF BeginReplacement, EndReplacement, AttemptsCounted
<1> QED BY <1>1, <1>2, <1>3, <1>4 DEF Next

LEMMA StepDelivered == TypeInv /\ FramesDelivered /\ Next => FramesDelivered'
<1> SUFFICES ASSUME TypeInv, FramesDelivered, Next PROVE FramesDelivered'
  OBVIOUS
<1>1. ASSUME NEW t \in Threads, Acquire(t) PROVE FramesDelivered'
  <2>1. delivered[stream[t]] \in Nat /\ delivered[stream[t]] < MaxFrames
    BY <1>1 DEF Acquire, TypeInv
  <2>2. delivered[stream[t]] + 1 \in 1..MaxFrames
    BY <2>1, SharedAssumption
  <2>3. \A u \in Threads : frame'[u] = IF u = t THEN [id |-> delivered[stream[t]] + 1, end |-> now + 1]
                                       ELSE frame[u]
    BY <1>1 DEF Acquire, TypeInv
  <2>4. \A u \in Threads : u # t => pc'[u] = pc[u]
    BY <1>1, PlaceOf
  <2> QED BY <2>2, <2>3, <2>4 DEF FramesDelivered
<1>2. ASSUME NEW t \in Threads,
             Enter(t) \/ AcquireRaises(t) \/ Assign(t) \/ Snapshot(t) \/ Reconstruct(t)
      PROVE  FramesDelivered'
  <2>1. frame' = frame
    BY <1>2 DEF Enter, AcquireRaises, Assign, Snapshot, Reconstruct
  <2>2. \A u \in Threads : pc'[u] \in {"validating", "assigning"} => pc'[u] = pc[u]
    BY <1>2, PlaceOf
  <2> QED BY <2>1, <2>2 DEF FramesDelivered
<1>3. ASSUME NEW t \in Threads, Validate(t) PROVE FramesDelivered'
  <2>1. frame' = frame /\ pc[t] = "validating"
    BY <1>3 DEF Validate
  <2>2. \A u \in Threads : u # t => pc'[u] = pc[u]
    BY <1>3, PlaceOf
  <2> QED BY <2>1, <2>2 DEF FramesDelivered
<1>4. CASE BeginReplacement \/ EndReplacement
  BY <1>4 DEF BeginReplacement, EndReplacement, FramesDelivered
<1> QED BY <1>1, <1>2, <1>3, <1>4 DEF Next

LEMMA StepLast == TypeInv /\ FramesDelivered /\ LastTaken /\ Next => LastTaken'
<1> SUFFICES ASSUME TypeInv, FramesDelivered, LastTaken, Next PROVE LastTaken'
  OBVIOUS
<1>1. ASSUME NEW t \in Threads, Assign(t) PROVE LastTaken'
  <2> DEFINE q == RuntimeOf(t)
  <2> DEFINE id == frame[t].id
  <2>1. q \in Runtimes /\ id \in 1..MaxFrames /\ id \in Nat /\ id > 0
    BY <1>1, RuntimeIsOne, SharedAssumption DEF FramesDelivered, Assign
  <2>2. /\ consumed[q] \in Seq(Nat)
        /\ consumed' = [consumed EXCEPT ![q] = Append(consumed[q], id)]
        /\ last' = [last EXCEPT ![q] = id]
        /\ consumed \in [Runtimes -> Seq(Nat)] /\ last \in [Runtimes -> Nat]
    BY <1>1, <2>1 DEF Assign, TypeInv
  <2> HIDE DEF q, id
  <2>3. consumed'[q] = Append(consumed[q], id) /\ last'[q] = id
    BY <2>1, <2>2
  <2>4. consumed'[q] # <<>> /\ consumed'[q][Len(consumed'[q])] = id
    <3>1. \A s \in Seq(Nat), n \in Nat : Append(s, n) # <<>> /\ Append(s, n)[Len(Append(s, n))] = n
      OBVIOUS
    <3>2. consumed[q] \in Seq(Nat) /\ id \in Nat
      BY <2>1, <2>2
    <3>3. Append(consumed[q], id) # <<>> /\ Append(consumed[q], id)[Len(Append(consumed[q], id))] = id
      BY <3>1, <3>2
    <3> QED BY <2>3, <3>3
  <2>5. \A r \in Runtimes : r # q => consumed'[r] = consumed[r] /\ last'[r] = last[r]
    BY <2>1, <2>2
  <2> QED BY <2>1, <2>3, <2>4, <2>5 DEF LastTaken
<1>2. (\A t \in Threads : ~Assign(t)) => consumed' = consumed /\ last' = last
  BY DEF Next, Enter, Acquire, AcquireRaises, Validate, Snapshot, Reconstruct,
         BeginReplacement, EndReplacement
<1> QED BY <1>1, <1>2 DEF LastTaken

LEMMA TakenHolds == Spec => []TakenInv
<1>1. SharedInv /\ TakenInv /\ [Next]_vars => TakenInv'
  <2> SUFFICES ASSUME SharedInv, TakenInv, [Next]_vars PROVE TakenInv'
    OBVIOUS
  <2>1. CASE Next
    BY <2>1, StepCounted, StepDelivered, StepLast DEF SharedInv, TakenInv
  <2>2. CASE UNCHANGED vars
    BY <2>2 DEF vars, TakenInv, AttemptsCounted, FramesDelivered, LastTaken
  <2> QED BY <2>1, <2>2
<1> QED BY InitTaken, InvariantHolds, <1>1, PTL DEF Spec

(* An id is newer than what the runtime took unless it regresses.          *)
LEMMA NewerIs ==
    ASSUME TypeInv, LastTaken, NEW r \in Runtimes, NEW id \in Nat
    PROVE  Serial!Newer(id, consumed[r]) <=> ~Regresses(last[r], id)
<1>1. last[r] \in Nat
  BY DEF TypeInv
<1> QED BY <1>1 DEF LastTaken, Serial!Newer, Regresses, None

-----------------------------------------------------------------------------
(* Each step of a thread is its runtime's turn, or is unseen.              *)
Held == TypeInv /\ TakenInv /\ Exclusive

LEMMA TurnUnseen ==
    ASSUME Held, Exclusive', Next, NEW t \in Threads, OnlyMoves(t),
           PhaseAt(pc'[t]) = PhaseAt(pc[t]), attempt'[t] = attempt[t],
           pc[t] # "idle", pc'[t] # "idle", consumed' = consumed, refused' = refused
    PROVE  UNCHANGED Serial!serial
<1> DEFINE r == RuntimeOf(t)
<1>1. /\ r \in Runtimes
      /\ Phases[r] = PhaseAt(pc[t]) /\ RetriesOf[r] = RetriesAt(pc[t], attempt[t])
      /\ Phases' = [Phases EXCEPT ![r] = PhaseAt(pc'[t])]
      /\ RetriesOf' = [RetriesOf EXCEPT ![r] = RetriesAt(pc'[t], attempt'[t])]
  BY TurnOf DEF Held
<1>2. Phases[r] = PhaseAt(pc'[t]) /\ RetriesOf[r] = RetriesAt(pc'[t], attempt'[t])
  BY <1>1 DEF RetriesAt
<1> HIDE DEF r
<1>3. Phases' = Phases
  BY <1>1, <1>2 DEF Phases
<1>4. RetriesOf' = RetriesOf
  BY <1>1, <1>2 DEF RetriesOf
<1>5. Guarded' = Guarded
  BY DeploymentStays DEF Held
<1> QED BY <1>3, <1>4, <1>5 DEF Serial!serial, Phases, RetriesOf

(* A thread that leaves ends its runtime's call.                           *)
LEMMA LeaveMoves ==
    ASSUME TypeInv, NEW t \in Threads, Leave(t), pc[t] # "idle", attempt' = attempt
    PROVE  OnlyMoves(t) /\ pc'[t] = "idle"
  BY LeaveFacts DEF OnlyMoves

LEMMA LeaveStops ==
    ASSUME Held, Exclusive', Next, NEW t \in Threads, Leave(t),
           pc[t] # "idle", attempt' = attempt
    PROVE  Serial!Stop(RuntimeOf(t), PhaseAt(pc[t]))
<1>1. OnlyMoves(t) /\ pc'[t] = "idle"
  BY LeaveMoves DEF Held
<1>2. /\ Phases[RuntimeOf(t)] = PhaseAt(pc[t])
      /\ Phases' = [Phases EXCEPT ![RuntimeOf(t)] = PhaseAt(pc'[t])]
      /\ RetriesOf' = [RetriesOf EXCEPT ![RuntimeOf(t)] = RetriesAt(pc'[t], attempt'[t])]
  BY <1>1, TurnOf DEF Held
<1>3. /\ Phases' = [Phases EXCEPT ![RuntimeOf(t)] = "idle"]
      /\ RetriesOf' = [RetriesOf EXCEPT ![RuntimeOf(t)] = 0]
  BY <1>1, <1>2 DEF PhaseAt, RetriesAt
<1> QED BY <1>2, <1>3 DEF Serial!Stop, Serial!Move, Phases, RetriesOf

LEMMA LeaveEnds ==
    ASSUME Held, Exclusive', Next, NEW t \in Threads, Leave(t),
           pc[t] # "idle", attempt' = attempt, consumed' = consumed, refused' = refused
    PROVE  Serial!End(RuntimeOf(t))
<1>1. Serial!Stop(RuntimeOf(t), PhaseAt(pc[t]))
  BY LeaveStops
<1>2. PhaseAt(pc[t]) \in {"seeking", "holding"}
  BY DEF PhaseAt
<1> QED BY <1>1, <1>2 DEF Serial!End

LEMMA EnterBegins ==
    ASSUME Held, Exclusive', Next, NEW t \in Threads, Enter(t)
    PROVE  Serial!Begin(RuntimeOf(t))
<1>1. /\ pc[t] = "idle" /\ pc'[t] = "acquiring" /\ attempt'[t] = 0
      /\ \A u \in Threads : u # t => pc'[u] = pc[u] /\ attempt'[u] = attempt[u]
      /\ consumed' = consumed /\ refused' = refused
  BY PlaceOf DEF Held, TakenInv, AttemptsCounted, Enter
<1>2. /\ RuntimeOf(t) \in Runtimes
      /\ Phases[RuntimeOf(t)] = PhaseAt(pc[t])
      /\ RetriesOf[RuntimeOf(t)] = RetriesAt(pc[t], attempt[t])
      /\ Phases' = [Phases EXCEPT ![RuntimeOf(t)] = PhaseAt(pc'[t])]
      /\ RetriesOf' = [RetriesOf EXCEPT ![RuntimeOf(t)] = RetriesAt(pc'[t], attempt'[t])]
  BY <1>1, TurnOf DEF Held, OnlyMoves
<1>3. /\ Phases[RuntimeOf(t)] = "idle"
      /\ Phases' = [Phases EXCEPT ![RuntimeOf(t)] = "seeking"]
  BY <1>1, <1>2 DEF PhaseAt, SeekingPlaces
<1>4. RetriesOf[RuntimeOf(t)] = 0 /\ RetriesOf' = [RetriesOf EXCEPT ![RuntimeOf(t)] = 0]
  BY <1>1, <1>2 DEF RetriesAt
<1>5. RetriesOf' = RetriesOf
  BY <1>2, <1>4 DEF RetriesOf
<1> QED BY <1>1, <1>3, <1>5 DEF Serial!Begin, Serial!Move, Phases, RetriesOf

LEMMA ValidateTurns ==
    ASSUME Held, Exclusive', Next, NEW t \in Threads, Validate(t)
    PROVE  UNCHANGED Serial!serial \/ Serial!Turn(RuntimeOf(t))
<1>1. pc[t] = "validating" /\ attempt' = attempt /\ consumed' = consumed
  BY DEF Validate
<1>2. CASE Regresses(last[RuntimeOf(t)], frame[t].id)
  <2> DEFINE id == frame[t].id
  <2>1. Leave(t) /\ refused' = refused \cup {<<t, id>>}
    BY <1>2 DEF Validate
  <2>2. Serial!Stop(RuntimeOf(t), "seeking")
    <3>1. PhaseAt(pc[t]) = "seeking"
      BY <1>1 DEF PhaseAt, SeekingPlaces
    <3> QED BY <1>1, <2>1, <3>1, LeaveStops
  <2>3. id \in 1..MaxFrames
    BY <1>1 DEF Held, TakenInv, FramesDelivered
  <2>4. ~Serial!Newer(id, consumed[RuntimeOf(t)])
    <3>1. id \in Nat /\ RuntimeOf(t) \in Runtimes
      BY <2>3, SharedAssumption, RuntimeIsOne DEF Held
    <3> HIDE DEF id
    <3>2. Regresses(last[RuntimeOf(t)], id)
      BY <1>2 DEF id
    <3> QED BY <3>1, <3>2, NewerIs DEF Held, TakenInv
  <2> HIDE DEF id
  <2>5. Serial!Refuse(RuntimeOf(t), t, id)
    BY <1>1, <2>1, <2>2, <2>4 DEF Serial!Refuse
  <2> QED BY <2>3, <2>5 DEF Serial!Turn
<1>3. CASE ~Regresses(last[RuntimeOf(t)], frame[t].id)
  <2>1. Goto(t, "assigning") /\ refused' = refused
    BY <1>3 DEF Validate
  <2>2. \A u \in Threads : pc'[u] = IF u = t THEN "assigning" ELSE pc[u]
    BY <2>1, GotoFacts DEF Held, Places
  <2>3. OnlyMoves(t)
    BY <1>1, <2>2 DEF OnlyMoves
  <2>4. PhaseAt(pc'[t]) = PhaseAt(pc[t]) /\ pc[t] # "idle" /\ pc'[t] # "idle"
    BY <1>1, <2>2 DEF PhaseAt, SeekingPlaces
  <2> QED BY <1>1, <2>1, <2>3, <2>4, TurnUnseen
<1> QED BY <1>2, <1>3

LEMMA AssignTakes ==
    ASSUME Held, Exclusive', AssignedIsNewer, Next, NEW t \in Threads, Assign(t)
    PROVE  Serial!Turn(RuntimeOf(t))
<1> DEFINE id == frame[t].id
<1>1. /\ pc[t] = "assigning" /\ attempt' = attempt /\ refused' = refused
      /\ consumed' = [consumed EXCEPT ![RuntimeOf(t)] = Append(consumed[RuntimeOf(t)], id)]
  BY DEF Assign
<1>2. \A u \in Threads : pc'[u] = IF u = t THEN "calibrating" ELSE pc[u]
  BY PlaceOf DEF Held
<1>3. id \in 1..MaxFrames /\ id \in Nat /\ id > last[RuntimeOf(t)]
  BY <1>1, SharedAssumption DEF Held, TakenInv, FramesDelivered, AssignedIsNewer
<1> HIDE DEF id
<1>4. OnlyMoves(t)
  BY <1>1, <1>2 DEF OnlyMoves
<1>5. /\ RuntimeOf(t) \in Runtimes
      /\ Phases[RuntimeOf(t)] = PhaseAt(pc[t])
      /\ RetriesOf[RuntimeOf(t)] = RetriesAt(pc[t], attempt[t])
      /\ Phases' = [Phases EXCEPT ![RuntimeOf(t)] = PhaseAt(pc'[t])]
      /\ RetriesOf' = [RetriesOf EXCEPT ![RuntimeOf(t)] = RetriesAt(pc'[t], attempt'[t])]
  BY <1>4, TurnOf DEF Held
<1>6. Phases[RuntimeOf(t)] = "seeking" /\ Phases' = [Phases EXCEPT ![RuntimeOf(t)] = "holding"]
  BY <1>1, <1>2, <1>5 DEF PhaseAt, SeekingPlaces
<1>7. RetriesOf' = RetriesOf
  <2>1. RetriesAt(pc'[t], attempt'[t]) = RetriesOf[RuntimeOf(t)]
    BY <1>1, <1>2, <1>5 DEF RetriesAt
  <2> QED BY <1>5, <2>1 DEF RetriesOf
<1>8. Serial!Newer(id, consumed[RuntimeOf(t)])
  <2>1. ~Regresses(last[RuntimeOf(t)], id)
    BY <1>3, <1>5 DEF Held, TypeInv, Regresses
  <2> QED BY <1>3, <1>5, <2>1, NewerIs DEF Held, TakenInv
<1>9. Serial!Take(RuntimeOf(t), id)
  BY <1>1, <1>6, <1>7, <1>8 DEF Serial!Take, Serial!Move, Phases, RetriesOf
<1> QED BY <1>3, <1>9 DEF Serial!Turn

LEMMA ReconstructTurns ==
    ASSUME Held, Exclusive', Next, NEW t \in Threads, Reconstruct(t)
    PROVE  Serial!Turn(RuntimeOf(t))
<1>1. pc[t] = "reconstructing" /\ consumed' = consumed /\ refused' = refused
  BY DEF Reconstruct
<1>2. CASE Leave(t) /\ attempt' = attempt
  BY <1>1, <1>2, LeaveEnds DEF Serial!Turn
<1>3. CASE /\ attempt[t] < MaxReacquisitions
           /\ attempt' = [attempt EXCEPT ![t] = @ + 1]
           /\ Goto(t, "acquiring")
  <2>1. \A u \in Threads : pc'[u] = IF u = t THEN "acquiring" ELSE pc[u]
    BY <1>3, GotoFacts DEF Held, Places
  <2>2. /\ \A u \in Threads : u # t => attempt'[u] = attempt[u]
        /\ attempt'[t] = attempt[t] + 1 /\ attempt[t] \in Nat
    BY <1>3 DEF Held, TakenInv, AttemptsCounted
  <2>3. OnlyMoves(t)
    BY <1>1, <2>1, <2>2 DEF OnlyMoves
  <2>4. /\ RuntimeOf(t) \in Runtimes
        /\ Phases[RuntimeOf(t)] = PhaseAt(pc[t])
        /\ RetriesOf[RuntimeOf(t)] = RetriesAt(pc[t], attempt[t])
        /\ Phases' = [Phases EXCEPT ![RuntimeOf(t)] = PhaseAt(pc'[t])]
        /\ RetriesOf' = [RetriesOf EXCEPT ![RuntimeOf(t)] = RetriesAt(pc'[t], attempt'[t])]
    BY <2>3, TurnOf DEF Held
  <2>5. Phases[RuntimeOf(t)] = "holding" /\ Phases' = [Phases EXCEPT ![RuntimeOf(t)] = "seeking"]
    BY <1>1, <2>1, <2>4 DEF PhaseAt, SeekingPlaces
  <2>6. /\ RetriesOf[RuntimeOf(t)] = attempt[t]
        /\ RetriesOf' = [RetriesOf EXCEPT ![RuntimeOf(t)] = attempt[t] + 1]
    BY <1>1, <2>1, <2>2, <2>4 DEF RetriesAt
  <2>7. RetriesOf' = [RetriesOf EXCEPT ![RuntimeOf(t)] = RetriesOf[RuntimeOf(t)] + 1]
    BY <2>6
  <2>8. Serial!Again(RuntimeOf(t))
    BY <1>1, <1>3, <2>5, <2>6, <2>7 DEF Serial!Again, Serial!Move, Phases, RetriesOf
  <2> QED BY <2>8 DEF Serial!Turn
<1> QED BY <1>2, <1>3 DEF Reconstruct

LEMMA SnapshotTurns ==
    ASSUME Held, Exclusive', Next, NEW t \in Threads, Snapshot(t)
    PROVE  UNCHANGED Serial!serial \/ Serial!Turn(RuntimeOf(t))
<1>1. /\ pc[t] = "calibrating" /\ attempt' = attempt
      /\ consumed' = consumed /\ refused' = refused
  BY DEF Snapshot
<1>2. CASE Leave(t)
  BY <1>1, <1>2, LeaveEnds DEF Serial!Turn
<1>3. CASE Goto(t, "reconstructing")
  <2>1. \A u \in Threads : pc'[u] = IF u = t THEN "reconstructing" ELSE pc[u]
    BY <1>3, GotoFacts DEF Held, Places
  <2>2. OnlyMoves(t)
    BY <1>1, <2>1 DEF OnlyMoves
  <2>3. PhaseAt(pc'[t]) = PhaseAt(pc[t]) /\ pc[t] # "idle" /\ pc'[t] # "idle"
    BY <1>1, <2>1 DEF PhaseAt, SeekingPlaces
  <2> QED BY <1>1, <2>2, <2>3, TurnUnseen
<1> QED BY <1>2, <1>3, SnapshotCases

LEMMA AcquireUnseen ==
    ASSUME Held, Exclusive', Next, NEW t \in Threads, Acquire(t)
    PROVE  UNCHANGED Serial!serial
<1>1. /\ pc[t] = "acquiring" /\ attempt' = attempt
      /\ consumed' = consumed /\ refused' = refused
  BY DEF Acquire
<1>2. \A u \in Threads : pc'[u] = IF u = t THEN "validating" ELSE pc[u]
  BY PlaceOf DEF Held
<1>3. OnlyMoves(t)
  BY <1>1, <1>2 DEF OnlyMoves
<1>4. PhaseAt(pc'[t]) = PhaseAt(pc[t]) /\ pc[t] # "idle" /\ pc'[t] # "idle"
  BY <1>1, <1>2 DEF PhaseAt, SeekingPlaces
<1> QED BY <1>1, <1>3, <1>4, TurnUnseen

LEMMA RaisingEnds ==
    ASSUME Held, Exclusive', Next, NEW t \in Threads, AcquireRaises(t)
    PROVE  Serial!Turn(RuntimeOf(t))
<1>1. /\ pc[t] = "acquiring" /\ attempt' = attempt /\ Leave(t)
      /\ consumed' = consumed /\ refused' = refused
  BY DEF AcquireRaises
<1> QED BY <1>1, LeaveEnds DEF Serial!Turn

(* Nothing else is seen.                                                   *)
LEMMA SameSeen ==
    ASSUME pc' = pc, attempt' = attempt, consumed' = consumed, refused' = refused,
           guard' = guard, stream' = stream
    PROVE  UNCHANGED Serial!serial
<1>1. Guarded' = Guarded
  BY DEF Guarded
<1>2. \A u \in Threads : RuntimeOf(u)' = RuntimeOf(u)
  BY DEF RuntimeOf
<1>3. \A r : Inside(r)' = Inside(r)
  BY <1>2 DEF Inside
<1>4. \A r : Caller(r)' = Caller(r)
  BY <1>3 DEF Caller
<1>5. \A r : Phase(r)' = Phase(r) /\ Retries(r)' = Retries(r)
  BY <1>3, <1>4 DEF Phase, Retries
<1> QED BY <1>1, <1>5 DEF Serial!serial, Runtimes

LEMMA SerialStep ==
    SharedInv /\ TakenInv /\ SharedInv' /\ [Next]_vars => [Serial!Next]_(Serial!serial)
<1> SUFFICES ASSUME SharedInv, TakenInv, SharedInv', [Next]_vars
             PROVE  Serial!Next \/ UNCHANGED Serial!serial
  OBVIOUS
<1>1. CASE UNCHANGED vars
  BY <1>1, SameSeen DEF vars
<1>2. CASE BeginReplacement \/ EndReplacement
  BY <1>2, SameSeen DEF BeginReplacement, EndReplacement
<1>3. ASSUME NEW t \in Threads, Next,
             \/ Enter(t) \/ Acquire(t) \/ AcquireRaises(t) \/ Validate(t) \/ Assign(t)
             \/ Snapshot(t) \/ Reconstruct(t)
      PROVE  Serial!Next \/ UNCHANGED Serial!serial
  <2>1. TypeInv /\ Guarded' = Guarded
    BY <1>3, DeploymentStays DEF SharedInv
  <2>2. CASE ~Guarded
    BY <2>1, <2>2 DEF Serial!Next
  <2>3. CASE Guarded
    <3>1. Held /\ Exclusive' /\ AssignedIsNewer
      BY <2>1, <2>3 DEF Held, SharedInv, OrderInv
    <3>2. Serial!Turn(RuntimeOf(t)) \/ UNCHANGED Serial!serial
      <4>1. CASE Enter(t)
        BY <1>3, <3>1, <4>1, EnterBegins DEF Serial!Turn
      <4>2. CASE Acquire(t)
        BY <1>3, <3>1, <4>2, AcquireUnseen
      <4>3. CASE AcquireRaises(t)
        BY <1>3, <3>1, <4>3, RaisingEnds
      <4>4. CASE Validate(t)
        BY <1>3, <3>1, <4>4, ValidateTurns
      <4>5. CASE Assign(t)
        BY <1>3, <3>1, <4>5, AssignTakes
      <4>6. CASE Snapshot(t)
        BY <1>3, <3>1, <4>6, SnapshotTurns
      <4>7. CASE Reconstruct(t)
        BY <1>3, <3>1, <4>7, ReconstructTurns
      <4> QED BY <1>3, <4>1, <4>2, <4>3, <4>4, <4>5, <4>6, <4>7
    <3>3. RuntimeOf(t) \in Runtimes
      BY <2>1, RuntimeIsOne
    <3> QED BY <2>1, <3>2, <3>3 DEF Serial!Next
  <2> QED BY <2>2, <2>3
<1> QED BY <1>1, <1>2, <1>3 DEF Next

LEMMA SerialInit == Init => Serial!Init
<1> SUFFICES ASSUME Init PROVE Serial!Init
  OBVIOUS
<1>1. \A r : Inside(r) = {}
  BY DEF Init, Inside
<1>2. \A r : Phase(r) = "idle" /\ Retries(r) = 0
  BY <1>1 DEF Phase, Retries
<1>3. Guarded \in BOOLEAN
  BY DEF Guarded
<1> QED BY <1>2, <1>3 DEF Init, Serial!Init

(* For any threads, streams and guards: a guarded deployment is one of     *)
(* runtimes that serve one call after another, and that test a frame and   *)
(* remember it in a single step, although run_once takes two.              *)
THEOREM GuardedRuntimesAreSerial == Spec => ImplementsSerial
<1>1. Init => Serial!Init
  BY SerialInit
<1>2. SharedInv /\ TakenInv /\ SharedInv' /\ [Next]_vars => [Serial!Next]_(Serial!serial)
  BY SerialStep
<1> QED BY <1>1, <1>2, InvariantHolds, TakenHolds, PTL DEF Spec, Serial!Spec, ImplementsSerial
=============================================================================
