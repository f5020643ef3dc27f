------------------------ MODULE CaptureReplayProofs ------------------------
(***************************************************************************)
(* NoStaleData and WriteOnceIsAtomic for any directories, replay order and *)
(* number of writes: the order in which write_capture_directory writes its *)
(* files is enough, without any lock between the writer and the reader.    *)
(***************************************************************************)
EXTENDS CaptureReplay, TLAPS

FileState == [version : Nat, whole : BOOLEAN]
Frame == [metadata : Nat, valid : Nat, validated : Nat, timestamps : Nat,
          reconstructed : Nat]
Call == [step : Files, open : BOOLEAN, dir : Directories, timestamps : Stamps]
ReaderSteps == Files \cup {"idle", "validate", "reconstruct", "killed"}
Reader == [step : {"idle"}, frame : {NoFrame}]
          \cup [step : ReaderSteps, dir : Directories, frame : Frame]

(* Types, and no version beyond the last call's.                           *)
TypeInv ==
    /\ version \in Nat
    /\ file \in [Directories -> [Files -> FileState]]
    /\ \A d \in Directories, f \in Files : file[d][f].version <= version
    /\ stamped \subseteq 1..version
    /\ writer = NoWriter \/ writer \in Call
    /\ queue \in Seq(Directories)
    /\ reader \in Reader

Writing == writer # NoWriter
Of(f) == file[writer.dir][f].version

(* A call writes its files in order: what comes before the file it is at   *)
(* is already of its version, and its metadata is not in place yet.        *)
WriterInOrder == Writing =>
    /\ version \notin stamped
    /\ \A d \in Directories : file[d]["metadata"].whole =>
           file[d]["metadata"].version < version
    /\ writer.step # "capture" => Of("capture") = version
    /\ writer.step \in {"timestamps", "metadata"} => Of("valid") = version
    /\ writer.step = "metadata" /\ writer.timestamps = "sound" =>
           Of("timestamps") = version

(* The data beside a published version v is at least as new.               *)
NotOlder(d, v) ==
    /\ file[d]["capture"].version >= v
    /\ file[d]["valid"].version >= v
    /\ v \in stamped => file[d]["timestamps"].version >= v

PublishedNotOlder ==
    \A d \in Directories : file[d]["metadata"].whole =>
        NotOlder(d, file[d]["metadata"].version)

(* The same of the version the reader holds, which is a published one.     *)
ReaderNotOlder ==
    LET frame == reader.frame IN
    /\ Writing => frame.metadata < version
    /\ frame.metadata <= version
    /\ reader.step \in {"capture", "valid", "timestamps", "validate", "reconstruct"} =>
           /\ NotOlder(reader.dir, frame.metadata)
           /\ file[reader.dir]["capture"].version >= frame.validated
    /\ reader.step \in {"metadata", "capture", "valid", "timestamps", "validate"} =>
           frame.validated = 0
    /\ reader.step \in {"metadata", "capture", "valid", "timestamps", "validate",
                        "reconstruct"} => frame.reconstructed = 0

(* The frame in use has nothing older than its metadata.                   *)
FrameFresh ==
    LET frame == reader.frame IN
    /\ frame.valid # 0 => frame.valid >= frame.metadata
    /\ frame.validated # 0 => frame.validated >= frame.metadata
    /\ frame.timestamps # 0 => frame.timestamps >= frame.metadata
    /\ frame.reconstructed # 0 => frame.reconstructed >= frame.validated

SInv ==
    /\ TypeInv
    /\ WriterInOrder
    /\ PublishedNotOlder
    /\ ReaderNotOlder
    /\ FrameFresh

(* SInv strengthens the property of the run.                               *)
LEMMA SInvGivesNoStaleData == SInv => NoStaleData
  BY DEF SInv, PublishedNotOlder, NotOlder, FrameFresh, NoStaleData
-----------------------------------------------------------------------------
(* Initially nothing is published and nothing is held.                     *)
LEMMA InitInv == Init => SInv
<1> SUFFICES ASSUME Init PROVE SInv
  OBVIOUS
<1> USE DEF Init
<1>1. TypeInv
  <2>1. \A d \in Directories, f \in Files : file[d][f] = Missing
    OBVIOUS
  <2>2. file \in [Directories -> [Files -> FileState]]
    BY DEF FileState, Missing
  <2>3. reader \in Reader
    BY DEF Reader
  <2>4. queue \in Seq(Directories)
    BY CaptureAssumption
  <2> QED BY <2>1, <2>2, <2>3, <2>4 DEF TypeInv, Missing
<1>2. WriterInOrder
  BY DEF WriterInOrder, Writing
<1>3. PublishedNotOlder
  BY DEF PublishedNotOlder, Missing, Files
<1>4. ReaderNotOlder
  BY DEF ReaderNotOlder, NoFrame, Writing
<1>5. FrameFresh
  BY DEF FrameFresh, NoFrame
<1> QED BY <1>1, <1>2, <1>3, <1>4, <1>5 DEF SInv

(* A piece of writing changes one file, to the version of the call.        *)
LEMMA PutFacts ==
    ASSUME TypeInv, writer \in Call, NEW w \in BOOLEAN, Put(w)
    PROVE  /\ file' \in [Directories -> [Files -> FileState]]
           /\ \A d \in Directories, f \in Files :
                  file'[d][f] = IF d = writer.dir /\ f = writer.step
                                THEN [version |-> version, whole |-> w]
                                ELSE file[d][f]
           /\ \A d \in Directories, f \in Files :
                  /\ file'[d][f].version \in Nat
                  /\ file'[d][f].version <= version
                  /\ file[d][f].version \in Nat
                  /\ file[d][f].version <= file'[d][f].version
<1>1. writer.dir \in Directories /\ writer.step \in Files
  BY DEF Call
<1>2. [version |-> version, whole |-> w] \in FileState
  BY DEF TypeInv, FileState
<1>3. \A d \in Directories, f \in Files :
          file'[d][f] = IF d = writer.dir /\ f = writer.step
                        THEN [version |-> version, whole |-> w] ELSE file[d][f]
  BY <1>1 DEF Put, TypeInv
<1>4. file' \in [Directories -> [Files -> FileState]]
  BY <1>1, <1>2 DEF Put, TypeInv
<1>5. ASSUME NEW d \in Directories, NEW f \in Files
      PROVE  /\ file'[d][f].version \in Nat
             /\ file'[d][f].version <= version
             /\ file[d][f].version \in Nat
             /\ file[d][f].version <= file'[d][f].version
  <2>1. file[d][f] \in FileState /\ file[d][f].version <= version
    BY DEF TypeInv
  <2>2. version \in Nat
    BY DEF TypeInv
  <2>3. file[d][f].version \in Nat
    BY <2>1 DEF FileState
  <2>4. file'[d][f].version \in {version, file[d][f].version}
    BY <1>3
  <2> QED BY <2>1, <2>2, <2>3, <2>4
<1> QED BY <1>3, <1>4, <1>5

(* What a reader holds stays good while files only get newer.              *)
LEMMA HoldingStays ==
    ASSUME SInv, UNCHANGED reader,
           version \in Nat, version' \in Nat, version' >= version,
           Writing' => (Writing \/ version' > version),
           reader.frame.metadata \in stamped' => reader.frame.metadata \in stamped,
           \A d \in Directories, f \in Files :
               /\ file[d][f].version \in Nat
               /\ file'[d][f].version \in Nat
               /\ file[d][f].version <= file'[d][f].version
    PROVE  ReaderNotOlder' /\ FrameFresh'
<1>1. FrameFresh'
  BY DEF SInv, FrameFresh
<1>2. reader.frame \in Frame
  BY DEF SInv, TypeInv, Reader, NoFrame, Frame
<1> DEFINE m == reader.frame.metadata
<1>3. m \in Nat /\ reader.frame.validated \in Nat
  BY <1>2 DEF Frame
<1>4. m <= version /\ (Writing => m < version)
  BY DEF SInv, ReaderNotOlder
<1>5. m <= version' /\ (Writing' => m < version')
  BY <1>3, <1>4
<1>6. ASSUME reader.step \in {"capture", "valid", "timestamps", "validate", "reconstruct"}
      PROVE  /\ NotOlder(reader.dir, m)'
             /\ file'[reader.dir]["capture"].version >= reader.frame.validated
  <2>1. reader.dir \in Directories
    BY <1>6 DEF SInv, TypeInv, Reader
  <2>2. /\ NotOlder(reader.dir, m)
        /\ file[reader.dir]["capture"].version >= reader.frame.validated
    BY <1>6 DEF SInv, ReaderNotOlder
  <2>3. "capture" \in Files /\ "valid" \in Files /\ "timestamps" \in Files
    BY DEF Files
  <2> QED BY <1>3, <2>1, <2>2, <2>3 DEF NotOlder
<1> QED BY <1>1, <1>5, <1>6 DEF SInv, ReaderNotOlder

(* The reader's actions leave files and writer alone; what they owe is     *)
(* what the new frame holds.                                               *)
LEMMA ReaderOnly ==
    ASSUME SInv, UNCHANGED <<file, stamped, calls, version, writer>>,
           queue' \in Seq(Directories),
           reader' \in Reader, ReaderNotOlder', FrameFresh'
    PROVE  SInv'
<1>1. TypeInv'
  BY DEF SInv, TypeInv
<1>2. WriterInOrder'
  BY DEF SInv, WriterInOrder, Writing, Of
<1>3. PublishedNotOlder'
  BY DEF SInv, PublishedNotOlder, NotOlder
<1> QED BY <1>1, <1>2, <1>3 DEF SInv

(* The writer's actions owe the writer's part, and that files get newer.   *)
LEMMA WriterOnly ==
    ASSUME SInv, UNCHANGED <<queue, reader>>,
           version' \in Nat, version' >= version,
           Writing' => (Writing \/ version' > version),
           reader.frame.metadata \in stamped' => reader.frame.metadata \in stamped,
           \A d \in Directories, f \in Files :
               /\ file'[d][f].version \in Nat
               /\ file[d][f].version <= file'[d][f].version,
           TypeInv', WriterInOrder', PublishedNotOlder'
    PROVE  SInv'
<1>1. \A d \in Directories, f \in Files : file[d][f].version \in Nat
  BY DEF SInv, TypeInv, FileState
<1>2. version \in Nat
  BY DEF SInv, TypeInv
<1>3. ReaderNotOlder' /\ FrameFresh'
  BY <1>1, <1>2, HoldingStays
<1> QED BY <1>3 DEF SInv

LEMMA BeginWriteStep ==
    ASSUME SInv, NEW d \in Directories, NEW t \in Stamps, BeginWrite(d, t)
    PROVE  SInv'
<1> USE DEF BeginWrite
<1>1. version \in Nat /\ version' = version + 1
  BY DEF SInv, TypeInv
<1>2. writer' \in Call /\ writer'.step = "capture"
  BY DEF Call, Files
<1>3. \A e \in Directories, f \in Files :
          file[e][f].version \in Nat /\ file[e][f].version < version'
  BY <1>1 DEF SInv, TypeInv, FileState
<1>4. stamped \subseteq 1..version'
  BY <1>1 DEF SInv, TypeInv
<1>5. TypeInv'
  BY <1>1, <1>2, <1>3, <1>4 DEF SInv, TypeInv
<1>6. version' \notin stamped
  BY <1>1 DEF SInv, TypeInv
<1>7. WriterInOrder'
  BY <1>2, <1>3, <1>6 DEF WriterInOrder, Files
<1>8. PublishedNotOlder'
  BY DEF SInv, PublishedNotOlder, NotOlder
<1> QED BY <1>1, <1>3, <1>5, <1>7, <1>8, WriterOnly

LEMMA OpenForWritingStep == ASSUME SInv, OpenForWriting PROVE SInv'
<1> USE DEF OpenForWriting
<1>1. writer \in Call /\ Writing /\ version \in Nat
  BY DEF SInv, TypeInv, NoWriter, Writing, Files
<1>2. /\ writer'.step = writer.step /\ writer'.dir = writer.dir
      /\ writer'.timestamps = writer.timestamps
      /\ writer' \in Call
  BY <1>1 DEF Call
<1>3. /\ file' \in [Directories -> [Files -> FileState]]
      /\ \A d \in Directories, f \in Files :
             file'[d][f] = IF d = writer.dir /\ f = writer.step
                           THEN [version |-> version, whole |-> FALSE]
                           ELSE file[d][f]
      /\ \A d \in Directories, f \in Files :
             /\ file'[d][f].version \in Nat
             /\ file'[d][f].version <= version
             /\ file[d][f].version <= file'[d][f].version
  BY <1>1, PutFacts DEF SInv
<1>4. TypeInv'
  BY <1>2, <1>3 DEF SInv, TypeInv
<1>5. \A d \in Directories : file'[d]["metadata"].whole =>
          file[d]["metadata"].whole /\ file'[d]["metadata"] = file[d]["metadata"]
  BY <1>3 DEF Files
<1>6. \A f \in Files : Of(f) = version => Of(f)' = version
  BY <1>1, <1>2, <1>3 DEF Of, Call
<1>7. WriterInOrder'
  BY <1>1, <1>2, <1>5, <1>6 DEF SInv, WriterInOrder, Writing, Files
<1>8. PublishedNotOlder'
  <2> SUFFICES ASSUME NEW d \in Directories, file'[d]["metadata"].whole
               PROVE  NotOlder(d, file[d]["metadata"].version)'
    BY <1>5 DEF PublishedNotOlder
  <2>1. NotOlder(d, file[d]["metadata"].version)
    BY <1>5 DEF SInv, PublishedNotOlder
  <2>2. \A f \in Files : /\ file[d][f].version \in Nat
                         /\ file'[d][f].version \in Nat
                         /\ file[d][f].version <= file'[d][f].version
    BY <1>3 DEF SInv, TypeInv, FileState
  <2>3. file'[d]["metadata"] = file[d]["metadata"]
    BY <1>5
  <2> QED BY <2>1, <2>2, <2>3 DEF NotOlder, Files
<1> QED BY <1>1, <1>3, <1>4, <1>7, <1>8, WriterOnly

(* Closing the metadata publishes the version; closing another file moves  *)
(* the call one file further.                                              *)
LEMMA CloseStep == ASSUME SInv, Close PROVE SInv'
<1> DEFINE next == NextFile(writer.step, writer.timestamps)
<1>1. writer \in Call /\ Writing /\ version \in Nat /\ version # 0
  <2>1. writer \in Call /\ Writing /\ version \in Nat
    BY DEF SInv, TypeInv, NoWriter, Writing, Files, Close
  <2>2. reader.frame.metadata \in Nat /\ reader.frame.metadata < version
    BY <2>1 DEF SInv, ReaderNotOlder, TypeInv, Reader, NoFrame, Frame
  <2> QED BY <2>1, <2>2
<1>2. /\ file' \in [Directories -> [Files -> FileState]]
      /\ \A d \in Directories, f \in Files :
             file'[d][f] = IF d = writer.dir /\ f = writer.step
                           THEN [version |-> version, whole |-> TRUE]
                           ELSE file[d][f]
      /\ \A d \in Directories, f \in Files :
             /\ file'[d][f].version \in Nat
             /\ file'[d][f].version <= version
             /\ file[d][f].version \in Nat
             /\ file[d][f].version <= file'[d][f].version
  BY <1>1, PutFacts DEF SInv, Close
<1>3. version' = version /\ UNCHANGED <<queue, reader>>
  BY DEF Close
<1>4. stamped' \subseteq stamped \cup {version}
  BY DEF Close
<1>5. stamped' \subseteq 1..version'
  BY <1>1, <1>3, <1>4 DEF SInv, TypeInv
<1>6. writer.step = "metadata" => next = "idle"
  BY DEF NextFile
<1>7. writer.step # "metadata" => next \in Files
  BY <1>1 DEF NextFile, Call, Files
<1>8. \/ writer.step = "metadata" /\ writer' = NoWriter
      \/ /\ writer.step # "metadata"
         /\ writer' = [writer EXCEPT !.step = next, !.open = FALSE]
  BY <1>6, <1>7 DEF Close, Files
<1>9. TypeInv'
  <2>1. writer' = NoWriter \/ writer' \in Call
    BY <1>1, <1>7, <1>8 DEF Call
  <2> QED BY <1>2, <1>3, <1>5, <2>1 DEF SInv, TypeInv
<1>10. reader.frame.metadata \in stamped' => reader.frame.metadata \in stamped
  <2>1. reader.frame.metadata < version
    BY <1>1 DEF SInv, ReaderNotOlder
  <2>2. reader.frame.metadata \in Nat
    BY DEF SInv, TypeInv, Reader, NoFrame, Frame
  <2> QED BY <1>1, <1>4, <2>1, <2>2
<1>11. \A d \in Directories, v \in Nat :
          NotOlder(d, v) /\ v # version => NotOlder(d, v)'
  BY <1>2, <1>4 DEF NotOlder, Files
<1>12. WriterInOrder' /\ PublishedNotOlder'
  <2>1. CASE writer.step = "metadata"
    <3>1. WriterInOrder'
      BY <1>8, <2>1 DEF WriterInOrder, Writing
    <3>2. stamped' = IF writer.timestamps = "sound" THEN stamped \cup {version}
                     ELSE stamped
      BY <2>1 DEF Close
    <3>3. /\ file'[writer.dir]["capture"].version >= version
          /\ file'[writer.dir]["valid"].version >= version
          /\ version \in stamped' => file'[writer.dir]["timestamps"].version >= version
      <4>1. file'[writer.dir]["capture"] = file[writer.dir]["capture"]
        BY <1>1, <1>2, <2>1 DEF Call, Files
      <4>2. file'[writer.dir]["valid"] = file[writer.dir]["valid"]
        BY <1>1, <1>2, <2>1 DEF Call, Files
      <4>3. file'[writer.dir]["timestamps"] = file[writer.dir]["timestamps"]
        BY <1>1, <1>2, <2>1 DEF Call, Files
      <4>4. Of("capture") = version /\ Of("valid") = version
        BY <1>1, <2>1 DEF SInv, WriterInOrder
      <4>5. version \in stamped' => Of("timestamps") = version
        BY <1>1, <2>1, <3>2 DEF SInv, WriterInOrder
      <4> QED BY <1>1, <1>3, <4>1, <4>2, <4>3, <4>4, <4>5 DEF Of
    <3>4. ASSUME NEW d \in Directories, file'[d]["metadata"].whole
          PROVE  NotOlder(d, file[d]["metadata"].version)'
      <4>1. CASE d = writer.dir
        <5>1. file'[d]["metadata"].version = version
          BY <1>2, <2>1, <4>1 DEF Files
        <5> QED BY <1>3, <3>3, <4>1, <5>1 DEF NotOlder
      <4>2. CASE d # writer.dir
        <5>1. file'[d]["metadata"] = file[d]["metadata"]
          BY <1>2, <4>2 DEF Files
        <5>2. NotOlder(d, file[d]["metadata"].version)
          BY <3>4, <5>1 DEF SInv, PublishedNotOlder
        <5>3. file[d]["metadata"].version < version
          BY <1>1, <3>4, <5>1 DEF SInv, WriterInOrder
        <5>4. file[d]["metadata"].version \in Nat
          BY <1>2 DEF Files
        <5> QED BY <1>1, <1>11, <5>1, <5>2, <5>3, <5>4 DEF NotOlder
      <4> QED BY <4>1, <4>2
    <3> QED BY <3>1, <3>4 DEF PublishedNotOlder
  <2>2. CASE writer.step # "metadata"
    <3>1. stamped' = stamped
      BY <2>2 DEF Close
    <3>2. /\ writer'.step = next /\ writer'.dir = writer.dir
          /\ writer'.timestamps = writer.timestamps
      BY <1>1, <1>8, <2>2 DEF Call
    <3>3. \A d \in Directories : file'[d]["metadata"] = file[d]["metadata"]
      BY <1>2, <2>2 DEF Files
    <3>4. \A f \in Files : f = writer.step \/ Of(f) = version => Of(f)' = version
      BY <1>1, <1>2, <3>2 DEF Of, Call
    <3>5. \A d \in Directories : file'[d]["metadata"].whole =>
              file'[d]["metadata"].version < version'
      BY <1>1, <1>3, <3>3 DEF SInv, WriterInOrder
    <3>6. next # "capture" /\ Of("capture")' = version
      BY <1>1, <2>2, <3>4 DEF SInv, WriterInOrder, NextFile, Call, Files
    <3>7. next \in {"timestamps", "metadata"} => Of("valid")' = version
      BY <1>1, <2>2, <3>4 DEF SInv, WriterInOrder, NextFile, Call, Files
    <3>8. next = "metadata" /\ writer.timestamps = "sound" =>
              Of("timestamps")' = version
      BY <1>1, <2>2, <3>4 DEF SInv, WriterInOrder, NextFile, Call, Files
    <3>9. version' \notin stamped'
      BY <1>1, <1>3, <3>1 DEF SInv, WriterInOrder
    <3>10. WriterInOrder'
      BY <1>3, <3>2, <3>5, <3>6, <3>7, <3>8, <3>9 DEF WriterInOrder
    <3>11. PublishedNotOlder'
      <4> SUFFICES ASSUME NEW d \in Directories, file'[d]["metadata"].whole
                   PROVE  NotOlder(d, file[d]["metadata"].version)'
        BY DEF PublishedNotOlder
      <4>1. NotOlder(d, file[d]["metadata"].version)
        BY <3>3 DEF SInv, PublishedNotOlder
      <4>2. file[d]["metadata"].version < version
        BY <1>1, <3>3 DEF SInv, WriterInOrder
      <4>3. file[d]["metadata"].version \in Nat
        BY <1>2 DEF Files
      <4> QED BY <1>1, <1>11, <3>3, <4>1, <4>2, <4>3 DEF NotOlder
    <3> QED BY <3>10, <3>11
  <2> QED BY <2>1, <2>2
<1> QED
  <2>1. Writing' => Writing
    BY <1>1
  <2> QED BY <1>1, <1>2, <1>3, <1>9, <1>10, <1>12, <2>1, WriterOnly

(* A call that raises or dies leaves what it wrote.                        *)
LEMMA AbandonStep == ASSUME SInv, RefuseTimestamps \/ CrashWriter PROVE SInv'
<1> USE DEF RefuseTimestamps, CrashWriter
<1>1. writer' = NoWriter /\ UNCHANGED <<file, stamped, calls, version, queue, reader>>
  OBVIOUS
<1>2. version \in Nat /\ \A d \in Directories, f \in Files : file[d][f].version \in Nat
  BY DEF SInv, TypeInv, FileState
<1>3. TypeInv' /\ WriterInOrder' /\ PublishedNotOlder'
  BY <1>1 DEF SInv, TypeInv, WriterInOrder, Writing, PublishedNotOlder, NotOlder
<1>4. ~Writing'
  BY <1>1 DEF Writing
<1> QED BY <1>1, <1>2, <1>3, <1>4, WriterOnly
-----------------------------------------------------------------------------
(* The reader.                                                             *)
LEMMA AcquireStep == ASSUME SInv, Acquire PROVE SInv'
<1> USE DEF Acquire
<1>1. Head(queue) \in Directories /\ queue' \in Seq(Directories)
  BY DEF SInv, TypeInv
<1>2. reader' \in Reader
  BY <1>1 DEF Reader, ReaderSteps, Files, NoFrame, Frame
<1>3. ReaderNotOlder'
  <2>1. reader'.step = "metadata" /\ reader'.frame = NoFrame
    OBVIOUS
  <2>2. Writing' => 0 < version'
    <3>1. Writing => 0 < version
      BY DEF SInv, ReaderNotOlder, TypeInv, Reader, NoFrame, Frame
    <3> QED BY <3>1 DEF Writing
  <2>3. 0 <= version'
    BY DEF SInv, TypeInv
  <2> QED BY <2>1, <2>2, <2>3 DEF ReaderNotOlder, NoFrame
<1>4. FrameFresh'
  BY DEF FrameFresh, NoFrame
<1> QED BY <1>1, <1>2, <1>3, <1>4, ReaderOnly

LEMMA AdvanceFacts ==
    ASSUME TypeInv, reader.step # "idle", NEW s \in ReaderSteps, NEW f \in Frame,
           Advance(s, f)
    PROVE  /\ reader'.step = s /\ reader'.dir = reader.dir /\ reader'.frame = f
           /\ reader' \in Reader
<1>1. reader \in [step : ReaderSteps, dir : Directories, frame : Frame]
  BY DEF TypeInv, Reader
<1> QED BY <1>1 DEF Advance, Reader

(* What is read is a published version, or data that is not older.         *)
LEMMA ReadStep ==
    ASSUME SInv, ReadMetadata \/ MapCapture \/ CopyValid \/ MapTimestamps
    PROVE  SInv'
<1> USE DEF ReadMetadata, MapCapture, CopyValid, MapTimestamps, Advance
<1>1. /\ reader.step \in Files
      /\ reader' = [reader EXCEPT !.step = reader'.step, !.frame = reader'.frame]
      /\ UNCHANGED <<file, stamped, calls, version, writer, queue>>
  BY DEF Files, SInv, TypeInv, Reader
<1>2. reader.dir \in Directories /\ reader.frame \in Frame
  BY <1>1 DEF SInv, TypeInv, Reader, Files
<1>3. \A f \in Files : Read(f).version \in Nat /\ Read(f).version <= version
  BY <1>2 DEF SInv, TypeInv, FileState, Read
<1>4. version \in Nat
  BY DEF SInv, TypeInv
<1>5. CASE ReadMetadata
  <2> DEFINE m == Read("metadata").version
  <2>1. /\ reader'.step = "capture" /\ reader'.dir = reader.dir
        /\ reader'.frame = [NoFrame EXCEPT !.metadata = m]
        /\ reader' \in Reader
    BY <1>2, <1>3, <1>5 DEF Reader, ReaderSteps, Files, Frame, NoFrame, SInv, TypeInv
  <2>2. NotOlder(reader.dir, m) /\ (Writing => m < version)
    BY <1>2, <1>5 DEF SInv, PublishedNotOlder, WriterInOrder, Read
  <2>3. reader'.frame.metadata = m /\ m \in Nat /\ m <= version
    BY <1>3, <2>1 DEF Files, NoFrame
  <2>4. /\ reader'.frame.valid = 0 /\ reader'.frame.validated = 0
        /\ reader'.frame.timestamps = 0 /\ reader'.frame.reconstructed = 0
    BY <2>1 DEF NoFrame
  <2>5. Read("capture").version >= 0
    BY <1>3 DEF Files
  <2>6. ReaderNotOlder'
    BY <1>1, <2>1, <2>2, <2>3, <2>4, <2>5 DEF ReaderNotOlder, NotOlder, Writing, Read
  <2>7. FrameFresh'
    BY <2>4 DEF FrameFresh
  <2> QED BY <1>1, <2>1, <2>6, <2>7, ReaderOnly DEF SInv, TypeInv
<1>6. CASE MapCapture \/ MapTimestamps
  <2>1. /\ reader.step \in {"capture", "timestamps"}
        /\ reader'.step \in {"valid", "validate"} /\ reader'.dir = reader.dir
        /\ reader'.frame = reader.frame
        /\ reader' \in Reader
    BY <1>2, <1>6 DEF Reader, ReaderSteps, Files, SInv, TypeInv
  <2>2. ReaderNotOlder'
    BY <1>1, <2>1 DEF SInv, ReaderNotOlder, NotOlder, Writing
  <2>3. FrameFresh'
    BY <2>1 DEF SInv, FrameFresh
  <2> QED BY <1>1, <2>1, <2>2, <2>3, ReaderOnly DEF SInv, TypeInv
<1>7. CASE CopyValid
  <2> DEFINE v == Read("valid").version
  <2>1. /\ reader.step = "valid" /\ reader'.step = "timestamps"
        /\ reader'.dir = reader.dir
        /\ reader'.frame = [reader.frame EXCEPT !.valid = v]
        /\ reader' \in Reader
    BY <1>2, <1>3, <1>7 DEF Reader, ReaderSteps, Files, Frame, SInv, TypeInv
  <2>2. v >= reader.frame.metadata
    BY <2>1 DEF SInv, ReaderNotOlder, NotOlder, Read
  <2>3. /\ reader'.frame.metadata = reader.frame.metadata
        /\ reader'.frame.valid = v
        /\ reader'.frame.validated = reader.frame.validated
        /\ reader'.frame.timestamps = reader.frame.timestamps
        /\ reader'.frame.reconstructed = reader.frame.reconstructed
    BY <1>2, <2>1 DEF Frame
  <2>4. ReaderNotOlder'
    BY <1>1, <2>1, <2>3 DEF SInv, ReaderNotOlder, NotOlder, Writing
  <2>5. FrameFresh'
    BY <2>2, <2>3 DEF SInv, FrameFresh
  <2> QED BY <1>1, <2>1, <2>4, <2>5, ReaderOnly DEF SInv, TypeInv
<1> QED BY <1>5, <1>6, <1>7

(* Samples and timestamps are as new as the metadata when validated, and   *)
(* the samples as new as the validated ones when reconstructed.            *)
LEMMA UseStep == ASSUME SInv, Validate \/ Reconstruct PROVE SInv'
<1> USE DEF Validate, Reconstruct, Advance
<1>1. UNCHANGED <<file, stamped, calls, version, writer, queue>>
  OBVIOUS
<1>2. reader.step \in {"validate", "reconstruct"}
  OBVIOUS
<1>3. reader.dir \in Directories /\ reader.frame \in Frame
  BY <1>2 DEF SInv, TypeInv, Reader, Files
<1>4. \A f \in Files : Read(f).version \in Nat
  BY <1>3 DEF SInv, TypeInv, FileState, Read
<1>5. /\ NotOlder(reader.dir, reader.frame.metadata)
      /\ Read("capture").version >= reader.frame.validated
  BY <1>2 DEF SInv, ReaderNotOlder, Read
<1>6. CASE Validate
  <2> DEFINE c == Read("capture").version
             t == IF Stamped THEN Read("timestamps").version ELSE 0
  <2>1. c \in Nat /\ t \in Nat
    BY <1>4 DEF Files
  <2>2. /\ reader'.step \in {"reconstruct", "idle"} /\ reader'.dir = reader.dir
        /\ reader'.frame = [reader.frame EXCEPT !.validated = c, !.timestamps = t]
        /\ reader' \in Reader
    <3>1. [reader.frame EXCEPT !.validated = c, !.timestamps = t] \in Frame
      BY <1>3, <2>1 DEF Frame
    <3>2. \E s \in {"reconstruct", "idle"} :
              Advance(s, [reader.frame EXCEPT !.validated = c, !.timestamps = t])
      BY <1>6
    <3> HIDE DEF Validate, Reconstruct, Advance
    <3>3. PICK s \in {"reconstruct", "idle"} :
              Advance(s, [reader.frame EXCEPT !.validated = c, !.timestamps = t])
      BY <3>2
    <3> QED BY <1>2, <3>1, <3>3, AdvanceFacts DEF ReaderSteps, SInv
  <2>3. c >= reader.frame.metadata /\ (t # 0 => t >= reader.frame.metadata)
    BY <1>5 DEF NotOlder, Read, Stamped
  <2>4. /\ reader'.frame.metadata = reader.frame.metadata
        /\ reader'.frame.valid = reader.frame.valid
        /\ reader'.frame.validated = c
        /\ reader'.frame.timestamps = t
        /\ reader'.frame.reconstructed = reader.frame.reconstructed
    BY <1>3, <2>2 DEF Frame
  <2>5. reader.frame.reconstructed = 0
    BY <1>6 DEF SInv, ReaderNotOlder
  <2>6. file'[reader'.dir]["capture"].version >= c
    BY <1>1, <2>1, <2>2 DEF Read
  <2>7. ReaderNotOlder'
    BY <1>1, <1>5, <2>2, <2>4, <2>5, <2>6 DEF SInv, ReaderNotOlder, NotOlder, Writing
  <2>8. FrameFresh'
    BY <2>3, <2>4, <2>5 DEF SInv, FrameFresh
  <2> QED BY <1>1, <2>2, <2>7, <2>8, ReaderOnly DEF SInv, TypeInv
<1>7. CASE Reconstruct
  <2> DEFINE c == Read("capture").version
  <2>1. c \in Nat
    BY <1>4 DEF Files
  <2>2. /\ reader'.step = "idle" /\ reader'.dir = reader.dir
        /\ reader'.frame = [reader.frame EXCEPT !.reconstructed = c]
        /\ reader' \in Reader
    BY <1>3, <1>7, <2>1 DEF Reader, ReaderSteps, Files, Frame, SInv, TypeInv
  <2>3. /\ reader'.frame.metadata = reader.frame.metadata
        /\ reader'.frame.valid = reader.frame.valid
        /\ reader'.frame.validated = reader.frame.validated
        /\ reader'.frame.timestamps = reader.frame.timestamps
        /\ reader'.frame.reconstructed = c
    BY <1>3, <2>2 DEF Frame
  <2>4. ReaderNotOlder'
    BY <1>1, <2>2, <2>3 DEF SInv, ReaderNotOlder, Writing
  <2>5. FrameFresh'
    BY <1>5, <2>3 DEF SInv, FrameFresh
  <2> QED BY <1>1, <2>2, <2>4, <2>5, ReaderOnly DEF SInv, TypeInv
<1> QED BY <1>6, <1>7

(* A failed open drops the frame; a killed reader keeps it for ever.       *)
LEMMA GiveUpStep == ASSUME SInv, OpenFails \/ Killed PROVE SInv'
<1> USE DEF OpenFails, Killed, Advance
<1>1. UNCHANGED <<file, stamped, calls, version, writer, queue>>
  OBVIOUS
<1>2. reader.step \in Files \cup {"validate", "reconstruct"}
  OBVIOUS
<1>3. reader.dir \in Directories /\ reader.frame \in Frame
  BY <1>2 DEF SInv, TypeInv, Reader, Files
<1>4. /\ reader'.step \in {"idle", "killed"}
      /\ reader'.frame \in {NoFrame, reader.frame}
      /\ reader' \in Reader
  <2>1. NoFrame \in Frame /\ reader.step # "idle"
    BY <1>2 DEF NoFrame, Frame, Files
  <2>2. \/ Advance("idle", NoFrame)
        \/ Advance("killed", reader.frame)
    OBVIOUS
  <2> HIDE DEF OpenFails, Killed, Advance
  <2> QED BY <1>3, <2>1, <2>2, AdvanceFacts DEF ReaderSteps, SInv
<1>5. ReaderNotOlder'
  <2>1. reader'.frame.metadata <= reader.frame.metadata
    BY <1>3, <1>4 DEF NoFrame, Frame
  <2>2. reader'.frame.metadata \in Nat /\ reader.frame.metadata \in Nat /\ version \in Nat
    BY <1>3, <1>4 DEF NoFrame, Frame, SInv, TypeInv
  <2> QED BY <1>1, <1>4, <2>1, <2>2 DEF SInv, ReaderNotOlder, Writing
<1>6. FrameFresh'
  BY <1>4 DEF SInv, FrameFresh, NoFrame
<1> QED BY <1>1, <1>4, <1>5, <1>6, ReaderOnly DEF SInv, TypeInv
-----------------------------------------------------------------------------
(* SInv is an invariant of writer and reader together.                     *)
THEOREM ReplayInvariant == Spec => []SInv
<1>1. SInv /\ [Next]_vars => SInv'
  <2> SUFFICES ASSUME SInv, [Next]_vars PROVE SInv'
    OBVIOUS
  <2>1. CASE UNCHANGED vars
    BY <2>1 DEF vars, SInv, TypeInv, WriterInOrder, Writing, Of, PublishedNotOlder,
                NotOlder, ReaderNotOlder, FrameFresh
  <2>2. CASE Next
    BY <2>2, BeginWriteStep, OpenForWritingStep, CloseStep, AbandonStep, AcquireStep,
       ReadStep, UseStep, GiveUpStep DEF Next
  <2> QED BY <2>1, <2>2
<1> QED BY <1>1, InitInv, PTL DEF Spec

(* No metadata is ever newer than the data beside it or the data used with *)
(* it, for any number of directories, writes, crashes and replays: open    *)
(* needs no lock against write_capture_directory for this.                 *)
THEOREM ReplayNeverStale == Spec => []NoStaleData
  BY ReplayInvariant, SInvGivesNoStaleData, PTL
-----------------------------------------------------------------------------
(* A directory written by one call.                                        *)

Is(d, f, v) == file[d][f].whole /\ file[d][f].version = v

Complete(d, v) ==
    /\ Is(d, "capture", v) /\ Is(d, "valid", v)
    /\ v \in stamped => Is(d, "timestamps", v)

(* Nothing is published where nothing was written.                         *)
CallsCounted ==
    /\ calls \in [Directories -> Nat]
    /\ \A d \in Directories : calls[d] = 0 => ~file[d]["metadata"].whole

(* The only call of a directory has closed the files before the one it is  *)
(* at, and no metadata is whole yet.                                       *)
OnlyCall == Writing =>
    /\ calls[writer.dir] # 0
    /\ calls[writer.dir] = 1 =>
           /\ ~file[writer.dir]["metadata"].whole
           /\ writer.step # "capture" => file[writer.dir]["capture"].whole
           /\ writer.step \in {"timestamps", "metadata"} =>
                  file[writer.dir]["valid"].whole
           /\ writer.step = "metadata" /\ writer.timestamps = "sound" =>
                  file[writer.dir]["timestamps"].whole

(* Once its metadata is whole the call is over and all it wrote is there.  *)
PublishedOnce ==
    \A d \in Directories : calls[d] <= 1 /\ file[d]["metadata"].whole =>
        /\ ~(Writing /\ writer.dir = d)
        /\ file[d]["metadata"].version # 0
        /\ Complete(d, file[d]["metadata"].version)

(* What the reader holds of such a directory is its one version.           *)
InUse == reader.step \notin {"idle", "metadata"} \/ reader.frame # NoFrame

HeldOnce ==
    /\ reader.step = "metadata" => reader.frame = NoFrame
    /\ InUse /\ calls[reader.dir] <= 1 =>
           /\ reader.step # "killed"
           /\ Is(reader.dir, "metadata", reader.frame.metadata)
           /\ \A part \in DOMAIN reader.frame :
                  reader.frame[part] \in {0, reader.frame.metadata}

OInv == CallsCounted /\ OnlyCall /\ PublishedOnce /\ HeldOnce

(* OInv strengthens the property of the run.                               *)
LEMMA OInvGivesAtomic == SInv /\ OInv => WriteOnceIsAtomic
<1> SUFFICES ASSUME SInv, OInv,
                    reader.step # "idle" \/ reader.frame # NoFrame,
                    calls[reader.dir] <= 1
             PROVE  /\ reader.step # "killed"
                    /\ reader.frame.metadata # 0 =>
                           /\ Read("capture").whole /\ Read("valid").whole
                           /\ Stamped => Read("timestamps").whole
                    /\ \A part \in DOMAIN reader.frame :
                           reader.frame[part] \in {0, reader.frame.metadata}
  BY DEF WriteOnceIsAtomic
<1>1. CASE ~InUse
  BY <1>1 DEF OInv, HeldOnce, InUse, NoFrame
<1>2. CASE InUse
  <2>1. reader.dir \in Directories
    BY <1>2 DEF SInv, TypeInv, Reader, InUse
  <2>2. Is(reader.dir, "metadata", reader.frame.metadata)
    BY <1>2 DEF OInv, HeldOnce
  <2>3. Complete(reader.dir, reader.frame.metadata)
    BY <2>1, <2>2 DEF OInv, PublishedOnce, Is
  <2> QED BY <1>2, <2>3 DEF OInv, HeldOnce, Complete, Is, Read, Stamped
<1> QED BY <1>1, <1>2

LEMMA OnceInit == Init => OInv
  BY DEF Init, OInv, CallsCounted, OnlyCall, Writing, PublishedOnce, HeldOnce, InUse,
         Missing, NoFrame, Files

(* What the reader holds stays whole while its directory is left alone.    *)
LEMMA HeldStays ==
    ASSUME SInv, OInv, UNCHANGED reader,
           \A d \in Directories : calls'[d] <= 1 => calls[d] <= 1,
           \A d \in Directories : calls[d] <= 1 /\ file[d]["metadata"].whole =>
               file'[d] = file[d]
    PROVE  HeldOnce'
<1> SUFFICES ASSUME InUse, calls'[reader.dir] <= 1
             PROVE  /\ reader.step # "killed"
                    /\ Is(reader.dir, "metadata", reader.frame.metadata)'
                    /\ \A part \in DOMAIN reader.frame :
                           reader.frame[part] \in {0, reader.frame.metadata}
  BY DEF OInv, HeldOnce, InUse
<1>1. reader.dir \in Directories
  BY DEF SInv, TypeInv, Reader, InUse
<1>2. calls[reader.dir] <= 1
  BY <1>1
<1>3. Is(reader.dir, "metadata", reader.frame.metadata)
  BY <1>2 DEF OInv, HeldOnce
<1> QED BY <1>1, <1>2, <1>3 DEF OInv, HeldOnce, Is

(* The second call into a directory ends the promise, the first finds it   *)
(* unpublished.                                                            *)
LEMMA OnceBegin ==
    ASSUME SInv, OInv, NEW d \in Directories, NEW t \in Stamps, BeginWrite(d, t)
    PROVE  OInv'
<1> USE DEF BeginWrite
<1>1. calls \in [Directories -> Nat] /\ calls' \in [Directories -> Nat]
  BY DEF OInv, CallsCounted
<1>2. \A e \in Directories : calls'[e] = IF e = d THEN calls[e] + 1 ELSE calls[e]
  BY <1>1
<1>3. writer'.dir = d /\ writer'.step = "capture"
  OBVIOUS
<1>4. ASSUME NEW e \in Directories, calls'[e] <= 1, file[e]["metadata"].whole
      PROVE  e # d /\ calls[e] <= 1
  BY <1>1, <1>2, <1>4 DEF OInv, CallsCounted
<1>5. CallsCounted'
  BY <1>1, <1>2 DEF OInv, CallsCounted
<1>6. OnlyCall'
  BY <1>1, <1>2, <1>3, <1>4 DEF OnlyCall
<1>7. PublishedOnce'
  <2> SUFFICES ASSUME NEW e \in Directories, calls'[e] <= 1, file[e]["metadata"].whole
               PROVE  /\ ~(Writing' /\ writer'.dir = e)
                      /\ file[e]["metadata"].version # 0
                      /\ Complete(e, file[e]["metadata"].version)'
    BY DEF PublishedOnce
  <2> QED BY <1>3, <1>4 DEF OInv, PublishedOnce, Complete, Is
<1>8. HeldOnce'
  <2>1. \A e \in Directories : calls'[e] <= 1 => calls[e] <= 1
    BY <1>1, <1>2
  <2> QED BY <2>1, HeldStays
<1> QED BY <1>5, <1>6, <1>7, <1>8 DEF OInv

(* A piece of writing touches no directory that is published by one call.  *)
LEMMA PutOnce ==
    ASSUME SInv, OInv, writer \in Call, Writing, NEW w \in BOOLEAN, Put(w),
           NEW d \in Directories, calls[d] <= 1, file[d]["metadata"].whole
    PROVE  d # writer.dir /\ file'[d] = file[d]
<1>1. d # writer.dir
  BY DEF OInv, PublishedOnce
<1> QED BY <1>1 DEF Put, SInv, TypeInv

LEMMA OnceOpen == ASSUME SInv, OInv, OpenForWriting PROVE OInv'
<1> USE DEF OpenForWriting
<1>1. writer \in Call /\ Writing
  BY DEF SInv, TypeInv, NoWriter, Writing, Files
<1>2. /\ writer'.step = writer.step /\ writer'.dir = writer.dir
      /\ writer'.timestamps = writer.timestamps
  BY <1>1 DEF Call
<1>3. \A d \in Directories, f \in Files :
          file'[d][f] = IF d = writer.dir /\ f = writer.step
                        THEN [version |-> version, whole |-> FALSE]
                        ELSE file[d][f]
  BY <1>1, PutFacts DEF SInv
<1>4. \A d \in Directories : file'[d]["metadata"].whole => file[d]["metadata"].whole
  BY <1>3 DEF Files
<1>5. CallsCounted'
  BY <1>4 DEF OInv, CallsCounted
<1>6. OnlyCall'
  <2>1. writer.dir \in Directories /\ writer.step \in Files
    BY <1>1 DEF Call
  <2>2. \A f \in Files : f # writer.step =>
            file'[writer.dir][f] = file[writer.dir][f]
    BY <1>3, <2>1
  <2> QED BY <1>1, <1>2, <1>4, <2>1, <2>2 DEF OInv, OnlyCall, Files
<1>7. ASSUME NEW d \in Directories, calls[d] <= 1, file[d]["metadata"].whole
      PROVE  d # writer.dir /\ file'[d] = file[d]
  BY <1>1, <1>7, PutOnce
<1>8. PublishedOnce'
  BY <1>2, <1>4, <1>7 DEF OInv, PublishedOnce, Complete, Is
<1>9. HeldOnce'
  BY <1>7, HeldStays
<1> QED BY <1>5, <1>6, <1>8, <1>9 DEF OInv

(* Closing the metadata ends the only call, with its files in place.       *)
LEMMA OnceClose == ASSUME SInv, OInv, Close PROVE OInv'
<1> DEFINE next == NextFile(writer.step, writer.timestamps)
<1>1. writer \in Call /\ Writing /\ version \in Nat /\ version # 0
  <2>1. writer \in Call /\ Writing /\ version \in Nat
    BY DEF SInv, TypeInv, NoWriter, Writing, Files, Close
  <2>2. reader.frame.metadata \in Nat /\ reader.frame.metadata < version
    BY <2>1 DEF SInv, ReaderNotOlder, TypeInv, Reader, NoFrame, Frame
  <2> QED BY <2>1, <2>2
<1>2. writer.dir \in Directories /\ writer.step \in Files
  BY <1>1 DEF Call
<1>3. \A d \in Directories, f \in Files :
          file'[d][f] = IF d = writer.dir /\ f = writer.step
                        THEN [version |-> version, whole |-> TRUE]
                        ELSE file[d][f]
  BY <1>1, PutFacts DEF SInv, Close
<1>4. /\ UNCHANGED <<calls, version, queue, reader>>
      /\ calls \in [Directories -> Nat] /\ calls[writer.dir] # 0
  BY <1>1 DEF Close, OInv, CallsCounted, OnlyCall
<1>5. \A d \in Directories : d # writer.dir => file'[d]["metadata"] = file[d]["metadata"]
  BY <1>3 DEF Files
<1>6. CallsCounted'
  BY <1>4, <1>5 DEF OInv, CallsCounted
<1>7. ASSUME NEW d \in Directories, calls[d] <= 1, file[d]["metadata"].whole
      PROVE  d # writer.dir /\ file'[d] = file[d]
  BY <1>1, <1>7, PutOnce DEF Close
<1>8. HeldOnce'
  BY <1>4, <1>7, HeldStays
<1>9. ASSUME NEW d \in Directories, calls[d] <= 1, file[d]["metadata"].whole
      PROVE  Complete(d, file[d]["metadata"].version)'
  <2>1. Complete(d, file[d]["metadata"].version)
    BY <1>9 DEF OInv, PublishedOnce
  <2>2. file[d]["metadata"].version < version
    BY <1>1, <1>9 DEF SInv, WriterInOrder
  <2>3. file[d]["metadata"].version \in Nat
    BY DEF SInv, TypeInv, FileState, Files
  <2>4. file[d]["metadata"].version \in stamped' =>
            file[d]["metadata"].version \in stamped
    BY <1>1, <2>2, <2>3 DEF Close
  <2> QED BY <1>7, <1>9, <2>1, <2>4 DEF Complete, Is
<1>10. OnlyCall' /\ PublishedOnce'
  <2>1. CASE writer.step = "metadata"
    <3>1. writer' = NoWriter
      BY <2>1 DEF Close, NextFile
    <3>2. stamped' = IF writer.timestamps = "sound" THEN stamped \cup {version}
                     ELSE stamped
      BY <2>1 DEF Close
    <3>3. \A f \in Files : f # "metadata" => file'[writer.dir][f] = file[writer.dir][f]
      BY <1>2, <1>3, <2>1
    <3>4. version \in stamped' => writer.timestamps = "sound"
      BY <1>1, <3>2 DEF SInv, WriterInOrder
    <3>5. ASSUME NEW d \in Directories, NEW v \in Nat, d = writer.dir, v = version,
                 calls[d] <= 1
          PROVE  Complete(d, v)'
      <4>1. calls[writer.dir] = 1
        BY <1>2, <1>4, <3>5
      <4>2. Is(writer.dir, "capture", version) /\ Is(writer.dir, "valid", version)
        BY <1>1, <2>1, <4>1 DEF SInv, WriterInOrder, OInv, OnlyCall, Is, Of
      <4>3. version \in stamped' => Is(writer.dir, "timestamps", version)
        BY <1>1, <2>1, <3>4, <4>1 DEF SInv, WriterInOrder, OInv, OnlyCall, Is, Of
      <4> QED BY <3>3, <3>5, <4>2, <4>3 DEF Complete, Is, Files
    <3>6. file'[writer.dir]["metadata"].version = version
      BY <1>2, <1>3, <2>1 DEF Files
    <3>7. PublishedOnce'
      <4> SUFFICES ASSUME NEW d \in Directories, calls[d] <= 1,
                          file'[d]["metadata"].whole
                   PROVE  /\ file'[d]["metadata"].version # 0
                          /\ Complete(d, file[d]["metadata"].version)'
        BY <1>4, <3>1 DEF PublishedOnce, Writing
      <4>1. CASE d = writer.dir
        <5>1. Complete(d, version)'
          BY <1>1, <1>4, <3>5, <4>1 DEF Complete, Is
        <5> QED BY <1>1, <1>4, <3>6, <4>1, <5>1 DEF Complete, Is
      <4>2. CASE d # writer.dir
        <5>1. file'[d]["metadata"] = file[d]["metadata"]
          BY <1>5, <4>2
        <5>2. Complete(d, file[d]["metadata"].version)'
          BY <1>9, <5>1
        <5> QED BY <5>1, <5>2 DEF OInv, PublishedOnce
      <4> QED BY <4>1, <4>2
    <3> QED BY <3>1, <3>7 DEF OnlyCall, Writing
  <2>2. CASE writer.step # "metadata"
    <3>1. next \in Files /\ next # "capture"
      BY <1>1, <2>2 DEF NextFile, Call, Files
    <3>2. /\ writer'.step = next /\ writer'.dir = writer.dir
          /\ writer'.timestamps = writer.timestamps
      BY <1>1, <2>2, <3>1 DEF Close, Call, Files
    <3>3. \A d \in Directories : file'[d]["metadata"] = file[d]["metadata"]
      BY <1>3, <2>2 DEF Files
    <3>4. \A f \in Files : f = writer.step \/ file[writer.dir][f].whole =>
              file'[writer.dir][f].whole
      BY <1>2, <1>3
    <3>5. ASSUME calls[writer.dir] = 1
          PROVE  /\ ~file'[writer.dir]["metadata"].whole
                 /\ file'[writer.dir]["capture"].whole
                 /\ next \in {"timestamps", "metadata"} =>
                        file'[writer.dir]["valid"].whole
                 /\ next = "metadata" /\ writer.timestamps = "sound" =>
                        file'[writer.dir]["timestamps"].whole
      <4>1. ~file'[writer.dir]["metadata"].whole
        BY <1>1, <1>2, <3>3, <3>5 DEF OInv, OnlyCall
      <4>2. file'[writer.dir]["capture"].whole
        BY <1>1, <3>4, <3>5 DEF OInv, OnlyCall, Files
      <4>3. next \in {"timestamps", "metadata"} => file'[writer.dir]["valid"].whole
        BY <1>1, <1>2, <2>2, <3>4, <3>5 DEF OInv, OnlyCall, NextFile, Files
      <4>4. next = "metadata" /\ writer.timestamps = "sound" =>
                file'[writer.dir]["timestamps"].whole
        BY <1>1, <1>2, <2>2, <3>4, <3>5 DEF OInv, OnlyCall, NextFile, Files
      <4> QED BY <4>1, <4>2, <4>3, <4>4
    <3>6. OnlyCall'
      BY <1>4, <3>2, <3>5 DEF OnlyCall
    <3>7. PublishedOnce'
      <4> SUFFICES ASSUME NEW d \in Directories, calls[d] <= 1,
                          file[d]["metadata"].whole
                   PROVE  /\ d # writer.dir
                          /\ file[d]["metadata"].version # 0
                          /\ Complete(d, file[d]["metadata"].version)'
        BY <1>4, <3>2, <3>3 DEF PublishedOnce, Complete, Is
      <4> QED BY <1>7, <1>9 DEF OInv, PublishedOnce
    <3> QED BY <3>6, <3>7
  <2> QED BY <2>1, <2>2
<1> QED BY <1>6, <1>8, <1>10 DEF OInv

LEMMA OnceAbandon == ASSUME SInv, OInv, RefuseTimestamps \/ CrashWriter PROVE OInv'
<1>1. writer' = NoWriter /\ UNCHANGED <<file, stamped, calls, version, queue, reader>>
  BY DEF RefuseTimestamps, CrashWriter
<1>2. CallsCounted' /\ OnlyCall' /\ PublishedOnce'
  BY <1>1 DEF OInv, CallsCounted, OnlyCall, Writing, PublishedOnce, Complete, Is
<1>3. HeldOnce'
  BY <1>1, HeldStays
<1> QED BY <1>2, <1>3 DEF OInv

(* The reader owes only what it holds.                                     *)
LEMMA OnceReader ==
    ASSUME OInv, UNCHANGED <<file, stamped, calls, version, writer>>, HeldOnce'
    PROVE  OInv'
  BY DEF OInv, CallsCounted, OnlyCall, Writing, PublishedOnce, Complete, Is

(* From a directory written once, every read returns its one version.      *)
LEMMA OnceAdvance ==
    ASSUME SInv, OInv, UNCHANGED <<file, stamped, calls, version, writer>>,
           reader.step # "idle",
           NEW s \in ReaderSteps \ {"metadata"}, NEW f \in Frame, Advance(s, f),
           ASSUME calls[reader.dir] <= 1, s # "idle" \/ f # NoFrame
           PROVE  /\ s # "killed" /\ Is(reader.dir, "metadata", f.metadata)
                  /\ f.valid \in {0, f.metadata} /\ f.validated \in {0, f.metadata}
                  /\ f.timestamps \in {0, f.metadata}
                  /\ f.reconstructed \in {0, f.metadata}
    PROVE  OInv'
<1>1. reader'.step = s /\ reader'.dir = reader.dir /\ reader'.frame = f
  BY AdvanceFacts DEF SInv
<1>2. DOMAIN f = {"metadata", "valid", "validated", "timestamps", "reconstructed"}
  BY DEF Frame
<1>3. HeldOnce'
  BY <1>1, <1>2 DEF HeldOnce, InUse, Is
<1> QED BY <1>3, OnceReader

LEMMA OnceReadStep ==
    ASSUME SInv, OInv,
           \/ Acquire \/ ReadMetadata \/ MapCapture \/ CopyValid \/ MapTimestamps
           \/ OpenFails \/ Validate \/ Reconstruct \/ Killed
    PROVE  OInv'
<1> DEFINE dir == reader.dir
           m == reader.frame.metadata
           Good(f) == /\ Is(dir, "metadata", f.metadata)
                      /\ f.valid \in {0, f.metadata} /\ f.validated \in {0, f.metadata}
                      /\ f.timestamps \in {0, f.metadata}
                      /\ f.reconstructed \in {0, f.metadata}
<1>1. UNCHANGED <<file, stamped, calls, version, writer>>
  BY DEF Acquire, ReadMetadata, MapCapture, CopyValid, MapTimestamps, OpenFails,
         Validate, Reconstruct, Killed
<1>2. CASE Acquire
  <2>1. HeldOnce'
    BY <1>2 DEF Acquire, HeldOnce, InUse
  <2> QED BY <1>1, <2>1, OnceReader
<1>3. CASE ~Acquire
  <2>1. reader.step # "idle" /\ reader.step # "killed"
    BY <1>3 DEF ReadMetadata, MapCapture, CopyValid, MapTimestamps, OpenFails,
                Validate, Reconstruct, Killed, Files
  <2>2. dir \in Directories /\ reader.frame \in Frame
    BY <2>1 DEF SInv, TypeInv, Reader
  <2>3. \A f \in Files : Read(f).version \in Nat
    BY <2>2 DEF SInv, TypeInv, FileState, Read
  <2>4. ASSUME calls[dir] <= 1, reader.step # "metadata"
        PROVE  Good(reader.frame) /\ Complete(dir, m)
    <3>1. Good(reader.frame)
      BY <2>1, <2>2, <2>4 DEF OInv, HeldOnce, InUse, Frame
    <3>2. Complete(dir, m)
      BY <2>2, <2>4, <3>1 DEF OInv, PublishedOnce, Is
    <3> QED BY <3>1, <3>2
  <2>5. CASE ReadMetadata
    <3> DEFINE f == [NoFrame EXCEPT !.metadata = Read("metadata").version]
    <3>1. f \in Frame /\ Advance("capture", f)
      BY <2>3, <2>5 DEF ReadMetadata, Frame, NoFrame, Files
    <3>2. Good(f)
      BY <2>5 DEF ReadMetadata, NoFrame, Is, Read
    <3> HIDE DEF f
    <3> QED BY <1>1, <2>1, <3>1, <3>2, OnceAdvance DEF ReaderSteps, Files
  <2>6. CASE MapCapture \/ MapTimestamps
    <3>1. PICK s \in {"valid", "validate"} : Advance(s, reader.frame)
      BY <2>6 DEF MapCapture, MapTimestamps
    <3>2. reader.step # "metadata"
      BY <2>6 DEF MapCapture, MapTimestamps
    <3> QED BY <1>1, <2>1, <2>2, <2>4, <3>1, <3>2, OnceAdvance DEF ReaderSteps, Files
  <2>7. CASE CopyValid
    <3> DEFINE f == [reader.frame EXCEPT !.valid = Read("valid").version]
    <3>1. f \in Frame /\ Advance("timestamps", f) /\ reader.step # "metadata"
      BY <2>2, <2>3, <2>7 DEF CopyValid, Frame, Files
    <3>2. ASSUME calls[dir] <= 1 PROVE Good(f)
      <4>1. Read("valid").version = m
        BY <2>4, <3>1, <3>2 DEF Complete, Is, Read
      <4> QED BY <2>2, <2>4, <3>1, <3>2, <4>1 DEF Frame
    <3> HIDE DEF f
    <3> QED BY <1>1, <2>1, <3>1, <3>2, OnceAdvance DEF ReaderSteps, Files
  <2>8. CASE OpenFails
    <3>1. NoFrame \in Frame /\ Advance("idle", NoFrame)
      BY <2>8 DEF OpenFails, NoFrame, Frame
    <3> QED BY <1>1, <2>1, <3>1, OnceAdvance DEF ReaderSteps
  <2>9. CASE Validate
    <3> DEFINE f == [reader.frame EXCEPT
                        !.validated = Read("capture").version,
                        !.timestamps = IF Stamped THEN Read("timestamps").version
                                       ELSE 0]
    <3>1. f \in Frame /\ reader.step # "metadata"
      BY <2>2, <2>3, <2>9 DEF Validate, Frame, Files
    <3>2. PICK s \in {"reconstruct", "idle"} : Advance(s, f)
      BY <2>9 DEF Validate
    <3>3. ASSUME calls[dir] <= 1 PROVE Good(f)
      <4>1. /\ Read("capture").version = m
            /\ Stamped => Read("timestamps").version = m
        BY <2>4, <3>1, <3>3 DEF Complete, Is, Read, Stamped
      <4> QED BY <2>2, <2>4, <3>1, <3>3, <4>1 DEF Frame
    <3> HIDE DEF f
    <3> QED BY <1>1, <2>1, <3>1, <3>2, <3>3, OnceAdvance DEF ReaderSteps
  <2>10. CASE Reconstruct
    <3> DEFINE f == [reader.frame EXCEPT !.reconstructed = Read("capture").version]
    <3>1. f \in Frame /\ Advance("idle", f) /\ reader.step # "metadata"
      BY <2>2, <2>3, <2>10 DEF Reconstruct, Frame, Files
    <3>2. ASSUME calls[dir] <= 1 PROVE Good(f)
      <4>1. Read("capture").version = m
        BY <2>4, <3>1, <3>2 DEF Complete, Is, Read
      <4> QED BY <2>2, <2>4, <3>1, <3>2, <4>1 DEF Frame
    <3> HIDE DEF f
    <3> QED BY <1>1, <2>1, <3>1, <3>2, OnceAdvance DEF ReaderSteps
  <2>11. CASE Killed
    <3>1. Advance("killed", reader.frame) /\ reader.step # "metadata"
      BY <2>11 DEF Killed
    <3>2. ~(calls[dir] <= 1)
      BY <2>4, <2>11, <3>1 DEF Killed, Complete, Is, Read, Stamped
    <3> QED BY <1>1, <2>1, <2>2, <3>1, <3>2, OnceAdvance DEF ReaderSteps
  <2> QED BY <1>3, <2>5, <2>6, <2>7, <2>8, <2>9, <2>10, <2>11
<1> QED BY <1>2, <1>3

(* Both invariants together.                                               *)
THEOREM OnceInvariant == Spec => []OInv
<1>1. SInv /\ OInv /\ [Next]_vars => OInv'
  <2> SUFFICES ASSUME SInv, OInv, [Next]_vars PROVE OInv'
    OBVIOUS
  <2>1. CASE UNCHANGED vars
    BY <2>1 DEF vars, OInv, CallsCounted, OnlyCall, Writing, PublishedOnce, Complete,
                Is, HeldOnce, InUse
  <2>2. CASE Next
    BY <2>2, OnceBegin, OnceOpen, OnceClose, OnceAbandon, OnceReadStep DEF Next
  <2> QED BY <2>1, <2>2
<1>2. Spec => []SInv
  BY ReplayInvariant
<1> QED BY <1>1, <1>2, OnceInit, PTL DEF Spec

(* A directory is published atomically to any reader as long as only one   *)
(* call ever writes into it, wherever that call dies or raises: what a     *)
(* frame of it holds is of one sequence id and stays mapped to the end.    *)
THEOREM WrittenOnceIsAtomic == Spec => []WriteOnceIsAtomic
  BY ReplayInvariant, OnceInvariant, OInvGivesAtomic, PTL
=============================================================================
