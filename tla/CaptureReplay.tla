---------------------------- MODULE CaptureReplay ----------------------------
(***************************************************************************)
(* Capture directories shared by the process that writes them              *)
(* (write_capture_directory, io/capture.py) and the runtime that replays   *)
(* them (open_capture_directory and CaptureDirectoryBackend).              *)
(*                                                                         *)
(* A directory holds four files, each rewritten in place: opening one for  *)
(* writing truncates it, and only closing it makes it whole.  Contents are *)
(* the version of the write call they come from; every version has the     *)
(* shape of the one plan.  The backend copies the validity mask but maps   *)
(* the samples and timestamps, so it reads these when they are used.       *)
(***************************************************************************)
EXTENDS Naturals, Sequences

CONSTANTS
    Directories,
    Replay,      \* the directories given to the backend, in order
    MaxWrites    \* bound on calls of write_capture_directory

ASSUME CaptureAssumption == Replay \in Seq(Directories) /\ MaxWrites \in Nat

Files == {"capture", "valid", "timestamps", "metadata"}
Stamps == {"absent", "sound", "malformed"}  \* slot_timestamps_ns of a write

VARIABLES
    file,      \* [version, whole] of each file of each directory
    stamped,   \* versions whose metadata names a timestamps file
    calls,     \* history: how many calls wrote into a directory
    version,   \* the version of the last call
    writer,    \* the call under way: its directory, next file and timestamps
    queue,     \* backend._directories
    reader     \* the acquisition and use of a frame under way

vars == <<file, stamped, calls, version, writer, queue, reader>>

Missing == [version |-> 0, whole |-> FALSE]
NoWriter == [step |-> "idle", open |-> FALSE]

(* The versions a frame holds: of its metadata and mask, of the samples    *)
(* and timestamps as validated, and of the samples as reconstructed.       *)
NoFrame == [metadata |-> 0, valid |-> 0, validated |-> 0, timestamps |-> 0,
            reconstructed |-> 0]

Init ==
    /\ file = [d \in Directories |-> [f \in Files |-> Missing]]
    /\ stamped = {}
    /\ calls = [d \in Directories |-> 0]
    /\ version = 0
    /\ writer = NoWriter
    /\ queue = Replay
    /\ reader = [step |-> "idle", frame |-> NoFrame]
-----------------------------------------------------------------------------
(* write_capture_directory.                                                *)

BeginWrite(d, t) ==
    /\ writer = NoWriter
    /\ version < MaxWrites
    /\ version' = version + 1
    /\ calls' = [calls EXCEPT ![d] = @ + 1]
    /\ writer' = [step |-> "capture", open |-> FALSE, dir |-> d, timestamps |-> t]
    /\ UNCHANGED <<file, stamped, queue, reader>>

Put(whole) ==
    file' = [file EXCEPT ![writer.dir][writer.step] =
                [version |-> version, whole |-> whole]]

OpenForWriting ==
    /\ writer.step \in Files /\ ~writer.open
    /\ ~(writer.step = "timestamps" /\ writer.timestamps = "malformed")
    /\ Put(FALSE)
    /\ writer' = [writer EXCEPT !.open = TRUE]
    /\ UNCHANGED <<stamped, calls, version, queue, reader>>

(* A plausible slip: the metadata goes first.                              *)
MetadataFirst(f, t) ==
    CASE f = "capture" -> "metadata"
      [] f = "metadata" -> "valid"
      [] f = "valid" -> IF t = "absent" THEN "idle" ELSE "timestamps"
      [] f = "timestamps" -> "idle"

NextFile(f, t) ==
    CASE f = "capture" -> "valid"
      [] f = "valid" -> IF t = "absent" THEN "metadata" ELSE "timestamps"
      [] f = "timestamps" -> "metadata"
      [] f = "metadata" -> "idle"

Close ==
    LET next == NextFile(writer.step, writer.timestamps) IN
    /\ writer.step \in Files /\ writer.open
    /\ Put(TRUE)
    /\ stamped' = IF writer.step = "metadata" /\ writer.timestamps = "sound"
                  THEN stamped \cup {version} ELSE stamped
    /\ writer' = IF next = "idle" THEN NoWriter
                 ELSE [writer EXCEPT !.step = next, !.open = FALSE]
    /\ UNCHANGED <<calls, version, queue, reader>>

(* Timestamps of the wrong shape are noticed after the samples and the     *)
(* mask are in place; the call raises and leaves them there.               *)
RefuseTimestamps ==
    /\ writer.step = "timestamps" /\ ~writer.open
    /\ writer.timestamps = "malformed"
    /\ writer' = NoWriter
    /\ UNCHANGED <<file, stamped, calls, version, queue, reader>>

(* The writing process dies; what it wrote stays.                          *)
CrashWriter ==
    /\ writer # NoWriter
    /\ writer' = NoWriter
    /\ UNCHANGED <<file, stamped, calls, version, queue, reader>>
-----------------------------------------------------------------------------
(* CaptureDirectoryBackend.acquire, then the two uses of its frame.        *)

Read(f) == file[reader.dir][f]
Advance(step, frame) == reader' = [reader EXCEPT !.step = step, !.frame = frame]

(* The directory leaves the queue before it is opened.                     *)
Acquire ==
    /\ reader.step = "idle"
    /\ queue # <<>>
    /\ queue' = Tail(queue)
    /\ reader' = [step |-> "metadata", dir |-> Head(queue), frame |-> NoFrame]
    /\ UNCHANGED <<file, stamped, calls, version, writer>>

ReadMetadata ==
    /\ reader.step = "metadata" /\ Read("metadata").whole
    /\ Advance("capture", [NoFrame EXCEPT !.metadata = Read("metadata").version])
    /\ UNCHANGED <<file, stamped, calls, version, writer, queue>>

MapCapture ==
    /\ reader.step = "capture" /\ Read("capture").whole
    /\ Advance("valid", reader.frame)
    /\ UNCHANGED <<file, stamped, calls, version, writer, queue>>

CopyValid ==
    /\ reader.step = "valid" /\ Read("valid").whole
    /\ Advance("timestamps", [reader.frame EXCEPT !.valid = Read("valid").version])
    /\ UNCHANGED <<file, stamped, calls, version, writer, queue>>

Stamped == reader.frame.metadata \in stamped

MapTimestamps ==
    /\ reader.step = "timestamps"
    /\ Stamped => Read("timestamps").whole
    /\ Advance("validate", reader.frame)
    /\ UNCHANGED <<file, stamped, calls, version, writer, queue>>

(* A missing or truncated file makes acquire raise; the directory is not   *)
(* put back.                                                               *)
OpenFails ==
    /\ reader.step \in Files
    /\ ~Read(reader.step).whole
    /\ reader.step = "timestamps" => Stamped
    /\ Advance("idle", NoFrame)
    /\ UNCHANGED <<file, stamped, calls, version, writer, queue>>

(* validate_frame reads what the mapped files hold now.                    *)
Validate ==
    /\ reader.step = "validate"
    /\ Read("capture").whole
    /\ Stamped => Read("timestamps").whole
    /\ \E step \in {"reconstruct", "idle"} :  \* accepted, or rejected
           Advance(step, [reader.frame EXCEPT
               !.validated = Read("capture").version,
               !.timestamps = IF Stamped THEN Read("timestamps").version ELSE 0])
    /\ UNCHANGED <<file, stamped, calls, version, writer, queue>>

(* process_capture reads the mapped samples again.                         *)
Reconstruct ==
    /\ reader.step = "reconstruct"
    /\ Read("capture").whole
    /\ Advance("idle", [reader.frame EXCEPT !.reconstructed = Read("capture").version])
    /\ UNCHANGED <<file, stamped, calls, version, writer, queue>>

(* Reading a mapped file beyond its new end kills the process.             *)
Killed ==
    /\ \/ reader.step \in {"validate", "reconstruct"} /\ ~Read("capture").whole
       \/ reader.step = "validate" /\ Stamped /\ ~Read("timestamps").whole
    /\ Advance("killed", reader.frame)
    /\ UNCHANGED <<file, stamped, calls, version, writer, queue>>

Next ==
    \/ \E d \in Directories, t \in Stamps : BeginWrite(d, t)
    \/ OpenForWriting
    \/ Close
    \/ RefuseTimestamps
    \/ CrashWriter
    \/ Acquire
    \/ ReadMetadata
    \/ MapCapture
    \/ CopyValid
    \/ MapTimestamps
    \/ OpenFails
    \/ Validate
    \/ Reconstruct
    \/ Killed

Spec == Init /\ [][Next]_vars
-----------------------------------------------------------------------------
(* However calls overlap, crash or raise, metadata is never newer than the *)
(* data beside it: no sequence id is ever published, and no frame read or  *)
(* used, with samples, a mask or timestamps from before that sequence id.  *)
NoStaleData ==
    /\ \A d \in Directories : file[d]["metadata"].whole =>
           LET v == file[d]["metadata"].version IN
           /\ file[d]["capture"].version >= v
           /\ file[d]["valid"].version >= v
           /\ v \in stamped => file[d]["timestamps"].version >= v
    /\ LET frame == reader.frame IN
       /\ frame.valid # 0 => frame.valid >= frame.metadata
       /\ frame.validated # 0 => frame.validated >= frame.metadata
       /\ frame.timestamps # 0 => frame.timestamps >= frame.metadata
       /\ frame.reconstructed # 0 => frame.reconstructed >= frame.validated

(* A directory that only one call ever wrote into is read whole or not at  *)
(* all: once its metadata can be read every file it names is there to map  *)
(* and nothing kills the reader; mask, samples and timestamps belong to    *)
(* the metadata's sequence id, and what is reconstructed was validated.    *)
WriteOnceIsAtomic ==
    (reader.step # "idle" \/ reader.frame # NoFrame) /\ calls[reader.dir] <= 1 =>
        LET frame == reader.frame IN
        /\ reader.step # "killed"
        /\ frame.metadata # 0 =>
               /\ Read("capture").whole /\ Read("valid").whole
               /\ Stamped => Read("timestamps").whole
        /\ \A part \in DOMAIN frame : frame[part] \in {0, frame.metadata}
=============================================================================
