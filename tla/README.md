# SparseEcho in TLA+

A specification of the SparseEcho reference implementation (`src/sparseecho` in
the repository): TLA+ modules translated from the Python source, TLC
configurations that check them on small instances, and TLAPS proofs of the
properties that matter most. Line numbers below are those of the source files.

## 1. The system

SparseEcho reconstructs a sparse set of 32-bit identities from complex samples
("slots") that a deployment acquires under a compiled query plan. The runtime is
a closed loop: it asks a backend for a frame, validates it, snapshots the
calibration, reconstructs, measures how far the phase of the channel turned in a
view, and accepts the result or asks for a shorter aperture.

| Component | State it keeps | Operations | Talks to |
|---|---|---|---|
| Closed-loop runtime, `runtime/service.py` | newest sequence id (for the life of the object); request, attempts (for a run) | `run_once` | backend, validation, calibration, engine, controller, telemetry: all synchronous calls |
| Frame validation, `runtime/validation.py` | none | `validate_frame` | called by the runtime |
| Acquisition controller, `planning/controller.py`, `planning/aperture.py` | none | `decide` | called by the runtime and the session |
| Capture files, `io/capture.py` | four files in a directory | `write_capture_directory`, `open_capture_directory` | the file system, another process |
| Replay backend, `runtime/file_backend.py` | queue of directories | `acquire` | capture files; called by the runtime |
| Telemetry, `runtime/telemetry.py` | an append-only file, a lock | `emit` | called by runtimes on any thread |
| Calibration, `calibration/` | a JSON file that an operator replaces | `snapshot`, `validate` | called by the runtime before each reconstruction |
| Adaptive session, `session.py` | decisions and request of one `run` | `run` | engine, controller |
| Query plan, `planning/hashes.py`, `planning/query_plan.py` | none | `compile_query_plan`, `challenge`, `hash_ids`, `pass_orders`, `fingerprint` | engine and backend each compile one |
| Support recovery, `recovery/` | none | per view `decode`, global assembly | engine |
| Engine, `engine.py`, `temporal/` | immutable; the views done in one call | `process_capture` | runtime, session |
| Transforms, `transforms/walsh.py`, `temporal/fiber.py` | none | Walsh transform, Gray order, shells, fiber coefficients | plan, view decoder, controller |
| Command line, simulator, metrics, schemas | none | | not modelled |

What is hard in this code:

* **A loop whose every call may fail.** The backend, the calibration provider,
  the engine and the telemetry sink belong to the deployment. The first three are
  called inside a `try`; the sink is not, so its exception leaves `run_once` in the
  middle, after a frame was consumed. Retries of bad frames and compressions of the
  aperture spend one budget, tested in two places (l. 93 and l. 168).
* **State that outlives a run.** `_last_sequence_id` orders frames across runs,
  whatever ended them.
* **An ordered verdict.** `validate_frame` reports the first of twelve tests that
  fails, and whether the runtime retries depends on which one is first.
* **Files rewritten in place and memory-mapped.** The samples that were validated
  may be replaced, or truncated, before they are reconstructed; a writer may crash,
  or raise its own shape error, between two files.
* **A runtime shared by threads.** `_last_sequence_id` is read in one step (l. 76)
  and assigned in another (l. 102). `docs/PORTING.md:24` leaves it to the deployment
  to guard a runtime by a stream key or by an external lock.
* **A calibration that is replaced.** The file is read anew for each attempt, while
  an operator rewrites it; the frame it is applied to was acquired before.
* **Two ends of one code.** The transmitter sends rows of a matrix over GF(2), the
  receiver hashes by byte tables, the recovery inverts sums of views, the decoder
  assumes a temporal structure that only the order of execution gives. Each is coded
  on its own and they have to fit.
* **Erasures that spread.** The inverse of the switch response carries the error of
  an erased slot on through the capture, across passes and views; several passes
  are combined where they observed a query; what is left is repaired only after a
  first decoding.
* **Support that may be missing.** A few views may miss an identity, and candidates
  are truncated by score before they are verified.
* **Estimates in a loop.** The span that a session decides on is a quantile over views
  of quantiles over the components a matched search happened to find, turned into a
  factor with a floor: an acceptance says something only about as many components as
  the quantiles do not leave out, and a session may be given up because the
  estimates were wrong.
* **One journal for many threads.** Records are made outside the lock and stamped by a
  wall clock that can be set back, long lines take several system calls, and any of
  them may fail.

What makes each part correct: the runtime never reconstructs a frame twice or out
of order, its attempts, its telemetry and its outcome agree, and it ends within its
budget; validation accepts exactly the frames of the documented contract and calls
recoverable only what repeating the acquisition can cure; a replayed frame never
carries data older than its metadata; a journal loses no record of an `emit` that
returned, save one after a failure, and its lines tell the order of the calls; a
guarded runtime keeps the order of its stream, loses no frame and never goes back to
an older calibration; a plan
spreads the identities evenly and its challenges are characters of the buckets; a
measured query is neither discarded nor overwritten; an identity that enough views
support is returned; a session that accepts has few spans above its budget, and one
that gives up has a cause.
The hazards, each at its line, are in `PROJECT.json`.

## 2. Modules

| Module | Models | State | Actions |
|---|---|---|---|
| `RuntimeContracts` | fault codes and faults of `runtime/contracts.py`; the verdict on an abstract frame | none | none |
| `AdaptiveController` | `decide`, with exact fractions | none | none |
| `ReconstructionRuntime` | `run_once` | `last_sequence_id`, the local variables of a call, its outcome and telemetry; history `consumed` | one per step between two external calls, with one per way to leave each |
| `ReconstructionCycle` | the documented cycle over `RuntimeState` | `state`, `reacquisitions` | begin, validate, complete, fault, postpone, reacquire, abort |
| `FrameValidation` | `validate_frame`, `_max_false_run` | one frame, one remembered id, the verdict | `Validate` |
| `CaptureReplay` | `write_capture_directory`, `open_capture_directory`, `CaptureDirectoryBackend.acquire` | the four files of each directory, the call under way in the writer, the queue, the frame in use | open and close of each file, late error, crash; each read of the reader |
| `TelemetryJournal` | `JsonlTelemetrySink.emit` | emitters, lock, the pieces in the file; histories of calls, returns and failures | begin, lock and open, write whole or in two, return, fail, crash |
| `SharedRuntime` | `run_once` by several threads; `JsonCalibrationStore`, `CalibrationSnapshot.validate` | guard of the deployment, newest id of each runtime, external locks, place and frame of each thread, its snapshot, the calibration file; histories `age`, `consumed`, `refused`, `attempts` | enter, acquire, validate, assign, snapshot, reconstruct for each thread; begin and end of a replacement |
| `SerialRuntime` | what a guard of `docs/PORTING.md:24` promises: runtimes that serve one call after another | phase and reacquisitions of each runtime, frames taken and refused | begin, take, refuse, again, end |
| `AdaptiveSession` | `AdaptiveReconstructionSession.run`, the quantile over strong components in `engine.py`, the quantile over views in `decide` | request, scale of the current result, spans of its strong components, decisions | acquire, decide |
| `Gf2` | elimination, rank, inverse, product over GF(2) | none | none |
| `Walsh` | `transforms/walsh.py`, shells of `temporal/fiber.py`, the correlation step of the view decoder | none | none |
| `Fiber` | fiber coefficients, shell and tail energies of `temporal/fiber.py` | none | none |
| `LocalOrder` | orders of the local queries and the passes over them | none | none |
| `QueryPlan` | views, byte tables, challenges, compiled plans, fingerprint | none | none |
| `SupportRecovery` | `recovery/global_support.py`: quads, gates, score, truncation, groups, verification | none | none |
| `IdentityPath` | plan check, view loop and recovery of `process_capture` over the three above | two plans, scene, buckets detected so far, identities | accept or refuse a frame, observe a view, recover |
| `EngineCapture` | `process_capture` on slots: `_prepare_views`, `_synthesize_view`, `transient.py`, `erasure.py` | erased slots, error left in each slot, spectrum and detection of each view | refuse, prepare, decode a view |

`ReconstructionRuntime` extends `RuntimeContracts` and `AdaptiveController`; it
uses the verdict of `RuntimeContracts!Verdict`, and `FrameValidation` shows (and
`FrameValidationProofs` proves) that this is the verdict of the twelve tests on a
concrete frame. `ReconstructionRuntime` implements `ReconstructionCycle` through
the refinement mapping at its end, and `SharedRuntime` implements `SerialRuntime`:
a runtime is where its one caller is, and it takes a frame where the caller
assigns its id, not where it tests it. `Walsh` extends `Gf2`; `Fiber`
and `LocalOrder` extend `Walsh`, and `LocalOrder` is what the plan and the engine share;
`QueryPlan` extends it, `SupportRecovery` extends `QueryPlan`, and `IdentityPath`
composes plan, recovery and fibers. `EngineCapture` extends `LocalOrder`; `AdaptiveSession` extends `AdaptiveController`.
`MC*` modules hold the small instances.

How the runtime's state corresponds to the code: `pc` is the place in `run_once`
between two external calls; `attempt_index`, `aperture_scale`, `attempts` are its
local variables; `frame` is abstracted to its sequence id and the defect that
validation finds in it when no id is remembered; `span` stands for the result of
`process_capture`, which is named by its frame's id; `journal` holds the events of
the current run; `outcome` is what the last call returned, or `raised`. History
variables (`consumed`, and in the other modules `age`, `begun`, `calls`, `returned`,
`failures`) are never read by a guard, except for bounds.

How the other modules abstract data:

* A vector over GF(2) is the set of the positions of its ones, so that a hash, a
  challenge, a query and a spectral index are sets of small numbers. The random
  generator is `Draws`: the matrices each seed yields, those without full rank
  (which the code draws again) among them.
* `IdentityPath` reduces a view's decoder to the buckets it may propose: those of
  the active identities, save where one is missed, and clutter, of which it keeps any
  `view_max_components`. The spatial
  consistency of an identity is `low`, `marginal` (passes only where the code's
  threshold is the low one) or `high`.
* `EngineCapture` keeps of a sample where it comes from (`zero`, `measured`, `fit`)
  and the order of the error the switch response left in it: products of how many of
  the later taps it is off by. Receiver calibration divides and changes neither.
* `Fiber` computes with Gaussian integers: a phase step is `z`/|z| for an integral
  `z`, and everything is scaled by powers of |z|.
* `AdaptiveSession` leaves open which strong components a view reports and at which
  steps of the phase grid: the search in `temporal/view.py` takes maxima of matched
  scores among components that disturb one another, so a report may be off by any
  number of steps and need not shrink with the aperture. Every report is possible after
  every request. Spans are in hundredths of a step, so that two interpolations by tenths
  are exact.
* `SharedRuntime` reduces a frame to its id and the end of its capture, both counters,
  and a calibration to its interval and whether its taps and gains are usable. Which
  content of the file a snapshot has is told by the history `age`, the replacements
  begun when it was read.
* `TelemetryJournal` leaves `wall_time_ns` out: `time.time_ns()` may stand still or step
  back, so it orders nothing. The order followed is that of the calls.
* `EngineCapture` has one flag for the shapes of mask, calibration and taps, which are
  refused before or while the views are prepared.

A block that makes several changes before the next external call is one action:
`RejectFrame` appends the attempt, emits, and either goes around the loop or
returns. Where the sink is called last in such a block, both its outcomes are in
the action (`Emit`): the event is recorded and the block goes on, or the exception
leaves `run_once` with the attempt recorded and no outcome.

## 3. Runs

| Run | Checks | Shows |
|---|---|---|
| `runtime_safety` | `TypeOK`, `ConsumedIncreasing`, `FramesAccounted`, `LedgerChains`, `OutcomeExplained`, `JournalTellsAttempts`, `ImplementsCycle`, `EveryRunEnds`, `EveryStepSpends` | any sequence of runs with any frames, spans and failures; every run ends if external calls return, since each of its steps uses up some of its budget |
| `runtime_exhaustion` | `FaultIsEmitted` (violated) | `reacquire_exhausted` is returned but never emitted |
| `frame_validation` | `AcceptedIffConformant`, `RetryIsWorthwhile`, `AbstractionFaithful` | the ordered tests against the documented contract |
| `frame_timing` | `MalformedTimingIsHard` (violated) | an erasure fault hides a malformed timing record |
| `capture_replay` | `NoStaleData`, `WriteOnceIsAtomic` | a writer and a replay on the same directories |
| `telemetry_journal` | `DamageIsLocal`, `RecordedOnce`, `LinesFollowCalls` | two threads, failing writes and crashes |
| `telemetry_partial` | `OneEventPerLine` (violated) | the event after an unfinished line shares it |
| `shared_runtime` | `ConsumedInOrder`, `SoundFramesPass`, `CalibrationCoversFrame`, `CalibrationsInOrder`, `ImplementsSerial` | two threads under a lock, a key, both or neither, while the calibration is replaced; under a guard they are runtimes serving one call after another |
| `adaptive_session` | `AcceptedWithinBudget`, `ExhaustedForCause`, `FinalMatchesRequest` | the session's loop over whatever the views report |
| `identity_recovery` | `ChallengesAreCharacters`, `BucketsBalanced`, `PassesBalanceTime`, `GrayTimeIsSparse`, `FiberMatchesSchedule`, `MatchIsCorrelation`, `MatchingPlansAgree`, `SupportedIdentitiesReturned` | from any pair of plans over any pattern of missed views to identities |
| `engine_capture` | `InverseErrorDecays`, `ObservedQueriesMeasured`, `DetectedOnlyAfterRepair` | every capture with a few erasures, in one, two and four passes |
| `engine_erasure` | `NoMeasuredZero` (violated) | a view that proposes nothing keeps zeros for its erased slots |

Bounds, and why they are enough:

* `runtime_safety`: `MaxReacquisitions = 3`, one more than the default, so that two
  kinds of reacquisition can alternate. Ids are 0..3: they repeat, regress and jump,
  and since `consumed` increases strictly the state space is finite without a bound
  on runs. Defects: one tested before the sequence id, one hard and one recoverable
  tested after it. Spans: accepted, compressed, and compressed to the minimal factor.
* `frame_validation`: five slots. All 32 masks with one bad sample and five
  timestamp records; all cadences of four gaps around the limit, with the interval
  ends on and off the record; all combinations of the remaining fields
  (samples in two dimensions or in three). The limits
  (two fifths invalid, runs of one, a fifth of jitter) put frames on both sides of
  and exactly on each of them.
* `capture_replay`: two directories, three writes, and a replay that visits one of
  them twice: a rewrite may overlap a read, follow a crash, or precede the second
  visit. `MaxWrites` bounds `version`.
* `telemetry_journal`: two threads of three events, two failures: both threads may
  wait while a line is half written, and a failure may follow a failure.
* `shared_runtime`: two threads on one stream or two, three frames to a stream
  (enough for one thread to overtake the other twice), one reacquisition, one
  replacement among a calibration that expires with the third frame, one that is
  not active before the second, and one that does not fit the receivers. Threads and
  streams are interchangeable, hence the symmetry.
* `adaptive_session`: three views with up to two strong components each, at one, two or
  three steps, against a budget of one and a half; so spans lie on both sides of it
  and each quantile interpolates between some of both. The safety factor is 3/4 and the
  least factor 1/2 instead of 0.9 and 0.2: three steps ask for less than the least
  factor, two do not, and products of three factors stay within 32 bits. Two
  reacquisitions are the default. Views and buckets are interchangeable, hence the
  symmetry.
* `identity_recovery`: identities of eight bits in four fields of two, lookup tables of
  three digits, so that the last one is cut off as it is for a width that is not a
  multiple of eight; thirteen views, so that both early groups exist; support of
  ten, so three views may miss, and a fourth miss is explored as well
  (`MaxMisses`); three candidates kept, so that truncation happens. One scene has two
  identities, one of marginal consistency; the other has clutter in every view, in the
  last one more than the three components a view keeps, and two views in which its
  other identity is faint. The properties of plans and transforms are evaluated on
  every pair of plans, for widths up to three bits.
* `engine_capture`: two views of four slots in one, two and four passes, and a
  response of three taps, so that it reaches over the end of passes and views; all
  patterns of up to three erasures, enough to erase a query in every pass but one.
  `engine_erasure` needs a single one.

`CHECK_DEADLOCK FALSE` is set where the system really stops: a frame is judged
once, the replay queue is used up and the write bound reached, all events are
emitted, a capture is processed once, a session returns, the frames of all streams
are used up. The runtime itself can always be called again and is checked for deadlock.

Fairness is assumed in `runtime_safety` only: `FairSpec` has weak fairness of `Step`, every action but the call of
`run_once`. The code has no waiting of its own: it is one synchronous loop, so it
goes on as long as the external calls return. It has no timeout on
`backend.acquire`; a backend that never returns is outside the assumption. Nothing
is assumed of which frame, span or failure comes next.

Each property has a mutant: a plausible slip in the code (`MayRetryForever`,
`AcceptFrameForgotten`, `LastFalseRun`, ...), written beside the definition it
replaces, under which TLC finds the property violated.

## 4. Divergences found

1. `service.py:174` returns `reacquire_exhausted` without emitting it, while
   `docs/OPERATIONS.md:17` lists it among the codes the runtime emits. An operator
   who watches the journal sees a compression as the last event of the run.
2. `validation.py:47` reports excess erasures, which are retried, before it looks at
   the timestamps; `docs/OPERATIONS.md:13` calls a malformed timing record a hard
   fault.
3. `telemetry.py:26` appends to an unfinished line; `docs/OPERATIONS.md:38` says one
   event per line. The damage is one further record (`DamageIsLocal`).
4. `engine.py:163` repairs the erased slots of a view only if a first decoding, with
   zeros in their place, proposes a bucket; otherwise the zeros enter the transform
   as samples, and the noise floor and the spatial consistency are measured in it.
   `README.md:110` says that no capture is accepted as a measured zero. Nothing is
   proposed from such a view (`DetectedOnlyAfterRepair`).

Remarks that contradict no document:

* A lock without a key keeps the frames of one runtime in order, but when streams are
  unrelated the ids of one refuse the frames of the other (`SoundFramesPass` asks for
  one stream).
* `min_view_support` may exceed `n_views`, as 13 does for a plan of 12 views; then no
  identity is ever returned. `local_bits` may be up to 16, while quads are packed into
  fields of eight bits.
* Slots after an erasure are not marked invalid by the switch inverse; repair
  therefore never touches them, and what remains in them is the decaying error of
  `InverseErrorDecays`.
* Nothing makes a session close: a decoder that keeps reporting spans further above the
  aim of the last factor than the safety factor keeps in reserve uses up every
  reacquisition. `ExhaustedForCause` says that nothing else does, save the least factor.
* A result without any strong component has span zero, and is accepted.
* The loop of `run_once` ends in a `RuntimeError` (`service.py:181`) if its range is used
  up. The tests at l. 93 and l. 168 make that line unreachable, so the model has no
  such step; a slip in them that the model follows past the range would show there as
  that exception.
* `erasure_repair_candidate_limit` may be zero, and the repair then has no bucket to
  fit; `EngineCapture` takes it to be positive, as the default is.
* New samples may stand beside the metadata of an earlier write, while a directory is
  rewritten and after a writer died there. `NoStaleData` does not exclude it; it excludes
  the opposite, metadata that describe samples not yet written.

## 5. Proofs

`ReconstructionRuntimeProofs` proves, for every budget, every set of ids, defects
and spans, every controller constant and with or without telemetry failures
(`RuntimeAssumption`, `ControllerAssumption`):

* `TypeCorrectness`, `FramesConsumedInOrder`, `AttemptsAccountForFrames`,
  `AttemptsChain`, `OutcomesExplained`, `TelemetryTellsAttempts`: the six invariants
  of `runtime_safety`;
* `RuntimeImplementsCycle`: `run_once` implements the documented cycle;
* `RunsSpendTheirBudget` (`EveryStepSpends`): every step of a run decreases `Remaining`, a
  natural number made of the attempts left and the steps left in this one. It is the
  safety half of `EveryRunEnds`; the other half is that the external calls return.

None of the properties is inductive alone. The invariant `IInv` adds to them that
the frame held after validation is the newest consumed one (`HeldFrame`), that the
journal is exactly one request ahead of the attempts once the request is out
(`OpenRequest`), and that no outcome is set while a run is under way
(`OutcomePending`). Each action has a step lemma; `InvariantHolds` combines them, and
every theorem above follows from it. For the refinement each action is matched with
the action of the cycle it implements, or with a stutter; the guards supply the
budget, `IInv` that no outcome is set before the run ends. `IInv` was checked
by TLC on the instance of `runtime_safety` before it was proved.

`FrameValidationProofs` proves the three invariants of `frame_validation` for any
plan, limits and frames (`LimitsAssumption`; `FramesAssumption` gives the fields of a
frame their types):

* `AbstractionHolds`: the verdict depends on the frame's id and on the defect found
  when no id is remembered, as `RuntimeContracts!Verdict` says. Only the second test
  looks at the remembered id, so the first failure with an id is test two, unless
  test one fails, or else the first failure without an id.
* `AcceptsTheContract`: a frame passes exactly if it meets the contract. The loop of
  `_max_false_run` is followed slot by slot (`RunByRun`) with the invariant
  `Counted`: the run under way cannot be extended to the left, the best run is a window
  of invalid slots and none is longer; hence `BurstIsFound`. Positive gaps are an
  increasing cadence (`CadenceIncreases`), the median of positive gaps exists
  (`KthSmallestIsNatural`), and the jitter test is two bounds (`JitterBounds`).
* `RetriesAreSpentWell`: after a recoverable fault the first seven tests hold
  (`RecoverableFaults`), and the undisturbed frame passes the others (`CuredPasses`).
  The proof needs that an interval with timestamps is at least as many nanoseconds
  long as it has slots, which `RetryIsWorthwhile` now says: erasures are tested before
  the timestamps, so an erased frame whose interval cannot hold them is retried in
  vain.

`CaptureReplayProofs` proves `ReplayNeverStale` (`NoStaleData`) for any directories,
replay order and number of writes. The invariant `SInv` says in addition that a call
is ahead of its own files in order (`WriterInOrder`: the files before the one it is
at are already of its version and no published metadata is), that the data beside a
published version is not older than it, and that the same holds of the version the
reader holds, since files only get newer under it (`HoldingStays`). It also proves
`WrittenOnceIsAtomic` (`WriteOnceIsAtomic`): while a directory has been written by one
call only (`OInv`), its files are written in order and its metadata last, so whoever
finds metadata finds everything.

`TelemetryJournalProofs` proves all three properties of `telemetry_journal`
(`JournalDamageIsLocal`, `JournalRecordsOnce`, `JournalFollowsCalls`) for any emitters,
events and failures. `JInv` says that the lock admits one writer, that a tail stands
right after its head, that a head without its tail is the last piece while its
writer is between the two, or is of a failed emit, and that what stood in the file
before an emitter's last line belongs to calls that began before its next one. The
emitter `Nobody`, which holds a free lock, is assumed to be none of the emitters.

`SharedRuntimeProofs` proves all five properties of `shared_runtime`
(`GuardedRuntimesAreSerial`, `GuardedRuntimesConsumeInOrder`, `GuardedRuntimesRefuseNothing`,
`ReconstructionsCalibrated`, `CalibrationsKeepOrder`) for any threads, streams, guards,
calibrations and bounds. `SharedInv` adds that whoever is in `run_once` under a lock
holds it and that no two threads are in one guarded runtime (`Exclusive`), so that
the id tested by `Validate` is still the newest one when `Assign` replaces it
(`AssignedIsNewer`); and that in a runtime of one stream the newest id is one that
the stream has delivered (`StreamAhead`). That a snapshot covers its capture needs no
guard. That calibrations keep their order does: `AgeInv` says that no attempt has a
later content of the file than there is, and that the frame a guarded runtime holds is
newer, and its snapshot no older, than those of all its attempts.
`GuardedRuntimesAreSerial` (`ImplementsSerial`) maps the steps of the threads to
those of `SerialRuntime`: entering begins a call, the assignment takes a frame, a test
that finds a regression refuses it, and the rest stutters or ends the call.
`Exclusive` makes the caller of a runtime unique, so that a step of one thread moves
one runtime, and `TakenInv` relates the newest id to the last frame taken.

`EngineCaptureProofs` proves `MeasurementsKept` (`ObservedQueriesMeasured`) and
`NothingFoundInZeros` (`DetectedOnlyAfterRepair`) for any plan, number of passes,
taps and erasures: each view ends with its synthesized samples or with their repair
(`ViewsDone`), which are settled once the capture is prepared. `ErasureErrorDecays`
(`InverseErrorDecays`) follows the recursion of the switch inverse: an order of error
is one more than that of one of the `Taps - 1` slots before it, or the slot is exact.
The property is stated with a multiplication, so that it also covers a response of
one tap.

`AdaptiveSessionProofs` proves all three properties of `adaptive_session` for any views,
buckets, spans, budgets and factors, and without a hypothesis on what the decoder
reports:

* `FinalRequestTold` (`FinalMatchesRequest`): `SessionInv` relates the request to the
  decisions so far and the current result to the request (`Asked`, `Closed`).
* `AcceptedSpans` (`AcceptedWithinBudget`): spans can be put in ascending order
  (`AllSortable`), the quantile lies between two of them, so what is above it stands after
  its place, and few places are left (`FewAbove`). The lemma is used twice, for
  the components of a view and for the views.
* `ExhaustionExplained` (`ExhaustedForCause`): `Spent` says that every decision is that of
  `decide` on its span and that all but the last asked for another acquisition. A factor
  above the least one aims at `Safety / Unit` of the budget, so a report that is not
  accepted after it is above its aim by more than the rest (`CompressionMissed`).

`IdentityPathProofs` proves all eight properties of `identity_recovery` for identities,
views, tables and transforms of any size:

* `AcceptedPlansAgree` (`MatchingPlansAgree`): the challenges of every pass count are those
  of one pass, repeated in the order of the plan, and both are in the payload of the
  fingerprint.
* `ChallengesAnswerBuckets` (`ChallengesAreCharacters`): the parity of intersections is
  bilinear; the byte tables partition the columns (`HashIsProduct`), and the parity of
  rows and columns can be counted in either order (`DoubleParity`).
* `EveryBucketAlike` (`BucketsBalanced`): a turn of the elimination of `gf2_rank` keeps a
  pivot for every row counted so far, and if the matrix after it is onto, so was the
  one before (`EliminationStep`); a matrix with a pivot in every row is onto, so full
  rank makes the map onto the buckets (`FullRankOnto`; `StructuredOnto` for the seven
  structured views); the fibers of a linear map onto are translates of each other
  (`FibersAlike`), hence of equal size.
  The proof assumes `GeneratorAssumption`: `_random_full_rank` returns, that is, the
  generator comes to as many matrices of full rank as there are random views.
* `QueriesCentered` (`PassesBalanceTime`): the binary and the Gray order are bijections
  between the slots and the queries (`BitsReachEverySet`, `GrayReachesEverySet`, by
  induction over the width), so the reversed pass meets a query as far from its end
  as the other from its beginning (`TimesOfPasses`); the sum of the library adds up
  in any order (`SumUnique`, `SumOne`).
* `SupportedRecovered` (`SupportedIdentitiesReturned`), for plans with fields as wide as
  buckets that may lack at most three views of support, as the default parameters
  have them. The invariant `PathInv` says that what is returned was recovered from what
  was detected with the accepted plan. Any two structured views are avoided by one of the
  seven bases (`TwoMissesAvoided`); each is nonsingular (`QuadsNonsingular`), so
  `_gf2_inverse` inverts it (`InverseOfRows`: while a column is cleared, the right half
  of a row tells which rows its left half is the xor of) and the buckets decode to
  the target (`DecodeRecovers`). One of the two early groups lost at most one view to
  the misses, so the target passes its gate; its score is at least two, so the record
  is kept unless others crowd it out (`NotCrowdedIsKept`), and the final filter finds the
  support that was assumed.
* `MatchedByTransforms` (`MatchIsCorrelation`): each butterfly round is its own adjoint
  and doubles inner products (`SelfAdjoint`, `InnerDoubles`), hence `Parseval` for the
  whole transform; its value at an index is the inner product with that index's
  character (`FwhtAt`), and shifting a signal multiplies its transform by a character
  (`FwhtShifted`). `MatchesCorrelate` holds for all integer signals.
* `TimeStaysInShells` (`GrayTimeIsSparse`): the bits of two neighbouring slots differ in
  0..m for some m (`Carry`), which the linear Gray code turns into one bit
  (`GrayLinear`, `GrayOfCarry`). Bit i of a query's rank is the parity of the
  query on the i-th generator (`GrayInverseBits`), so physical time is a sum of
  characters with weights -2^i (`TimeGrows`), and these are orthogonal
  (`Orthogonal`, from `Parseval` on indicators). Multiplying a signal by a character
  moves its transform (`FwhtModulated`), so each factor of time moves it by at most one
  generator (`TimesTime`, `PowersSpread`). `HadamardIsCharacters` follows the doublings.
* `FiberFollowsSchedule` (`FiberMatchesSchedule`), for every Gaussian integer as phase step.
  The phase at a query, taken over the low bits of its rank, gets with each further bit a
  factor cos(theta) or plus or minus j sin(theta) by the character of one generator
  (`RampTurns`, `RampGrows`). Its transform therefore spreads from each offset to the one
  moved by that generator (`RampPartsMove`), and the generators are independent
  (`CombosDiffer`, `CombosReach`), so after all bits each offset holds the product that
  `doppler_fiber_coefficients` forms (`RampSpectrum`). The recursion of
  `doppler_shell_energies` sums the energies of those products over the subsets of one
  size (`ShellSums`), and what `tail_energy` adds up are the subsets above the order,
  which are the offsets outside the modeled shells (`TailSums`, `ShellMembers`).

Loops over data are treated by induction in the form of least elements
(`LeastElement`, `SetInduction`): a set of naturals that holds zero and with each
member the next holds them all. It needs no parameter that is an operator, and the
folds of the models are shown to exist and to obey their recursion before they are
used (`FoldExists`, `RunByRun`).

Only model-checked: liveness (`EveryRunEnds`), which the prover cannot treat; its safety half
is `RunsSpendTheirBudget`. What TLC refutes (section 4) is no theorem. Every other property of
a run is proved for all values of the constants, those of `identity_recovery` under the
hypotheses named above.

## 6. What the models leave out

* In `ReconstructionRuntime`: `pass_count`, reasons, fault details, elapsed time and
  calibration epochs: no guard reads them. The quantiles over components and views are in
  `AdaptiveSession`. That the tail energy grows with the span, so that the bisection
  finds the threshold `Allowed`, is taken over the range of spans the decoder reports.
  Factors are multiplied exactly.
* `frame.aperture_scale` is read by no part of the runtime; the models acquire at
  the aperture requested.
* Frames of a wrong type, which make validation raise; timestamps near the ends of
  `int64`.
* In `CaptureReplay`, a reader sees each mapped file at one version at a time, and
  a file is sound once closed; loss of data that the operating system had not yet
  written at a power failure is not modelled. Directories have the shape of one
  plan.
* In `TelemetryJournal`, a line takes at most two system calls (more behave alike), and
  the wall clock's stamps are left out. One sink serves all emitters.
* The floating-point parts: thresholds and stopping rules of the view decoder, the
  matched search for buckets and spans (left open in `IdentityPath` and `AdaptiveSession`),
  singular values behind the spatial consistency (a level in the model), weights
  of the synthesis of passes and of the repair, calibration division,
  `estimate_phase_span_from_first_shell`, which nothing calls. They would need a
  theory of rounding, and no property above depends on their values. The merging of
  candidate records and `to_dict` only report.
* The command line and the configuration types parse and store values; the
  simulator and the metrics generate and score data for experiments; the foreign
  bindings and schemas declare layouts. None has behaviour of its own to check.
* A second telemetry sink on the same file, and a restart of the process: the code
  handles neither.

## 7. Plan

The modules planned are written, and their safety properties proved. What could be
added:

1. Liveness of threads that wait for an external lock: the documents leave the lock open,
   and so no fairness to assume.
2. A bound on what rounding may do to the floating-point parts of section 6, once
   their results are documented.
