------------------------- MODULE MCFrameValidation -------------------------
(***************************************************************************)
(* Frames of five slots for TLC, in three families: every erasure mask     *)
(* with every kind of timestamp record; every cadence around the jitter    *)
(* limit; every combination of the fields that must match the plan.        *)
(***************************************************************************)
EXTENDS FrameValidation

Base ==
    [plan_fingerprint |-> "plan", sequence_id |-> 4, pass_count |-> 1,
     aperture_positive |-> TRUE, ndim |-> 2, n_rx |-> 2,
     valid |-> <<TRUE, TRUE, TRUE, TRUE, TRUE>>,
     finite |-> <<TRUE, TRUE, TRUE, TRUE, TRUE>>,
     monotonic_start_ns |-> 0, monotonic_end_ns |-> 24,
     timestamped |-> FALSE, slot_timestamps_ns |-> <<0, 5, 10, 15, 20>>]

Stamps(offset, dt) ==
    <<offset, offset + dt[1], offset + dt[1] + dt[2], offset + dt[1] + dt[2] + dt[3],
      offset + dt[1] + dt[2] + dt[3] + dt[4]>>

Masks == [1..5 -> BOOLEAN]
Samples == {s \in Masks : Cardinality({i \in 1..5 : ~s[i]}) <= 1}
Records == {<<0, 5, 10, 15, 20>>, <<0, 5, 12, 17, 22>>, <<0, 5, 5, 10, 15>>,
            <<5, 10, 15, 20, 25>>, <<0, 5, 10>>}

MaskFrames ==
    {[Base EXCEPT !.valid = v, !.finite = s, !.timestamped = t,
                  !.slot_timestamps_ns = ts] :
        v \in Masks, s \in Samples, t \in BOOLEAN, ts \in Records}

TimingFrames ==
    {[Base EXCEPT !.timestamped = TRUE, !.valid[3] = v, !.monotonic_end_ns = e,
                  !.slot_timestamps_ns = Stamps(o, dt)] :
        v \in BOOLEAN, e \in {20, 24}, o \in {-1, 0},
        dt \in [1..4 -> {0, 4, 5, 6, 7}]}

Repeat(n) == [i \in 1..n |-> TRUE]

ShapeFrames ==
    {[Base EXCEPT !.plan_fingerprint = p, !.sequence_id = q, !.pass_count = c,
                  !.aperture_positive = a, !.ndim = d, !.n_rx = r, !.monotonic_end_ns = e,
                  !.valid = Repeat(v), !.finite = Repeat(n)] :
        p \in {"plan", "other"}, q \in 3..5, c \in 1..4, a \in BOOLEAN,
        d \in 2..3, r \in 1..4,
        e \in {-1, 0, 60}, v \in {5, 10, 15}, n \in {5, 10, 15}}

MCCaptures == MaskFrames \cup TimingFrames \cup ShapeFrames
MCPreviousIds == {NoSequence, 3, 4}

(* A frame with an erasure burst and with duplicated timestamps.           *)
MCBurstAndDuplicate ==
    {[Base EXCEPT !.valid = v, !.timestamped = TRUE, !.slot_timestamps_ns = ts] :
        v \in Masks, ts \in Records}
=============================================================================
