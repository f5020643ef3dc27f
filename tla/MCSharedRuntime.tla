-------------------------- MODULE MCSharedRuntime --------------------------
(***************************************************************************)
(* Two threads on one stream or two, under a lock, a key, both or neither; *)
(* three calibrations: one expires, one is not active at first, and one has*)
(* gains that do not fit the receivers.                                    *)
(***************************************************************************)
EXTENDS SharedRuntime, TLC

CONSTANTS t1, t2, s1, s2

MCThreads == {t1, t2}
MCStreams == {s1, s2}
Swaps == Permutations(MCThreads) \cup Permutations(MCStreams)
MCGuards == SUBSET {"lock", "key"}
MCForever == 100
MCCalibrations ==
    {[issued |-> 0, valid_until |-> 3, usable |-> TRUE],
     [issued |-> 2, valid_until |-> MCForever, usable |-> TRUE],
     [issued |-> 0, valid_until |-> MCForever, usable |-> FALSE]}
=============================================================================
