----------------------------- MODULE LocalOrder -----------------------------
(***************************************************************************)
(* The order in which the local queries of a view are sent, and the passes *)
(* over it (planning/query_plan.py).  The plan and the engine share it.    *)
(***************************************************************************)
EXTENDS Walsh, Functions

CONSTANT LocalBits  \* local_bits: a view has 2^LocalBits buckets and queries

ASSUME LocalBitsAssumption == LocalBits \in Nat \ {0}

Buckets == Indices(LocalBits)
Slots == 0..2^LocalBits-1

(* _compile_order; "random" may be any permutation of the queries.         *)
compile_order(ordering) ==
    CASE ordering = "gray" -> {gray_order(LocalBits)}
      [] ordering = "binary" -> {[j \in Slots |-> Bits(j, LocalBits)]}
      [] ordering = "random" -> Bijection(Slots, Buckets)

Reversed(order) == [j \in Slots |-> order[2^LocalBits - 1 - j]]
PassCounts == {1, 2, 4}
(* A plausible slip: the passes all run forward.                           *)
ForwardPasses(order, pass_count) == [p \in 0..pass_count-1 |-> order]
pass_orders(order, pass_count) ==
    [p \in 0..pass_count-1 |-> IF p % 2 = 0 THEN order ELSE Reversed(order)]
=============================================================================
