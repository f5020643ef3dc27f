-------------------------- MODULE SupportRecovery --------------------------
(***************************************************************************)
(* recovery/global_support.py, and the union over early groups in          *)
(* engine.py: from the buckets detected in each view to the identities     *)
(* returned.  Receiver-subspace consistency is the level it reaches.       *)
(***************************************************************************)
EXTENDS QueryPlan

CONSTANTS
    FieldBits,        \* width of a packed field: 8 in the code
    MinViewSupport,   \* min_view_support
    MaxPreCandidates  \* max_pre_candidates

ASSUME RecoveryAssumption ==
    /\ FieldBits \in Nat \ {0}
    /\ MinViewSupport \in Nat \ {0}
    /\ MaxPreCandidates \in Nat \ {0}

(* Below the threshold; at it; at it even with low_support_spatial_margin. *)
Levels == {"low", "marginal", "high"}
-----------------------------------------------------------------------------
(* A plausible slip: one basis is listed twice, with two views swapped.    *)
RepeatedQuad ==
    <<<<0, 1, 2, 3>>, <<0, 1, 4, 5>>, <<0, 2, 5, 6>>, <<0, 3, 4, 6>>,
      <<1, 2, 4, 6>>, <<1, 3, 5, 6>>, <<1, 2, 6, 4>>>>
(* The decoding bases, and the inverse of the rows of each.                *)
SelectedQuads ==
    <<<<0, 1, 2, 3>>, <<0, 1, 4, 5>>, <<0, 2, 5, 6>>, <<0, 3, 4, 6>>,
      <<1, 2, 4, 6>>, <<1, 3, 5, 6>>, <<2, 3, 4, 5>>>>
decoding_quads ==
    [k \in 1..Len(SelectedQuads) |->
        [indices |-> SelectedQuads[k],
         inverse |-> gf2_inverse([i \in 0..3 |-> coefficient_rows[SelectedQuads[k][i + 1]]])]]

(* _pack_bytes, for one vector in each field.                              *)
pack_bytes(fields) ==
    UNION {{FieldBits * k + i : i \in fields[k]} : k \in 0..3}

(* _decode_tuple_to_ids: the four fields from the buckets of four views.   *)
decode_tuple(values, inverse) ==
    pack_bytes([k \in 0..3 |-> XorOf([i \in inverse[k] |-> values[i + 1]])])

(* In how many of these views the identity's bucket was detected.          *)
Hits(identity, indices, detected, views) ==
    Cardinality({v \in indices \cap ViewIndices :
                    hash_ids(views[v], identity) \in detected[v]})

(* _soft_gate, with the min_hits it is called with.  A plausible slip:     *)
(* every view of the group must hit (_strict_gate).                        *)
StrictGate(identity, group, detected, views) ==
    Hits(identity, group, detected, views) = Cardinality(group)
SoftGate(identity, group, detected, views) ==
    \/ group = {}
    \/ Hits(identity, group, detected, views) >= Max({1, Cardinality(group) - 1})

(* Every tuple of a decoding quad's lists, decoded and gated.              *)
Decoded(quad, detected) ==
    LET lists == [i \in 1..4 |-> detected[quad.indices[i]]]
    IN {decode_tuple(values, quad.inverse) :
           values \in lists[1] \X lists[2] \X lists[3] \X lists[4]}
Gated(group, detected, views) ==
    {q \in UNION {Decoded(decoding_quads[k], detected) : k \in DOMAIN decoding_quads} :
        SoftGate(q, group, detected, views)}

(* The score over the views from 7 on, and the candidates that reach the   *)
(* score asked for.                                                        *)
Score(identity, detected, views) == Hits(identity, 7..NViews-1, detected, views)
Scored(group, detected, views) ==
    {q \in Gated(group, detected, views) :
        Score(q, detected, views) >= Max({2, NViews - 10})}

(* argsort(score)[::-1][:max]: the best scores stay, and of equal scores   *)
(* any.  A plausible slip: the worst stay (no [::-1]).                     *)
KeepBest(score) ==
    LET all == DOMAIN score
        sure == {q \in all : Cardinality({p \in all : score[p] >= score[q]}) <= MaxPreCandidates}
        tied == {q \in all \ sure :
                    Cardinality({p \in all : score[p] > score[q]}) < MaxPreCandidates}
        room == Min({MaxPreCandidates - Cardinality(sure), Cardinality(tied)})
    IN {sure \cup T : T \in kSubset(room, tied)}
TruncateAscending(candidates, detected, views) ==
    KeepBest([q \in candidates |-> - Score(q, detected, views)])
Truncate(candidates, detected, views) ==
    KeepBest([q \in candidates |-> Score(q, detected, views)])

(* _structured_candidates: nothing with fewer than ten views.              *)
structured_candidates(group, detected, views) ==
    IF NViews < 10 THEN {{}}
    ELSE Truncate(Scored(group, detected, views), detected, views)

(* _filter_candidates: supported by enough views, and consistent, by a     *)
(* margin when the support is the least that is allowed.                   *)
Supported(identity, detected, views) ==
    Hits(identity, ViewIndices, detected, views) >= MinViewSupport
Consistent(identity, level, detected, views) ==
    IF Hits(identity, ViewIndices, detected, views) <= MinViewSupport
    THEN level[identity] = "high" ELSE level[identity] # "low"
filter_candidates(candidates, level, detected, views) ==
    {q \in candidates : Supported(q, detected, views)
                        /\ Consistent(q, level, detected, views)}

(* The early groups that the plan has views for; else what it has of 7..9. *)
(* A plausible slip: the second group is never tried.                      *)
FirstGroupOnly == {{7, 8, 9}}
early_groups ==
    LET whole == {g \in {{7, 8, 9}, {10, 11, 12}} : g \subseteq ViewIndices}
    IN IF whole # {} THEN whole ELSE {(7..9) \cap ViewIndices}

(* recover_global_support, for every way of breaking ties.                 *)
recover_global_support(group, level, detected, views) ==
    {filter_candidates(kept, level, detected, views) :
        kept \in structured_candidates(group, detected, views)}

(* What process_capture may return: the union of what the groups accept.   *)
Recoveries(level, detected, views) ==
    LET results == [g \in early_groups |-> recover_global_support(g, level, detected, views)]
        choices == {f \in [early_groups -> UNION Range(results)] :
                       \A g \in early_groups : f[g] \in results[g]}
    IN {UNION Range(f) : f \in choices}
=============================================================================
