---------------------------- MODULE IdentityPath ----------------------------
(***************************************************************************)
(* The path of identities through the system: acquisition and engine each  *)
(* compile a plan, the frame's fingerprint is compared with the engine's,  *)
(* every view proposes buckets, and recovery assembles identities.         *)
(*                                                                         *)
(* A view's decoder (recovery/view.py) is abstracted to what it may        *)
(* propose: some of the buckets the active identities hash to, and others. *)
(***************************************************************************)
EXTENDS SupportRecovery, Fiber

CONSTANTS
    Orderings,      \* orderings a plan may be compiled with
    RandomOrders,   \* the permutations that "random" may yield
    Scenes,         \* [target, others, faint, clutter, spatial]: see Observe
    MaxMisses,      \* bound: views that may miss the target
    MaxComponents,  \* view_max_components
    TimeBits,       \* bound: widths for which the transforms are checked
    Turns           \* phase rates they are checked with, see Fiber

ASSUME PathAssumption ==
    /\ Orderings \subseteq {"gray", "binary", "random"}
    /\ \A s \in Scenes : /\ s.target \in Identities /\ s.others \subseteq Identities
                         /\ s.clutter \in [ViewIndices -> SUBSET Buckets]
                         /\ s.faint \in [ViewIndices -> SUBSET s.others]
    /\ MaxMisses \in Nat /\ MaxComponents \in Nat /\ TimeBits \in Nat
    /\ Turns \subseteq Int \X Int

VARIABLES
    stage,           \* "planning", "observing", "recovering", "done"
    acquired,        \* the plan the frame was acquired under
    engine,          \* the plan the engine was built with
    scene,           \* the active identities and what disturbs them
    detected,        \* detected[v]: the buckets proposed in view v so far
    identities       \* what process_capture returns

vars == <<stage, acquired, engine, scene, detected, identities>>

Plans ==
    UNION {{p \in compile_query_plan(seed, ordering) :
               ordering = "random" => p.local_order \in RandomOrders} :
           seed \in Seeds, ordering \in Orderings}

(* Nothing is transmitted before the frame.                                *)
NoScene == [target |-> {}, others |-> {}]

Init ==
    /\ stage = "planning"
    /\ acquired \in Plans
    /\ engine \in Plans
    /\ scene = NoScene
    /\ detected = <<>>
    /\ identities = {}

(* validate_frame's first test: frames of another plan are refused.        *)
AcceptFrame ==
    /\ stage = "planning"
    /\ fingerprint(acquired) = fingerprint(engine)
    /\ scene' \in Scenes
    /\ stage' = "observing"
    /\ UNCHANGED <<acquired, engine, detected, identities>>

RefuseFrame ==
    /\ stage = "planning"
    /\ fingerprint(acquired) # fingerprint(engine)
    /\ stage' = "done"
    /\ UNCHANGED <<acquired, engine, scene, detected, identities>>

(* The view loop of process_capture.  A bucket is proposed at most once,   *)
(* and at most max_components are, in whatever order the search meets them.*)
(* The target may be missed in any view; the others are missed, and clutter*)
(* is proposed, in the views that the scene names.                         *)
view == Len(detected)
BucketOf(identity, v) == hash_ids(engine.views[v], identity)
Misses ==
    {v \in 0..view-1 : BucketOf(scene.target, v) \notin detected[v + 1]}
Proposals(missed) ==
    ({BucketOf(q, view) : q \in scene.others \ scene.faint[view]} \cup scene.clutter[view]
        \cup (IF missed THEN {} ELSE {BucketOf(scene.target, view)}))
Kept(proposals) ==
    {kept \in SUBSET proposals :
        Cardinality(kept) = Min({MaxComponents, Cardinality(proposals)})}
Observe ==
    /\ stage = "observing"
    /\ \E missed \in BOOLEAN : \E kept \in Kept(Proposals(missed)) :
          /\ BucketOf(scene.target, view) \notin kept => Cardinality(Misses) < MaxMisses
          /\ detected' = Append(detected, kept)
    /\ stage' = IF view + 1 = NViews THEN "recovering" ELSE stage
    /\ UNCHANGED <<acquired, engine, scene, identities>>

DetectedIn == [v \in ViewIndices |-> detected[v + 1]]
Level ==
    [q \in Identities \cup {scene.target} |->
        IF q = scene.target THEN scene.spatial.target ELSE scene.spatial.other]

Recover ==
    /\ stage = "recovering"
    /\ identities' \in Recoveries(Level, DetectedIn, engine.views)
    /\ stage' = "done"
    /\ UNCHANGED <<acquired, engine, scene, detected>>

Next == AcceptFrame \/ RefuseFrame \/ Observe \/ Recover

Spec == Init /\ [][Next]_vars
-----------------------------------------------------------------------------
(* A challenge sent for a local query of a view answers with the parity of *)
(* the query and the identity's bucket (SFPTI.md, section 1), for every    *)
(* identity: the transposed rows that are sent and the byte tables that    *)
(* hash at the receiver are one matrix.                                    *)
ChallengesAreCharacters ==
    stage = "planning" =>
        \A v \in ViewIndices, u \in Buckets, q \in Identities :
            Odd(challenge(engine.views[v], u) \cap q)
                <=> Odd(u \cap hash_ids(engine.views[v], q))

(* Whatever the generator yields, the identities are spread evenly over    *)
(* the buckets of every view: no bucket is dead, none is crowded.          *)
BucketsBalanced ==
    stage = "planning" =>
        \A v \in ViewIndices, b \in Buckets :
            Cardinality({q \in Identities : hash_ids(engine.views[v], q) = b})
                = 2^(IdentityBits - LocalBits)

(* With two or four passes the mean time at which a query is observed is   *)
(* the middle of the aperture, which the engine synthesizes (engine.py:59),*)
(* whatever the order of the queries.                                      *)
TimeOf(order, query) == CHOOSE j \in Slots : order[j] = query
PassesBalanceTime ==
    stage = "planning" =>
        \A pass_count \in {2, 4}, query \in Buckets :
            LET b == 2^LocalBits
                orders == pass_orders(engine.local_order, pass_count)
                times == [p \in 0..pass_count-1 |-> p * b + TimeOf(orders[p], query)]
            IN 2 * SumFunction(times) = pass_count * (pass_count * b - 1)

(* A frame that is accepted was acquired with the challenges that the      *)
(* engine will decode it by, slot by slot, for every number of passes,     *)
(* though the fingerprint covers a single pass.                            *)
MatchingPlansAgree ==
    [][stage' = "observing" =>
        \A pass_count \in PassCounts :
            expanded_challenges(acquired, pass_count)
                = expanded_challenges(engine, pass_count)]_vars

(* Gray execution changes one bit of the query in each step, and physical  *)
(* time has the Walsh characters of the generators and no others, in the   *)
(* powers -2^i/2 (SFPTI.md, section 2); its p-th power stays within p      *)
(* shells, so a smooth phase stays near its bucket.  The transforms that   *)
(* say so agree with the Hadamard matrix and with the characters.          *)
Time(bits) == [q \in Indices(bits) |-> centered_gray_rank(q, bits)]
TimePower(bits, p) ==
    LET power[k \in 0..p] ==
            [q \in Indices(bits) |-> IF k = 0 THEN 1 ELSE power[k - 1][q] * Time(bits)[q]]
    IN power[p]
GrayTimeIsSparse ==
    stage = "planning" =>
        \A bits \in 1..TimeBits :
            /\ \A j \in 1..2^bits-1 :
                  Cardinality(Xor(gray_order(bits)[j], gray_order(bits)[j - 1])) = 1
            /\ \A S \in Indices(bits) :
                  fwht(Time(bits), bits)[S] =
                      SumSet({- 2^(i + bits) : i \in
                          {j \in 0..bits-1 : gray_time_generators(bits)[j] = S}})
            /\ \A p \in 0..2, S \in Indices(bits) :
                  fwht(TimePower(bits, p), bits)[S] # 0
                      => S \in cumulative_shell_masks(bits, Min({p, bits}))
            /\ \A S, T \in Indices(bits) :
                  hadamard_matrix(bits)[<<S, T>>] = walsh_character(S, T)

(* The decoder may be given its atoms in closed form or by the order of    *)
(* execution (view.py:74): for Gray execution both are the same.  What the *)
(* aperture budget calls the tail is the energy of all their coefficients  *)
(* outside the modeled shells.                                             *)
FiberMatchesSchedule ==
    stage = "planning" =>
        \A bits \in 1..TimeBits, z \in Turns :
            LET fiber == doppler_fiber_coefficients(z, bits)
            IN /\ temporal_fiber_coefficients_for_order(z, gray_order(bits), bits) =
                     [delta \in Indices(bits) |-> Mul(<<2^bits, 0>>, fiber[delta])]
               /\ \A order \in 0..bits :
                     tail_energy(z, bits, order) =
                         SumFunctionOnSet([delta \in Indices(bits) |-> Energy(fiber[delta])],
                                          Indices(bits) \ cumulative_shell_masks(bits, order))

(* What the view decoder computes by three transforms is the correlation   *)
(* of the residual with its atom at every bucket (view.py:83).             *)
SmallSignals == [Buckets -> {0, 1}]
MatchIsCorrelation ==
    stage = "planning" =>
        \A atom, x \in SmallSignals : \A b \in Buckets :
            matched_channel(atom, x, LocalBits)[b] =
                SumFunction([j \in Buckets |-> atom[j] * x[Xor(j, b)]])

(* An identity that enough views see, of which no more than two structured *)
(* views miss it (global_support.py:124), and that is consistent enough    *)
(* for that support, is returned, unless as many candidates as are kept    *)
(* score as well in each group that could have found it.                   *)
Missed == {v \in ViewIndices : BucketOf(scene.target, v) \notin DetectedIn[v]}
CrowdedOut(group) ==
    MaxPreCandidates <=
        Cardinality({q \in Scored(group, DetectedIn, engine.views) \ {scene.target} :
            Score(q, DetectedIn, engine.views)
                >= Score(scene.target, DetectedIn, engine.views)})
SupportedIdentitiesReturned ==
    (/\ stage = "done" /\ detected # <<>>
     /\ Cardinality(Missed) <= NViews - MinViewSupport
     /\ Cardinality(Missed \cap 0..6) <= 2
     /\ \/ scene.spatial.target = "high"
        \/ scene.spatial.target = "marginal" /\ Cardinality(Missed) < NViews - MinViewSupport
     /\ \E group \in {{7, 8, 9}, {10, 11, 12}} :
           /\ group \subseteq ViewIndices
           /\ Cardinality(group \cap Missed) <= 1
           /\ ~CrowdedOut(group))
    => scene.target \in identities
=============================================================================
