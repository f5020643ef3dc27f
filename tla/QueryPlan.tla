----------------------------- MODULE QueryPlan -----------------------------
(***************************************************************************)
(* planning/hashes.py and planning/query_plan.py: the hash views, the      *)
(* challenges they send, and the compiled plan that acquisition and engine *)
(* share.  Identities, local queries, buckets and challenges are vectors   *)
(* over GF(2).                                                             *)
(***************************************************************************)
EXTENDS LocalOrder, Sequences

CONSTANTS
    NViews,     \* n_views
    ByteBits,   \* digits a lookup table is indexed with: 8 in the code
    Seeds,      \* seeds a plan may be compiled with
    Draws       \* Draws[seed]: the matrices its generator yields, in order

IdentityBits == 4 * LocalBits
Identities == SUBSET (0..IdentityBits-1)
ViewIndices == 0..NViews-1
Matrices == [0..LocalBits-1 -> Identities]

ASSUME PlanAssumption ==
    /\ NViews \in Nat /\ NViews >= 10
    /\ ByteBits \in Nat \ {0}
    /\ \A seed \in Seeds : \A k \in DOMAIN Draws[seed] : Draws[seed][k] \in Matrices
-----------------------------------------------------------------------------
(* The seven structured views: four fields of the identity, then parities. *)
coefficient_rows ==
    [k \in 0..6 |-> <<{0}, {1}, {2}, {3}, {0, 1, 3}, {0, 2, 3}, {1, 2, 3}>>[k + 1]]
StructuredView(k) ==
    [bit \in 0..LocalBits-1 |-> {block * LocalBits + bit : block \in coefficient_rows[k]}]

(* _random_full_rank: draw again until the rank is full.  Without the test *)
(* every draw would do (a plausible slip).                                 *)
AnyDraw(matrix) == TRUE
FullRank(matrix) == gf2_rank(matrix, IdentityBits) = LocalBits

(* The n-th draw with full rank, which the generator comes to for every n. *)
IsRandomView(seed, n, k) ==
    /\ FullRank(Draws[seed][k])
    /\ Cardinality({j \in 1..k : FullRank(Draws[seed][j])}) = n
RandomView(seed, n) ==
    Draws[seed][CHOOSE k \in DOMAIN Draws[seed] : IsRandomView(seed, n, k)]

ASSUME GeneratorAssumption ==
    \A seed \in Seeds : \A n \in 1..NViews-7 :
        \E k \in DOMAIN Draws[seed] : IsRandomView(seed, n, k)

default_hash_views(seed) ==
    [v \in ViewIndices |-> IF v < 7 THEN StructuredView(v) ELSE RandomView(seed, v - 6)]

(* _byte_luts: one table for each byte of the identity, the last of them   *)
(* for the digits that are left.                                           *)
Bytes == 0..((IdentityBits - 1) \div ByteBits)
(* A plausible slip: the last table covers whole bytes only.               *)
WholeBytes(byte) ==
    IF (byte + 1) * ByteBits > IdentityBits THEN {}
    ELSE byte * ByteBits .. (byte + 1) * ByteBits - 1
Columns(byte) == byte * ByteBits .. Min({(byte + 1) * ByteBits, IdentityBits}) - 1
byte_luts(matrix) ==
    [byte \in Bytes |-> [value \in SUBSET (0..ByteBits-1) |->
        Product(matrix, {byte * ByteBits + i : i \in value} \cap Columns(byte))]]

(* hash_ids: look up every byte of the identity, and xor.                  *)
Byte(identity, byte) == {i \in 0..ByteBits-1 : byte * ByteBits + i \in identity}
HashId(luts, identity) == XorOf([byte \in Bytes |-> luts[byte][Byte(identity, byte)]])

(* Every matrix a view may have, tabulated once.                           *)
ViewMatrices ==
    {StructuredView(k) : k \in 0..6} \cup
    UNION {{Draws[seed][k] : k \in DOMAIN Draws[seed]} : seed \in Seeds}
Hashes ==
    [matrix \in ViewMatrices |->
        LET luts == byte_luts(matrix) IN [q \in Identities |-> HashId(luts, q)]]
hash_ids(matrix, identity) == Hashes[matrix][identity]

(* challenge: the rows that the query selects, xored (M^T u).              *)
challenge(matrix, local_query) == XorOf([bit \in local_query |-> matrix[bit]])
-----------------------------------------------------------------------------
(* expanded_challenges: by view, then by pass, then in the pass's order.   *)
expanded_challenges(plan, pass_count) ==
    LET b == 2^LocalBits
        orders == pass_orders(plan.local_order, pass_count)
    IN [i \in 0..NViews * pass_count * b - 1 |->
           challenge(plan.views[i \div (pass_count * b)],
                     orders[(i \div b) % pass_count][i % b])]

compile_query_plan(seed, ordering) ==
    {[views |-> default_hash_views(seed), local_order |-> order, ordering |-> ordering] :
        order \in compile_order(ordering)}

(* The payload whose digest is the fingerprint; equal digests are equal    *)
(* payloads.  View names follow from the number of views.  A plausible     *)
(* slip: the views are named, but their challenges are not in the payload. *)
NamesOnly(plan) ==
    [identity_bits |-> IdentityBits, local_bits |-> LocalBits, n_views |-> NViews,
     ordering |-> plan.ordering, local_order |-> plan.local_order]
fingerprint(plan) ==
    [identity_bits |-> IdentityBits, local_bits |-> LocalBits, n_views |-> NViews,
     ordering |-> plan.ordering, local_order |-> plan.local_order,
     challenges |-> expanded_challenges(plan, 1)]
=============================================================================
