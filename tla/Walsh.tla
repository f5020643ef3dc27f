------------------------------- MODULE Walsh -------------------------------
(***************************************************************************)
(* transforms/walsh.py and the index structure of temporal/fiber.py, over  *)
(* integers.  An array of 2^bits entries is a function on the sets of bit  *)
(* positions 0..bits-1, its indices; only physical time is a number.       *)
(***************************************************************************)
EXTENDS Gf2

Indices(bits) == SUBSET (0..bits-1)

(* fwht, without the normalization: in round k the entries whose index     *)
(* differs in position k only are replaced by their sum and difference.    *)
Butterfly(a, k) ==
    [S \in DOMAIN a |-> IF k \in S THEN a[S \ {k}] - a[S] ELSE a[S] + a[S \cup {k}]]
fwht(a, bits) ==
    LET after[k \in 0..bits] == IF k = 0 THEN a ELSE Butterfly(after[k - 1], k - 1)
    IN after[bits]

(* walsh_character: parity_u32 of the bitwise and decides the sign.        *)
walsh_character(query, index) == IF Odd(query \cap index) THEN -1 ELSE 1

(* hadamard_matrix: [[h, h], [h, -h]], doubled bits times.                 *)
hadamard_matrix(bits) ==
    LET h[k \in 0..bits] ==
            IF k = 0 THEN [e \in {{}} \X {{}} |-> 1]
            ELSE [e \in Indices(k) \X Indices(k) |->
                     (IF k - 1 \in e[1] \cap e[2] THEN -1 ELSE 1)
                     * h[k - 1][<<e[1] \ {k - 1}, e[2] \ {k - 1}>>]]
    IN h[bits]

(* index ^ (index >> 1)                                                    *)
ShiftRight(a) == {i - 1 : i \in a \ {0}}
gray_code(index) == Xor(index, ShiftRight(index))

(* The fold of gray_inverse: xor of the code and all its right shifts.     *)
gray_inverse(code, bits) ==
    LET shifted[k \in 0..bits] == IF k = 0 THEN code ELSE ShiftRight(shifted[k - 1])
    IN XorOf(shifted)

gray_order(bits) == [j \in 0..2^bits-1 |-> gray_code(Bits(j, bits))]

(* full ^ ((1 << i) - 1): ones in the positions i..bits-1.                 *)
gray_time_generators(bits) == [i \in 0..bits-1 |-> i..bits-1]

(* A plausible slip in centered_gray_rank: rank by the code, not by its    *)
(* place in the order.                                                     *)
RankByLabel(query, bits) == 2 * Number(query) - (2^bits - 1)

(* Twice the centered rank, to stay among the integers.                    *)
centered_gray_rank(query, bits) ==
    2 * Number(gray_inverse(query, bits)) - (2^bits - 1)

(* shell_masks: xors of exactly d generators; cumulative up to d.          *)
shell_masks(bits, d) ==
    {XorOf([i \in combo |-> gray_time_generators(bits)[i]]) : combo \in kSubset(d, 0..bits-1)}
cumulative_shell_masks(bits, d) == UNION {shell_masks(bits, e) : e \in 0..d}

(* _matched_channels (recovery/view.py) for one phase hypothesis: the      *)
(* correlation c[b] = sum_j atom[j] x[j ^ b] by three transforms.  A       *)
(* plausible slip: the last one is taken for normalized.                   *)
Unscaled(atom, x, bits) ==
    fwht([S \in Indices(bits) |-> fwht(atom, bits)[S] * fwht(x, bits)[S]], bits)
matched_channel(atom, x, bits) ==
    LET product == [S \in Indices(bits) |-> fwht(atom, bits)[S] * fwht(x, bits)[S]]
    IN [S \in Indices(bits) |-> fwht(product, bits)[S] \div 2^bits]
=============================================================================
