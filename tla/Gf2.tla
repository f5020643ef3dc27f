-------------------------------- MODULE Gf2 --------------------------------
(***************************************************************************)
(* Linear algebra over GF(2), as planning/hashes.py and                    *)
(* recovery/global_support.py do it.  A vector is the set of the positions *)
(* that hold a one: the code packs the same positions into the bits of an  *)
(* integer, or into a numpy row.  A matrix is a function from row numbers  *)
(* 0..n-1 to vectors.                                                      *)
(***************************************************************************)
EXTENDS Integers, FiniteSetsExt

Odd(S) == Cardinality(S) % 2 = 1
Xor(a, b) == (a \ b) \cup (b \ a)

(* What a loop "value ^= f[i]" over the domain of f leaves in value.       *)
XorOf(f) ==
    LET at(x) == {i \in DOMAIN f : x \in f[i]}
    IN {x \in UNION {f[i] : i \in DOMAIN f} : Odd(at(x))}

(* The integer whose binary digits a vector holds, and back.               *)
Number(a) == SumSet({2^i : i \in a})
Bits(n, width) == {i \in 0..width-1 : (n \div 2^i) % 2 = 1}

(* One turn of the elimination loop: s.rank rows have their pivots; the    *)
(* first of the others with a one in this column is swapped into place     *)
(* and cleared out of all other rows.                                      *)
EliminateColumn(s, col) ==
    LET pivots == {r \in DOMAIN s.rows : r >= s.rank /\ col \in s.rows[r]}
        p == Min(pivots)
        swapped == [s.rows EXCEPT ![s.rank] = s.rows[p], ![p] = s.rows[s.rank]]
        cleared == [r \in DOMAIN s.rows |->
                       IF r # s.rank /\ col \in swapped[r]
                       THEN Xor(swapped[r], swapped[s.rank]) ELSE swapped[r]]
    IN IF pivots = {} THEN s ELSE [rows |-> cleared, rank |-> s.rank + 1]

Eliminate(matrix, cols) ==
    LET after[c \in 0..cols] ==
            IF c = 0 THEN [rows |-> matrix, rank |-> 0]
            ELSE EliminateColumn(after[c - 1], c - 1)
    IN after[cols]

(* gf2_rank, and its copy _gf2_rank.                                       *)
gf2_rank(matrix, cols) == Eliminate(matrix, cols).rank

(* _gf2_inverse: eliminate the matrix beside the identity; the right half  *)
(* is the inverse.  A singular matrix raises.                              *)
Augmented(matrix) ==
    LET n == Cardinality(DOMAIN matrix) IN
    [r \in DOMAIN matrix |-> matrix[r] \cup {n + r}]
Singular(matrix) == gf2_rank(matrix, Cardinality(DOMAIN matrix)) # Cardinality(DOMAIN matrix)
gf2_inverse(matrix) ==
    LET n == Cardinality(DOMAIN matrix)
        reduced == Eliminate(Augmented(matrix), n).rows
    IN [r \in DOMAIN matrix |-> {c - n : c \in {d \in reduced[r] : d >= n}}]

(* The product of a matrix with a vector, by its definition.               *)
Product(matrix, v) == {r \in DOMAIN matrix : Odd(matrix[r] \cap v)}
=============================================================================
