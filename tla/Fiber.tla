------------------------------- MODULE Fiber -------------------------------
(***************************************************************************)
(* temporal/fiber.py and the tail of planning/aperture.py: the Walsh       *)
(* coefficients of a constant phase rate, in closed form for Gray          *)
(* execution and by a transform for any order, and their energies.         *)
(*                                                                         *)
(* exp(j theta_0) is represented by a Gaussian integer z = <<c, s>>.  It   *)
(* has not unit length, so every result is scaled by a power of |z| that   *)
(* is the same on both sides of each comparison: no rounding is involved.  *)
(***************************************************************************)
EXTENDS Walsh, Functions

Mul(a, b) == <<a[1] * b[1] - a[2] * b[2], a[1] * b[2] + a[2] * b[1]>>
Conj(a) == <<a[1], -a[2]>>
Square(x) == x * x
Energy(a) == Square(a[1]) + Square(a[2])
Power(z, n) ==
    LET p[k \in 0..n] == IF k = 0 THEN <<1, 0>> ELSE Mul(p[k - 1], z) IN p[n]

(* cos and sin of theta_i = 2^i theta_0.                                   *)
Cos(z, i) == Power(z, 2^i)[1]
Sin(z, i) == Power(z, 2^i)[2]

(* doppler_fiber_coefficients: the generators of the subset give a factor  *)
(* -j sin, the others cos; the subset's offset is the xor of its           *)
(* generators.  A plausible slip: +j.                                      *)
Coefficient(z, bits, subset) ==
    LET coeff[k \in 0..bits] ==
            IF k = 0 THEN <<1, 0>>
            ELSE Mul(coeff[k - 1],
                     IF k - 1 \in subset THEN <<0, - Sin(z, k - 1)>> ELSE <<Cos(z, k - 1), 0>>)
    IN coeff[bits]
SubsetOf(delta, bits) ==
    CHOOSE subset \in SUBSET (0..bits-1) :
        delta = XorOf([i \in subset |-> gray_time_generators(bits)[i]])
ConjugateFiber(z, bits) ==
    [delta \in Indices(bits) |-> Conj(Coefficient(z, bits, SubsetOf(delta, bits)))]
doppler_fiber_coefficients(z, bits) ==
    [delta \in Indices(bits) |-> Coefficient(z, bits, SubsetOf(delta, bits))]

(* temporal_fiber_coefficients_for_order, not normalized: the sample at    *)
(* slot j turns 2j - (n-1) times theta_0; transform by query.              *)
Sample(z, j, n) == Mul(Power(z, j), Power(Conj(z), n - 1 - j))
temporal_fiber_coefficients_for_order(z, order, bits) ==
    LET n == 2^bits
        slot(query) == CHOOSE j \in 0..n-1 : order[j] = query
        part(k) == [query \in Indices(bits) |-> Sample(z, slot(query), n)[k]]
        real == fwht(part(1), bits)
        imaginary == fwht(part(2), bits)
    IN [delta \in Indices(bits) |-> <<real[delta], imaginary[delta]>>]

(* doppler_shell_energies: one generator after the other takes part with   *)
(* energy sin^2, or does not with cos^2.                                   *)
doppler_shell_energies(z, bits) ==
    LET pmf[k \in 0..bits] ==
            IF k = 0 THEN [d \in 0..bits |-> IF d = 0 THEN 1 ELSE 0]
            ELSE [d \in 0..bits |->
                     pmf[k - 1][d] * Square(Cos(z, k - 1))
                     + (IF d = 0 THEN 0 ELSE pmf[k - 1][d - 1] * Square(Sin(z, k - 1)))]
    IN pmf[bits]

(* ApertureBudget.tail_energy: what lies above the modeled shell order.    *)
tail_energy(z, bits, modeled_shell_order) ==
    SumFunctionOnSet(doppler_shell_energies(z, bits), modeled_shell_order + 1..bits)
=============================================================================
