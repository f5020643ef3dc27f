------------------------- MODULE AdaptiveController -------------------------
(***************************************************************************)
(* AdaptiveAcquisitionController (planning/controller.py): from the        *)
(* measured phase span of a reconstruction, accept it or ask for a shorter *)
(* aperture.                                                               *)
(*                                                                         *)
(* Spans are natural numbers of one unit of phase, for instance one step   *)
(* of the decoder's phase grid.  Fractions are pairs of positive naturals, *)
(* multiplied exactly.  The fiber tail grows with the span over the whole  *)
(* range the decoder can report, so "tail within the leakage budget" is    *)
(* "span within Allowed" (ApertureBudget.max_phase_span_cycles).           *)
(***************************************************************************)
EXTENDS Integers

CONSTANTS
    Allowed,   \* largest span whose tail is within the budget
    Safety,    \* safety_factor, in parts of Unit
    MinScale,  \* min_scale_factor, in parts of Unit
    Unit       \* the denominator of the two factors

ASSUME ControllerAssumption ==
    /\ Allowed \in Nat
    /\ Unit \in Nat \ {0}
    /\ Safety \in Nat \ {0}
    /\ MinScale \in Nat \ {0}

Fraction == [num : Nat \ {0}, den : Nat \ {0}]
One == [num |-> 1, den |-> 1]
Times(x, y) == [num |-> x.num * y.num, den |-> x.den * y.den]

WithinBudget(span) == span <= Allowed \/ span <= 0

(* factor = max(min_scale, min(1, safety * allowed / span)).  A plausible  *)
(* slip: the factor aims at the budget itself.                             *)
WithoutSafety(span) ==
    IF Unit * Allowed < MinScale * span THEN [num |-> MinScale, den |-> Unit]
    ELSE IF Allowed > span THEN One
    ELSE [num |-> Allowed, den |-> span]
CompressionFactor(span) ==
    IF Safety * Allowed < MinScale * span THEN [num |-> MinScale, den |-> Unit]
    ELSE IF Safety * Allowed > Unit * span THEN One
    ELSE [num |-> Safety * Allowed, den |-> Unit * span]

decide(span) ==
    IF WithinBudget(span)
    THEN [action |-> "accept", factor |-> One, span |-> span]
    ELSE [action |-> "compress", factor |-> CompressionFactor(span), span |-> span]
=============================================================================
