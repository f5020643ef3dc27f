-------------------------- MODULE AdaptiveSession --------------------------
(***************************************************************************)
(* AdaptiveReconstructionSession.run (session.py): reacquire with shorter  *)
(* apertures until the controller accepts or the reacquisitions are spent. *)
(* The loop is the runtime's without its validation, and the controller's  *)
(* span is taken one step further back: to the strong components of each   *)
(* view (engine.py:177-186).                                               *)
(*                                                                         *)
(* Which components a view decodes, and at which step of the phase grid,   *)
(* is the choice of a matched search among components that disturb one     *)
(* another (temporal/view.py); it is left open, and need not follow the    *)
(* aperture: any views may report anything after any request.  A span is   *)
(* in hundredths of a grid step, so that two interpolations by tenths are  *)
(* exact.                                                                  *)
(***************************************************************************)
EXTENDS AdaptiveController, Sequences, FiniteSetsExt

CONSTANTS
    Views,              \* views of the plan
    Buckets,            \* buckets in which a view may decode a component
    Steps,              \* absolute phase spans of the decoder's grid
    MaxReacquisitions   \* max_reacquisitions

ASSUME SessionAssumption ==
    /\ IsFiniteSet(Views) /\ Views # {}
    /\ IsFiniteSet(Buckets)
    /\ Steps \subseteq Nat /\ \A s \in Steps : s % 100 = 0
    /\ MaxReacquisitions \in Nat

VARIABLES
    place,      \* "acquiring", "deciding", "returned"
    request,    \* aperture_scale of the request
    acquired,   \* aperture_scale the current result was acquired with
    strong,     \* strong[v]: the span of each strong component of view v
    decisions   \* the decisions so far

vars == <<place, request, acquired, strong, decisions>>
-----------------------------------------------------------------------------
(* np.quantile(spans, 0.9): spans sorted, and interpolated between the two *)
(* at the place asked for.  A plausible slip: the 0.1 quantile.            *)
Sorted(spans) ==
    LET last == Cardinality(DOMAIN spans) - 1
        p == CHOOSE p \in Bijection(0..last, DOMAIN spans) :
                \A i, j \in 0..last : i <= j => spans[p[i]] <= spans[p[j]]
    IN [i \in 0..last |-> spans[p[i]]]
Interpolated(spans, tenths) ==
    LET last == Cardinality(DOMAIN spans) - 1
        low == (tenths * last) \div 10
        part == (tenths * last) % 10
        high == Min({low + 1, last})
    IN ((10 - part) * Sorted(spans)[low] + part * Sorted(spans)[high]) \div 10
LowQuantile(spans) == Interpolated(spans, 1)
quantile(spans) == Interpolated(spans, 9)

(* estimated_phase_span_cycles of a view: the quantile over its strong     *)
(* components, and no span at all if there is none.                        *)
Diagnosed(components) == IF DOMAIN components = {} THEN 0 ELSE quantile(components)

Reports == [Views -> UNION {[B -> Steps] : B \in SUBSET Buckets}]

Init ==
    /\ place = "acquiring"
    /\ request = One
    /\ acquired = One
    /\ strong = [v \in Views |-> <<>>]
    /\ decisions = <<>>

(* acquire and process_capture.                                            *)
Acquire ==
    /\ place = "acquiring"
    /\ strong' \in Reports
    /\ acquired' = request
    /\ place' = "deciding"
    /\ UNCHANGED <<request, decisions>>

(* One turn of the loop, up to the next acquisition.  A plausible slip: a  *)
(* request that is set although no acquisition follows.                    *)
LastTurn(n) == n > MaxReacquisitions
RequestAnyway(decision, stop) == Times(request, decision.factor)
NextRequest(decision, stop) == IF stop THEN request ELSE Times(request, decision.factor)
Decide ==
    /\ place = "deciding"
    /\ LET decision == decide(quantile([v \in Views |-> Diagnosed(strong[v])]))
           stop == decision.action = "accept" \/ LastTurn(Len(decisions) + 1)
       IN /\ decisions' = Append(decisions, decision)
          /\ place' = IF stop THEN "returned" ELSE "acquiring"
          /\ request' = NextRequest(decision, stop)
    /\ UNCHANGED <<acquired, strong>>

Next == Acquire \/ Decide

Spec == Init /\ [][Next]_vars
-----------------------------------------------------------------------------
Last == decisions[Len(decisions)]

(* How many of n spans a quantile within the budget may leave above it, and*)
(* a view that has more such components than that.                         *)
Few(n) == n - 1 - (9 * (n - 1)) \div 10
Spread(v) ==
    LET above == {b \in DOMAIN strong[v] : strong[v][b] > Allowed}
    IN Cardinality(above) > Few(Cardinality(DOMAIN strong[v]))

(* The tail is judged by a quantile over views of quantiles over components*)
(* (controller.py:58, engine.py:182), each interpolated between two spans. *)
(* Once it is accepted, no more views than the outer one leaves out have   *)
(* more components above the budget than the inner one leaves out.         *)
AcceptedWithinBudget ==
    (place = "returned" /\ Last.action = "accept")
        => Cardinality({v \in Views : Spread(v)}) <= Few(Cardinality(Views))

(* The span reported after decision d is further above the one that its    *)
(* factor aimed at than what the safety factor keeps in reserve.           *)
Missed(d, span) ==
    Unit * (span * d.factor.den - d.span * d.factor.num)
        > (Unit - Safety) * Allowed * d.factor.den

(* A session that is not accepted has spent all its reacquisitions, and    *)
(* none of them for nothing: each was asked for at the least factor, or was*)
(* missed by more than the safety factor allows for (controller.py:71).    *)
(* Whatever the decoder reports, no other session is given up.             *)
ExhaustedForCause ==
    (place = "returned" /\ Last.action # "accept") =>
        /\ Len(decisions) = MaxReacquisitions + 1
        /\ \A k \in 1..MaxReacquisitions :
              \/ Safety * Allowed < MinScale * decisions[k].span
              \/ Missed(decisions[k], decisions[k + 1].span)

(* The scale that a sequence of decisions multiplies up to.                *)
ProductOf(ds) ==
    LET upTo[n \in 0..Len(ds)] == IF n = 0 THEN One ELSE Times(upTo[n - 1], ds[n].factor)
    IN upTo[Len(ds)]

(* The final request is the one that the final result was acquired with,   *)
(* and its scale is the product of the factors decided before it.          *)
FinalMatchesRequest ==
    place = "returned" =>
        /\ request = acquired
        /\ request = ProductOf(SubSeq(decisions, 1, Len(decisions) - 1))
=============================================================================
