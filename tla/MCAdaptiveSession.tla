------------------------- MODULE MCAdaptiveSession -------------------------
(***************************************************************************)
(* Three views of up to two strong components each, at one, two or three   *)
(* steps of the phase grid; the budget allows one and a half.  The safety  *)
(* factor is 3/4 and the least factor 1/2, so that three steps ask for less*)
(* than that, and that products of three factors stay within the integers  *)
(* of TLC.                                                                 *)
(***************************************************************************)
EXTENDS AdaptiveSession, TLC

CONSTANTS v1, v2, v3, b1, b2

MCViews == {v1, v2, v3}
MCBuckets == {b1, b2}
MCSteps == {100, 200, 300}
Swaps == Permutations(MCViews) \cup Permutations(MCBuckets)
=============================================================================
