------------------------- MODULE MCTelemetryJournal -------------------------
(***************************************************************************)
(* Two threads with three events each: enough for two of them to wait at   *)
(* the lock while one of their lines is half written, and for two failures *)
(* to meet.                                                                *)
(***************************************************************************)
EXTENDS TelemetryJournal, TLC

CONSTANTS t1, t2
MCEmitters == {t1, t2}
Swap == Permutations(MCEmitters)
=============================================================================
