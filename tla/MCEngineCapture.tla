-------------------------- MODULE MCEngineCapture --------------------------
(***************************************************************************)
(* Captures of two views of four queries under a switch response of three  *)
(* taps, in one, two and four passes, with every pattern of a few erasures.*)
(***************************************************************************)
EXTENDS EngineCapture
=============================================================================
