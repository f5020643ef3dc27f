--------------------------- MODULE MCCaptureReplay ---------------------------
(***************************************************************************)
(* Two directories, one of them replayed twice, and three write calls: two *)
(* of them may meet in one directory while a frame of it is in use.        *)
(***************************************************************************)
EXTENDS CaptureReplay

CONSTANTS d1, d2
MCDirectories == {d1, d2}
MCReplay == <<d1, d2, d1>>
=============================================================================
