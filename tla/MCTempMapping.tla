--------------------------- MODULE MCTempMapping ---------------------------
(* TempMapping with a window of eighteen pages, so that the pages of two   *)
(* pointers would fit.                                                     *)
EXTENDS TempMapping

MCFrames == 0 .. 9
=============================================================================
