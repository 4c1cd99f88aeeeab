--------------------------- MODULE MCTempCleanup ---------------------------
(***************************************************************************)
(* Instances of TempCleanup for TLC.                                       *)
(***************************************************************************)
EXTENDS TempCleanup
=============================================================================
