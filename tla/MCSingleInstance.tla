-------------------------- MODULE MCSingleInstance --------------------------
(***************************************************************************)
(* SingleInstance for TLC: four launches, one with a message that is too   *)
(* long for a window, and one death.                                       *)
(***************************************************************************)
EXTENDS SingleInstance, TLC
=============================================================================
