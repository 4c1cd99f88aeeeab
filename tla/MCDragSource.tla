---------------------------- MODULE MCDragSource ----------------------------
(***************************************************************************)
(* Instances of DragSource for TLC.                                        *)
(***************************************************************************)
EXTENDS DragSource, TLC

\* Nothing tells one target from another.
Symmetry == Permutations(Targets)
=============================================================================
