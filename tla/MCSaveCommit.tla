---------------------------- MODULE MCSaveCommit ----------------------------
(***************************************************************************)
(* SaveCommit for TLC: two runs of the program that may overlap, two       *)
(* saves of one archive file, two crashes.                                 *)
(***************************************************************************)
EXTENDS SaveCommit, TLC

\* The runs of the program are alike.
Symmetry == Permutations(Instances)
=============================================================================
