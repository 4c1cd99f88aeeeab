--------------------------- MODULE MCArchiveData ---------------------------
(***************************************************************************)
(* ArchiveData for TLC: two tabs, two archive files, two resource keys.    *)
(***************************************************************************)
EXTENDS ArchiveData, TLC

\* Tabs are alike, and so are files.
Symmetry == Permutations(Tabs) \cup Permutations(Paths)
=============================================================================
