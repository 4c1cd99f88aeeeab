----------------------------- MODULE MCStaging -----------------------------
(***************************************************************************)
(* Instances of Staging for TLC.                                           *)
(***************************************************************************)
EXTENDS Staging

\* No operation tells one key, or one tab, from another.
Symmetry == Permutations(Keys) \cup Permutations(Tabs)
=============================================================================
