--------------------------- MODULE MCEditHistory ---------------------------
(***************************************************************************)
(* Instances of EditHistory for TLC.  The sizes are chosen so that one     *)
(* edit overflows MaxBytes alone, two of resources overflow it together,   *)
(* and small ones of the description are expired by MaxSteps.              *)
(***************************************************************************)
EXTENDS EditHistory, TLC

\* A description in other bytes, or none, is read as one of the texts.
MCRead == [t \in Texts \cup Foreign |->
              IF t \in Texts THEN t ELSE CHOOSE u \in Texts : TRUE]

\* No operation tells one content from another.
Symmetry == Permutations(Data)
=============================================================================
