------------------------------- MODULE MCViews -------------------------------
(***************************************************************************)
(* Instances of Views for TLC: archives whose entries are not sorted, as   *)
(* other programs write them, and which have resources in common; one of   *)
(* them holds a resource twice.                                            *)
(***************************************************************************)
EXTENDS Views, TLC

MCKindOf == 1 :> "image" @@ 2 :> "model" @@ 3 :> "image"
MCFiles == { <<[name |-> 3, version |-> 1], [name |-> 2, version |-> 1]>>,
             <<[name |-> 1, version |-> 2], [name |-> 2, version |-> 2], [name |-> 1, version |-> 1]>> }
MCIncoming == { [name |-> 1, version |-> 2] }
=============================================================================
