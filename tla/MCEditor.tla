------------------------------ MODULE MCEditor ------------------------------
(***************************************************************************)
(* Editor for TLC: two archive files with one resource.                    *)
(***************************************************************************)
EXTENDS Editor

MCContents == {<<[key |-> 1, data |-> Original]>>}
=============================================================================
