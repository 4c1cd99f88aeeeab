--------------------------- MODULE MCParallelExport ---------------------------
(***************************************************************************)
(* ParallelExport for TLC: up to three threads and four resources, with    *)
(* the sequential path below two resources or with one processor.          *)
(***************************************************************************)
EXTENDS ParallelExport, TLC

NoError == -1
=============================================================================
