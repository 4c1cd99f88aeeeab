---------------------------- MODULE MCCompileJob ----------------------------
(***************************************************************************)
(* An instance of CompileJob for TLC: four models in batches of two.  The  *)
(* first two have one supermodel, which has another, which names the first *)
(* again; the third has one that is only found in the game, the last none. *)
(***************************************************************************)
EXTENDS CompileJob, TLC

CONSTANTS a, b, c

MCSuperOf == 1 :> a @@ 2 :> a @@ 3 :> c @@ 4 :> None @@ a :> b @@ b :> a @@ c :> None
MCHolds == [place \in {"archives", "siblings", "loose", "game"} |->
    CASE place = "archives" -> {a}
      [] place = "siblings" -> {b}
      [] place = "loose" -> {b}
      [] place = "game" -> {c}]
=============================================================================
