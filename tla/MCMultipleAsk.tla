--------------------------- MODULE MCMultipleAsk ----------------------------
(* Small instances of MultipleAsk for TLC. *)
EXTENDS MultipleAsk, TLC

TaskSymmetry == Permutations(Tasks)
=============================================================================
