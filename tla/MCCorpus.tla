------------------------------ MODULE MCCorpus ------------------------------
(* Small instances of CorpusLifecycle for TLC. *)
EXTENDS CorpusLifecycle, TLC

TextSymmetry == Permutations(Texts)
CorpusSymmetry == Permutations(Texts) \cup Permutations(Chapters) \cup Permutations(Workers)
=============================================================================
