----------------------------- MODULE MCDocument -----------------------------
(* Two names, two versions of the contents, two changes to undo.             *)
EXTENDS Document, TLC

Symmetry == Permutations(Names) \cup Permutations(Versions)
=============================================================================
