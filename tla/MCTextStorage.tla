--------------------------- MODULE MCTextStorage ---------------------------
(* A text of up to two characters of two kinds, two layout managers, and a  *)
(* pass inside a pass.                                                      *)
EXTENDS TextStorage, TLC

Symmetry == Permutations(Chars) \cup Permutations(LayoutManagers)
=============================================================================
