---------------------------- MODULE MCDocuments ----------------------------
(* Three pieces of work, three numbers in one launch.                        *)
EXTENDS Documents, TLC

Symmetry == Permutations(Docs)
=============================================================================
