--------------------------- MODULE MCSourceRoots ---------------------------
(* SourceRoots for TLC: paths, directories and attempt names are alike.    *)
EXTENDS SourceRoots, TLC

Symmetry == Permutations(Path) \cup Permutations(Dir) \cup Permutations(Slot)
=============================================================================
