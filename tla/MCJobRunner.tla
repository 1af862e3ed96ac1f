----------------------------- MODULE MCJobRunner -----------------------------
(* JobRunner for TLC: workers are interchangeable.                         *)
EXTENDS JobRunner, TLC

Symmetry == Permutations(Worker)
=============================================================================
