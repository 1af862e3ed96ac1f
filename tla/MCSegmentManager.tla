-------------------------- MODULE MCSegmentManager --------------------------
(* SegmentManager for TLC: requests are interchangeable.                   *)
EXTENDS SegmentManager, TLC

Symmetry == Permutations(Caller)
=============================================================================
