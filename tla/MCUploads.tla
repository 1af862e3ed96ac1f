----------------------------- MODULE MCUploads -----------------------------
EXTENDS Uploads, TLC

\* Ids are interchangeable.
Symmetry == Permutations(Upload)
=============================================================================
