-------------------------- MODULE MCTimelineStore --------------------------
EXTENDS TimelineStore, TLC

\* Timelines and clients are interchangeable.
Symmetry == Permutations(Digest) \cup Permutations(Client)
=============================================================================
