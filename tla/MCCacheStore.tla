---------------------------- MODULE MCCacheStore ----------------------------
EXTENDS CacheStore, TLC

CONSTANTS f1, f2, h1

\* One key of each kind, and a crash; one key, crashes and failures; two entries
\* that do not fit into the budget together.
Instances == {
    [used |-> {f1, h1, "init"},    crashes |-> 1, faults |-> 0],
    [used |-> {h1, "init", "seg"}, crashes |-> 1, faults |-> 1],
    [used |-> {f1},                crashes |-> 2, faults |-> 2],
    [used |-> {f1, f2},            crashes |-> 0, faults |-> 0]}

\* Goroutines are interchangeable.
Symmetry == Permutations(Actor)
=============================================================================
