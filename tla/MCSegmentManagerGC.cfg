SPECIFICATION Spec
CONSTANTS
    Caller = {c1, c2}
    Segments = 2
    Lookahead = 1
    IdleTimeout = FALSE
    Slots = 1
    MaxOthers = 0
    MaxSpawns = 4
    MaxGC = 2
INVARIANT
    EvictionExplains
SYMMETRY Symmetry
