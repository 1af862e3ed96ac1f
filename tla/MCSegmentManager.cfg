SPECIFICATION Spec
CONSTANTS
    Caller = {c1, c2}
    Segments = 4
    Lookahead = 1
    IdleTimeout = TRUE
    Slots = 1
    MaxOthers = 1
    MaxSpawns = 4
    MaxGC = 0
INVARIANTS
    WorkersAreSound
    NothingIsLost
PROPERTY
    IdleSparesWaiters
SYMMETRY Symmetry
