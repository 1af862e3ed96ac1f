SPECIFICATION FairSpec
CONSTANTS
    Caller = {c1, c2}
    Segments = 2
    Lookahead = 1
    IdleTimeout = TRUE
    Slots = 1
    MaxOthers = 0
    MaxSpawns = 4
    MaxGC = 0
PROPERTY
    EveryRequestAnswered
