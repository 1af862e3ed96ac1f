SPECIFICATION FairSpec
CONSTANTS
    Request = {r1, r2}
    Entry = {e1, e2}
    None = None
    Slots = 2
    Tries = 3
    MaxEvict = 1
INVARIANTS
    RegistryIsSound
    RunsAreCounted
    FlappingNeedsLoss
PROPERTY
    Settles
CHECK_DEADLOCK FALSE
