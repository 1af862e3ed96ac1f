SPECIFICATION FairSpec
CONSTANTS
    Writer = w
    Reader = {r1, r2}
    RingCap = 2
    MaxBytes = 3
    MaxChunk = 3
INVARIANTS
    RingRetention
    EOFMeansWhole
    AbandonedHasNoReader
    ReadersAreServed
    StoreIsSound
PROPERTIES
    ImplementsReadBehind
    Progress
