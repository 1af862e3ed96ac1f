SPECIFICATION FairSpec
CONSTANTS
    Jobs = 1
    Worker = {w1, w2}
    NoWorker = NoWorker
    Sub = {s1}
    ChanCap = 2
    MaxWaits = 1
    MaxRestarts = 0
INVARIANTS
    ListenersWillHear
    ClosedBehindTerminal
PROPERTY
    EverybodyEnds
