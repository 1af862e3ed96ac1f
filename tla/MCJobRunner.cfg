SPECIFICATION Spec
CONSTANTS
    Jobs = 2
    Worker = {w1, w2}
    NoWorker = NoWorker
    Sub = {}
    ChanCap = 2
    MaxWaits = 1
    MaxRestarts = 1
INVARIANTS
    OneRunner
    NoLostWakeup
    NoDebrisOfDeleted
    RerunsFromZero
PROPERTY
    TerminalIsFinal
SYMMETRY Symmetry
