SPECIFICATION FairSpec
CONSTANTS
    Caller = {p1, p2, p3}
    None = None
INVARIANTS
    OneExecution
    WorkNotStolen
    AbandonedIsCancelled
PROPERTY
    EveryCallerReturns
