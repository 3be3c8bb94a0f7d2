CONSTANTS
    t1 = t1
    t2 = t2
    Threads <- MCThreads
    NoThread = NoThread
    NoSignal = NoSignal
    Uses <- Anywhere
SPECIFICATION Spec
SYMMETRY MCSymmetry
INVARIANTS
    ContextNotUsedAfterFree
    ContextAccountedFor
    NoJobAfterDestruct
PROPERTIES
    DataNotShared
    InitializeReportedTruly
    IsProcessorLifecycle
CHECK_DEADLOCK FALSE
