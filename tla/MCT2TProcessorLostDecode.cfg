CONSTANTS
    t1 = t1
    t2 = t2
    Threads <- MCThreads
    NoThread = NoThread
    NoSignal = NoSignal
    Uses <- Documented
SPECIFICATION FairSpec
PROPERTIES
    DecodeCompletes
CHECK_DEADLOCK FALSE
