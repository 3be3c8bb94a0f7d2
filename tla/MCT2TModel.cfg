CONSTANTS
    t1 = t1
    p1 = p1
    p2 = p2
    n1 = n1
    n2 = n2
    Threads <- MCThreads
    Processors <- MCProcessors
    Nodes <- MCNodes
    ContextLength <- MCContextLength
    mTotalContextSize = 3
    NoThread = NoThread
    NoSignal = NoSignal
    Nobody = Nobody
    NoNode = NoNode
    Uses <- Orderly
SPECIFICATION Spec
INVARIANTS
    ContextsAccounted
    NothingDangles
PROPERTIES
    ReleaseIsSafe
CHECK_DEADLOCK FALSE
