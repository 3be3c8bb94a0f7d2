CONSTANTS
    t1 = t1
    t2 = t2
    input = input
    decode = decode
    Signals <- MCSignals
    Threads <- MCThreads
    NoSignal = NoSignal
    NoThread = NoThread
    SpawnMayFail = TRUE
SPECIFICATION FairSpec
INVARIANTS
    TypeOK
    OneJoinableWorker
    NoWorkerAfterDelete
    SignalHeldDuringJob
    CompletionNotLost
PROPERTIES
    CallsReturn
CHECK_DEADLOCK FALSE
