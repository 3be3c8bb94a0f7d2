SPECIFICATION AllSpec
CONSTANTS
    Timers = {"timeout", "interval", "async"}
    Timeout <- IsTimeout
    Async <- IsAsync
    mTargetTime <- TargetOf
    mTickLimit <- TicksOf
    mTimerLimit = 1
    MaxDelta = 1
    MaxRegistrations = 3
    MaxEdits = 2
    mThreadCount = 2
    Jobs = {"a", "b", "c"}
    Sizes = {1, 2}
    MaxInputs = 2
INVARIANTS WorkKept
PROPERTIES WorkDone
CHECK_DEADLOCK FALSE
