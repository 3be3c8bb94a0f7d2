CONSTANTS
    Ids = {i1, i2}
    Methods <- MCMethods
    Timeouts <- MCTimeouts
    Offers <- MCOffers
    Stateful = TRUE
    SamplingSupported = TRUE
    MaxRoots = 1
    MaxServerRequests = 1
SPECIFICATION Spec
INVARIANTS RequestsKept
PROPERTIES IsMcpRequests RequestsReported
