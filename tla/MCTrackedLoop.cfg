CONSTANTS
    Callbacks <- MCCallbacks
    NoCallback = NoCallback
    Capacity = 3
    MaxEventCount = 3
    MaxWriteFaults = 1
    MaxArenas = 5
    MaxAllocs = 1
    MaxConns = 1
SPECIFICATION TrackedFairSpec
INVARIANTS
    TypeOK
    ArenasOwned
    NothingLost
    VerdictMeansLifetimes
    VerdictIsTruth
PROPERTIES
    RingIsQueue
    AcceptedRunsUnlessKilled
CHECK_DEADLOCK FALSE
