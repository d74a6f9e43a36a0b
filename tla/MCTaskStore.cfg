CONSTANTS
    MaxTasks = 2
    MaxFaults = 1
    MaxCrashes = 2
    MaxReads = 2
SPECIFICATION FairSpec
INVARIANTS
    TypeOK
    AckedIsListed
    
    BlockedByRemainsOnly
    NeverMixed
PROPERTIES
    TaskIdsNeverReused
    RequestsEnd
