CONSTANTS
    p1 = p1
    p2 = p2
    Procs <- TwoProcs
    StaleAfter = 4
    HeartbeatEvery = 2
    MaxAttempts = 3
    Faults <- AllFaults
SPECIFICATION FairSpec
CHECK_DEADLOCK FALSE
INVARIANT TypeOK
INVARIANT HealthyOwnerHasLiveRow
INVARIANT HealthyExclusion
PROPERTY BootSettles
