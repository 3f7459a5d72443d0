CONSTANTS
    MaxLockDuration = 7
    MinLockInterval = 1
    CooldownRetry = 3
    MaxPositions = 2
SPECIFICATION FairSpec
INVARIANT TypeOK
INVARIANT RetriesAreRationed
INVARIANT RetryClock
PROPERTY LockIsNotForever
