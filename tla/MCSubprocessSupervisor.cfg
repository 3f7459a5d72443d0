SPECIFICATION Spec
CONSTANTS
    MaxRestarts = 2
    Procs = {s1, s2, s3}
    None = None
    MaxFaults = 3
INVARIANTS TypeOK OnlyCurrentRuns CallsReachSdk
PROPERTY ComesBack
CHECK_DEADLOCK FALSE
