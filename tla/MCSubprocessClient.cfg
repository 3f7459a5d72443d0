CONSTANTS
    c1 = c1
    c2 = c2
    c3 = c3
    c4 = c4
    c5 = c5
    Callers <- ManyCallers
    Actions <- TwoActions
    ActionOf <- HalfPoll
    Coalescable <- OnlyPolls
    MaxInflight = 2
    MaxQueue = 2
    FailureThreshold = 3
    SuccessThreshold = 2
    OpenTime = 1
SPECIFICATION FairSpec
INVARIANT TypeOK
INVARIANT WorkConserving
INVARIANT WaitsOnce
INVARIANT PollsShareTheQueue
PROPERTY SendSettles
PROPERTY BreakerRecovers
