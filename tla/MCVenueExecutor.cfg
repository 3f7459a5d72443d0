CONSTANTS
    m1 = m1
    m2 = m2
    Markets <- TwoMarkets
    NoMarket = NoMarket
    Size = 1
    MarketCap = 1
    TotalCap = 1
    OpenRetries = 2
    ChildSends = 1
    MaxStrays = 1
    MaxBlind = 0
    MaxLockDuration = 2
    MinLockInterval = 1
    CooldownRetry = 1
SPECIFICATION Spec
SYMMETRY MarketSymmetry
INVARIANT TypeOK
INVARIANT DoubledOnlyUnseen
INVARIANT LockedSendsAreRationed
PROPERTY LockIsUsedAsSpecified
