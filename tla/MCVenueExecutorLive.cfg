CONSTANTS
    m1 = m1
    m2 = m2
    Markets <- OneMarket
    NoMarket = NoMarket
    Size = 1
    MarketCap = 1
    TotalCap = 1
    OpenRetries = 2
    ChildSends = 3
    MaxStrays = 3
    MaxBlind = 1
    MaxLockDuration = 2
    MinLockInterval = 1
    CooldownRetry = 1
SPECIFICATION FairSpec
 
PROPERTY RequestsSettle
