CONSTANTS
    sol = sol
    jto = jto
    Markets <- TwoMarkets
    Tradeable <- OneMarket
    MaxLossPerTrade = 2
    MaxLossPerDay = 3
    MaxConsecutive = 3
    Day = 1
    GatesEnabled = TRUE
    InitialCap = 1
    InitialTotalCap = 2
    Sizes <- SizesOneTwo
    Caps <- OnlyOne
    Pnls <- LossesAndAWin
    CapBound = 4
    ExposureBound = 2
    LossBound = 4
SPECIFICATION Spec
CHECK_DEADLOCK FALSE
INVARIANT TypeOK
INVARIANT LiveWithinGates
INVARIANT TotalNeverAboveMarkets
PROPERTY RollbackIsLatched
