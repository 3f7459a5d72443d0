-------------------------- MODULE MCVenueExecutor --------------------------
EXTENDS VenueExecutor, TLC

CONSTANTS m1, m2

TwoMarkets == {m1, m2}
OneMarket == {m1}

\* No definition tells the markets apart.
MarketSymmetry == Permutations(TwoMarkets)
=============================================================================
