--------------------------- MODULE MCLimitedLive ---------------------------
EXTENDS LimitedLive

CONSTANTS sol, jto

TwoMarkets == {sol, jto}
OneMarket == {sol}
SizesOneTwo == {1, 2}
OnlyOne == {1}
LossesAndAWin == {-3, -1, 1}
=============================================================================
