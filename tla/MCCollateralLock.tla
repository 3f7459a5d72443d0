-------------------------- MODULE MCCollateralLock --------------------------
EXTENDS CollateralLock
=============================================================================
