--------------------------- MODULE MCInstanceLock ---------------------------
EXTENDS InstanceLock

CONSTANTS p1, p2

TwoProcs == {p1, p2}
NoFaults == {}
AllFaults == FaultKinds
Rejections == {"rejection"}
=============================================================================
