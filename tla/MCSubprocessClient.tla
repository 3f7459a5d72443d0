------------------------ MODULE MCSubprocessClient ------------------------
EXTENDS SubprocessClient

CONSTANTS c1, c2, c3, c4, c5

Order == "placeMarketOrder"
Poll == "getPositions"
ManyCallers == {c1, c2, c3, c4, c5}
TwoActions == {Order, Poll}
OnlyPolls == {Poll}
HalfPoll == [c \in ManyCallers |-> IF c \in {c1, c2, c3} THEN Order ELSE Poll]
=============================================================================
