CONSTANTS
  Orders = {o1, o2}
  MarketIndex = 0
  FallbackToTaker = TRUE
  MaxSlips = 2
  MaxAtOnce = 3
  None = None
SPECIFICATION Spec
SYMMETRY Symmetry
VIEW View
INVARIANTS TypeOK OneOperation  
