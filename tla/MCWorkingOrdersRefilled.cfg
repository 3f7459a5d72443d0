CONSTANTS
  Orders = {o1}
  MarketIndex = 0
  FallbackToTaker = TRUE
  MaxSlips = 1
  MaxAtOnce = 3
  None = None
SPECIFICATION Spec
PROPERTY FilledIsNotReplaced
