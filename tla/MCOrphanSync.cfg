CONSTANTS
  Ours = {i1, i2}
  MaxOrphanCancels = 2
SPECIFICATION Spec
INVARIANT TypeOK
PROPERTY StraysAreCancelled
