SPECIFICATION Spec
CONSTANTS
  Nil = Nil
  DefaultRowLimit = 3
  NumRows = {0, 1, 3, 4, 7}
  MaxRowsCounts = {1, 2, 3, 5}
  Limits <- MCLimits
  Offsets <- MCOffsets
INVARIANTS
  ListLimitsCapped
