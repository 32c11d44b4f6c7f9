CONSTANTS
  Price = {1, 2}
  MaxSize = 1
  MaxSeq = 4
  Cap = 1
  Depth = 1
SPECIFICATION Spec
CHECK_DEADLOCK FALSE
INVARIANT ViewExact
INVARIANT SettledIsCurrent
