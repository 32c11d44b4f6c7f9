CONSTANTS
  MaxBlock = 3
  Cancels <- MCCancels
  RawCap = 1
  PreparedCap = 1
  QuietAt = 1
  BufferMax = 1
  Threshold = 1
  MaxConns = 2
SPECIFICATION FairSpec
CHECK_DEADLOCK FALSE
INVARIANT BlocksAccounted
INVARIANT OpenOrdersExact
INVARIANT WorkersInOrder
INVARIANT TablesMirror
PROPERTY PipelineIsAQueue
PROPERTY PipelineProgress
