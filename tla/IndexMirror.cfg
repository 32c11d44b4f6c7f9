CONSTANTS
  Key = {"k1"}
  Val = {1, 2, 3}
  Absent = Absent
  MaxBlock = 3
  MaxCrashes = 1
  QueueCap = 1
  BatchCap = 1
  EpochLength = 2
  EpochConfigured = TRUE
SPECIFICATION Spec
CHECK_DEADLOCK FALSE
INVARIANT CountersSound
INVARIANT ImagesExact
INVARIANT ShutdownSavesHead
PROPERTY RecoveryExact
PROPERTY DiskHeadMonotonic
