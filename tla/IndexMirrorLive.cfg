CONSTANTS
  Key = {"k1"}
  Val = {1, 2}
  Absent = Absent
  MaxBlock = 2
  MaxCrashes = 1
  QueueCap = 1
  BatchCap = 1
  EpochLength = 2
  EpochConfigured = TRUE
SPECIFICATION FairSpec
CHECK_DEADLOCK FALSE
PROPERTY AppliedReachesDisk
PROPERTY ShutdownEnds
