CONSTANTS
  Interval <- MCInterval
  Shortest = "1m"
  Width <- MCWidth
  Price = {1, 2}
  Volume = {0, 2}
  Keep = 1
  Limit = 2
  Asked = {"1m"}
  MaxTime = 4
  MaxTrades = 2
  LastYear = 2372
SPECIFICATION FairSpec
INVARIANT BucketsSound
INVARIANT ClosedMessageIsFinal
INVARIANT NoBucketTwice
INVARIANT CalendarIsRight
PROPERTY EndedBarIsStored
