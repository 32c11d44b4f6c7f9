CONSTANTS
  Pos = {1, 2, 3}
  LongPos = {1, 2}
  Mixes <- MCMixes
  MaxBlocks = 4
  PerSecond = 2
  MaxStarts = 2
  HistLimit = 1
  LaneCap = 2
SPECIFICATION Spec
CHECK_DEADLOCK FALSE
INVARIANT FiguresAddUp
INVARIANT LastTickIsCurrent
INVARIANT HistoryComplete
INVARIANT PagesAccountForAll
