CONSTANTS
  Event = {1, 2, 3}
  Question <- MCQuestion
  Named = {1, 2, 3}
  NameOf <- MCNameOf
  Mixes <- MCMixes
  MaxBlocks = 3
  MaxStarts = 2
SPECIFICATION Spec
CHECK_DEADLOCK FALSE
INVARIANT SlugsSound
INVARIANT SpotsResolve
INVARIANT OnlyShellsAreVolatile
INVARIANT StateExact
