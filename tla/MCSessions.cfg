CONSTANTS
  Key = {"oracle", "house", "user", "USER", "state"}
  Feed <- MCFeed
  Filtered = {"hub"}
  Droppable = {"mark", "stake"}
  Unsaid = {"house", "stake"}
  Mixes <- MCMixes
  Cap = 1
  MaxTasks = 3
SPECIFICATION FairSpec
CHECK_DEADLOCK FALSE
INVARIANT ViewIsCurrent
INVARIANT EventsDelivered
PROPERTY SessionProgress
