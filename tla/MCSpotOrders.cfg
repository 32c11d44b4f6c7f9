CONSTANTS
  o1 = o1
  o2 = o2
  Order <- MCOrder
  NewSize = 2
  MaxSize = 3
  MaxEvents = 3
  MaxAhead = 1
  MaxPosts = 2
SYMMETRY Symmetry
SPECIFICATION Spec
CHECK_DEADLOCK FALSE
INVARIANT BookExact
INVARIANT OrdersExact
INVARIANT IndexSound
INVARIANT OwnerMissesOnlyTheEnd
