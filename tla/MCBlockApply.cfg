\* Bounds: three row changes per block, over any number of blocks.
CONSTANTS
  Key = {"a1", "a2", "b1"}
  Val = {1, 2}
  Absent = Absent
  Market = {"A", "B"}
  Owner <- MCOwner
  MaxOps = 3
SPECIFICATION Spec
INVARIANT DiskFollowsMemory
