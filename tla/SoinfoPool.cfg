SPECIFICATION Spec
CONSTANTS
  PerPool = 2
  MaxPools = 2
  Null = Null
INVARIANTS
  ListsChained
  Partitioned
  PrevPrecedes
  WalkComplete
