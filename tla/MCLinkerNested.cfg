\* Constructors and destructors of every library call dlopen and dlclose.
SPECIFICATION Spec
CONSTANTS
  dl = dl
  a = a
  b = b
  c = c
  d = d
  Lib = {dl, a, b, c}
  Libdl = dl
  Needed <- SharedNeeded
  SystemLibs = {}
  Callers = {a, b, c}
  LibdlRefs = 2
  MaxHandles = 2
  MaxLeaks = 1
  MaxNested = 2
INVARIANTS
  FullInv
  NeededResident
  RestResident
  HandleValid
  PoolsWritable
  InitOrder
PROPERTIES
  FreedUnreferenced
  EveryCallReturns
