\* Libraries that need each other, every link of which fails half way, and a
\* system library, whose constructors and destructors the linker skips.
SPECIFICATION Spec
CONSTANTS
  dl = dl
  a = a
  b = b
  c = c
  d = d
  Lib = {dl, a, b, c, d}
  Libdl = dl
  Needed <- MixedNeeded
  SystemLibs = {d}
  Callers = {c, d}
  LibdlRefs = 2
  MaxHandles = 2
  MaxLeaks = 3
  MaxNested = 2
INVARIANTS
  RefCountExact
  NothingHalfLinked
  DestructConstructed
PROPERTIES
  Implements
