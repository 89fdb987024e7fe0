SPECIFICATION Spec
CONSTANTS
  dl = dl
  x = x
  y = y
  p = p
  q = q
  Lib = {dl, x, y}
  Name = {p, q}
  Libdl = dl
  Low = 4
  PageSize = 4
  MaxAddress = 12
  Symtab <- MCSymtab
  Hash <- MCHash
  Chains <- MCChains
  MinVaddr <- MCMinVaddr
  Size <- MCSize
INVARIANTS
  AttributedToItsLibrary
  NamedByDladdr
  UnwindAgrees
  FirstGlobalGiven
PROPERTIES
  NextSkipsCaller
