SPECIFICATION Spec
CONSTANTS
  a = a
  x = x
  y = y
  p = p
  w = w
  own = own
  Lib = {a, x, y}
  Name = {p, w, own}
  si = a
  NoMain = NoMain
  somain = NoMain
  needed <- MCNeeded
  gLdPreloads <- NoPreloads
  Symbolic = {}
  Symtab <- MCSymtab
  Hash <- MCHash
  Chains <- MCChains
  base <- MCBase
  load_bias <- MCBase
  Word = 64
  Offsets = {0, 4, 8}
  Addend = 50
  MaxRel = 1
CHECK_DEADLOCK FALSE
INVARIANT OwnDefinitionFound
