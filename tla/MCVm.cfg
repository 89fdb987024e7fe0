SPECIFICATION Spec
CONSTANTS
  Word = 64
  Biases = {0, 30, 46}
  Files <- MCFiles
  None = None
  Junk = Junk
  MaxRan = 3
  Builds = {TRUE, FALSE}
CHECK_DEADLOCK FALSE
INVARIANTS
  LinkedAsInFile
  CallsInOrder
  OnLoadOnce
  SuccessEmulated
PROPERTY StartVmEnds
