SPECIFICATION Spec
CONSTANTS
  Base <- MCBase
  Dirs <- MCDirs
  gLdPaths <- MCPaths
  TooLong <- MCTooLong
  LongBase <- MCLong
  Builds = {TRUE, FALSE}
  MaxLost = 2
INVARIANT FoundOnPaths
