SPECIFICATION Spec
CONSTANTS
  PageSize = 2
  None = None
  Pages = 8
  FileSize = 5
  Images <- MCImages
  Builds = {TRUE, FALSE}
CHECK_DEADLOCK FALSE
INVARIANTS
  SegmentsRead
  ExtraBytesZero
  OthersUntouched
  HeaderTableFound
  WritableWhileRelocating
  RelroReadOnly
  LatterFlags
  LeftMapped
