SPECIFICATION Spec
CONSTANTS
  PageSize = 2
  None = None
  Pages = 7
  FileSize = 5
  Images <- MCImages
  Builds = {TRUE}
CHECK_DEADLOCK FALSE
INVARIANT SegmentsMapped
