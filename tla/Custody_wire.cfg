SPECIFICATION CustodySpec
CONSTANTS
  Handles = {h1, h2}
  NoHandle = NoHandle
  Verbs = {v1, v2}
  Reporters = {r1}
  Wire = TRUE
  EarlyUse = FALSE
  FailureMode = "aborted"
  CourseVerbs = {"pause"}
  FastVerbs = {"pause"}
  StoreFails = TRUE
  MaxReports = 2
  MaxBoots = 2
SYMMETRY CustodySymmetry
INVARIANTS NoZombie MemoryNotAhead DiskNotAhead
PROPERTIES HappeningsMatchLedger ReleasedIsGone ImplementsView
CHECK_DEADLOCK FALSE
