SPECIFICATION CustodySpec
CONSTANTS
  Handles = {h1}
  NoHandle = NoHandle
  Verbs = {v1, v2}
  Reporters = {r1}
  Wire = FALSE
  EarlyUse = FALSE
  FailureMode = "aborted"
  CourseVerbs = {"pause"}
  FastVerbs = {"pause"}
  StoreFails = FALSE
  MaxReports = 2
  MaxBoots = 2
SYMMETRY CustodySymmetry
PROPERTIES ReleasedIsGone
CHECK_DEADLOCK FALSE
