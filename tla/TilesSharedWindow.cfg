CONSTANTS
  Request = {r1}
  Place = {p1}
  None = None
  Grid = 2
  Commits = TRUE
SPECIFICATION Spec
INVARIANTS
  WriterHasWindow
CHECK_DEADLOCK FALSE
