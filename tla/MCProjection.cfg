SPECIFICATION Spec
CONSTANTS
  p1 = p1
  p2 = p2
  r1 = r1
  None = None
  Sessions = {1, 2}
  Projectors = {p1, p2}
  Readers = {r1}
  Rank <- MCRank
  Keep = 1
  Batch = 1
  PageSize = 1
  Scenarios <- MCScenarios
INVARIANTS
  RowsAreCurrent
  PagesPinned
CHECK_DEADLOCK FALSE
