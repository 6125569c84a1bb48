SPECIFICATION FairSpec
CONSTANTS
  r1 = r1
  r2 = r2
  Requests = {r1, r2}
  MaxEpoch = 3
  Scenarios <- AllScenarios
PROPERTIES
  ContinuesSafely
  ResumeContinues
CHECK_DEADLOCK FALSE
