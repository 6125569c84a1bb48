SPECIFICATION FairSpec
CONSTANTS
  Configs = {"c1", "c2"}
  MaxEpoch = 2
  Scenarios <- AllScenarios
INVARIANTS
  StoppedIsGone
  OneDriver
PROPERTIES
  FencedDriverEnds
CHECK_DEADLOCK FALSE
