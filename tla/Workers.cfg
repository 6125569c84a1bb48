SPECIFICATION FairSpec
CONSTANTS
  h1 = h1
  h2 = h2
  t1 = t1
  t2 = t2
  None = None
  Hosts <- MCHosts
  Tasks <- MCTasks
  MaxTries = 3
  Scenarios <- AllScenarios
INVARIANTS
  AckedIsCommitted
  OneWorker
PROPERTIES
  Settles
CHECK_DEADLOCK FALSE
