SPECIFICATION Spec
CONSTANTS
    Participants = {"r", "c", "d"}
    Root = "r"
    Capabilities <- Names
    Scenarios <- MCScenarios
    MaxChildren = 2
    MaxDepth = 3
    MaxParticipants = 3
    MaxQueued = 3
    MaxOutcomes = 1
INVARIANTS
  DelegationNarrows
  NoWorkUnderTombstone
  OneResumePerQuestion
  CancelledCloseIsQuiet
CHECK_DEADLOCK FALSE
