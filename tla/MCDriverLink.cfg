CONSTANTS
    MaxTools = 1
    Scenarios <- MCScenarios
SPECIFICATION Spec
INVARIANTS
  AcceptedNeverDenied
  InjectedOnce
  ConsumedStands
PROPERTIES
  AcceptedIsPrompted
CHECK_DEADLOCK FALSE
