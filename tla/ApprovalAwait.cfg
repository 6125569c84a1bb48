SPECIFICATION ServicesSpec
CONSTANTS
  r1 = r1
  r2 = r2
  None = None
  Requests = {r1, r2}
  Scenarios <- ToolScenarios
  Resolutions <- ToolResolutions
  Tenures = {1, 2}
  Contract <- ToolContract
  UsedIds <- ToolUsedIds
  MaxRevision = 2
  Decisions <- ToolDecisions
  DecisionTenures = {1, 2}
  RelayAttempts = 2
  Consumer = "alice"
  RegisterCalls <- ToolRegisters
  Streams <- ToolStreams
  Works <- ToolWorks
  ToolTenures = {1, 2}
  MaxTools = 1
  MaxProviders = 1
CHECK_DEADLOCK FALSE
INVARIANT RequestIsAwaited
