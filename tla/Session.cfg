CONSTANTS
  h1 = h1
  h2 = h2
  Hosts = {h1, h2}
  NoHost = NoHost
  None = None
  Watchdogs = {h1}
  Times = {0, 1, 2}
  MaxLease = 2
  MaxEvents = 6
  Commands <- MCCommands
SPECIFICATION Spec
INVARIANTS
  EventsFenced
  StableAnswers
PROPERTIES
  ExpiredNeverActs
  ImplementsFencedLease
