SPECIFICATION FairSpec
CONSTANTS
  h1 = h1
  h2 = h2
  i1 = i1
  i2 = i2
  i3 = i3
  ask = ask
  next = next
  stop = stop
  NoHost = NoHost
  NoInstance = NoInstance
  Hosts = {h1, h2}
  Instances = {i1, i2, i3}
  Messages = {ask, next, stop}
  Controls = {stop}
  Cancels = {stop}
  Correlated = {ask, stop}
  MaxAttempts = 2
  MaxQueued = 2
  Scenarios <- AllScenarios
INVARIANTS
  AcceptedIsPerformed
  ActedOnceInOrder
PROPERTIES
  EventuallySettled
CHECK_DEADLOCK FALSE
