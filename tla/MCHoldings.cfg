SPECIFICATION Spec
CONSTANTS
  s1 = s1
  s2 = s2
  d1 = d1
  d2 = d2
  t1 = t1
  t2 = t2
  t3 = t3
  a1 = a1
  a2 = a2
  w1 = w1
  w2 = w2
  w3 = w3
  w4 = w4
  w5 = w5
  x1 = x1
  r1 = r1
  r2 = r2
  r3 = r3
  e1 = e1
  c1 = c1
  c2 = c2
  c3 = c3
  o1 = o1
  o2 = o2
  o3 = o3
  o4 = o4
  o5 = o5
  o6 = o6
  o7 = o7
  z1 = z1
  z2 = z2
  z3 = z3
  z4 = z4
  None = None
  Sessions = {s1, s2}
  Limits <- MCLimits
  Daemons = {d1, d2}
  Streams = {t1, t2, t3}
  Term = 2
  PageSize = 1
  WriteOf <- MCWriteOf
  DeleteOf <- MCDeleteOf
  EraseOf <- MCEraseOf
  ReadOf <- MCReadOf
  ChunkBytes = 2
  Clients = {c1, c2, c3}
  Offer <- MCOffer
  Key <- MCKey
  Asks <- MCAsks
  Hosts = {"h1", "h2"}
  Openers <- MCOpeners
  LeaseTime = 2
  Period = 1
  Scenarios <- MCScenarios
INVARIANTS
  LedgerSound
  LiveLeaseKept
  AvailableHasBytes
PROPERTIES
  EndedCallsRelease
  ReplacesOnlyStopped
  LostIsNoticed
CHECK_DEADLOCK FALSE
