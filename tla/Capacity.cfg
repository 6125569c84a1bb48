CONSTANTS
  t1 = t1
  t2 = t2
  t3 = t3
  t4 = t4
  Closed = Closed
  Tasks <- MCTasks
  Campaigns <- MCCampaigns
  CampaignOf <- MCCampaignOf
  Capacity = 2
  MaxQueue = 2
  MaxLeaks = 2
SPECIFICATION FairPermitsSpec
INVARIANTS
  WithinCapacity
  Rotates
PROPERTIES
  WaiterServed
CHECK_DEADLOCK FALSE
