CONSTANTS
  o1 = o1  o2 = o2  m = m  cron = cron  none = none
  Offers <- MCOffers
  Requests <- MCRequests
  Cron = cron
  None = none
  Ops <- MCPause
  MaxOps = 1
  MaxFaults = 1
  MaxCrashes = 0
  LastTick = 1
SPECIFICATION Spec
INVARIANTS
  FailedPublishNeverPauses
CHECK_DEADLOCK FALSE
