CONSTANTS
  o1 = o1  o2 = o2  m = m  cron = cron  none = none
  Offers <- MCOffers
  Requests <- MCRequests
  Cron = cron
  None = none
  Ops <- MCReschedule
  MaxOps = 1
  MaxFaults = 0
  MaxCrashes = 0
  LastTick = 2
SPECIFICATION Spec
INVARIANTS
  FutureStartsWait
CHECK_DEADLOCK FALSE
