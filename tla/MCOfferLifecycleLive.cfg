CONSTANTS
  o1 = o1  o2 = o2  m = m  cron = cron  none = none
  Offers <- MCOneOffer
  Requests <- MCRequests
  Cron = cron
  None = none
  Ops <- AllOps
  MaxOps = 2
  MaxFaults = 1
  MaxCrashes = 1
  LastTick = 1
SPECIFICATION FairSpec
PROPERTIES
  OverdueOffersChange
CHECK_DEADLOCK FALSE
