CONSTANTS
  r1 = r1  c1 = c1  a = a  b = b  cron = cron  none = none
  Offers <- MCOffers
  CodeOffers <- MCCodeOffers
  Calls <- MCOneCall
  Cron = cron
  None = none
  MaxTries = 1
  MaxFaults = 2
  MaxDrops = 1
SPECIFICATION FairSpec
PROPERTIES
  PendingReachesShopify
CHECK_DEADLOCK FALSE
