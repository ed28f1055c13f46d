CONSTANTS
  r1 = r1  c1 = c1  a = a  b = b  cron = cron  none = none
  Offers <- MCOffers
  CodeOffers <- MCCodeOffers
  Calls <- MCCalls
  Cron = cron
  None = none
  MaxTries = 0
  MaxFaults = 0
  MaxDrops = 1
SPECIFICATION Spec
SYMMETRY MCSymmetry
INVARIANTS
  ServedSincePublished
CHECK_DEADLOCK FALSE
