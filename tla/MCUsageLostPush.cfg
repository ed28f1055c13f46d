CONSTANTS
  x = x  y = y  z = z  cron = cron
  Orders <- MCTwoOrders
  Cron = cron
  MaxAttempts = 2
  MaxFaults = 1
SPECIFICATION UsageSpec
INVARIANTS
  LostPushIsRetried
CHECK_DEADLOCK FALSE
