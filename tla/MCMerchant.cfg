CONSTANTS
  caller1 = caller1  caller2 = caller2  token1 = token1  token2 = token2
  input1 = input1  input2 = input2  key = key
  o1 = o1  o2 = o2  m = m  cron = cron  none = none
  Offers <- MCOffers
  Requests <- MCRequests
  Cron = cron
  None = none
  Ops <- AllOps
  MaxOps = 1
  MaxFaults = 2
  MaxCrashes = 0
  LastTick = 1
  Callers <- MCCallers
  Tokens <- MCTokens
  Keys <- MCKeys
  Inputs <- MCInputs
  Nothing = none
  ConfirmTtl = 1
  KeyTtl = 2
  Retention = 2
  CallTime = 2
  LastHour = 3
  MaxUpsets = 1
SPECIFICATION MCSpec
SYMMETRY MCSymmetry
INVARIANTS
  MerchantTypeOK
  ConfirmedStatusIsServed
  TokenAppliesOnce
  ReplayWasApplied
PROPERTIES
  CronTransitionIsKept
  SchedulerUndoesOnlyItsOwn
  KeyRepeatsNeedFailure
CHECK_DEADLOCK FALSE
