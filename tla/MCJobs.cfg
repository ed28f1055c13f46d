\* Three deliveries of the cron, two orders, two drains, two deliveries of a
\* webhook, two importers of two products, two instances and readers, four
\* turns of a shopper.
CONSTANTS
  Parts <- AllParts
  p = p  q = q  r = r  s = s  t = t  x = x  y = y
  cron = cron  anchor = anchor  other = other  none = none
  Runs <- MCRuns
  None = none
  MaxDuration = 3
  MaxOutages = 1
  Orders <- MCOrders
  Cron = cron
  MaxAttempts = 2
  MaxFaults = 2
  Drains <- MCTwo
  Absent = none
  DrainTime = 1
  RefreshAttempts = 1
  MaxHooks = 2
  MaxTroubles = 1
  Deliveries <- MCTwo
  HookTime = 2
  StaleAfter = 2
  MaxBreaks = 2
  Importers <- MCOne
  MaxProduct = 2
  StepTime = 1
  ImportAttempts = 2
  MaxMishaps = 1
  Instances <- MCTwo
  Readers <- MCTwo
  MemoryTtl = 1
  RedisTtl = 2
  ReadTime = 1
  MaxVersion = 2
  MaxLapses = 1
  Anchor = anchor
  Others <- MCOther
  MaxTurns = 4
  MaxRateRetries = 1
  Codes <- MCTwo
  Generated <- MCOne
  Dated = {}
  MaxEdits = 2
  MaxMeddles = 1
  MaxSnags = 1
  MaxGlitches = 1
SPECIFICATION MCSpec
INVARIANTS
  PartsTypeOK
  OverlapNeedsOutage StuckLockExpires
  ClearedMeansPushed SyncedWithoutFaults
  EventNotSwallowed
  AckMeansHandled OneClaim
  StalenessBounded InvalidationHolds
  FlagsAreHonest
PROPERTIES
  ValidRowsAreKept RefusalsAreRespected OneReaddPerLoss
CHECK_DEADLOCK FALSE
