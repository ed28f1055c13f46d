\* As the other run, with less of what may fail, one product and two importers.
CONSTANTS
  Parts <- FairParts
  p = p  q = q  r = r  s = s  t = t  x = x  y = y
  cron = cron  anchor = anchor  other = other  none = none
  Runs <- MCTwo
  None = none
  MaxDuration = 3
  MaxOutages = 0
  Orders <- MCOrders
  Cron = cron
  MaxAttempts = 2
  MaxFaults = 1
  Drains <- MCTwo
  Absent = none
  DrainTime = 1
  RefreshAttempts = 2
  MaxHooks = 2
  MaxTroubles = 1
  Deliveries <- MCTwo
  HookTime = 2
  StaleAfter = 2
  MaxBreaks = 2
  Importers <- MCTwo
  MaxProduct = 1
  StepTime = 1
  ImportAttempts = 2
  MaxMishaps = 2
  Instances <- MCTwo
  Readers <- MCTwo
  MemoryTtl = 1
  RedisTtl = 2
  ReadTime = 1
  MaxVersion = 1
  MaxLapses = 1
  Anchor = anchor
  Others <- MCOther
  MaxTurns = 3
  MaxRateRetries = 1
  Codes <- MCTwo
  Generated <- MCOne
  Dated <- MCOne
  MaxEdits = 1
  MaxMeddles = 1
  MaxSnags = 1
  MaxGlitches = 0
SPECIFICATION MCFairSpec
INVARIANTS
  OneImporter
PROPERTIES
  PendingIsPushed EventIsServed CacheCatchesUp WebhookIsHandled GoneIsArchived CartSettles
  RedeemableComesLive
CHECK_DEADLOCK FALSE
