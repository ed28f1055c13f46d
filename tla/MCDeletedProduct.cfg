\* One product, one importer, nothing fails.
CONSTANTS
  Parts = {"catalog"}
  p = p  q = q  r = r  s = s  t = t  x = x  y = y
  cron = cron  anchor = anchor  other = other  none = none
  Runs <- MCRuns
  None = none
  MaxDuration = 3
  MaxOutages = 1
  Orders <- MCOrders
  Cron = cron
  MaxAttempts = 2
  MaxFaults = 2
  Drains <- MCTwo
  Absent = none
  DrainTime = 1
  RefreshAttempts = 1
  MaxHooks = 2
  MaxTroubles = 1
  Deliveries <- MCTwo
  HookTime = 2
  StaleAfter = 2
  MaxBreaks = 2
  Importers <- MCOne
  MaxProduct = 1
  StepTime = 1
  ImportAttempts = 2
  MaxMishaps = 0
  Instances <- MCTwo
  Readers <- MCTwo
  MemoryTtl = 1
  RedisTtl = 2
  ReadTime = 1
  MaxVersion = 2
  MaxLapses = 1
  Anchor = anchor
  Others <- MCOther
  MaxTurns = 4
  MaxRateRetries = 1
  Codes <- MCTwo
  Generated <- MCOne
  Dated = {}
  MaxEdits = 0
  MaxMeddles = 0
  MaxSnags = 0
  MaxGlitches = 1
SPECIFICATION MCSpec
PROPERTIES
  DeletedIsUnsellable
CHECK_DEADLOCK FALSE
