CONSTANTS
  r1 = r1  c1 = c1  a = a  b = b  cron = cron  none = none
  Offers <- MCOffers
  CodeOffers <- MCCodeOffers
  Calls <- MCCalls
  Cron = cron
  None = none
  MaxTries = 0
  MaxFaults = 1
  MaxDrops = 0
  Catalogs <- MCCatalogs
  NodeIds <- MCNodeIds
  Missing = none
  MaxSlots = 3
  Limit = 5
  Reserve = 1
  MaxForeign = 1
  MaxMishaps = 1
  MaxMeddles = 1
  SlotBytes = 10
  TargetBytes = 8
  Envelope = 1
  AttributeLimit = 1
  TagLimit = 1
SPECIFICATION MCShopSpec
SYMMETRY MCSymmetry
INVARIANTS
  ShopTypeOK
  LiveCodesAreGuarded
  ConfirmedSaveIsKept
  ServedSincePublished
  OfferOnOneNode
  PlansAreSound
PROPERTIES
  NewOffersAreGuarded
  CompileErrorStopsStaleCodes
  IsReplica
CHECK_DEADLOCK FALSE
