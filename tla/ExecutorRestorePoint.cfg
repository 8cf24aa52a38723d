SPECIFICATION Spec
CONSTANTS
  r1 = r1
  h1 = h1
  h2 = h2
  ru = ru
  rac = rac
  unknown = unknown
  no_id = no_id
  other_id = other_id
  Runs <- OneRun
  Hosts <- TwoHosts
  Inventory <- TwoHostInventory
  Registry <- MCRegistry
  IdLength <- MCIdLength
  Plans <- GoodPlan
  PatchId = ru
  NoPatchId = no_id
  Stamps <- MCStamps
CHECK_DEADLOCK FALSE
INVARIANT ReportedPointCreated
