SPECIFICATION Spec
CONSTANTS
  r1 = r1
  h1 = h1
  h2 = h2
  ru = ru
  rac = rac
  unknown = unknown
  no_id = no_id
  other_id = other_id
  Runs <- OneRun
  Hosts <- TwoHosts
  Inventory <- TwoHostInventory
  Registry <- MCRegistry
  IdLength <- MCIdLength
  Plans <- GoodPlan
  PatchId = other_id
  NoPatchId = no_id
  Stamps <- MCStamps
CHECK_DEADLOCK FALSE
INVARIANT ConfirmIsPatchId
