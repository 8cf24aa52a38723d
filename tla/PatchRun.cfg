SPECIFICATION DFairSpec
CONSTANTS
  r1 = r1
  h1 = h1
  h2 = h2
  ru = ru
  rac = rac
  unknown = unknown
  no_id = no_id
  other_id = other_id
  Runs <- OneRun
  Hosts <- TwoHosts
  Inventory <- TwoHostInventory
  Registry <- MCRegistry
  IdLength <- MCIdLength
  Plans <- MCPlans
  PatchId = ru
  NoPatchId = no_id
  Stamps <- MCStamps
  MaxSchemaRetries = 2
  Free = Free
  Orphan = Orphan
  NoLevel = NoLevel
  Preconditions <- MCPreconditions
  Playbooks <- MCPlaybooks
  Raised = Raised
CHECK_DEADLOCK FALSE
INVARIANTS
  MTypeOK
  GatedChange
  HaltExplained
  SuccessComplete
  TrailAgreesWithRegistry
  OutcomeTruth
  LevelJustified
  ExitZeroMeansDone
  ExitOneExplained
  RecordedAsExited
  DemoZeroMeansEnded
PROPERTIES
  NothingStartsAfterEnd
  Settles
  ImplementsGatedRollout
  MSettles
