SPECIFICATION KSpec
CONSTANTS
  j1 = j1
  j2 = j2
  aOld = aOld
  aNew = aNew
  bOdd = bOdd
  cNext = cNext
  broken = broken
  idA = idA
  idB = idB
  idC = idC
  opatch = opatch
  rac = rac
  Jobs <- OneJob
  Files <- MCFiles
  Contents <- MCContents
  Drafts <- MCDrafts
  NoFile = NoFile
  Torn = Torn
  NoManifest = NoManifest
  FirstStaging <- MCFirstStaging
  MaxEdits = 1
  MaxLaunches = 1
  Ids <- MCIds
  Meaning <- MCMeaning
  Invalid = Invalid
  NoBound = NoBound
  NoObject = NoObject
  AnyCategory = AnyCategory
  NoVersion = NoVersion
  DemoVersion <- MCDemoVersion
  TopK = 1
  OverFetch = 2
CHECK_DEADLOCK FALSE
INVARIANT ManifestVouches
