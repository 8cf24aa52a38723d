SPECIFICATION Spec
CONSTANTS
  p1 = p1
  p2 = p2
  p3 = p3
  cdb1 = cdb1
  cdb2 = cdb2
  Plays <- ThreePlays
  Cdbs <- OneCdb
  Modes <- PrecheckOnly
  AtOnce = 3
CHECK_DEADLOCK FALSE
INVARIANT EntriesTrue
