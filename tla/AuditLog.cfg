SPECIFICATION FairSpec
CONSTANTS
  p1 = p1
  p2 = p2
  a = a
  b = b
  NoProc = NoProc
  NoEntry = NoEntry
  Procs <- MCProcs
  Events <- MCEvents
  Interrupted <- Alone
  SplitNewline = FALSE
  MaxLines = 4
  MaxFaults = 3
CHECK_DEADLOCK FALSE
INVARIANTS
  TypeOK
  ChainIntact
  AckedReadable
  AckedOnDisk
PROPERTIES
  LockReleased
  ImplementsAppendOnlyLog
