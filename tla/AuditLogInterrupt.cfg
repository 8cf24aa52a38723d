SPECIFICATION FairSpec
CONSTANTS
  p1 = p1
  p2 = p2
  a = a
  b = b
  NoProc = NoProc
  NoEntry = NoEntry
  Procs <- MCProcs
  Events <- MCEvents
  Interrupted <- AnyWriters
  SplitNewline = FALSE
  MaxLines = 3
  MaxFaults = 1
CHECK_DEADLOCK FALSE
INVARIANT ChainIntact
