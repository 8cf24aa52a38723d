SPECIFICATION FairSpec
CONSTANTS
  p1 = p1
  p2 = p2
  a = a
  b = b
  NoProc = NoProc
  NoEntry = NoEntry
  Procs <- MCProcs
  Events <- MCEvents
  Interrupted <- Never
  SplitNewline = FALSE
  MaxLines = 2
  MaxFaults = 1
CHECK_DEADLOCK FALSE
INVARIANT VerifyAnswers
