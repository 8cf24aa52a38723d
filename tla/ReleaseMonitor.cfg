SPECIFICATION FairSpec
CONSTANTS
  c1 = c1
  c2 = c2
  Checks <- TwoChecks
  Total = 5
  Quarterly <- MCQuarterly
  Absent = Absent
  Torn = Torn
  MaxChecks = 4
CHECK_DEADLOCK FALSE
INVARIANTS
  TypeOK
  NeverLostSilently
  QuarterlyOnly
  ReportedOnce
PROPERTY
  ChecksEnd
