SPECIFICATION Spec
CONSTANTS
  p1 = p1
  p2 = p2
  p3 = p3
  cdb1 = cdb1
  cdb2 = cdb2
  Plays <- TwoPlays
  Cdbs <- TwoCdbs
  Modes <- MCModes
  AtOnce = 1
SYMMETRY Symmetry
CHECK_DEADLOCK FALSE
INVARIANTS
  TypeOK
  SuccessIsReal
  NoStartHalfApplied
  OneEntryEach
  ValidatedBackup
PROPERTIES
  ChangeConfirmedUnlessSkipped
  ImplementsHostSteps
