SPECIFICATION Spec
CONSTANTS
  p1 = p1
  p2 = p2
  p3 = p3
  cdb1 = cdb1
  cdb2 = cdb2
  Plays <- OnePlay
  Cdbs <- TwoCdbs
  Modes <- TaggedModes
  AtOnce = 1
CHECK_DEADLOCK FALSE
PROPERTY ChangeConfirmed
