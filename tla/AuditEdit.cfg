SPECIFICATION Spec
CONSTANTS
  a = a
  b = b
  Events <- MCEvents
  MaxLen = 4
  MaxEdits = 3
CHECK_DEADLOCK FALSE
INVARIANTS
  TypeOK
  VerifiedIsPrefix
