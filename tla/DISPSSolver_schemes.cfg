SPECIFICATION Spec
CONSTANTS
  Span = 6
  InitialStep = 4
  MaxTries = 3
CHECK_DEADLOCK FALSE
INVARIANTS TypeOK WithinSpan ChangesOnce
