SPECIFICATION Safety
CONSTANTS
  Methods = {"RK2"}
  Span = 4
  InitialStep = 2
  Retries = 3
CHECK_DEADLOCK FALSE
INVARIANT TimeIsIntegrated
