SPECIFICATION Spec
CONSTANTS
  Methods = {"Euler", "RK2", "RK23S", "STEKS", "DISPD"}
  Span = 5
  InitialStep = 2
  Retries = 3
CHECK_DEADLOCK FALSE
INVARIANTS TypeOK OvershootBounded ClockWithinFactor
PROPERTIES Terminates StepsAdvance
