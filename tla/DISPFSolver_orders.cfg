SPECIFICATION Spec
CONSTANTS
  Orders = {0, 1, 2, 5}
  Span = 6
  InitialStep = 4
  MaxStep = 12
CHECK_DEADLOCK FALSE
INVARIANTS TypeOK FirstStageFollows OvershootBounded
PROPERTY OrdersFollow
