SPECIFICATION Spec
CONSTANTS
  Conn = {c1}
  Fd = {f1}
  NoConn = NoConn
  Requests = {"ping", "malformed", "failing", "solvable", "divergent"}
  MaxPoints = 2
  MaxQueue = 2
  MaxThreads = 1
  FdReuse = FALSE
  ChunkVanishes = FALSE
CHECK_DEADLOCK FALSE
INVARIANTS TypeOK WellFramed PiecesInOrder RightAnswers OnlyTimersCutAnswers
PROPERTIES NothingAfterTheEnd WorkersLeave WorkersAdvance ImplementsService
