SPECIFICATION Safety
CONSTANTS
  Conn = {c1}
  Fd = {f1}
  NoConn = NoConn
  Requests = {"solvable"}
  MaxPoints = 3
  MaxQueue = 2
  MaxThreads = 1
  FdReuse = FALSE
  ChunkVanishes = TRUE
CHECK_DEADLOCK FALSE
INVARIANTS FailedWritesAreReported
