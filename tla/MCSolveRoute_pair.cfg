SPECIFICATION Safety
CONSTANTS
  Conn = {c1, c2}
  Fd = {f1, f2}
  NoConn = NoConn
  Requests = {"failing"}
  MaxPoints = 1
  MaxQueue = 1
  MaxThreads = 2
  FdReuse = TRUE
  ChunkVanishes = FALSE
SYMMETRY Symmetry
CHECK_DEADLOCK FALSE
PROPERTY ForeignBytesAreStale
