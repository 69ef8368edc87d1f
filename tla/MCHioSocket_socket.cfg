SPECIFICATION Spec
CONSTANTS
  MaxConn = 2
  MaxFrames <- FramesOfTwo
  FrameLen = 2
  MaxBuf = 3
  Room = 2
  Races = FALSE
CHECK_DEADLOCK FALSE
INVARIANTS TypeOK BufsizeExact QueueIsWatched EventsCounted NobodyDeaf
PROPERTY ImplementsByteStream
