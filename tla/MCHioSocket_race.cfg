SPECIFICATION Spec
CONSTANTS
  MaxConn = 2
  MaxFrames <- FramesOfTwo
  FrameLen = 2
  MaxBuf = 3
  Room = 2
  Races = TRUE
CHECK_DEADLOCK FALSE
INVARIANT WriteIsThreadSafe
