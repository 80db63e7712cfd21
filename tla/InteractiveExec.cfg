SPECIFICATION FairSpec
CONSTANTS
  MaxIn = 4
  MaxOut = 1
  MaxResizes = 1
  StdinBuf = 1
  ResizeBuf = 1
  DownBuf = 1
  Ttys <- Both
  Heirs = TRUE
INVARIANTS InputInOrder OutputComplete
PROPERTIES ExitReachesUser LeavesNothing
\* A session that has ended stays so.
CHECK_DEADLOCK FALSE
