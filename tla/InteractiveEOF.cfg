SPECIFICATION FairSpec
CONSTANTS
  MaxIn = 1
  MaxOut = 1
  MaxResizes = 0
  StdinBuf = 1
  ResizeBuf = 1
  DownBuf = 1
  Ttys <- Plain
  Heirs = FALSE
PROPERTIES EOFReachesProcess
\* A session that has ended stays so.
CHECK_DEADLOCK FALSE
