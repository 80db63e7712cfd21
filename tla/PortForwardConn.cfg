SPECIFICATION MCSpec
CONSTANTS
  MaxConns = 2
  MaxChunks = 3
  InBuf = 1
  DownBuf = 2
  SockBuf = 1
  MaxShared = 2
  ByteBase = 2
  MaxPayload = 3
INVARIANTS BytesInOrder ClosedOnce FramesRoundTrip
PROPERTIES ClientCloseReachesPod PodCloseReachesClient SessionReleases
\* A session that has ended stays so, and long inputs are not extended.
CHECK_DEADLOCK FALSE
