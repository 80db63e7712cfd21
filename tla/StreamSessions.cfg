SPECIFICATION Spec
CONSTANTS
  x1 = x1  x2 = x2  a1 = a1  st1 = st1  st2 = st2
  None = None
  AgentIds <- OneId
  Sessions <- TwoSessions
  Streams <- OneStream
  Kinds <- ExecForward
  MaxConcurrent = 1
  OutputBuffer = 1
  WireBound = 1
SYMMETRY Symmetry
INVARIANTS ListedSessionsOpen NoStrandedHandler HandlersReleaseSessions StreamAuditTruthful
\* Requests and streams run out, or central has crashed.
CHECK_DEADLOCK FALSE
