SPECIFICATION Spec
CONSTANTS
  g1 = g1  a1 = a1  a2 = a2  a3 = a3  c1 = c1  c2 = c2  k1 = k1  k2 = k2
  t1 = t1  t2 = t2  o1 = o1  o2 = o2  s1 = s1  s2 = s2  None = None
  Agents <- OneAgent
  AgentIds <- TwoIds
  Clusters <- TwoClusters
  Requests <- NoRequests
  ClusterIds <- TwoRows
  Tokens <- TwoTokens
  Operators <- TwoOperators
  Slots <- TwoSlots
  BootToken = t1
  BootCluster = c1
  BootRow = k1
  MaxRetries = 2
  MaxFaults = 1
INVARIANTS TokenBound RevokedStaysOut ServesItsCluster
\* A process that has been signalled and is not restarted ends.
CHECK_DEADLOCK FALSE
