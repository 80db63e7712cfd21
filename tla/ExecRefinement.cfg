SPECIFICATION FairSpec
CONSTANTS
  r1 = r1  r2 = r2  a1 = a1  a2 = a2  s1 = s1  s2 = s2  c1 = c1  c2 = c2
  None = None
  Requests <- OneRequest
  AgentIds <- OneId
  Clusters <- OneCluster
  PollSlots <- TwoSlots
  Reliable = FALSE
PROPERTIES ImplementsService EveryRequestEnds
\* Requests and IDs run out: central then has nothing left to do.
CHECK_DEADLOCK FALSE
