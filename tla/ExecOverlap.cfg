SPECIFICATION Spec
CONSTANTS
  r1 = r1  r2 = r2  a1 = a1  a2 = a2  s1 = s1  s2 = s2  c1 = c1  c2 = c2
  None = None
  Requests <- OneRequest
  AgentIds <- TwoIds
  Clusters <- TwoClusters
  PollSlots <- TwoSlots
  Reliable = FALSE
SYMMETRY Symmetry
INVARIANTS TypeOK AtMostOnce RunsAsAuthorized AnswerGenuine AuditTruthful QueueHasOwner NoLostWakeup ExecInv
\* Requests and IDs run out: central then has nothing left to do.
CHECK_DEADLOCK FALSE
