SPECIFICATION FairSpec
CONSTANTS
  r1 = r1  r2 = r2  a1 = a1  a2 = a2  s1 = s1  s2 = s2  c1 = c1  c2 = c2
  None = None
  Requests <- TwoRequests
  AgentIds <- TwoIds
  Clusters <- TwoClusters
  PollSlots <- TwoSlots
  Reliable = TRUE
PROPERTIES AnsweredWithResult
\* Requests run out: nothing is left to do once they are answered.
CHECK_DEADLOCK FALSE
