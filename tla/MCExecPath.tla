------------------------------ MODULE MCExecPath ------------------------------
(* Model values and symmetry for ExecPath. *)
EXTENDS ExecPath, TLC

CONSTANTS r1, r2, a1, a2, s1, s2, c1, c2

OneRequest  == {r1}
TwoRequests == {r1, r2}
OneId       == {a1}
TwoIds      == {a1, a2}
TwoSlots    == {s1, s2}
OneCluster  == {c1}
TwoClusters == {c1, c2}

(* Nothing in ExecPath tells these values apart. *)
Symmetry ==
  Permutations(Requests) \cup Permutations(AgentIds) \cup Permutations(PollSlots)
===============================================================================
