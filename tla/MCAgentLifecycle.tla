--------------------------- MODULE MCAgentLifecycle ---------------------------
(* Model values for AgentLifecycle. *)
EXTENDS AgentLifecycle, TLC

CONSTANTS g1, a1, a2, a3, c1, c2, k1, k2, t1, t2, o1, o2, s1, s2

OneAgent == {g1}
TwoIds == {a1, a2}
ThreeIds == {a1, a2, a3}
TwoClusters == {c1, c2}
TwoRows == {k1, k2}
TwoTokens == {t1, t2}
NoOperator == {}
TwoOperators == {o1, o2}
TwoSlots == {s1, s2}
NoRequests == {}
===============================================================================
