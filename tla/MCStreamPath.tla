----------------------------- MODULE MCStreamPath -----------------------------
(* Model values and symmetry for StreamPath. *)
EXTENDS StreamPath, TLC

CONSTANTS x1, x2, a1, st1, st2

OneSession  == {x1}
TwoSessions == {x1, x2}
OneId       == {a1}
OneStream   == {st1}
TwoStreams  == {st1, st2}
ExecForward   == {"exec", "pf"}
StreamForward == {"stream", "pf"}

(* Nothing in StreamPath tells these values apart. *)
Symmetry == Permutations(Sessions) \cup Permutations(Streams)
===============================================================================
