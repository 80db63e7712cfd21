------------------------------ MODULE MCAuthCli -------------------------------
(* Model values for AuthCli. *)
EXTENDS AuthCli, TLC

CONSTANTS p1, p2, o1, o2, u1, u2, u3, e1, e2, w1, w2

TwoProcs == {p1, p2}
TwoOperators == {o1, o2}
ThreeUsers == {u1, u2, u3}
TwoEmails == {e1, e2}
TwoPasswords == {w1, w2}
AllCommands == {"login", "logout", "run", "attach", "use"}

(* Two invocations of kb, or one while two operators change users. *)
TwoCommands == {f \in [Callers -> AllCommands \cup {"none"}] :
                  \A c \in Callers : f[c] = "none" <=> c \in Operators}
Operated == {f \in [Callers -> {"login", "run", "request", "none"}] :
               /\ \A c \in Callers : f[c] = "request" <=> c \in Operators
               /\ \E p \in Procs : \A q \in Procs : f[q] = "none" <=> q # p}
SmallPlans == TwoCommands \cup Operated

(* Invocations are told apart by nothing but what they do. *)
Symmetry == Permutations(Procs) \cup Permutations(Operators)
===============================================================================
