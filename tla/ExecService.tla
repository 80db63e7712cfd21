----------------------------- MODULE ExecService ------------------------------
(***************************************************************************)
(* What POST /clusters/:name/exec promises, without queue, polls or        *)
(* agents: a request is refused, or accepted and then answered once; its   *)
(* command runs at most once, in the cluster the request names, never      *)
(* before it was accepted; a result in the answer is the result of that    *)
(* run.  The service does not promise that a command whose request timed   *)
(* out will not run afterwards.                                            *)
(***************************************************************************)
EXTENDS Sequences

CONSTANTS Requests, Clusters, None,
          Results,    \* what a run can yield
          NoResults   \* answers without a result: timeout, aborted

VARIABLES
  phase,   \* Requests -> "open", "refused", "accepted" or "answered"
  where,   \* Requests -> the cluster the request names
  runs,    \* Requests -> sequence of runs of its command
  reply    \* Requests -> result or other answer, None before

svcVars == <<phase, where, runs, reply>>

SvcInit ==
  /\ phase = [r \in Requests |-> "open"]
  /\ where = [r \in Requests |-> None]
  /\ runs = [r \in Requests |-> <<>>]
  /\ reply = [r \in Requests |-> None]

(* The request arrives and names its cluster; it may be refused at once. *)
Arrive(r, c) ==
  /\ phase[r] = "open" /\ where[r] = None
  /\ where' = [where EXCEPT ![r] = c]
  /\ \/ UNCHANGED phase
     \/ phase' = [phase EXCEPT ![r] = "refused"]
  /\ UNCHANGED <<runs, reply>>

SvcRefuse(r) ==
  /\ phase[r] = "open" /\ where[r] # None
  /\ phase' = [phase EXCEPT ![r] = "refused"]
  /\ UNCHANGED <<where, runs, reply>>

Accept(r) ==
  /\ phase[r] = "open" /\ where[r] # None
  /\ phase' = [phase EXCEPT ![r] = "accepted"]
  /\ UNCHANGED <<where, runs, reply>>

RunOnce(r, res) ==
  /\ phase[r] \in {"accepted", "answered"}
  /\ runs[r] = <<>>
  /\ runs' = [runs EXCEPT ![r] = <<[cluster |-> where[r], result |-> res]>>]
  /\ UNCHANGED <<phase, where, reply>>

Answer(r, x) ==
  /\ phase[r] = "accepted"
  /\ \/ x \in NoResults
     \/ runs[r] # <<>> /\ x = runs[r][1].result
  /\ phase' = [phase EXCEPT ![r] = "answered"]
  /\ reply' = [reply EXCEPT ![r] = x]
  /\ UNCHANGED <<where, runs>>

(* Central breaks down: every request it is working on ends at once. *)
Breakdown ==
  /\ phase' = [r \in Requests |->
                 CASE phase[r] = "open" /\ where[r] # None -> "refused"
                   [] phase[r] = "accepted" -> "answered"
                   [] OTHER -> phase[r]]
  /\ reply' = [r \in Requests |-> IF phase[r] = "accepted" THEN "aborted" ELSE reply[r]]
  /\ UNCHANGED <<where, runs>>

SvcNext ==
  \/ \E r \in Requests :
       \/ \E c \in Clusters : Arrive(r, c)
       \/ SvcRefuse(r)
       \/ Accept(r)
       \/ \E res \in Results : RunOnce(r, res)
       \/ \E x \in Results \cup NoResults : Answer(r, x)
  \/ Breakdown

SvcSpec == SvcInit /\ [][SvcNext]_svcVars

(* Every accepted request is answered. *)
SvcFairSpec ==
  SvcSpec /\ \A r \in Requests : WF_svcVars(\E x \in Results \cup NoResults : Answer(r, x))
===============================================================================
