---------------------------- MODULE AgentLifecycle ----------------------------
(***************************************************************************)
(* The life of an agent process (internal/agent/agent.go, stream.go,       *)
(* cmd/agent/main.go) against central's Enrollment: connect and register,  *)
(* heartbeats, the reconnect loop, the stream goroutine, and the shutdown  *)
(* on a signal.                                                            *)
(*                                                                         *)
(* ag[g] is the process of deployment g:                                   *)
(*   main   "up", "stopping" (a signal came: ctx is cancelled, stopCh      *)
(*          closed, Stop waits for stoppedCh) or "exited";                 *)
(*   pc     where Run is: "connect", "dialed" (connected, not registered), *)
(*          "await" (in the Register call), "loop" (runHeartbeatLoop),     *)
(*          "failed" (returned an error) or "stopped" (closed stoppedCh);  *)
(*   try    0 in Run's first attempt, the attempt of reconnect after it;   *)
(*   link   a.conn is open; id a.agentID; tok, name from the configuration *)
(*   stream the ID under which its stream is registered at central.        *)
(*                                                                         *)
(* Every fault (lost call, failed dial, crash, restart) costs one of       *)
(* MaxFaults, a bound.  A gRPC connection mends itself when central is     *)
(* back, so only reconnect closes it.  Time does not appear: a heartbeat,  *)
(* a retry or a stream attempt happens at some time.                       *)
(***************************************************************************)
EXTENDS Enrollment, Naturals

CONSTANTS BootToken, BootCluster,   \* bootstrap.agent_token, bootstrap.agent_cluster
          BootRow,                  \* the row seedAgentToken creates
          MaxRetries,               \* maxRetries of reconnect (5 in the code)
          MaxFaults

ASSUME LifecycleAssumption ==
  /\ BootToken \in Tokens /\ BootCluster \in Clusters /\ BootRow \in ClusterIds
  /\ MaxRetries \in Nat \ {0} /\ MaxFaults \in Nat
  /\ None \notin Agents

VARIABLES ag, faults,
          enrolled     \* deployments whose process has registered (history)

vars == <<enrollVars, ag, faults, enrolled>>

Process(t, n) == [main |-> "up", pc |-> "connect", try |-> 0, link |-> FALSE, id |-> None,
                  tok |-> t, name |-> n, stream |-> None]

Processes == [main : {"up", "stopping", "exited"}, try : 0..MaxRetries, link : BOOLEAN,
              pc : {"connect", "dialed", "await", "loop", "failed", "stopped"},
              id : AgentIds \cup {None}, tok : Tokens, name : Clusters,
              stream : AgentIds \cup {None}]

TypeOK ==
  /\ EnrollTypeOK
  /\ ag \in [Agents -> Processes]
  /\ faults \in 0..MaxFaults
  /\ enrolled \subseteq Agents

(* seedAgentToken has run and the agents start with its token. *)
Init ==
  /\ NewAgentStore
  /\ clusters = [k \in ClusterIds |->
       IF k = BootRow THEN [name |-> BootCluster, status |-> "pending"] ELSE NoCluster]
  /\ tokens = [t \in Tokens |->
       IF t = BootToken THEN [cluster |-> BootRow, revoked |-> FALSE, expired |-> FALSE]
       ELSE NoToken]
  /\ adm = [o \in Operators |-> NoAdm]
  /\ reg = [s \in Slots |-> NoCall]
  /\ handed = [t \in Tokens |-> IF t = BootToken THEN BootCluster ELSE None]
  /\ ag = [g \in Agents |-> Process(BootToken, BootCluster)]
  /\ faults = 0
  /\ enrolled = {}

Fault == faults < MaxFaults /\ faults' = faults + 1
Stopping(g) == ag[g].main = "stopping"

-------------------------------------------------------------------------------
(* Run, reconnect *)

(* disconnect and leave the attempt: Run returns the error of its first    *)
(* one, reconnect tries again or gives up until the next heartbeat fails.  *)
AttemptFails(g) ==
  ag' = [ag EXCEPT ![g] = [@ EXCEPT !.link = FALSE, !.stream = None,
                                     !.pc = IF ag[g].try = 0 THEN "failed"
                                            ELSE IF ag[g].try = MaxRetries THEN "loop" ELSE "connect",
                                     !.try = IF ag[g].try \in {0, MaxRetries} THEN ag[g].try ELSE ag[g].try + 1]]

(* connect *)
Connect(g) ==
  /\ ag[g].pc = "connect" /\ ~Stopping(g)
  /\ ag' = [ag EXCEPT ![g] = [@ EXCEPT !.pc = "dialed", !.link = TRUE]]
  /\ UNCHANGED <<enrollVars, faults, enrolled>>

(* connect: central is not reachable within 10 s. *)
ConnectFails(g) ==
  /\ ag[g].pc = "connect" /\ ~Stopping(g)
  /\ Fault /\ AttemptFails(g)
  /\ UNCHANGED <<enrollVars, enrolled>>

(* Connect and register under a cancelled context fail; reconnect looks at *)
(* stopCh and ctx before an attempt and returns to the heartbeat loop.     *)
ConnectStopped(g) ==
  /\ ag[g].pc \in {"connect", "dialed"} /\ Stopping(g)
  /\ ag' = [ag EXCEPT ![g] = [@ EXCEPT !.pc = IF ag[g].try = 0 THEN "failed" ELSE "loop",
                                        !.link = FALSE, !.stream = None]]
  /\ UNCHANGED <<enrollVars, faults, enrolled>>

FreeSlots == {s \in Slots : reg[s] = NoCall}

(* register, the call. *)
RegisterCall(g) ==
  /\ ag[g].pc = "dialed" /\ ~Stopping(g)
  /\ FreeSlots # {}
  /\ RegisterArrives(CHOOSE s \in FreeSlots : TRUE, g, ag[g].tok, ag[g].name)
  /\ ag' = [ag EXCEPT ![g].pc = "await"]
  /\ UNCHANGED <<storeVars, clusterStoreVars, adm, handed, faults, enrolled>>

Mine(g) == {s \in Slots : reg[s].by = g /\ ~reg[s].gone}

(* register, the answer. *)
RegisterReply(g, s) ==
  /\ ag[g].pc = "await" /\ s \in Mine(g)
  /\ \/ /\ reg[s].pc = "accepted"
        /\ ag' = [ag EXCEPT ![g] = [@ EXCEPT !.pc = "loop", !.id = reg[s].id, !.try = 0]]
        /\ enrolled' = enrolled \cup {g}
     \/ /\ reg[s].pc = "rejected"
        /\ AttemptFails(g)
        /\ UNCHANGED enrolled
  /\ reg' = [reg EXCEPT ![s] = NoCall]
  /\ UNCHANGED <<storeVars, clusterStoreVars, adm, handed, faults>>

(* register: the call ends without an answer, after its 10 s, because the  *)
(* connection broke, or because a signal cancelled the context.            *)
RegisterLost(g) ==
  /\ ag[g].pc = "await"
  /\ \/ Mine(g) = {} /\ UNCHANGED faults
     \/ Mine(g) # {} /\ Stopping(g) /\ UNCHANGED faults
     \/ Mine(g) # {} /\ Fault
  /\ AttemptFails(g)
  /\ reg' = [s \in Slots |-> IF s \in Mine(g) THEN [reg[s] EXCEPT !.gone = TRUE] ELSE reg[s]]
  /\ UNCHANGED <<storeVars, clusterStoreVars, adm, handed, enrolled>>

(* runHeartbeatLoop and sendHeartbeat: the heartbeat is acknowledged. *)
Heartbeat(g) ==
  /\ ag[g].pc = "loop" /\ ag[g].link /\ ~Stopping(g)
  /\ UpdateHeartbeat(ag[g].id)
  /\ UNCHANGED <<clusterStoreVars, adm, reg, handed, ag, faults, enrolled>>

(* Mutant of HeartbeatFails: only a broken connection is mended. *)
MutHeartbeatFails(g) ==
  /\ ag[g].pc = "loop"
  /\ (~ag[g].link \/ Stopping(g)) /\ UNCHANGED faults
  /\ ag' = [ag EXCEPT ![g] = [@ EXCEPT !.pc = "connect", !.try = 1, !.link = FALSE, !.stream = None]]
  /\ UNCHANGED <<enrollVars, enrolled>>

(* The heartbeat fails: central does not know the ID, the connection is    *)
(* closed, ctx is cancelled, or the call is lost.  reconnect begins.       *)
HeartbeatFails(g) ==
  /\ ag[g].pc = "loop"
  /\ \/ (~Registered(ag[g].id) \/ ~ag[g].link \/ Stopping(g)) /\ UNCHANGED faults
     \/ Fault
  /\ ag' = [ag EXCEPT ![g] = [@ EXCEPT !.pc = "connect", !.try = 1, !.link = FALSE, !.stream = None]]
  /\ UNCHANGED <<enrollVars, enrolled>>

(* Mutant of LoopStops: Run returns without closing stoppedCh. *)
MutLoopStops(g) ==
  /\ ag[g].pc = "loop" /\ Stopping(g)
  /\ ag' = [ag EXCEPT ![g] = [@ EXCEPT !.pc = "failed", !.link = FALSE, !.stream = None]]
  /\ UNCHANGED <<enrollVars, faults, enrolled>>

(* runHeartbeatLoop sees stopCh or ctx; Run closes stoppedCh.  The stream  *)
(* goroutine ends with ctx.                                                *)
LoopStops(g) ==
  /\ ag[g].pc = "loop" /\ Stopping(g)
  /\ ag' = [ag EXCEPT ![g] = [@ EXCEPT !.pc = "stopped", !.link = FALSE, !.stream = None]]
  /\ UNCHANGED <<enrollVars, faults, enrolled>>

(* runStream, openAndServeStream: once the first registration is done the  *)
(* goroutine opens a stream on whatever connection there is, under         *)
(* whatever ID is set; central closes it when it does not know the ID.     *)
OpenStream(g) ==
  /\ g \in enrolled /\ ag[g].link /\ ag[g].stream = None /\ ~Stopping(g)
  /\ Registered(ag[g].id)
  /\ ag' = [ag EXCEPT ![g].stream = ag[g].id]
  /\ UNCHANGED <<enrollVars, faults, enrolled>>

(* The stream breaks; the goroutine opens the next one. *)
StreamBreaks(g) ==
  /\ ag[g].stream # None /\ Fault
  /\ ag' = [ag EXCEPT ![g].stream = None]
  /\ UNCHANGED <<enrollVars, enrolled>>

-------------------------------------------------------------------------------
(* main *)

Signal(g) ==
  /\ ag[g].main = "up"
  /\ ag' = [ag EXCEPT ![g].main = "stopping"]
  /\ UNCHANGED <<enrollVars, faults, enrolled>>

(* Stop has seen stoppedCh, or Run's error ends main unless it took the    *)
(* signal first.                                                           *)
Exit(g) ==
  /\ <<ag[g].main, ag[g].pc>> \in {<<"stopping", "stopped">>, <<"up", "failed">>}
  /\ ag' = [ag EXCEPT ![g].main = "exited"]
  /\ UNCHANGED <<enrollVars, faults, enrolled>>

(* A process is killed or has exited, and the next one starts with any     *)
(* token handed out and any cluster name.                                  *)
AgentRestart(g, t, n) ==
  /\ handed[t] # None
  /\ Fault
  /\ ag' = [ag EXCEPT ![g] = Process(t, n)]
  /\ reg' = [s \in Slots |-> IF s \in Mine(g) THEN [reg[s] EXCEPT !.gone = TRUE] ELSE reg[s]]
  /\ enrolled' = enrolled \ {g}
  /\ UNCHANGED <<storeVars, clusterStoreVars, adm, handed>>

-------------------------------------------------------------------------------
(* Central *)

DisconnectCheck ==
  /\ \E S \in SUBSET AgentIds : MarkDisconnected(S)
  /\ UNCHANGED <<clusterStoreVars, adm, reg, handed, ag, faults, enrolled>>

(* A restart loses the registry, the handlers and the streams;             *)
(* seedAgentToken finds its token.                                         *)
CentralRestart ==
  /\ Fault
  /\ StoreLost
  /\ adm' = [o \in Operators |-> NoAdm]
  /\ reg' = [s \in Slots |-> NoCall]
  /\ ag' = [g \in Agents |-> [ag[g] EXCEPT !.stream = None]]
  /\ UNCHANGED <<clusterStoreVars, handed, enrolled>>

Admin ==
  /\ \/ \E o \in Operators : \/ \E n \in Clusters : HandleCreateAgentToken(o, n)
                             \/ \E k \in ClusterIds : FindOrCreate(o, k)
                             \/ \E t \in Tokens : InsertToken(o, t)
     \/ \E t \in Tokens : HandleRevokeAgentToken(t) \/ TokenExpires(t)
  /\ UNCHANGED <<ag, faults, enrolled>>

Handler(s) == RegisterStep(s) /\ UNCHANGED <<ag, faults, enrolled>>
Returns(s) == RegisterReturns(s) /\ UNCHANGED <<ag, faults, enrolled>>

(* What Run does by itself. *)
RunStep(g) ==
  \/ Connect(g) \/ ConnectStopped(g) \/ Heartbeat(g)
  \/ HeartbeatFails(g) \/ RegisterCall(g) \/ RegisterLost(g)
  \/ \E s \in Slots : RegisterReply(g, s)

Next ==
  \/ \E g \in Agents : RunStep(g) \/ ConnectFails(g) \/ LoopStops(g) \/ OpenStream(g) \/ StreamBreaks(g)
                       \/ Signal(g) \/ Exit(g)
                       \/ \E t \in Tokens, n \in Clusters : AgentRestart(g, t, n)
  \/ \E s \in Slots : Handler(s) \/ Returns(s)
  \/ DisconnectCheck \/ CentralRestart \/ Admin

(* Goroutines run, and a select that finds stopCh ready again and again    *)
(* takes it at some time.                                                  *)
Fairness ==
  /\ \A g \in Agents : WF_vars(RunStep(g)) /\ SF_vars(LoopStops(g)) /\ WF_vars(Exit(g))
  /\ \A s \in Slots : WF_vars(Handler(s)) /\ WF_vars(Returns(s))

Spec == Init /\ [][Next]_vars
FairSpec == Spec /\ Fairness

-------------------------------------------------------------------------------
(* Properties *)

(* The entry under an agent's ID is of the cluster it is configured for:   *)
(* commands for a cluster reach no agent of another one, whichever token   *)
(* an agent was given (agent_auth.go 68) and whatever calls were lost.     *)
ServesItsCluster ==
  \A g \in Agents : ag[g].id # None /\ Registered(ag[g].id) =>
                      agentCluster[ag[g].id] = ag[g].name

(* An agent in its heartbeat loop with a good token gets connected under   *)
(* its ID again after central restarted, a call was lost or it was found   *)
(* stale, although reconnect gives up after maxRetries (agent.go 223-266). *)
Heals ==
  \A g \in Agents :
    ag[g].pc = "loop" /\ ag[g].main = "up" /\ Valid(ag[g].tok)
      ~> \/ ag[g].id # None /\ agentStatus[ag[g].id] = "connected"
         \/ ~Valid(ag[g].tok) \/ ag[g].main # "up"

(* A signal ends an agent that had registered once, in the middle of a     *)
(* reconnect or a heartbeat too (agent.go 71, main.go 47-63).              *)
SignalEnds ==
  \A g \in Agents : Stopping(g) /\ g \in enrolled ~> ag[g].main # "stopping"
===============================================================================
