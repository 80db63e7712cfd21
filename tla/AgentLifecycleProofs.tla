------------------------- MODULE AgentLifecycleProofs -------------------------
(***************************************************************************)
(* Proofs about enrolment and the agents' life, for any number of agents,  *)
(* administrators, tokens, clusters, IDs and overlapping Register calls,   *)
(* and without the bounds on retries and faults mattering.                 *)
(***************************************************************************)
EXTENDS AgentLifecycle, TLAPS

HasCluster(k) == k \in ClusterIds /\ clusters[k] # NoCluster

(* What a HandleCreateAgentToken call has looked up or created. *)
AdmInv ==
  \A o \in Operators :
    /\ adm[o].pc # "idle" => adm[o].name \in Clusters
    /\ adm[o].pc = "token" => HasCluster(adm[o].row) /\ clusters[adm[o].row].name = adm[o].name

(* A token has a cluster, and exactly the tokens in the table were given   *)
(* out.                                                                    *)
TokenInv ==
  \A t \in Tokens :
    /\ tokens[t] # NoToken => HasCluster(tokens[t].cluster)
    /\ handed[t] = None <=> tokens[t] = NoToken

(* What a Register call holds: of a call that came with a bad token, that  *)
(* token is in the table and still bad.                                    *)
CallInv ==
  \A s \in Slots :
    /\ reg[s].pc # "free" => reg[s].tok \in Tokens /\ tokens[reg[s].tok] # NoToken
    /\ reg[s].pc = "free" => reg[s] = NoCall
    /\ reg[s].late => reg[s].pc \in {"get", "rejected"} /\ ~Valid(reg[s].tok)
    /\ reg[s].pc \in {"bind", "touch", "mark", "enter", "accepted"} => HasCluster(reg[s].row)
    /\ reg[s].pc \in {"touch", "mark", "enter", "accepted"} =>
         clusters[reg[s].row].name = reg[s].name

(* The IDs of Register calls: new and different before the entry is made,  *)
(* of the call's cluster after it.                                         *)
IdInv ==
  \A s \in Slots :
    /\ reg[s].pc \in {"mark", "enter"} =>
         /\ reg[s].id \in AgentIds \ issued
         /\ \A r \in Slots : reg[r].pc \in {"mark", "enter"} /\ reg[r].id = reg[s].id => r = s
    /\ reg[s].pc = "accepted" => reg[s].id \in issued /\ agentCluster[reg[s].id] = reg[s].name

(* An agent's token was given to it, its call in progress asks for its     *)
(* cluster, and so did the one that gave it its ID.                        *)
ProcessInv ==
  \A g \in Agents :
    /\ handed[ag[g].tok] # None
    /\ \A s \in Mine(g) : reg[s].name = ag[g].name
    /\ ag[g].id # None => ag[g].id \in issued /\ agentCluster[ag[g].id] = ag[g].name

LifeInv == TypeOK /\ AdmInv /\ TokenInv /\ TokenBound /\ CallInv /\ IdInv /\ ProcessInv

-------------------------------------------------------------------------------
(* Next, with the nesting of its disjuncts flattened. *)
LEMMA NextCases ==
  ASSUME Next
  PROVE  \/ \E g \in Agents : \/ Connect(g) \/ ConnectStopped(g) \/ ConnectFails(g)
                              \/ HeartbeatFails(g) \/ LoopStops(g) \/ OpenStream(g)
                              \/ StreamBreaks(g) \/ Signal(g) \/ Exit(g)
         \/ \E g \in Agents : Heartbeat(g)
         \/ \E g \in Agents : RegisterCall(g)
         \/ \E g \in Agents : RegisterLost(g)
         \/ \E g \in Agents, s \in Slots : RegisterReply(g, s)
         \/ \E g \in Agents, t \in Tokens, n \in Clusters : AgentRestart(g, t, n)
         \/ \E s \in Slots : AuthenticateToken(s) /\ UNCHANGED <<ag, faults, enrolled>>
         \/ \E s \in Slots : AuthenticateCluster(s) /\ UNCHANGED <<ag, faults, enrolled>>
         \/ \E s \in Slots : RegisterTouch(s) /\ UNCHANGED <<ag, faults, enrolled>>
         \/ \E s \in Slots : MarkClusterConnected(s) /\ UNCHANGED <<ag, faults, enrolled>>
         \/ \E s \in Slots : RegisterEnter(s) /\ UNCHANGED <<ag, faults, enrolled>>
         \/ \E s \in Slots : RegisterReturns(s) /\ UNCHANGED <<ag, faults, enrolled>>
         \/ DisconnectCheck
         \/ CentralRestart
         \/ Admin
BY DEF Next, RunStep, Handler, Returns, RegisterStep

-------------------------------------------------------------------------------
(* Tables only grow. *)

(* A cluster's row stays, with its name. *)
ClustersGrow ==
  \A k \in ClusterIds : clusters[k] # NoCluster =>
    clusters'[k] # NoCluster /\ clusters'[k].name = clusters[k].name

(* A token's row stays, with its cluster, and a bad token stays bad. *)
TokensGrow ==
  \A t \in Tokens : tokens[t] # NoToken =>
    /\ tokens'[t] # NoToken /\ tokens'[t].cluster = tokens[t].cluster
    /\ ~Valid(t) => ~Valid(t)'

(* An ID that was issued keeps its cluster. *)
IdsGrow ==
  issued \subseteq issued' /\ \A a \in issued : agentCluster'[a] = agentCluster[a]

LEMMA AdmKept == ASSUME AdmInv, ClustersGrow, UNCHANGED adm PROVE AdmInv'
BY DEF AdmInv, ClustersGrow, HasCluster

LEMMA CallKept == ASSUME CallInv, ClustersGrow, TokensGrow, UNCHANGED reg PROVE CallInv'
BY DEF CallInv, ClustersGrow, TokensGrow, HasCluster

LEMMA TokenKept ==
  ASSUME TypeOK, TokenInv, TokenBound, ClustersGrow, UNCHANGED <<tokens, handed>>
  PROVE  TokenInv' /\ TokenBound'
BY DEF TokenInv, TokenBound, ClustersGrow, HasCluster

LEMMA ProcessKept ==
  ASSUME ProcessInv, IdsGrow, UNCHANGED <<handed, reg, ag>> PROVE ProcessInv'
BY DEF ProcessInv, IdsGrow, Mine

LEMMA SameTables ==
  /\ UNCHANGED clusters => ClustersGrow
  /\ UNCHANGED tokens => TokensGrow
  /\ UNCHANGED <<issued, agentCluster>> => IdsGrow
BY DEF ClustersGrow, TokensGrow, IdsGrow, Valid

LEMMA IdKept ==
  ASSUME IdInv, UNCHANGED <<reg, issued, agentCluster>> PROVE IdInv'
BY DEF IdInv

-------------------------------------------------------------------------------
(* The initial state, and one lemma per kind of step. *)

LEMMA InitLife == Init => LifeInv
<1> SUFFICES ASSUME Init PROVE LifeInv
  OBVIOUS
<1> USE NoneAssumption, ClusterAssumption, LifecycleAssumption DEF Init, NewAgentStore
<1>1. TypeOK
  <2>1. StoreTypeOK
    BY DEF StoreTypeOK, AgentStatuses
  <2>2. ClusterStoreTypeOK
    BY DEF ClusterStoreTypeOK, ClusterRow, TokenRow
  <2>3. EnrollTypeOK
    BY <2>1, <2>2 DEF EnrollTypeOK, NoAdm, NoCall, AdmCalls, RegisterCalls
  <2>4. QED
    BY <2>3 DEF TypeOK, Process, Processes
<1>2. AdmInv
  BY DEF AdmInv, NoAdm
<1>3. TokenInv /\ TokenBound
  BY DEF TokenInv, TokenBound, HasCluster, NoToken, NoCluster
<1>4. CallInv /\ IdInv
  BY DEF CallInv, IdInv, NoCall
<1>5. ProcessInv
  BY DEF ProcessInv, Process, Mine, NoCall
<1>6. QED
  BY <1>1, <1>2, <1>3, <1>4, <1>5 DEF LifeInv

(* The attributes of an agent that attempts, streams and signals leave. *)
SameAgents ==
  \A h \in Agents : ag'[h].id = ag[h].id /\ ag'[h].tok = ag[h].tok /\ ag'[h].name = ag[h].name

(* A step that gives agent g the record r. *)
LEMMA AgentSet ==
  ASSUME TypeOK, NEW g \in Agents, NEW r \in Processes, ag' = [ag EXCEPT ![g] = r],
         r.id = ag[g].id, r.tok = ag[g].tok, r.name = ag[g].name
  PROVE  ag' \in [Agents -> Processes] /\ SameAgents
<1>1. ag \in [Agents -> Processes]
  BY DEF TypeOK
<1>2. ag' \in [Agents -> Processes] /\ \A h \in Agents : ag'[h] = IF h = g THEN r ELSE ag[h]
  BY <1>1
<1> QED
  BY <1>2 DEF SameAgents

(* A failed attempt to connect. *)
LEMMA AttemptType ==
  ASSUME TypeOK, NEW g \in Agents, AttemptFails(g)
  PROVE  ag' \in [Agents -> Processes] /\ SameAgents
<1>1. ag[g] \in Processes /\ ag[g].try \in 0..MaxRetries
  BY DEF TypeOK, Processes
<1>t. PICK t : t = IF ag[g].try \in {0, MaxRetries} THEN ag[g].try ELSE ag[g].try + 1
  OBVIOUS
<1>p. PICK p : p = IF ag[g].try = 0 THEN "failed" ELSE IF ag[g].try = MaxRetries THEN "loop" ELSE "connect"
  OBVIOUS
<1>2. t \in 0..MaxRetries /\ p \in {"failed", "loop", "connect"}
  BY <1>1, <1>t, <1>p, LifecycleAssumption
<1>r. PICK r : r = [ag[g] EXCEPT !.link = FALSE, !.stream = None, !.pc = p, !.try = t]
  OBVIOUS
<1>3. r \in Processes /\ r.id = ag[g].id /\ r.tok = ag[g].tok /\ r.name = ag[g].name
  BY <1>1, <1>2, <1>r DEF Processes
<1>4. ag' = [ag EXCEPT ![g] = r]
  BY <1>t, <1>p, <1>r DEF AttemptFails
<1> QED
  BY <1>3, <1>4, AgentSet

(* Steps of the agent alone: connections, attempts, streams and signals. *)
LEMMA LifeAlone ==
  ASSUME LifeInv, NEW g \in Agents,
         \/ Connect(g) \/ ConnectStopped(g) \/ ConnectFails(g) \/ HeartbeatFails(g)
         \/ LoopStops(g) \/ OpenStream(g) \/ StreamBreaks(g) \/ Signal(g) \/ Exit(g)
  PROVE  LifeInv'
<1> USE LifecycleAssumption
<1>1. /\ UNCHANGED <<enrollVars, enrolled>>
      /\ faults' \in 0..MaxFaults
      /\ ag' \in [Agents -> Processes]
      /\ SameAgents
  <2>0. TypeOK /\ ag[g] \in Processes /\ faults \in 0..MaxFaults /\ 1 \in 0..MaxRetries
    BY DEF LifeInv, TypeOK
  <2>1. CASE Connect(g)
    <3>r. PICK r : r = [ag[g] EXCEPT !.pc = "dialed", !.link = TRUE]
      OBVIOUS
    <3>1. r \in Processes /\ r.id = ag[g].id /\ r.tok = ag[g].tok /\ r.name = ag[g].name
      BY <2>0, <3>r DEF Processes
    <3>2. ag' = [ag EXCEPT ![g] = r]
      BY <2>1, <3>r DEF Connect
    <3>3. UNCHANGED <<enrollVars, enrolled>> /\ faults' \in 0..MaxFaults
      BY <2>1, <2>0 DEF Connect
    <3> QED
      BY <3>1, <3>2, <3>3, <2>0, AgentSet
  <2>2. CASE ConnectStopped(g)
    <3>r. PICK r : r = [ag[g] EXCEPT !.pc = IF ag[g].try = 0 THEN "failed" ELSE "loop",
                                    !.link = FALSE, !.stream = None]
      OBVIOUS
    <3>1. r \in Processes /\ r.id = ag[g].id /\ r.tok = ag[g].tok /\ r.name = ag[g].name
      BY <2>0, <3>r DEF Processes
    <3>2. ag' = [ag EXCEPT ![g] = r]
      BY <2>2, <3>r DEF ConnectStopped
    <3>3. UNCHANGED <<enrollVars, enrolled>> /\ faults' \in 0..MaxFaults
      BY <2>2, <2>0 DEF ConnectStopped
    <3> QED
      BY <3>1, <3>2, <3>3, <2>0, AgentSet
  <2>3. CASE ConnectFails(g)
    <3>1. UNCHANGED <<enrollVars, enrolled>> /\ faults' \in 0..MaxFaults
      BY <2>3, <2>0 DEF ConnectFails, Fault
    <3>2. QED
      BY <2>3, <2>0, <3>1, AttemptType DEF ConnectFails
  <2>4. CASE HeartbeatFails(g)
    <3>r. PICK r : r = [ag[g] EXCEPT !.pc = "connect", !.try = 1, !.link = FALSE, !.stream = None]
      OBVIOUS
    <3>1. r \in Processes /\ r.id = ag[g].id /\ r.tok = ag[g].tok /\ r.name = ag[g].name
      BY <2>0, <3>r DEF Processes
    <3>2. ag' = [ag EXCEPT ![g] = r]
      BY <2>4, <3>r DEF HeartbeatFails
    <3>3. UNCHANGED <<enrollVars, enrolled>> /\ faults' \in 0..MaxFaults
      BY <2>4, <2>0 DEF HeartbeatFails, Fault
    <3> QED
      BY <3>1, <3>2, <3>3, <2>0, AgentSet
  <2>5. CASE LoopStops(g)
    <3>r. PICK r : r = [ag[g] EXCEPT !.pc = "stopped", !.link = FALSE, !.stream = None]
      OBVIOUS
    <3>1. r \in Processes /\ r.id = ag[g].id /\ r.tok = ag[g].tok /\ r.name = ag[g].name
      BY <2>0, <3>r DEF Processes
    <3>2. ag' = [ag EXCEPT ![g] = r]
      BY <2>5, <3>r DEF LoopStops
    <3>3. UNCHANGED <<enrollVars, enrolled>> /\ faults' \in 0..MaxFaults
      BY <2>5, <2>0 DEF LoopStops
    <3> QED
      BY <3>1, <3>2, <3>3, <2>0, AgentSet
  <2>6. CASE OpenStream(g)
    <3>r. PICK r : r = [ag[g] EXCEPT !.stream = ag[g].id]
      OBVIOUS
    <3>1. r \in Processes /\ r.id = ag[g].id /\ r.tok = ag[g].tok /\ r.name = ag[g].name
      BY <2>0, <3>r DEF Processes
    <3>2. ag' = [ag EXCEPT ![g] = r]
      BY <2>6, <3>r DEF OpenStream
    <3>3. UNCHANGED <<enrollVars, enrolled>> /\ faults' \in 0..MaxFaults
      BY <2>6, <2>0 DEF OpenStream
    <3> QED
      BY <3>1, <3>2, <3>3, <2>0, AgentSet
  <2>7. CASE StreamBreaks(g)
    <3>r. PICK r : r = [ag[g] EXCEPT !.stream = None]
      OBVIOUS
    <3>1. r \in Processes /\ r.id = ag[g].id /\ r.tok = ag[g].tok /\ r.name = ag[g].name
      BY <2>0, <3>r DEF Processes
    <3>2. ag' = [ag EXCEPT ![g] = r]
      BY <2>7, <3>r DEF StreamBreaks
    <3>3. UNCHANGED <<enrollVars, enrolled>> /\ faults' \in 0..MaxFaults
      BY <2>7, <2>0 DEF StreamBreaks, Fault
    <3> QED
      BY <3>1, <3>2, <3>3, <2>0, AgentSet
  <2>8. CASE Signal(g)
    <3>r. PICK r : r = [ag[g] EXCEPT !.main = "stopping"]
      OBVIOUS
    <3>1. r \in Processes /\ r.id = ag[g].id /\ r.tok = ag[g].tok /\ r.name = ag[g].name
      BY <2>0, <3>r DEF Processes
    <3>2. ag' = [ag EXCEPT ![g] = r]
      BY <2>8, <3>r DEF Signal
    <3>3. UNCHANGED <<enrollVars, enrolled>> /\ faults' \in 0..MaxFaults
      BY <2>8, <2>0 DEF Signal
    <3> QED
      BY <3>1, <3>2, <3>3, <2>0, AgentSet
  <2>9. CASE Exit(g)
    <3>r. PICK r : r = [ag[g] EXCEPT !.main = "exited"]
      OBVIOUS
    <3>1. r \in Processes /\ r.id = ag[g].id /\ r.tok = ag[g].tok /\ r.name = ag[g].name
      BY <2>0, <3>r DEF Processes
    <3>2. ag' = [ag EXCEPT ![g] = r]
      BY <2>9, <3>r DEF Exit
    <3>3. UNCHANGED <<enrollVars, enrolled>> /\ faults' \in 0..MaxFaults
      BY <2>9, <2>0 DEF Exit
    <3> QED
      BY <3>1, <3>2, <3>3, <2>0, AgentSet
  <2>10. QED
    BY <2>1, <2>2, <2>3, <2>4, <2>5, <2>6, <2>7, <2>8, <2>9
<1>2. UNCHANGED <<clusters, tokens, adm, reg, handed, issued, agentCluster, agentStatus>>
  BY <1>1 DEF enrollVars, clusterStoreVars, storeVars
<1>3. TypeOK'
  BY <1>1, <1>2 DEF LifeInv, TypeOK, EnrollTypeOK, StoreTypeOK, ClusterStoreTypeOK
<1>4. AdmInv' /\ TokenInv' /\ TokenBound' /\ CallInv' /\ IdInv'
  BY <1>2, SameTables, AdmKept, TokenKept, CallKept, IdKept DEF LifeInv
<1>5. ProcessInv'
  BY <1>1, <1>2 DEF LifeInv, ProcessInv, Mine, SameAgents
<1>6. QED
  BY <1>3, <1>4, <1>5 DEF LifeInv

(* Steps that change nothing but the status of entries. *)
LEMMA LifeStatus ==
  ASSUME LifeInv, (\E g \in Agents : Heartbeat(g)) \/ DisconnectCheck
  PROVE  LifeInv'
<1>1. /\ UNCHANGED <<clusters, tokens, adm, reg, handed, issued, agentCluster, ag, faults, enrolled>>
      /\ agentStatus' \in [AgentIds -> AgentStatuses]
  <2>1. ASSUME NEW g \in Agents, Heartbeat(g) PROVE <1>1!1 /\ <1>1!2
    BY <2>1 DEF Heartbeat, UpdateHeartbeat, AgentStatuses, LifeInv, TypeOK, EnrollTypeOK,
                StoreTypeOK, clusterStoreVars
  <2>2. ASSUME DisconnectCheck PROVE <1>1!1 /\ <1>1!2
    BY <2>2 DEF DisconnectCheck, MarkDisconnected, AgentStatuses, LifeInv, TypeOK, EnrollTypeOK,
                StoreTypeOK, clusterStoreVars
  <2>3. QED
    BY <2>1, <2>2
<1>2. TypeOK'
  BY <1>1 DEF LifeInv, TypeOK, EnrollTypeOK, StoreTypeOK, ClusterStoreTypeOK
<1>3. AdmInv' /\ TokenInv' /\ TokenBound' /\ CallInv' /\ IdInv' /\ ProcessInv'
  BY <1>1, SameTables, AdmKept, TokenKept, CallKept, IdKept, ProcessKept DEF LifeInv
<1>4. QED
  BY <1>2, <1>3 DEF LifeInv

(* A new call comes with its agent's token and cluster. *)
LEMMA LifeRegisterCall ==
  ASSUME LifeInv, NEW g \in Agents, RegisterCall(g)
  PROVE  LifeInv'
<1> USE LifecycleAssumption, NoneAssumption, ClusterAssumption
<1> DEFINE r == [NoCall EXCEPT !.pc = "get", !.by = g, !.tok = ag[g].tok, !.name = ag[g].name,
                               !.late = ~Valid(ag[g].tok)]
<1>1. PICK s \in Slots : reg[s] = NoCall /\ reg' = [reg EXCEPT ![s] = r]
  BY DEF RegisterCall, RegisterArrives, FreeSlots
<1>2. /\ UNCHANGED <<clusters, tokens, adm, handed, issued, agentCluster, agentStatus, faults, enrolled>>
      /\ ag' = [ag EXCEPT ![g].pc = "await"]
  BY DEF RegisterCall, clusterStoreVars, storeVars
<1>3. ag[g].tok \in Tokens /\ ag[g].name \in Clusters /\ tokens[ag[g].tok] # NoToken
  BY DEF LifeInv, TypeOK, Processes, ProcessInv, TokenInv
<1>4. /\ r \in RegisterCalls /\ r.pc = "get" /\ r.by = g /\ r.tok = ag[g].tok
      /\ r.name = ag[g].name /\ (r.late => ~Valid(ag[g].tok))
  <2>1. Valid(ag[g].tok) \in BOOLEAN
    BY DEF Valid
  <2>2. QED
    BY <1>3, <2>1 DEF NoCall, RegisterCalls
<1> HIDE DEF r
<1>5. ag' \in [Agents -> Processes] /\ SameAgents
  BY <1>2 DEF LifeInv, TypeOK, Processes, SameAgents
<1>6. TypeOK'
  BY <1>1, <1>2, <1>4, <1>5 DEF LifeInv, TypeOK, EnrollTypeOK, StoreTypeOK, ClusterStoreTypeOK
<1>7. AdmInv' /\ TokenInv' /\ TokenBound'
  BY <1>2, SameTables, AdmKept, TokenKept DEF LifeInv
<1>8. CallInv'
  BY <1>1, <1>2, <1>3, <1>4 DEF LifeInv, TypeOK, EnrollTypeOK, CallInv, Valid, HasCluster
<1>9. IdInv'
  BY <1>1, <1>2, <1>4 DEF LifeInv, TypeOK, EnrollTypeOK, IdInv
<1>10. ProcessInv'
  BY <1>1, <1>2, <1>4, <1>5 DEF LifeInv, TypeOK, EnrollTypeOK, ProcessInv, Mine, SameAgents
<1>11. QED
  BY <1>6, <1>7, <1>8, <1>9, <1>10 DEF LifeInv

(* An agent that gives a call up leaves its handler running. *)
LEMMA GiveUp ==
  ASSUME LifeInv, NEW g \in Agents,
         reg' = [s \in Slots |-> IF s \in Mine(g) THEN [reg[s] EXCEPT !.gone = TRUE] ELSE reg[s]]
  PROVE  /\ reg' \in [Slots -> RegisterCalls]
         /\ Mine(g)' = {} /\ \A h \in Agents \ {g} : Mine(h)' = Mine(h)
         /\ \A s \in Slots : /\ reg'[s].pc = reg[s].pc /\ reg'[s].tok = reg[s].tok
                             /\ reg'[s].late = reg[s].late /\ reg'[s].row = reg[s].row
                             /\ reg'[s].name = reg[s].name /\ reg'[s].id = reg[s].id
                             /\ reg[s].pc = "free" => reg'[s] = reg[s]
<1> USE LifecycleAssumption
<1>1. reg \in [Slots -> RegisterCalls]
  BY DEF LifeInv, TypeOK, EnrollTypeOK
<1>2. ASSUME NEW s \in Slots
      PROVE  /\ [reg[s] EXCEPT !.gone = TRUE] \in RegisterCalls
             /\ [reg[s] EXCEPT !.gone = TRUE].gone
  BY <1>1 DEF RegisterCalls
<1>3. ASSUME NEW s \in Slots, reg[s].pc = "free", s \in Mine(g) PROVE FALSE
  BY <1>3 DEF LifeInv, CallInv, Mine, NoCall
<1>4. reg' \in [Slots -> RegisterCalls]
  BY <1>1, <1>2
<1>5. Mine(g)' = {} /\ \A h \in Agents \ {g} : Mine(h)' = Mine(h)
  BY <1>1, <1>2 DEF Mine, RegisterCalls
<1>6. ASSUME NEW s \in Slots
      PROVE  /\ reg'[s].pc = reg[s].pc /\ reg'[s].tok = reg[s].tok
             /\ reg'[s].late = reg[s].late /\ reg'[s].row = reg[s].row
             /\ reg'[s].name = reg[s].name /\ reg'[s].id = reg[s].id
             /\ reg[s].pc = "free" => reg'[s] = reg[s]
  BY <1>1, <1>3 DEF RegisterCalls
<1>7. QED
  BY <1>4, <1>5, <1>6

LEMMA GiveUpKept ==
  ASSUME LifeInv, NEW g \in Agents,
         reg' = [s \in Slots |-> IF s \in Mine(g) THEN [reg[s] EXCEPT !.gone = TRUE] ELSE reg[s]],
         UNCHANGED <<clusters, tokens, issued, agentCluster>>
  PROVE  CallInv' /\ IdInv'
<1>1. CallInv'
  BY GiveUp DEF LifeInv, CallInv, Valid, HasCluster
<1>2. IdInv'
  BY GiveUp DEF LifeInv, IdInv
<1>3. QED
  BY <1>1, <1>2

LEMMA LifeRegisterLost ==
  ASSUME LifeInv, NEW g \in Agents, RegisterLost(g)
  PROVE  LifeInv'
<1>1. /\ UNCHANGED <<clusters, tokens, adm, handed, issued, agentCluster, agentStatus, enrolled>>
      /\ reg' = [s \in Slots |-> IF s \in Mine(g) THEN [reg[s] EXCEPT !.gone = TRUE] ELSE reg[s]]
  BY DEF RegisterLost, clusterStoreVars, storeVars
<1>2. ag' \in [Agents -> Processes] /\ SameAgents
  BY AttemptType DEF RegisterLost, LifeInv
<1>3. faults' \in 0..MaxFaults
  BY LifecycleAssumption DEF RegisterLost, Fault, LifeInv, TypeOK
<1>4. TypeOK'
  BY <1>1, <1>2, <1>3, GiveUp DEF LifeInv, TypeOK, EnrollTypeOK, StoreTypeOK, ClusterStoreTypeOK
<1>5. AdmInv' /\ TokenInv' /\ TokenBound' /\ CallInv' /\ IdInv'
  BY <1>1, SameTables, AdmKept, TokenKept, GiveUpKept DEF LifeInv
<1>6. ProcessInv'
  BY <1>1, <1>2, GiveUp DEF LifeInv, ProcessInv, SameAgents, Mine
<1>7. QED
  BY <1>4, <1>5, <1>6 DEF LifeInv

LEMMA LifeAgentRestart ==
  ASSUME LifeInv, NEW g \in Agents, NEW t \in Tokens, NEW n \in Clusters, AgentRestart(g, t, n)
  PROVE  LifeInv'
<1> USE LifecycleAssumption
<1>1. /\ UNCHANGED <<clusters, tokens, adm, handed, issued, agentCluster, agentStatus>>
      /\ reg' = [s \in Slots |-> IF s \in Mine(g) THEN [reg[s] EXCEPT !.gone = TRUE] ELSE reg[s]]
      /\ ag' = [ag EXCEPT ![g] = Process(t, n)]
      /\ handed[t] # None /\ enrolled' = enrolled \ {g}
  BY DEF AgentRestart, clusterStoreVars, storeVars
<1>2. Process(t, n) \in Processes
  BY DEF Process, Processes
<1>3. faults' \in 0..MaxFaults
  BY DEF AgentRestart, Fault, LifeInv, TypeOK
<1>4. TypeOK'
  BY <1>1, <1>2, <1>3, GiveUp DEF LifeInv, TypeOK, EnrollTypeOK, StoreTypeOK, ClusterStoreTypeOK
<1>5. AdmInv' /\ TokenInv' /\ TokenBound' /\ CallInv' /\ IdInv'
  BY <1>1, SameTables, AdmKept, TokenKept, GiveUpKept DEF LifeInv
<1>6. ASSUME NEW h \in Agents
      PROVE  /\ handed'[ag'[h].tok] # None
             /\ \A s \in Mine(h)' : reg'[s].name = ag'[h].name
             /\ ag'[h].id # None => ag'[h].id \in issued' /\ agentCluster'[ag'[h].id] = ag'[h].name
  <2>1. CASE h = g
    BY <2>1, <1>1, GiveUp DEF LifeInv, TypeOK, Process
  <2>2. CASE h # g
    BY <2>2, <1>1, GiveUp DEF LifeInv, TypeOK, ProcessInv, Mine
  <2>3. QED
    BY <2>1, <2>2
<1>7. QED
  BY <1>4, <1>5, <1>6 DEF LifeInv, ProcessInv

(* The agent takes the ID, or the refusal, its own call was answered with. *)
LEMMA LifeRegisterReply ==
  ASSUME LifeInv, NEW g \in Agents, NEW s \in Slots, RegisterReply(g, s)
  PROVE  LifeInv'
<1> USE LifecycleAssumption
<1>1. /\ UNCHANGED <<clusters, tokens, adm, handed, issued, agentCluster, agentStatus, faults>>
      /\ reg' = [reg EXCEPT ![s] = NoCall] /\ s \in Mine(g) /\ enrolled' \subseteq Agents
  BY DEF RegisterReply, clusterStoreVars, storeVars, LifeInv, TypeOK
<1>2. NoCall \in RegisterCalls /\ NoCall.pc = "free" /\ NoCall.by = None /\ ~NoCall.late
  BY DEF NoCall, RegisterCalls
<1>3. /\ ag' \in [Agents -> Processes]
      /\ \A h \in Agents : ag'[h].tok = ag[h].tok /\ ag'[h].name = ag[h].name
      /\ \A h \in Agents : ag'[h].id = ag[h].id \/ (h = g /\ reg[s].pc = "accepted" /\ ag'[h].id = reg[s].id)
  <2>1. CASE reg[s].pc = "accepted"
    <3> DEFINE r == [ag[g] EXCEPT !.pc = "loop", !.id = reg[s].id, !.try = 0]
    <3>1. reg[s].id \in AgentIds \cup {None}
      BY DEF LifeInv, TypeOK, EnrollTypeOK, RegisterCalls
    <3> 0 \in 0..MaxRetries /\ ag[g] \in Processes
      BY DEF LifeInv, TypeOK
    <3>2. r \in Processes /\ r.id = reg[s].id /\ r.tok = ag[g].tok /\ r.name = ag[g].name
      BY <3>1 DEF Processes
    <3>3. ag' = [ag EXCEPT ![g] = r]
      BY <2>1 DEF RegisterReply
    <3> HIDE DEF r
    <3>4. QED
      BY <2>1, <3>2, <3>3 DEF LifeInv, TypeOK
  <2>2. CASE reg[s].pc = "rejected"
    BY <2>2, AttemptType DEF RegisterReply, LifeInv, SameAgents
  <2>3. QED
    BY <2>1, <2>2 DEF RegisterReply
<1>4. TypeOK'
  BY <1>1, <1>2, <1>3 DEF LifeInv, TypeOK, EnrollTypeOK, StoreTypeOK, ClusterStoreTypeOK
<1>5. AdmInv' /\ TokenInv' /\ TokenBound'
  BY <1>1, SameTables, AdmKept, TokenKept DEF LifeInv
<1>6. CallInv' /\ IdInv'
  BY <1>1, <1>2 DEF LifeInv, TypeOK, EnrollTypeOK, CallInv, IdInv, Valid, HasCluster
<1>7. ProcessInv'
  BY <1>1, <1>2, <1>3 DEF LifeInv, TypeOK, EnrollTypeOK, ProcessInv, IdInv, Mine
<1>8. QED
  BY <1>4, <1>5, <1>6, <1>7 DEF LifeInv
-------------------------------------------------------------------------------
(* The Register handler *)

(* One handler goes on; its caller, its token and its cluster stay. *)
Goes(s, r) ==
  /\ reg' = [reg EXCEPT ![s] = r]
  /\ r \in RegisterCalls
  /\ r.pc # "free" /\ r.by = reg[s].by /\ r.gone = reg[s].gone
  /\ r.tok = reg[s].tok /\ r.name = reg[s].name /\ r.late = reg[s].late

LEMMA GoesKept ==
  ASSUME LifeInv, NEW s \in Slots, NEW r, Goes(s, r), reg[s].pc # "free",
         ClustersGrow, IdsGrow, ClusterStoreTypeOK', StoreTypeOK',
         r.late => r.pc \in {"get", "rejected"},
         r.pc \in {"bind", "touch", "mark", "enter", "accepted"} =>
           r.row \in ClusterIds /\ clusters'[r.row] # NoCluster,
         r.pc \in {"touch", "mark", "enter", "accepted"} => clusters'[r.row].name = r.name,
         UNCHANGED <<tokens, adm, handed, ag, faults, enrolled>>
  PROVE  TypeOK' /\ AdmInv' /\ TokenInv' /\ TokenBound' /\ CallInv' /\ ProcessInv'
<1> USE DEF Goes
<1>1. TypeOK'
  BY DEF LifeInv, TypeOK, EnrollTypeOK
<1>2. AdmInv' /\ TokenInv' /\ TokenBound'
  BY SameTables, AdmKept, TokenKept DEF LifeInv
<1>3. CallInv'
  BY DEF LifeInv, TypeOK, EnrollTypeOK, CallInv, ClustersGrow, Valid, HasCluster
<1>4. ProcessInv'
  BY DEF LifeInv, TypeOK, EnrollTypeOK, ProcessInv, Mine, IdsGrow
<1>5. QED
  BY <1>1, <1>2, <1>3, <1>4

(* Authenticate accepts a token that is good, hence not a late one, and    *)
(* takes the cluster from the token's row.                                 *)
LEMMA LifeAuthenticateToken ==
  ASSUME LifeInv, NEW s \in Slots, AuthenticateToken(s), UNCHANGED <<ag, faults, enrolled>>
  PROVE  LifeInv'
<1>1. /\ UNCHANGED <<clusters, tokens, adm, handed, issued, agentCluster, agentStatus>>
      /\ reg[s].pc = "get"
  BY DEF AuthenticateToken, clusterStoreVars, storeVars
<1>2. ClustersGrow /\ IdsGrow /\ ClusterStoreTypeOK' /\ StoreTypeOK'
  BY <1>1, SameTables DEF LifeInv, TypeOK, EnrollTypeOK, StoreTypeOK, ClusterStoreTypeOK
<1>3. CASE ~reg[s].gone /\ Valid(reg[s].tok)
  <2> DEFINE r == [reg[s] EXCEPT !.pc = "bind", !.row = tokens[reg[s].tok].cluster]
  <2>1. ~reg[s].late /\ HasCluster(tokens[reg[s].tok].cluster)
    BY <1>1, <1>3 DEF LifeInv, CallInv, TokenInv
  <2>2. Goes(s, r) /\ r.pc = "bind" /\ r.row = tokens[reg[s].tok].cluster
    BY <1>1, <1>3, <2>1 DEF AuthenticateToken, Goes, LifeInv, TypeOK, EnrollTypeOK,
       RegisterCalls, HasCluster
  <2> HIDE DEF r
  <2>3. TypeOK' /\ AdmInv' /\ TokenInv' /\ TokenBound' /\ CallInv' /\ ProcessInv'
    BY <1>1, <1>2, <2>1, <2>2, GoesKept DEF Goes, HasCluster
  <2>4. IdInv'
    BY <1>1, <2>2 DEF Goes, LifeInv, TypeOK, EnrollTypeOK, IdInv
  <2>5. QED
    BY <2>3, <2>4 DEF LifeInv
<1>4. CASE ~(~reg[s].gone /\ Valid(reg[s].tok))
  <2> DEFINE r == [reg[s] EXCEPT !.pc = "rejected"]
  <2>1. Goes(s, r) /\ r.pc = "rejected"
    BY <1>1, <1>4 DEF AuthenticateToken, Reject, Goes, LifeInv, TypeOK, EnrollTypeOK, RegisterCalls
  <2> HIDE DEF r
  <2>2. TypeOK' /\ AdmInv' /\ TokenInv' /\ TokenBound' /\ CallInv' /\ ProcessInv'
    BY <1>1, <1>2, <2>1, GoesKept
  <2>3. IdInv'
    BY <1>1, <2>1 DEF Goes, LifeInv, TypeOK, EnrollTypeOK, IdInv
  <2>4. QED
    BY <2>2, <2>3 DEF LifeInv
<1>5. QED
  BY <1>3, <1>4

(* Authenticate goes on when the row has the requested name. *)
LEMMA LifeAuthenticateCluster ==
  ASSUME LifeInv, NEW s \in Slots, AuthenticateCluster(s), UNCHANGED <<ag, faults, enrolled>>
  PROVE  LifeInv'
<1>1. /\ UNCHANGED <<clusters, tokens, adm, handed, issued, agentCluster, agentStatus>>
      /\ reg[s].pc = "bind"
  BY DEF AuthenticateCluster, clusterStoreVars, storeVars
<1>2. ClustersGrow /\ IdsGrow /\ ClusterStoreTypeOK' /\ StoreTypeOK'
  BY <1>1, SameTables DEF LifeInv, TypeOK, EnrollTypeOK, StoreTypeOK, ClusterStoreTypeOK
<1>3. PICK pc \in {"touch", "rejected"} :
        /\ reg' = [reg EXCEPT ![s].pc = pc]
        /\ pc = "touch" => clusters[reg[s].row].name = reg[s].name
  BY DEF AuthenticateCluster, Reject
<1> DEFINE r == [reg[s] EXCEPT !.pc = pc]
<1>4. Goes(s, r) /\ r.pc = pc /\ r.row = reg[s].row /\ ~r.late /\ HasCluster(r.row)
  BY <1>1, <1>3 DEF Goes, LifeInv, TypeOK, EnrollTypeOK, CallInv, RegisterCalls
<1> HIDE DEF r
<1>5. TypeOK' /\ AdmInv' /\ TokenInv' /\ TokenBound' /\ CallInv' /\ ProcessInv'
  BY <1>1, <1>2, <1>3, <1>4, GoesKept DEF Goes, HasCluster
<1>6. IdInv'
  BY <1>1, <1>4 DEF Goes, LifeInv, TypeOK, EnrollTypeOK, IdInv
<1>7. QED
  BY <1>5, <1>6 DEF LifeInv

(* The new ID is nobody's: no entry has it and no other handler holds it. *)
LEMMA LifeRegisterTouch ==
  ASSUME LifeInv, NEW s \in Slots, RegisterTouch(s), UNCHANGED <<ag, faults, enrolled>>
  PROVE  LifeInv'
<1>1. /\ UNCHANGED <<clusters, tokens, adm, handed, issued, agentCluster, agentStatus>>
      /\ reg[s].pc = "touch"
  BY DEF RegisterTouch, clusterStoreVars, storeVars
<1>2. ClustersGrow /\ IdsGrow /\ ClusterStoreTypeOK' /\ StoreTypeOK'
  BY <1>1, SameTables DEF LifeInv, TypeOK, EnrollTypeOK, StoreTypeOK, ClusterStoreTypeOK
<1>3. PICK a \in FreshIds : reg' = [reg EXCEPT ![s] = [reg[s] EXCEPT !.pc = "mark", !.id = a]]
  BY DEF RegisterTouch
<1> DEFINE r == [reg[s] EXCEPT !.pc = "mark", !.id = a]
<1>4. a \in AgentIds \ issued /\ \A q \in Slots : reg[q].id # a
  BY <1>3 DEF FreshIds
<1>5. /\ Goes(s, r) /\ r.pc = "mark" /\ r.id = a /\ r.row = reg[s].row /\ ~r.late
      /\ HasCluster(r.row) /\ clusters[r.row].name = r.name
  <2>1. reg[s] \in RegisterCalls /\ reg \in [Slots -> RegisterCalls]
    BY DEF LifeInv, TypeOK, EnrollTypeOK
  <2>2. ~reg[s].late /\ HasCluster(reg[s].row) /\ clusters[reg[s].row].name = reg[s].name
    BY <1>1 DEF LifeInv, CallInv
  <2>3. /\ r.pc = "mark" /\ r.id = a /\ r.row = reg[s].row /\ r.late = reg[s].late /\ r.name = reg[s].name
        /\ r.tok = reg[s].tok /\ r \in RegisterCalls
    BY <2>1, <1>4 DEF RegisterCalls
  <2>4. Goes(s, r)
    BY <2>1, <2>3, <1>3, <1>4 DEF Goes, RegisterCalls
  <2> QED
    BY <2>2, <2>3, <2>4
<1> HIDE DEF r
<1>6. TypeOK' /\ AdmInv' /\ TokenInv' /\ TokenBound' /\ CallInv' /\ ProcessInv'
  BY <1>1, <1>2, <1>5, GoesKept DEF Goes, HasCluster
<1>7. IdInv'
  BY <1>1, <1>4, <1>5 DEF Goes, LifeInv, TypeOK, EnrollTypeOK, IdInv
<1>8. QED
  BY <1>6, <1>7 DEF LifeInv

(* markClusterConnected keeps the row's name. *)
LEMMA LifeMarkClusterConnected ==
  ASSUME LifeInv, NEW s \in Slots, MarkClusterConnected(s), UNCHANGED <<ag, faults, enrolled>>
  PROVE  LifeInv'
<1>1. /\ UNCHANGED <<tokens, adm, handed, issued, agentCluster, agentStatus>>
      /\ reg[s].pc = "mark"
      /\ clusters' = clusters \/ clusters' = [clusters EXCEPT ![reg[s].row].status = "connected"]
      /\ reg' = [reg EXCEPT ![s].pc = "enter"]
  BY DEF MarkClusterConnected, UpdateCluster, storeVars
<1>2. HasCluster(reg[s].row) /\ clusters[reg[s].row].name = reg[s].name
  BY <1>1 DEF LifeInv, CallInv
<1>3. ClustersGrow /\ ClusterStoreTypeOK'
  BY <1>1, <1>2, NoneAssumption DEF LifeInv, TypeOK, EnrollTypeOK, ClusterStoreTypeOK, ClustersGrow, HasCluster,
     ClusterRow, NoCluster
<1>4. IdsGrow /\ StoreTypeOK'
  BY <1>1, SameTables DEF LifeInv, TypeOK, EnrollTypeOK, StoreTypeOK
<1> DEFINE r == [reg[s] EXCEPT !.pc = "enter"]
<1>5. Goes(s, r) /\ r.pc = "enter" /\ r.row = reg[s].row /\ r.id = reg[s].id /\ ~r.late
  BY <1>1 DEF Goes, LifeInv, TypeOK, EnrollTypeOK, CallInv, RegisterCalls
<1> HIDE DEF r
<1>6. TypeOK' /\ AdmInv' /\ TokenInv' /\ TokenBound' /\ CallInv' /\ ProcessInv'
  <2> DEFINE k == reg[s].row
  <2>1. k \in ClusterIds /\ clusters'[k] # NoCluster /\ clusters'[k].name = reg[s].name
    BY <1>2, <1>3 DEF HasCluster, ClustersGrow
  <2>2. r.row \in ClusterIds /\ clusters'[r.row] # NoCluster /\ clusters'[r.row].name = r.name
    BY <1>5, <2>1 DEF Goes
  <2>3. reg[s].pc # "free"
    BY <1>1
  <2>4. QED
    BY <1>1, <1>3, <1>4, <1>5, <2>2, <2>3, GoesKept
<1>7. IdInv'
  BY <1>1, <1>5 DEF Goes, LifeInv, TypeOK, EnrollTypeOK, IdInv
<1>8. QED
  BY <1>6, <1>7 DEF LifeInv

(* The entry gets the name of the token's cluster, which is the requested  *)
(* one.                                                                    *)
LEMMA LifeRegisterEnter ==
  ASSUME LifeInv, NEW s \in Slots, RegisterEnter(s), UNCHANGED <<ag, faults, enrolled>>
  PROVE  LifeInv'
<1>1. /\ UNCHANGED <<clusters, tokens, adm, handed>>
      /\ reg[s].pc = "enter"
      /\ reg' = [reg EXCEPT ![s].pc = "accepted"]
      /\ reg[s].id \notin issued /\ issued' = issued \cup {reg[s].id}
      /\ agentStatus' = [agentStatus EXCEPT ![reg[s].id] = "connected"]
      /\ agentCluster' = [agentCluster EXCEPT ![reg[s].id] = clusters[reg[s].row].name]
  BY DEF RegisterEnter, StoreRegister, clusterStoreVars
<1>2. HasCluster(reg[s].row) /\ clusters[reg[s].row].name = reg[s].name
  BY <1>1 DEF LifeInv, CallInv
<1>3. reg[s].id \in AgentIds /\ reg[s].name \in Clusters \cup {None}
  BY <1>1 DEF LifeInv, IdInv, TypeOK, EnrollTypeOK, RegisterCalls
<1>4. ClustersGrow /\ ClusterStoreTypeOK'
  BY <1>1, SameTables DEF LifeInv, TypeOK, EnrollTypeOK, ClusterStoreTypeOK
<1>5. IdsGrow /\ StoreTypeOK' /\ agentCluster'[reg[s].id] = reg[s].name
  BY <1>1, <1>2, <1>3 DEF LifeInv, TypeOK, EnrollTypeOK, StoreTypeOK, AgentStatuses, IdsGrow
<1> DEFINE r == [reg[s] EXCEPT !.pc = "accepted"]
<1>6. Goes(s, r) /\ r.pc = "accepted" /\ r.row = reg[s].row /\ r.id = reg[s].id /\ ~r.late
  BY <1>1 DEF Goes, LifeInv, TypeOK, EnrollTypeOK, CallInv, RegisterCalls
<1> HIDE DEF r
<1>7. TypeOK' /\ AdmInv' /\ TokenInv' /\ TokenBound' /\ CallInv' /\ ProcessInv'
  BY <1>1, <1>2, <1>4, <1>5, <1>6, GoesKept DEF Goes, HasCluster
<1>8. IdInv'
  BY <1>1, <1>5, <1>6 DEF Goes, LifeInv, TypeOK, EnrollTypeOK, IdInv, IdsGrow
<1>9. QED
  BY <1>7, <1>8 DEF LifeInv

(* A handler nobody waits for returns. *)
LEMMA LifeRegisterReturns ==
  ASSUME LifeInv, NEW s \in Slots, RegisterReturns(s), UNCHANGED <<ag, faults, enrolled>>
  PROVE  LifeInv'
<1>1. /\ UNCHANGED <<clusters, tokens, adm, handed, issued, agentCluster, agentStatus>>
      /\ reg' = [reg EXCEPT ![s] = NoCall]
  BY DEF RegisterReturns, clusterStoreVars, storeVars
<1>2. NoCall \in RegisterCalls /\ NoCall.pc = "free" /\ NoCall.by = None /\ ~NoCall.late
  BY DEF NoCall, RegisterCalls
<1>3. TypeOK'
  BY <1>1, <1>2 DEF LifeInv, TypeOK, EnrollTypeOK, StoreTypeOK, ClusterStoreTypeOK
<1>4. AdmInv' /\ TokenInv' /\ TokenBound'
  BY <1>1, SameTables, AdmKept, TokenKept DEF LifeInv
<1>5. CallInv' /\ IdInv'
  BY <1>1, <1>2 DEF LifeInv, TypeOK, EnrollTypeOK, CallInv, IdInv, Valid, HasCluster
<1>6. ProcessInv'
  BY <1>1, <1>2, LifecycleAssumption DEF LifeInv, TypeOK, EnrollTypeOK, ProcessInv, Mine
<1>7. QED
  BY <1>3, <1>4, <1>5, <1>6 DEF LifeInv

(* A restart of central ends every call; tables, tokens and IDs stay. *)
LEMMA LifeCentralRestart ==
  ASSUME LifeInv, CentralRestart
  PROVE  LifeInv'
<1> USE LifecycleAssumption
<1>1. /\ UNCHANGED <<clusters, tokens, handed, issued, agentCluster, enrolled>>
      /\ agentStatus' = [a \in AgentIds |-> "absent"]
      /\ adm' = [o \in Operators |-> NoAdm] /\ reg' = [s \in Slots |-> NoCall]
      /\ ag' = [g \in Agents |-> [ag[g] EXCEPT !.stream = None]]
  BY DEF CentralRestart, StoreLost, clusterStoreVars
<1>2. NoCall \in RegisterCalls /\ NoCall.pc = "free" /\ NoCall.by = None /\ ~NoCall.late
  BY DEF NoCall, RegisterCalls
<1>3. NoAdm \in AdmCalls /\ NoAdm.pc = "idle"
  BY DEF NoAdm, AdmCalls
<1>4. faults' \in 0..MaxFaults
  BY DEF CentralRestart, Fault, LifeInv, TypeOK
<1>5. ag' \in [Agents -> Processes] /\ SameAgents
  <2>1. ASSUME NEW g \in Agents
        PROVE  LET r == [ag[g] EXCEPT !.stream = None]
               IN  r \in Processes /\ r.id = ag[g].id /\ r.tok = ag[g].tok /\ r.name = ag[g].name
    BY DEF LifeInv, TypeOK, Processes
  <2>2. QED
    BY <1>1, <2>1 DEF SameAgents
<1>6. TypeOK'
  BY <1>1, <1>2, <1>3, <1>4, <1>5
     DEF LifeInv, TypeOK, EnrollTypeOK, StoreTypeOK, ClusterStoreTypeOK, AgentStatuses
<1>7. TokenInv' /\ TokenBound'
  BY <1>1, SameTables, TokenKept DEF LifeInv
<1>8. AdmInv' /\ CallInv' /\ IdInv'
  BY <1>1, <1>2, <1>3 DEF AdmInv, CallInv, IdInv
<1>9. ProcessInv'
  BY <1>1, <1>2, <1>5 DEF LifeInv, ProcessInv, Mine, SameAgents
<1>10. QED
  BY <1>6, <1>7, <1>8, <1>9 DEF LifeInv
-------------------------------------------------------------------------------
(* Administrators *)

(* A lookup, an insert or a failed insert of a cluster: the row a call     *)
(* goes on with has the name it was asked for.                             *)
LEMMA LifeFindCluster ==
  ASSUME LifeInv, NEW o \in Operators, UNCHANGED <<ag, faults, enrolled>>,
         \/ \E n \in Clusters : HandleCreateAgentToken(o, n)
         \/ \E k \in ClusterIds : FindOrCreate(o, k)
  PROVE  LifeInv'
<1> USE NoneAssumption
<1>1. /\ UNCHANGED <<tokens, reg, handed, issued, agentCluster, agentStatus>>
  BY DEF HandleCreateAgentToken, FindOrCreate, clusterStoreVars, storeVars
<1>2. NoAdm \in AdmCalls /\ NoAdm.pc = "idle"
  BY DEF NoAdm, AdmCalls
<1>3. /\ ClustersGrow /\ ClusterStoreTypeOK'
      /\ \E r \in AdmCalls :
           /\ adm' = [adm EXCEPT ![o] = r]
           /\ r.pc # "idle" => r.name \in Clusters
           /\ r.pc = "token" => HasCluster(r.row)' /\ clusters'[r.row].name = r.name
  <2>1. ASSUME NEW n \in Clusters, HandleCreateAgentToken(o, n) PROVE <1>3!1 /\ <1>3!2
    <3>1. ClustersGrow /\ ClusterStoreTypeOK' /\ UNCHANGED clusters
      BY <2>1, SameTables DEF HandleCreateAgentToken, clusterStoreVars, LifeInv, TypeOK,
         EnrollTypeOK, ClusterStoreTypeOK
    <3>2. CASE GetClusterByName(n) = {}
      <4> DEFINE r == [NoAdm EXCEPT !.pc = "cluster", !.name = n]
      <4>1. r \in AdmCalls /\ r.pc = "cluster" /\ r.name = n
        BY DEF NoAdm, AdmCalls
      <4>2. adm' = [adm EXCEPT ![o] = r]
        BY <2>1, <3>2 DEF HandleCreateAgentToken
      <4> HIDE DEF r
      <4>3. QED
        BY <3>1, <4>1, <4>2
    <3>3. CASE GetClusterByName(n) # {}
      <4>1. PICK k \in GetClusterByName(n) :
              adm' = [adm EXCEPT ![o] = [pc |-> "token", name |-> n, row |-> k]]
        BY <2>1, <3>3 DEF HandleCreateAgentToken
      <4> DEFINE r == [pc |-> "token", name |-> n, row |-> k]
      <4>2. k \in ClusterIds /\ clusters[k] # NoCluster /\ clusters[k].name = n
        BY <4>1 DEF GetClusterByName
      <4>3. r \in AdmCalls /\ r.pc = "token" /\ r.name = n /\ r.row = k
        BY <4>2 DEF AdmCalls
      <4>4. adm' = [adm EXCEPT ![o] = r]
        BY <4>1
      <4> HIDE DEF r
      <4>5. QED
        BY <3>1, <4>2, <4>3, <4>4 DEF HasCluster
    <3>4. QED
      BY <3>2, <3>3
  <2>2. ASSUME NEW k \in ClusterIds, FindOrCreate(o, k) PROVE <1>3!1 /\ <1>3!2
    <3>1. adm[o] \in AdmCalls /\ adm[o].name \in Clusters /\ adm[o].pc = "cluster"
      BY <2>2 DEF FindOrCreate, LifeInv, AdmInv, TypeOK, EnrollTypeOK
    <3>2. CASE CanCreateCluster(adm[o].name)
      <4> DEFINE r == [adm[o] EXCEPT !.pc = "token", !.row = k]
      <4>1. r \in AdmCalls /\ r.pc = "token" /\ r.name = adm[o].name /\ r.row = k
        BY <3>1 DEF AdmCalls
      <4>2. /\ adm' = [adm EXCEPT ![o] = r] /\ clusters[k] = NoCluster
            /\ clusters' = [clusters EXCEPT ![k] = [name |-> adm[o].name, status |-> "pending"]]
        BY <2>2, <3>2 DEF FindOrCreate, CreateCluster
      <4>3. ClustersGrow /\ ClusterStoreTypeOK'
        BY <1>1, <3>1, <4>2 DEF ClustersGrow, ClusterStoreTypeOK, ClusterRow, LifeInv, TypeOK,
           EnrollTypeOK
      <4>4. HasCluster(k)' /\ clusters'[k].name = adm[o].name
        BY <3>1, <4>2 DEF HasCluster, NoCluster, LifeInv, TypeOK, EnrollTypeOK, ClusterStoreTypeOK
      <4> HIDE DEF r
      <4>5. QED
        BY <3>1, <4>1, <4>2, <4>3, <4>4
    <3>3. CASE ~CanCreateCluster(adm[o].name)
      <4>1. UNCHANGED clusters /\ adm' = [adm EXCEPT ![o] = NoAdm]
        BY <2>2, <3>3 DEF FindOrCreate
      <4>2. ClustersGrow /\ ClusterStoreTypeOK'
        BY <1>1, <4>1, SameTables DEF ClusterStoreTypeOK, LifeInv, TypeOK, EnrollTypeOK
      <4>3. QED
        BY <1>2, <4>1, <4>2
    <3>4. QED
      BY <3>2, <3>3
  <2>3. QED
    BY <2>1, <2>2
<1>4. TypeOK'
  BY <1>1, <1>3 DEF LifeInv, TypeOK, EnrollTypeOK, StoreTypeOK
<1>5. AdmInv'
  BY <1>3 DEF LifeInv, TypeOK, EnrollTypeOK, AdmInv, ClustersGrow, HasCluster
<1>6. TokenInv' /\ TokenBound' /\ CallInv' /\ IdInv' /\ ProcessInv'
  BY <1>1, <1>3, SameTables, TokenKept, CallKept, IdKept, ProcessKept DEF LifeInv
<1>7. QED
  BY <1>4, <1>5, <1>6 DEF LifeInv

(* A token is made for the cluster its caller asked for. *)
LEMMA LifeInsertToken ==
  ASSUME LifeInv, NEW o \in Operators, NEW t \in Tokens, InsertToken(o, t),
         UNCHANGED <<ag, faults, enrolled>>
  PROVE  LifeInv'
<1> USE NoneAssumption, ClusterAssumption
<1>1. /\ UNCHANGED <<clusters, reg, issued, agentCluster, agentStatus>>
      /\ adm[o].pc = "token" /\ adm' = [adm EXCEPT ![o] = NoAdm]
      /\ tokens[t] = NoToken
      /\ tokens' = [tokens EXCEPT ![t] = [cluster |-> adm[o].row, revoked |-> FALSE, expired |-> FALSE]]
      /\ handed' = [handed EXCEPT ![t] = adm[o].name]
  BY DEF InsertToken, CreateAgentToken, storeVars
<1>2. NoAdm \in AdmCalls /\ NoAdm.pc = "idle"
  BY DEF NoAdm, AdmCalls
<1>3. HasCluster(adm[o].row) /\ clusters[adm[o].row].name = adm[o].name /\ adm[o].name \in Clusters
  BY <1>1 DEF LifeInv, AdmInv
<1>4. /\ tokens' \in [Tokens -> TokenRow \cup {NoToken}] /\ tokens'[t] # NoToken
      /\ tokens'[t].cluster = adm[o].row /\ handed'[t] = adm[o].name
      /\ \A u \in Tokens \ {t} : tokens'[u] = tokens[u] /\ handed'[u] = handed[u]
  BY <1>1, <1>3 DEF LifeInv, TypeOK, EnrollTypeOK, ClusterStoreTypeOK, TokenRow, NoToken, HasCluster
<1>5. TypeOK'
  BY <1>1, <1>2, <1>3, <1>4 DEF LifeInv, TypeOK, EnrollTypeOK, StoreTypeOK, ClusterStoreTypeOK
<1>6. ClustersGrow /\ TokensGrow
  BY <1>1, <1>4, SameTables DEF TokensGrow, Valid
<1>7. AdmInv'
  BY <1>1, <1>2 DEF LifeInv, TypeOK, EnrollTypeOK, AdmInv, HasCluster
<1>8. TokenInv' /\ TokenBound'
  BY <1>1, <1>3, <1>4 DEF LifeInv, TokenInv, TokenBound, HasCluster
<1>9. CallInv' /\ IdInv'
  BY <1>1, <1>6, CallKept, IdKept DEF LifeInv
<1>10. ProcessInv'
  BY <1>1, <1>3, <1>4 DEF LifeInv, TypeOK, Processes, ProcessInv, Mine
<1>11. QED
  BY <1>5, <1>7, <1>8, <1>9, <1>10 DEF LifeInv

(* A token that is revoked or expires keeps its cluster. *)
LEMMA LifeTokenEnds ==
  ASSUME LifeInv, NEW t \in Tokens, HandleRevokeAgentToken(t) \/ TokenExpires(t),
         UNCHANGED <<ag, faults, enrolled>>
  PROVE  LifeInv'
<1> USE NoneAssumption, ClusterAssumption
<1>1. /\ UNCHANGED <<clusters, adm, reg, handed, issued, agentCluster, agentStatus>>
      /\ tokens[t] # NoToken
      /\ \/ tokens' = [tokens EXCEPT ![t].revoked = TRUE]
         \/ tokens' = [tokens EXCEPT ![t].expired = TRUE]
  BY DEF HandleRevokeAgentToken, TokenExpires, GetAgentTokenByHash, RevokeAgentToken, storeVars
<1>2. /\ tokens' \in [Tokens -> TokenRow \cup {NoToken}] /\ tokens'[t] # NoToken
      /\ tokens'[t].cluster = tokens[t].cluster /\ ~Valid(t)'
      /\ \A u \in Tokens \ {t} : tokens'[u] = tokens[u]
  <2>1. tokens \in [Tokens -> TokenRow \cup {NoToken}] /\ tokens[t] \in TokenRow
    BY <1>1 DEF LifeInv, TypeOK, EnrollTypeOK, ClusterStoreTypeOK
  <2>2. PICK r \in TokenRow : /\ tokens' = [tokens EXCEPT ![t] = r]
                              /\ r.cluster = tokens[t].cluster /\ (r.revoked \/ r.expired)
    <3>1. CASE tokens' = [tokens EXCEPT ![t].revoked = TRUE]
      <4> DEFINE r == [tokens[t] EXCEPT !.revoked = TRUE]
      <4>1. r \in TokenRow /\ r.cluster = tokens[t].cluster /\ r.revoked
        BY <2>1 DEF TokenRow
      <4>2. tokens' = [tokens EXCEPT ![t] = r]
        BY <3>1
      <4> HIDE DEF r
      <4>3. QED
        BY <4>1, <4>2
    <3>2. CASE tokens' = [tokens EXCEPT ![t].expired = TRUE]
      <4> DEFINE r == [tokens[t] EXCEPT !.expired = TRUE]
      <4>1. r \in TokenRow /\ r.cluster = tokens[t].cluster /\ r.expired
        BY <2>1 DEF TokenRow
      <4>2. tokens' = [tokens EXCEPT ![t] = r]
        BY <3>2
      <4> HIDE DEF r
      <4>3. QED
        BY <4>1, <4>2
    <3>3. QED
      BY <1>1, <3>1, <3>2
  <2>3. r.cluster # None /\ r # NoToken
    BY <2>2 DEF TokenRow, NoToken
  <2>4. QED
    BY <2>1, <2>2, <2>3 DEF Valid
<1>3. TypeOK'
  BY <1>1, <1>2 DEF LifeInv, TypeOK, EnrollTypeOK, StoreTypeOK, ClusterStoreTypeOK
<1>4. ClustersGrow /\ TokensGrow
  BY <1>1, <1>2, SameTables DEF TokensGrow, Valid
<1>5. TokenInv' /\ TokenBound'
  BY <1>1, <1>2 DEF LifeInv, TokenInv, TokenBound, HasCluster
<1>6. AdmInv' /\ CallInv' /\ IdInv' /\ ProcessInv'
  BY <1>1, <1>4, SameTables, AdmKept, CallKept, IdKept, ProcessKept DEF LifeInv
<1>7. QED
  BY <1>3, <1>5, <1>6 DEF LifeInv

-------------------------------------------------------------------------------
LEMMA LifeNext == LifeInv /\ [Next]_vars => LifeInv'
<1> SUFFICES ASSUME LifeInv, [Next]_vars PROVE LifeInv'
  OBVIOUS
<1>1. CASE Next
  <2>1. CASE Admin
    BY <2>1, LifeFindCluster, LifeInsertToken, LifeTokenEnds DEF Admin
  <2>2. CASE ~Admin
    BY <1>1, <2>2, NextCases, LifeAlone, LifeStatus, LifeRegisterCall, LifeRegisterLost, LifeRegisterReply,
       LifeAgentRestart, LifeAuthenticateToken, LifeAuthenticateCluster, LifeRegisterTouch,
       LifeMarkClusterConnected, LifeRegisterEnter, LifeRegisterReturns, LifeCentralRestart
  <2>3. QED
    BY <2>1, <2>2
<1>2. CASE UNCHANGED vars
  <2>1. UNCHANGED <<clusters, tokens, adm, reg, handed, issued, agentCluster, agentStatus,
                    ag, faults, enrolled>>
    BY <1>2 DEF vars, enrollVars, clusterStoreVars, storeVars
  <2>2. TypeOK'
    BY <2>1 DEF LifeInv, TypeOK, EnrollTypeOK, StoreTypeOK, ClusterStoreTypeOK
  <2>3. AdmInv' /\ TokenInv' /\ TokenBound' /\ CallInv' /\ IdInv' /\ ProcessInv'
    BY <2>1, SameTables, AdmKept, TokenKept, CallKept, IdKept, ProcessKept DEF LifeInv
  <2>4. QED
    BY <2>2, <2>3 DEF LifeInv
<1>3. QED
  BY <1>1, <1>2

(* The invariant of enrolment holds of every behaviour: what the admin     *)
(* handlers, Authenticate, Register and the agents hold between their      *)
(* statements is true of the tables, whatever happened in between.         *)
THEOREM LifeInvariant == Spec => []LifeInv
BY InitLife, LifeNext, PTL DEF Spec

(* Every variable of enrolment and of the agents keeps its type: in        *)
(* particular an agent's ID, token and cluster, and what each handler      *)
(* has read (admin_handlers.go, agent_auth.go, grpc.go, agent.go).         *)
THEOREM LifeTypes == Spec => []TypeOK
<1>1. LifeInv => TypeOK
  BY DEF LifeInv
<1>2. QED
  BY <1>1, LifeInvariant, PTL

(* A token that HandleCreateAgentToken returned is bound to the cluster it *)
(* was asked for, for any number of administrators whose lookups and       *)
(* inserts overlap (admin_handlers.go 334).                                *)
THEOREM TokensBound == Spec => []TokenBound
<1>1. LifeInv => TokenBound
  BY DEF LifeInv
<1>2. QED
  BY <1>1, LifeInvariant, PTL

(* A Register call whose token was revoked or had expired when it came     *)
(* never gets beyond the token check of Authenticate (agent_auth.go 46).   *)
THEOREM RevokedNeverRegisters == Spec => []RevokedStaysOut
<1>1. LifeInv => RevokedStaysOut
  BY DEF LifeInv, CallInv, RevokedStaysOut
<1>2. QED
  BY <1>1, LifeInvariant, PTL

(* An agent is entered at central under the cluster it is configured for,  *)
(* whichever token it was started with, for any number of agents, lost     *)
(* calls, retries and restarts (agent_auth.go 68, agent.go 223-266).       *)
THEOREM AgentsServeTheirCluster == Spec => []ServesItsCluster
<1>1. LifeInv => ServesItsCluster
  BY DEF LifeInv, ProcessInv, ServesItsCluster
<1>2. QED
  BY <1>1, LifeInvariant, PTL
===============================================================================
