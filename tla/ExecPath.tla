------------------------------- MODULE ExecPath -------------------------------
(***************************************************************************)
(* The one-shot command path, end to end: the HTTP handler                 *)
(* handleExecCommand, the gRPC handlers Register, Heartbeat,               *)
(* GetPendingCommands and SubmitCommandResult, and one agent process per   *)
(* cluster with its command poll loop, composed over AgentStore and        *)
(* CommandQueue.                                                           *)
(*                                                                         *)
(* Goroutines: one per HTTP request, one per GetPendingCommands call (a    *)
(* slot of PollSlots), one per SubmitCommandResult call (a record in       *)
(* submits).  A gRPC handler never looks at its context, so when the       *)
(* caller gave up (timeout, lost connection) it runs on as an orphan.      *)
(*                                                                         *)
(* Faults (only when Reliable is FALSE): a call of the agent fails or its  *)
(* answer is lost, a result submission is lost, the waiting request times  *)
(* out or its client goes away, the agent or central restarts, a           *)
(* heartbeat is late.                                                      *)
(***************************************************************************)
EXTENDS AgentStore, CommandQueue, Naturals, Sequences

CONSTANTS PollSlots,   \* concurrent GetPendingCommands handlers in central
          Reliable     \* TRUE: no faults

ASSUME SlotAssumption == None \notin PollSlots /\ Reliable \in BOOLEAN

VARIABLES
  handler,    \* Requests -> program counter of handleExecCommand
  cluster,    \* Requests -> the :name parameter of the request
  routed,     \* Requests -> agent.ID found by GetByClusterName
  allowed,    \* requests the RBAC policy allowed (history)
  outcome,    \* Requests -> what WaitForResult returned: a result or "timeout"
  answer,     \* Requests -> the HTTP response, "none" until it is written
  audit,      \* Requests -> Status of the audit row, "none" without one
  pollPc,     \* PollSlots -> program counter of GetPendingCommands
  pollAgent,  \* PollSlots -> its agent_id argument
  pollTodo,   \* PollSlots -> snapshot entries the marking loop has not reached
  pollOut,    \* PollSlots -> commands appended to the response
  submits,    \* SubmitCommandResult calls in flight or in progress
  current,    \* Clusters -> Agent.agentID of the cluster's agent process
  call,       \* Clusters -> the poll call the agent waits for
  batch,      \* Clusters -> received commands it has not executed yet
  ranLog      \* Requests -> runs of the command so far (history)

httpVars  == <<handler, cluster, routed, allowed, outcome, answer, audit>>
pollVars  == <<pollPc, pollAgent, pollTodo, pollOut>>
agentVars == <<current, call, batch, ranLog>>
vars == <<storeVars, queueVars, httpVars, pollVars, submits, agentVars>>

HandlerPcs == {"new", "routed", "waiting", "answering", "removing", "done"}
Refusals   == {"notfound", "unavailable", "badrequest", "denied", "internal"}
Answers    == {"none", "timeout", "aborted"} \cup Refusals \cup Results
AuditStatuses == {"none", "denied", "timeout", "success", "failed"}
Submission == [req : Requests, result : Results, pc : {"called", "offering"}]
Run        == [cluster : Clusters, result : Results]

TypeOK ==
  /\ StoreTypeOK /\ QueueTypeOK
  /\ handler \in [Requests -> HandlerPcs]
  /\ cluster \in [Requests -> Clusters \cup {None}]
  /\ routed \in [Requests -> AgentIds \cup {None}]
  /\ allowed \in SUBSET Requests
  /\ outcome \in [Requests -> Results \cup {"none", "timeout"}]
  /\ answer \in [Requests -> Answers]
  /\ audit \in [Requests -> AuditStatuses]
  /\ pollPc \in [PollSlots -> {"free", "called", "marking"}]
  /\ pollAgent \in [PollSlots -> AgentIds \cup {None}]
  /\ pollTodo \in [PollSlots -> SUBSET Requests]
  /\ pollOut \in [PollSlots -> SUBSET Requests]
  /\ submits \in SUBSET Submission
  /\ current \in [Clusters -> AgentIds \cup {None}]
  /\ call \in [Clusters -> PollSlots \cup {None}]
  /\ batch \in [Clusters -> SUBSET Requests]
  /\ ranLog \in [Requests -> Seq(Run)]

Init ==
  /\ NewAgentStore /\ NewCommandQueue
  /\ handler = [r \in Requests |-> "new"]
  /\ cluster = [r \in Requests |-> None]
  /\ routed = [r \in Requests |-> None]
  /\ allowed = {}
  /\ outcome = [r \in Requests |-> "none"]
  /\ answer = [r \in Requests |-> "none"]
  /\ audit = [r \in Requests |-> "none"]
  /\ pollPc = [s \in PollSlots |-> "free"]
  /\ pollAgent = [s \in PollSlots |-> None]
  /\ pollTodo = [s \in PollSlots |-> {}]
  /\ pollOut = [s \in PollSlots |-> {}]
  /\ submits = {}
  /\ current = [c \in Clusters |-> None]
  /\ call = [c \in Clusters |-> None]
  /\ batch = [c \in Clusters |-> {}]
  /\ ranLog = [r \in Requests |-> <<>>]

-------------------------------------------------------------------------------
(* handleExecCommand *)

(* Write the response x and leave the handler. *)
Refuse(r, x) ==
  /\ answer' = [answer EXCEPT ![r] = x]
  /\ handler' = [handler EXCEPT ![r] = "done"]

(* AuditRecorder.Record: a failed insert is only logged. *)
Record(r, s) ==
  \/ audit' = [audit EXCEPT ![r] = s]
  \/ ~Reliable /\ UNCHANGED audit

(* Look the agent up (404), check its Status (503), parse the body (400). *)
ExecRoute(r, c) ==
  /\ handler[r] = "new"
  /\ cluster' = [cluster EXCEPT ![r] = c]
  /\ \/ /\ GetByClusterName(c) = {}
        /\ Refuse(r, "notfound")
        /\ UNCHANGED routed
     \/ \E a \in GetByClusterName(c) :
          \/ /\ agentStatus[a] # "connected"
             /\ Refuse(r, "unavailable")
             /\ UNCHANGED routed
          \/ /\ agentStatus[a] = "connected"
             /\ \/ Refuse(r, "badrequest") /\ UNCHANGED routed
                \/ /\ handler' = [handler EXCEPT ![r] = "routed"]
                   /\ routed' = [routed EXCEPT ![r] = a]
                   /\ UNCHANGED answer
  /\ UNCHANGED <<storeVars, queueVars, allowed, outcome, audit, pollVars, submits, agentVars>>

(* authorizeExec refuses: audited as denied, 403. *)
ExecDeny(r) ==
  /\ handler[r] = "routed"
  /\ Record(r, "denied")
  /\ Refuse(r, "denied")
  /\ UNCHANGED <<storeVars, queueVars, cluster, routed, allowed, outcome, pollVars, submits, agentVars>>

(* authorizeExec allows; generating the request ID fails (500) or the      *)
(* command is queued for the agent found earlier.                          *)
ExecEnqueue(r) ==
  /\ handler[r] = "routed"
  /\ allowed' = allowed \cup {r}
  /\ \/ ~Reliable /\ Refuse(r, "internal") /\ UNCHANGED queueVars
     \/ /\ Enqueue(r, routed[r])
        /\ handler' = [handler EXCEPT ![r] = "waiting"]
        /\ UNCHANGED answer
  /\ UNCHANGED <<storeVars, cluster, routed, outcome, audit, pollVars, submits, agentVars>>

(* WaitForResult receives the result. *)
ExecResult(r) ==
  /\ handler[r] = "waiting"
  /\ TakeResult(r)
  /\ outcome' = [outcome EXCEPT ![r] = resultCh[r]]
  /\ handler' = [handler EXCEPT ![r] = "answering"]
  /\ UNCHANGED <<storeVars, cluster, routed, allowed, answer, audit, pollVars, submits, agentVars>>

(* Mutant of ExecTimeout: the timeout is reported as a result with an      *)
(* error message.                                                          *)
ExecTimeoutAsError(r) ==
  /\ ~Reliable
  /\ handler[r] = "waiting"
  /\ GiveUpWaiting(r)
  /\ outcome' = [outcome EXCEPT ![r] = "error"]
  /\ handler' = [handler EXCEPT ![r] = "answering"]
  /\ UNCHANGED <<storeVars, cluster, routed, allowed, answer, audit, pollVars, submits, agentVars>>

(* WaitForResult's context ends: the timeout, or the client disconnected.  *)
(* Go's select may take this case although a result is ready.              *)
ExecTimeout(r) ==
  /\ ~Reliable
  /\ handler[r] = "waiting"
  /\ GiveUpWaiting(r)
  /\ outcome' = [outcome EXCEPT ![r] = "timeout"]
  /\ handler' = [handler EXCEPT ![r] = "answering"]
  /\ UNCHANGED <<storeVars, cluster, routed, allowed, answer, audit, pollVars, submits, agentVars>>

(* Mutant of AuditStatusOf: a timeout is recorded as failed. *)
AuditStatusNoTimeout(x) == IF x = "ok" THEN "success" ELSE "failed"

(* The audit status of an outcome (recordExecResult, or "timeout"). *)
AuditStatusOf(x) ==
  CASE x = "ok" -> "success" [] x = "timeout" -> "timeout" [] OTHER -> "failed"

(* Audit and write the response: 504, or 200 with the result. *)
ExecAnswer(r) ==
  /\ handler[r] = "answering"
  /\ Record(r, AuditStatusOf(outcome[r]))
  /\ answer' = [answer EXCEPT ![r] = outcome[r]]
  /\ handler' = [handler EXCEPT ![r] = "removing"]
  /\ UNCHANGED <<storeVars, queueVars, cluster, routed, allowed, outcome, pollVars, submits, agentVars>>

(* The deferred commandQueue.Remove. *)
ExecRemove(r) ==
  /\ handler[r] = "removing"
  /\ Remove(r)
  /\ handler' = [handler EXCEPT ![r] = "done"]
  /\ UNCHANGED <<storeVars, cluster, routed, allowed, outcome, answer, audit, pollVars, submits, agentVars>>

-------------------------------------------------------------------------------
(* GetPendingCommands *)

FreeSlot(s) ==
  /\ pollPc' = [pollPc EXCEPT ![s] = "free"]
  /\ pollAgent' = [pollAgent EXCEPT ![s] = None]
  /\ pollTodo' = [pollTodo EXCEPT ![s] = {}]
  /\ pollOut' = [pollOut EXCEPT ![s] = {}]

(* The agent's poll loop calls GetPendingCommands under its current ID.    *)
(* It is one goroutine: no call while one is outstanding or commands of    *)
(* the previous response are left.                                         *)
PollCall(c, s) ==
  /\ current[c] # None
  /\ call[c] = None
  /\ batch[c] = {}
  /\ pollPc[s] = "free"
  /\ call' = [call EXCEPT ![c] = s]
  /\ pollPc' = [pollPc EXCEPT ![s] = "called"]
  /\ pollAgent' = [pollAgent EXCEPT ![s] = current[c]]
  /\ UNCHANGED <<storeVars, queueVars, httpVars, pollTodo, pollOut, submits, current, batch, ranLog>>

(* The ID is not in the store (central restarted): NotFound. *)
PollNotFound(s) ==
  /\ pollPc[s] = "called"
  /\ ~Registered(pollAgent[s])
  /\ FreeSlot(s)
  /\ call' = [c \in Clusters |-> IF call[c] = s THEN None ELSE call[c]]
  /\ UNCHANGED <<storeVars, queueVars, httpVars, submits, current, batch, ranLog>>

(* GetPendingForAgent: the snapshot under the read lock. *)
PollSnapshot(s) ==
  /\ pollPc[s] = "called"
  /\ Registered(pollAgent[s])
  /\ pollPc' = [pollPc EXCEPT ![s] = "marking"]
  /\ pollTodo' = [pollTodo EXCEPT ![s] = GetPendingForAgent(pollAgent[s])]
  /\ UNCHANGED <<storeVars, queueVars, httpVars, pollAgent, pollOut, submits, agentVars>>

(* One turn of the loop over the snapshot. *)
PollMark(s, r) ==
  /\ pollPc[s] = "marking"
  /\ r \in pollTodo[s]
  /\ MarkRunning(r)
  /\ pollTodo' = [pollTodo EXCEPT ![s] = @ \ {r}]
  /\ pollOut' = [pollOut EXCEPT ![s] = @ \cup {r}]
  /\ UNCHANGED <<storeVars, httpVars, pollPc, pollAgent, submits, agentVars>>

(* The response reaches the agent that waits for this call, or nobody if   *)
(* the agent gave up on it.                                                *)
PollReturn(s) ==
  /\ pollPc[s] = "marking"
  /\ pollTodo[s] = {}
  /\ batch' = [c \in Clusters |-> IF call[c] = s THEN pollOut[s] ELSE batch[c]]
  /\ call' = [c \in Clusters |-> IF call[c] = s THEN None ELSE call[c]]
  /\ FreeSlot(s)
  /\ UNCHANGED <<storeVars, queueVars, httpVars, submits, current, ranLog>>

(* The agent's call fails: its 5s timeout, a broken connection, or the     *)
(* heartbeat loop closing the connection to reconnect.  The handler is     *)
(* not told.                                                               *)
PollFail(c) ==
  /\ ~Reliable
  /\ call[c] # None
  /\ call' = [call EXCEPT ![c] = None]
  /\ UNCHANGED <<storeVars, queueVars, httpVars, pollVars, submits, current, batch, ranLog>>

-------------------------------------------------------------------------------
(* executeAndSubmit and SubmitCommandResult *)

(* Run one received command and send its result; the loop goes on when the *)
(* submission returns or fails, so at any time.                            *)
Execute(c, r, res) ==
  /\ r \in batch[c]
  /\ batch' = [batch EXCEPT ![c] = @ \ {r}]
  /\ ranLog' = [ranLog EXCEPT ![r] = Append(@, [cluster |-> c, result |-> res])]
  /\ submits' = submits \cup {[req |-> r, result |-> res, pc |-> "called"]}
  /\ UNCHANGED <<storeVars, queueVars, httpVars, pollVars, current, call>>

(* The submission never reaches central; the agent only logs it. *)
SubmitLost(m) ==
  /\ ~Reliable
  /\ m.pc = "called"
  /\ submits' = submits \ {m}
  /\ UNCHANGED <<storeVars, queueVars, httpVars, pollVars, agentVars>>

(* Complete or Fail finds the command gone. *)
SubmitTooLate(m) ==
  /\ m.pc = "called"
  /\ m.req \notin queued
  /\ submits' = submits \ {m}
  /\ UNCHANGED <<storeVars, queueVars, httpVars, pollVars, agentVars>>

(* Complete or Fail: the part under the lock. *)
SubmitFinish(m) ==
  /\ m.pc = "called"
  /\ SetFinished(m.req, m.result)
  /\ submits' = (submits \ {m}) \cup {[m EXCEPT !.pc = "offering"]}
  /\ UNCHANGED <<storeVars, httpVars, pollVars, agentVars>>

(* Complete or Fail: the send after the unlock. *)
SubmitOffer(m) ==
  /\ m.pc = "offering"
  /\ OfferResult(m.req, m.result)
  /\ submits' = submits \ {m}
  /\ UNCHANGED <<storeVars, httpVars, pollVars, agentVars>>

-------------------------------------------------------------------------------
(* Registration, heartbeats, restarts *)

(* Agent.register at start-up, or from reconnect after a failed heartbeat; *)
(* when the response is lost the agent keeps its previous ID.  A reliable  *)
(* agent registers once.                                                   *)
AgentRegister(c, a) ==
  /\ Reliable => current[c] = None
  /\ StoreRegister(a, c)
  /\ \/ current' = [current EXCEPT ![c] = a]
     \/ ~Reliable /\ UNCHANGED current
  /\ UNCHANGED <<queueVars, httpVars, pollVars, submits, call, batch, ranLog>>

(* A heartbeat under the agent's current ID; one that central answers with *)
(* NotFound changes nothing here and leads to AgentRegister.               *)
AgentHeartbeat(c) ==
  /\ current[c] # None
  /\ UpdateHeartbeat(current[c])
  /\ UNCHANGED <<queueVars, httpVars, pollVars, submits, agentVars>>

(* runDisconnectChecker *)
DisconnectCheck(S) ==
  /\ ~Reliable
  /\ MarkDisconnected(S)
  /\ UNCHANGED <<queueVars, httpVars, pollVars, submits, agentVars>>

(* The agent process dies and starts over without an ID. *)
AgentRestart(c) ==
  /\ ~Reliable
  /\ current[c] # None
  /\ current' = [current EXCEPT ![c] = None]
  /\ call' = [call EXCEPT ![c] = None]
  /\ batch' = [batch EXCEPT ![c] = {}]
  /\ UNCHANGED <<storeVars, queueVars, httpVars, pollVars, submits, ranLog>>

(* Central dies and starts over: registry, queue and every goroutine are   *)
(* gone, open HTTP requests and agent calls break, audit rows stay.        *)
CentralRestart ==
  /\ ~Reliable
  /\ StoreLost
  /\ QueueLost
  /\ handler' = [r \in Requests |-> IF handler[r] = "new" THEN "new" ELSE "done"]
  /\ answer' = [r \in Requests |->
                  IF handler[r] # "new" /\ answer[r] = "none" THEN "aborted" ELSE answer[r]]
  /\ pollPc' = [s \in PollSlots |-> "free"]
  /\ pollAgent' = [s \in PollSlots |-> None]
  /\ pollTodo' = [s \in PollSlots |-> {}]
  /\ pollOut' = [s \in PollSlots |-> {}]
  /\ call' = [c \in Clusters |-> None]
  /\ submits' = {}
  /\ UNCHANGED <<cluster, routed, allowed, outcome, audit, current, batch, ranLog>>

-------------------------------------------------------------------------------
ExecStep(r) ==
  \/ \E c \in Clusters : ExecRoute(r, c)
  \/ ExecDeny(r)
  \/ ExecEnqueue(r)
  \/ ExecResult(r)
  \/ ExecTimeout(r)
  \/ ExecAnswer(r)
  \/ ExecRemove(r)

PollStep(s) ==
  \/ \E c \in Clusters : PollCall(c, s)
  \/ PollNotFound(s)
  \/ PollSnapshot(s)
  \/ \E r \in Requests : PollMark(s, r)
  \/ PollReturn(s)

SubmitStep ==
  \E m \in submits : SubmitLost(m) \/ SubmitTooLate(m) \/ SubmitFinish(m) \/ SubmitOffer(m)

AgentStep(c) ==
  \/ PollFail(c)
  \/ \E r \in Requests, res \in Results : Execute(c, r, res)
  \/ \E a \in AgentIds : AgentRegister(c, a)
  \/ AgentHeartbeat(c)
  \/ AgentRestart(c)

Next ==
  \/ \E r \in Requests : ExecStep(r)
  \/ \E s \in PollSlots : PollStep(s)
  \/ SubmitStep
  \/ \E c \in Clusters : AgentStep(c)
  \/ \E S \in SUBSET AgentIds : DisconnectCheck(S)
  \/ CentralRestart

Spec == Init /\ [][Next]_vars

(* Go runs every runnable goroutine and fires every timer; a call that is  *)
(* not lost is handled.  Arrivals, faults and heartbeats owe nothing.      *)
Fairness ==
  /\ \A r \in Requests :
       /\ WF_vars(ExecDeny(r) \/ ExecEnqueue(r))
       /\ WF_vars(ExecResult(r) \/ ExecTimeout(r))
       /\ WF_vars(ExecAnswer(r))
       /\ WF_vars(ExecRemove(r))
  /\ \A s \in PollSlots :
       WF_vars(PollNotFound(s) \/ PollSnapshot(s) \/ PollReturn(s)
                 \/ \E r \in Requests : PollMark(s, r))
  /\ \A c \in Clusters :
       /\ WF_vars(\E s \in PollSlots : PollCall(c, s))
       /\ WF_vars(\E r \in Requests, res \in Results : Execute(c, r, res))
  /\ WF_vars(SubmitStep)

FairSpec == Spec /\ Fairness

-------------------------------------------------------------------------------
(* Properties *)

(* At most one run: a command is executed at most once, although           *)
(* GetPendingCommands marks it running only after it took its snapshot,    *)
(* abandoned handlers overlap with new polls, the agent may re-register    *)
(* and both processes may restart.                                         *)
AtMostOnce == \A r \in Requests : Len(ranLog[r]) <= 1

(* A command runs only if the policy check of its own request passed, and  *)
(* only in the cluster named in the request's URL, whatever IDs the        *)
(* cluster's agents have had.                                              *)
RunsAsAuthorized ==
  \A r \in Requests : \A i \in DOMAIN ranLog[r] :
    r \in allowed /\ ranLog[r][i].cluster = cluster[r]

(* A 200 carries the result of a run of this very request: no result of    *)
(* another request, no stale or made-up one.                               *)
AnswerGenuine ==
  \A r \in Requests : answer[r] \in Results =>
    \E i \in DOMAIN ranLog[r] : ranLog[r][i].result = answer[r]

(* The audit trail tells the truth: a command recorded as denied never     *)
(* runs, not even later; one recorded as success or failed did run and     *)
(* ended that way.                                                         *)
AuditTruthful ==
  \A r \in Requests :
    /\ audit[r] = "denied" => ranLog[r] = <<>>
    /\ audit[r] = "success" => \E i \in DOMAIN ranLog[r] : ranLog[r][i].result = "ok"
    /\ audit[r] = "failed" => \E i \in DOMAIN ranLog[r] : ranLog[r][i].result # "ok"

(* The queue does not leak: every entry belongs to a request whose handler *)
(* is still going to remove it, however late results arrive (the sweeper   *)
(* CleanupOld is never called).                                            *)
QueueHasOwner ==
  \A r \in queued : handler[r] \in {"waiting", "answering", "removing"}

(* No lost wakeup: while the handler waits, a command that Complete or     *)
(* Fail has finished has its result in the channel or about to be sent,    *)
(* even when MarkRunning of a slow poll handler comes in between.          *)
NoLostWakeup ==
  \A r \in Requests :
    handler[r] = "waiting" /\ status[r] \in {"completed", "failed"} =>
      \/ resultCh[r] # "empty"
      \/ \E m \in submits : m.req = r /\ m.pc = "offering"

(* Without faults every accepted command is picked up, run and answered    *)
(* with its result: snapshot, marking, execution, submission and the       *)
(* result channel never strand it.                                         *)
AnsweredWithResult ==
  \A r \in Requests : handler[r] = "waiting" ~> answer[r] \in Results

(* With faults every request still ends, and its queue entry goes.         *)
EveryRequestEnds ==
  \A r \in Requests : handler[r] # "new" ~> handler[r] = "done" /\ r \notin queued

-------------------------------------------------------------------------------
(* The inductive invariant behind the safety properties, by topic. *)

Enqueued(r) == status[r] # "none"
Held(s) == pollTodo[s] \cup pollOut[s]

(* IDs belong to one cluster for ever, and every ID in use was issued. *)
IdsInv ==
  /\ \A a \in AgentIds : a \notin issued => agentCluster[a] = None
  /\ \A c \in Clusters : current[c] # None => agentCluster[current[c]] = c

(* A request is queued for an ID of the cluster it names, after the policy *)
(* allowed it, and leaves the queue only when it is no longer pending.     *)
RequestInv ==
  \A r \in Requests :
    /\ handler[r] = "routed" => routed[r] # None /\ agentCluster[routed[r]] = cluster[r]
    /\ handler[r] = "new" <=> cluster[r] = None
    /\ handler[r] \in {"removing", "done"} <=> answer[r] # "none"
    /\ handler[r] \in {"waiting", "answering", "removing"} => Enqueued(r)
    /\ Enqueued(r) => /\ handler[r] \notin {"new", "routed"}
                      /\ r \in allowed
                      /\ agentOf[r] # None
                      /\ agentCluster[agentOf[r]] = cluster[r]
    /\ r \in queued => Enqueued(r) /\ handler[r] # "done"
    /\ handler[r] = "waiting" => r \in queued
    /\ handler[r] \in {"answering", "removing"} => status[r] # "pending"

(* A poll handler holds commands of its own agent ID only, those in its    *)
(* response are marked, and those it still has to mark are in the queue as *)
(* long as they are pending.                                               *)
PollInv ==
  /\ \A s \in PollSlots :
       /\ pollPc[s] # "free" <=> pollAgent[s] # None
       /\ pollPc[s] # "marking" => Held(s) = {}
       /\ \A r \in Held(s) : Enqueued(r) /\ agentOf[r] = pollAgent[s]
       /\ \A r \in pollTodo[s] : status[r] = "pending" => r \in queued
       /\ \A r \in pollOut[s] : status[r] # "pending"
  /\ \A c \in Clusters : call[c] # None =>
       /\ batch[c] = {}
       /\ pollPc[call[c]] # "free"
       /\ agentCluster[pollAgent[call[c]]] = c

(* A received command was marked and has not run; one that ran is not      *)
(* pending, and no poll an agent still waits for can bring it again.       *)
RunInv ==
  /\ \A c \in Clusters : \A r \in batch[c] :
       Enqueued(r) /\ cluster[r] = c /\ status[r] # "pending" /\ ranLog[r] = <<>>
  /\ \A r \in Requests : ranLog[r] # <<>> =>
       /\ Len(ranLog[r]) = 1
       /\ Enqueued(r) /\ status[r] # "pending"
       /\ ranLog[r][1].cluster = cluster[r]
       /\ \A c \in Clusters : call[c] # None => r \notin Held(call[c])

(* A result on its way to the client is the result of the request's run. *)
Genuine(r, x) == ranLog[r] # <<>> /\ ranLog[r][1].result = x

ResultInv ==
  /\ \A m \in submits : Genuine(m.req, m.result)
  /\ \A r \in Requests :
       /\ resultCh[r] # "empty" => Genuine(r, resultCh[r])
       /\ outcome[r] \in Results => Genuine(r, outcome[r])
       /\ answer[r] \in Results => Genuine(r, answer[r])
       /\ handler[r] = "answering" => outcome[r] # "none"
       /\ audit[r] = "denied" => ~Enqueued(r) /\ handler[r] = "done"
       /\ audit[r] = "success" => Genuine(r, "ok")
       /\ audit[r] = "failed" => ranLog[r] # <<>> /\ ranLog[r][1].result # "ok"

(* The inductive invariant of the one-shot path: what the queue, the poll  *)
(* handlers (abandoned ones included), the agents and the results in       *)
(* flight know of a command never contradicts that it runs once.           *)
ExecInv == IdsInv /\ RequestInv /\ PollInv /\ RunInv /\ ResultInv

-------------------------------------------------------------------------------
(* The path implements the service.  A request is accepted when its        *)
(* command enters the queue; an aborted one before that counts as refused. *)
SvcPhase ==
  [r \in Requests |-> IF answer[r] = "none"
                      THEN IF Enqueued(r) THEN "accepted" ELSE "open"
                      ELSE IF Enqueued(r) THEN "answered" ELSE "refused"]

SvcReply ==
  [r \in Requests |-> IF Enqueued(r) /\ answer[r] # "none" THEN answer[r] ELSE None]

Service == INSTANCE ExecService WITH
  NoResults <- {"timeout", "aborted"},
  where <- cluster,
  runs <- ranLog,
  phase <- SvcPhase,
  reply <- SvcReply

(* The one-shot path, with every fault, implements the abstract service:   *)
(* accepted once, run at most once, answered once and with the run's own   *)
(* result, and every accepted request is answered.                         *)
ImplementsService == Service!SvcFairSpec
===============================================================================
