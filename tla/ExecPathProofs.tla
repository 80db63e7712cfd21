---------------------------- MODULE ExecPathProofs ----------------------------
(***************************************************************************)
(* Proofs about the one-shot command path, for any number of requests,     *)
(* agents, IDs and overlapping poll handlers.                              *)
(***************************************************************************)
EXTENDS ExecPath, TLAPS

(* Next, with the nesting of its disjuncts flattened. *)
LEMMA NextCases ==
  ASSUME Next
  PROVE  \/ \E r \in Requests, c \in Clusters : ExecRoute(r, c)
         \/ \E r \in Requests : ExecDeny(r)
         \/ \E r \in Requests : ExecEnqueue(r)
         \/ \E r \in Requests : ExecResult(r)
         \/ \E r \in Requests : ExecTimeout(r)
         \/ \E r \in Requests : ExecAnswer(r)
         \/ \E r \in Requests : ExecRemove(r)
         \/ \E s \in PollSlots, c \in Clusters : PollCall(c, s)
         \/ \E s \in PollSlots : PollNotFound(s)
         \/ \E s \in PollSlots : PollSnapshot(s)
         \/ \E s \in PollSlots, r \in Requests : PollMark(s, r)
         \/ \E s \in PollSlots : PollReturn(s)
         \/ \E m \in submits : SubmitLost(m)
         \/ \E m \in submits : SubmitTooLate(m)
         \/ \E m \in submits : SubmitFinish(m)
         \/ \E m \in submits : SubmitOffer(m)
         \/ \E c \in Clusters : PollFail(c)
         \/ \E c \in Clusters, r \in Requests, res \in Results : Execute(c, r, res)
         \/ \E c \in Clusters, a \in AgentIds : AgentRegister(c, a)
         \/ \E c \in Clusters : AgentHeartbeat(c)
         \/ \E c \in Clusters : AgentRestart(c)
         \/ \E S \in SUBSET AgentIds : DisconnectCheck(S)
         \/ CentralRestart
BY DEF Next, ExecStep, PollStep, SubmitStep, AgentStep

-------------------------------------------------------------------------------
(* Type correctness. *)

LEMMA TypeInit == Init => TypeOK
BY DEF Init, NewAgentStore, NewCommandQueue, TypeOK, StoreTypeOK, QueueTypeOK,
       AgentStatuses, CommandStatuses, Results, HandlerPcs, Answers, Refusals,
       AuditStatuses, Submission, Run

LEMMA TypeHttp ==
  ASSUME TypeOK, NEW r \in Requests
  PROVE  /\ (\E c \in Clusters : ExecRoute(r, c)) => TypeOK'
         /\ ExecDeny(r) => TypeOK'
         /\ ExecEnqueue(r) => TypeOK'
         /\ ExecResult(r) => TypeOK'
         /\ ExecTimeout(r) => TypeOK'
         /\ ExecAnswer(r) => TypeOK'
         /\ ExecRemove(r) => TypeOK'
<1> USE DEF TypeOK, StoreTypeOK, QueueTypeOK, HandlerPcs, Answers, Refusals, Results,
            storeVars, queueVars, httpVars, pollVars, agentVars
<1>1. ASSUME NEW c \in Clusters, ExecRoute(r, c) PROVE TypeOK'
  <2>1. cluster' \in [Requests -> Clusters \cup {None}]
    BY <1>1 DEF ExecRoute
  <2>2. handler' \in [Requests -> HandlerPcs] /\ answer' \in [Requests -> Answers]
    <3>1. \/ \E x \in Refusals : Refuse(r, x)
          \/ handler' = [handler EXCEPT ![r] = "routed"] /\ UNCHANGED answer
      BY <1>1 DEF ExecRoute
    <3>2. \E p \in {"done", "routed"} : handler' = [handler EXCEPT ![r] = p]
      BY <3>1 DEF Refuse
    <3>3. (\E x \in Refusals : answer' = [answer EXCEPT ![r] = x]) \/ UNCHANGED answer
      BY <3>1 DEF Refuse
    <3>4. handler' \in [Requests -> HandlerPcs]
      BY <3>2
    <3>5. answer' \in [Requests -> Answers]
      BY <3>3
    <3> QED
      BY <3>4, <3>5
  <2>3. routed' \in [Requests -> AgentIds \cup {None}]
    BY <1>1 DEF ExecRoute, GetByClusterName
  <2>4. QED
    BY <1>1, <2>1, <2>2, <2>3 DEF ExecRoute
<1>2. ASSUME ExecDeny(r) PROVE TypeOK'
  BY <1>2 DEF ExecDeny, Refuse, Record, AuditStatuses
<1>3. ASSUME ExecEnqueue(r) PROVE TypeOK'
  <2>1. handler' \in [Requests -> HandlerPcs] /\ answer' \in [Requests -> Answers]
    <3>1. CASE Refuse(r, "internal")
      BY <3>1 DEF Refuse
    <3>2. CASE handler' = [handler EXCEPT ![r] = "waiting"] /\ UNCHANGED answer
      BY <3>2
    <3>3. QED
      BY <1>3, <3>1, <3>2 DEF ExecEnqueue
  <2>2. QueueTypeOK'
    <3>1. CASE UNCHANGED queueVars
      BY <3>1
    <3>2. CASE Enqueue(r, routed[r])
      BY <3>2 DEF Enqueue, CommandStatuses
    <3>3. QED
      BY <1>3, <3>1, <3>2 DEF ExecEnqueue
  <2>3. QED
    BY <1>3, <2>1, <2>2 DEF ExecEnqueue
<1>4. ASSUME ExecResult(r) PROVE TypeOK'
  BY <1>4 DEF ExecResult, TakeResult
<1>5. ASSUME ExecTimeout(r) PROVE TypeOK'
  BY <1>5 DEF ExecTimeout, GiveUpWaiting, CommandStatuses
<1>6. ASSUME ExecAnswer(r) PROVE TypeOK'
  BY <1>6 DEF ExecAnswer, Record, AuditStatusOf, AuditStatuses
<1>7. ASSUME ExecRemove(r) PROVE TypeOK'
  BY <1>7 DEF ExecRemove, Remove
<1>8. QED
  BY <1>1, <1>2, <1>3, <1>4, <1>5, <1>6, <1>7

LEMMA TypePoll ==
  ASSUME TypeOK, NEW s \in PollSlots
  PROVE  /\ (\E c \in Clusters : PollCall(c, s)) => TypeOK'
         /\ PollNotFound(s) => TypeOK'
         /\ PollSnapshot(s) => TypeOK'
         /\ (\E r \in Requests : PollMark(s, r)) => TypeOK'
         /\ PollReturn(s) => TypeOK'
<1> USE DEF TypeOK, StoreTypeOK, QueueTypeOK, FreeSlot,
            storeVars, queueVars, httpVars, pollVars, agentVars
<1>1. ASSUME NEW c \in Clusters, PollCall(c, s) PROVE TypeOK'
  BY <1>1 DEF PollCall
<1>2. ASSUME PollNotFound(s) PROVE TypeOK'
  BY <1>2 DEF PollNotFound
<1>3. ASSUME PollSnapshot(s) PROVE TypeOK'
  BY <1>3 DEF PollSnapshot, GetPendingForAgent
<1>4. ASSUME NEW r \in Requests, PollMark(s, r) PROVE TypeOK'
  BY <1>4 DEF PollMark, MarkRunning, CommandStatuses
<1>5. ASSUME PollReturn(s) PROVE TypeOK'
  BY <1>5 DEF PollReturn
<1>6. QED
  BY <1>1, <1>2, <1>3, <1>4, <1>5

LEMMA TypeSubmit ==
  ASSUME TypeOK, NEW m \in submits
  PROVE  /\ SubmitLost(m) => TypeOK'
         /\ SubmitTooLate(m) => TypeOK'
         /\ SubmitFinish(m) => TypeOK'
         /\ SubmitOffer(m) => TypeOK'
<1> USE DEF TypeOK, StoreTypeOK, QueueTypeOK, Submission,
            storeVars, queueVars, httpVars, pollVars, agentVars
<1>1. ASSUME SubmitLost(m) PROVE TypeOK'
  BY <1>1 DEF SubmitLost
<1>2. ASSUME SubmitTooLate(m) PROVE TypeOK'
  BY <1>2 DEF SubmitTooLate
<1>3. ASSUME SubmitFinish(m) PROVE TypeOK'
  BY <1>3 DEF SubmitFinish, SetFinished, CommandStatuses
<1>4. ASSUME SubmitOffer(m) PROVE TypeOK'
  BY <1>4 DEF SubmitOffer, OfferResult
<1>5. QED
  BY <1>1, <1>2, <1>3, <1>4

LEMMA TypeAgent ==
  ASSUME TypeOK, NEW c \in Clusters
  PROVE  /\ PollFail(c) => TypeOK'
         /\ (\E r \in Requests, res \in Results : Execute(c, r, res)) => TypeOK'
         /\ (\E a \in AgentIds : AgentRegister(c, a)) => TypeOK'
         /\ AgentHeartbeat(c) => TypeOK'
         /\ AgentRestart(c) => TypeOK'
<1> USE DEF TypeOK, StoreTypeOK, QueueTypeOK, AgentStatuses,
            storeVars, queueVars, httpVars, pollVars, agentVars
<1>1. ASSUME PollFail(c) PROVE TypeOK'
  BY <1>1 DEF PollFail
<1>2. ASSUME NEW r \in Requests, NEW res \in Results, Execute(c, r, res) PROVE TypeOK'
  <2>1. ranLog' \in [Requests -> Seq(Run)]
    <3>1. [cluster |-> c, result |-> res] \in Run
      BY DEF Run
    <3>2. Append(ranLog[r], [cluster |-> c, result |-> res]) \in Seq(Run)
      BY <3>1
    <3>3. QED
      BY <1>2, <3>2 DEF Execute
  <2>2. submits' \in SUBSET Submission
    BY <1>2 DEF Execute, Submission
  <2>3. QED
    BY <1>2, <2>1, <2>2 DEF Execute
<1>3. ASSUME NEW a \in AgentIds, AgentRegister(c, a) PROVE TypeOK'
  BY <1>3 DEF AgentRegister, StoreRegister
<1>4. ASSUME AgentHeartbeat(c) PROVE TypeOK'
  BY <1>4 DEF AgentHeartbeat, UpdateHeartbeat
<1>5. ASSUME AgentRestart(c) PROVE TypeOK'
  BY <1>5 DEF AgentRestart
<1>6. QED
  BY <1>1, <1>2, <1>3, <1>4, <1>5

LEMMA TypeCentral ==
  ASSUME TypeOK
  PROVE  /\ (\E S \in SUBSET AgentIds : DisconnectCheck(S)) => TypeOK'
         /\ CentralRestart => TypeOK'
<1> USE DEF TypeOK, StoreTypeOK, QueueTypeOK, AgentStatuses,
            storeVars, queueVars, httpVars, pollVars, agentVars
<1>1. ASSUME NEW S \in SUBSET AgentIds, DisconnectCheck(S) PROVE TypeOK'
  BY <1>1 DEF DisconnectCheck, MarkDisconnected
<1>2. ASSUME CentralRestart PROVE TypeOK'
  BY <1>2 DEF CentralRestart, StoreLost, QueueLost, HandlerPcs, Answers
<1>3. QED
  BY <1>1, <1>2

LEMMA TypeNext == TypeOK /\ [Next]_vars => TypeOK'
<1> SUFFICES ASSUME TypeOK, [Next]_vars PROVE TypeOK'
  OBVIOUS
<1>1. CASE Next
  BY <1>1, NextCases, TypeHttp, TypePoll, TypeSubmit, TypeAgent, TypeCentral
<1>2. CASE UNCHANGED vars
  BY <1>2 DEF vars, storeVars, queueVars, httpVars, pollVars, agentVars,
              TypeOK, StoreTypeOK, QueueTypeOK
<1>3. QED
  BY <1>1, <1>2

(* Every variable of the registry, the queue, the handlers and the agents  *)
(* keeps its type.                                                         *)
THEOREM TypeCorrect == Spec => []TypeOK
BY TypeInit, TypeNext, PTL DEF Spec
-------------------------------------------------------------------------------
(* Every action preserves the inductive invariant.  Per action: the parts  *)
(* it does not touch, then each part it could disturb.                     *)

LEMMA InvHttp ==
  ASSUME TypeOK, TypeOK', ExecInv, NEW r0 \in Requests
  PROVE  /\ (\E c0 \in Clusters : ExecRoute(r0, c0)) => ExecInv'
         /\ ExecDeny(r0) => ExecInv'
         /\ ExecEnqueue(r0) => ExecInv'
         /\ ExecResult(r0) => ExecInv'
         /\ ExecTimeout(r0) => ExecInv'
         /\ ExecAnswer(r0) => ExecInv'
         /\ ExecRemove(r0) => ExecInv'
<1> USE NoneAssumption DEF ExecInv, TypeOK, StoreTypeOK, QueueTypeOK,
        storeVars, queueVars, httpVars, pollVars, agentVars, Enqueued, Held, Genuine
<1>1. ASSUME NEW c0 \in Clusters, ExecRoute(r0, c0) PROVE ExecInv'
  <2>1. IdsInv' /\ PollInv'
    BY <1>1 DEF ExecRoute, Refuse, GetByClusterName, Registered, IdsInv, PollInv
  <2>2. RequestInv'
    BY <1>1 DEF ExecRoute, Refuse, GetByClusterName, Registered, RequestInv
  <2>3. RunInv'
    BY <1>1 DEF ExecRoute, Refuse, GetByClusterName, Registered, RunInv, RequestInv
  <2>4. ResultInv'
    BY <1>1 DEF ExecRoute, Refuse, GetByClusterName, Registered, ResultInv, RequestInv, Results
  <2>5. QED
    BY <2>1, <2>2, <2>3, <2>4
<1>2. ASSUME ExecDeny(r0) PROVE ExecInv'
  <2>1. IdsInv' /\ PollInv' /\ RunInv'
    BY <1>2 DEF ExecDeny, Refuse, Record, IdsInv, PollInv, RunInv
  <2>2. RequestInv'
    BY <1>2 DEF ExecDeny, Refuse, Record, RequestInv
  <2>3. ResultInv'
    BY <1>2 DEF ExecDeny, Refuse, Record, ResultInv, RequestInv, Results
  <2>4. QED
    BY <2>1, <2>2, <2>3
<1>3. ASSUME ExecEnqueue(r0) PROVE ExecInv'
  <2>1. IdsInv'
    BY <1>3 DEF ExecEnqueue, Refuse, Enqueue, IdsInv
  <2>2. RequestInv'
    BY <1>3 DEF ExecEnqueue, Refuse, Enqueue, RequestInv
  <2>3. PollInv'
    BY <1>3 DEF ExecEnqueue, Refuse, Enqueue, PollInv, RequestInv
  <2>4. RunInv'
    BY <1>3 DEF ExecEnqueue, Refuse, Enqueue, RunInv, RequestInv
  <2>5. ResultInv'
    BY <1>3 DEF ExecEnqueue, Refuse, Enqueue, ResultInv, RequestInv, Results
  <2>6. QED
    BY <2>1, <2>2, <2>3, <2>4, <2>5
<1>4. ASSUME ExecResult(r0) PROVE ExecInv'
  <2>1. IdsInv' /\ PollInv' /\ RunInv'
    BY <1>4 DEF ExecResult, TakeResult, IdsInv, PollInv, RunInv
  <2>2. RequestInv'
    BY <1>4 DEF ExecResult, TakeResult, RequestInv, RunInv, ResultInv
  <2>3. ResultInv'
    <3>1. Genuine(r0, resultCh[r0]) /\ resultCh[r0] # "none"
      BY <1>4 DEF ExecResult, TakeResult, ResultInv, Results
    <3>2. \A r \in Requests : outcome'[r] \in Results => Genuine(r, outcome'[r])
      BY <1>4, <3>1 DEF ExecResult, ResultInv
    <3>3. \A r \in Requests : resultCh'[r] # "empty" => Genuine(r, resultCh'[r])
      BY <1>4 DEF ExecResult, TakeResult, ResultInv
    <3>4. \A r \in Requests : handler'[r] = "answering" => outcome'[r] # "none"
      BY <1>4, <3>1 DEF ExecResult, ResultInv
    <3>5. \A r \in Requests : audit[r] = "denied" => ~Enqueued(r) /\ handler'[r] = "done"
      BY <1>4 DEF ExecResult, ResultInv
    <3>6. QED
      BY <1>4, <3>2, <3>3, <3>4, <3>5 DEF ExecResult, TakeResult, ResultInv
  <2>4. QED
    BY <2>1, <2>2, <2>3
<1>5. ASSUME ExecTimeout(r0) PROVE ExecInv'
  <2>1. IdsInv'
    BY <1>5 DEF ExecTimeout, GiveUpWaiting, IdsInv
  <2>2. RequestInv'
    BY <1>5 DEF ExecTimeout, GiveUpWaiting, RequestInv
  <2>3. PollInv'
    BY <1>5 DEF ExecTimeout, GiveUpWaiting, PollInv
  <2>4. RunInv'
    BY <1>5 DEF ExecTimeout, GiveUpWaiting, RunInv
  <2>5. ResultInv'
    BY <1>5 DEF ExecTimeout, GiveUpWaiting, ResultInv, Results
  <2>6. QED
    BY <2>1, <2>2, <2>3, <2>4, <2>5
<1>6. ASSUME ExecAnswer(r0) PROVE ExecInv'
  <2>1. IdsInv' /\ PollInv' /\ RunInv'
    BY <1>6 DEF ExecAnswer, Record, AuditStatusOf, IdsInv, PollInv, RunInv
  <2>2. RequestInv'
    BY <1>6 DEF ExecAnswer, RequestInv, ResultInv
  <2>3. ResultInv'
    BY <1>6 DEF ExecAnswer, Record, AuditStatusOf, ResultInv
  <2>4. QED
    BY <2>1, <2>2, <2>3
<1>7. ASSUME ExecRemove(r0) PROVE ExecInv'
  <2>1. IdsInv' /\ RunInv'
    BY <1>7 DEF ExecRemove, Remove, IdsInv, RunInv
  <2>2. RequestInv'
    BY <1>7 DEF ExecRemove, Remove, RequestInv
  <2>3. PollInv'
    BY <1>7 DEF ExecRemove, Remove, PollInv, RequestInv
  <2>4. ResultInv'
    BY <1>7 DEF ExecRemove, Remove, ResultInv
  <2>5. QED
    BY <2>1, <2>2, <2>3, <2>4
<1>8. QED
  BY <1>1, <1>2, <1>3, <1>4, <1>5, <1>6, <1>7

LEMMA InvPoll ==
  ASSUME TypeOK, TypeOK', ExecInv, NEW s0 \in PollSlots
  PROVE  /\ (\E c0 \in Clusters : PollCall(c0, s0)) => ExecInv'
         /\ PollNotFound(s0) => ExecInv'
         /\ PollSnapshot(s0) => ExecInv'
         /\ (\E r0 \in Requests : PollMark(s0, r0)) => ExecInv'
         /\ PollReturn(s0) => ExecInv'
<1> USE NoneAssumption DEF ExecInv, TypeOK, StoreTypeOK, QueueTypeOK,
        storeVars, queueVars, httpVars, pollVars, agentVars, Enqueued, Held, Genuine
<1>1. ASSUME NEW c0 \in Clusters, PollCall(c0, s0) PROVE ExecInv'
  <2>1. IdsInv' /\ RequestInv' /\ ResultInv'
    BY <1>1 DEF PollCall, IdsInv, RequestInv, ResultInv
  <2>2. PollInv'
    BY <1>1 DEF PollCall, PollInv, IdsInv
  <2>3. RunInv'
    BY <1>1 DEF PollCall, RunInv, PollInv
  <2>4. QED
    BY <2>1, <2>2, <2>3
<1>2. ASSUME PollNotFound(s0) PROVE ExecInv'
  <2>1. IdsInv' /\ RequestInv' /\ ResultInv'
    BY <1>2 DEF PollNotFound, FreeSlot, IdsInv, RequestInv, ResultInv
  <2>2. PollInv'
    BY <1>2 DEF PollNotFound, FreeSlot, PollInv
  <2>3. RunInv'
    BY <1>2 DEF PollNotFound, FreeSlot, RunInv, PollInv
  <2>4. QED
    BY <2>1, <2>2, <2>3
<1>3. ASSUME PollSnapshot(s0) PROVE ExecInv'
  <2>1. IdsInv' /\ RequestInv' /\ ResultInv'
    BY <1>3 DEF PollSnapshot, GetPendingForAgent, IdsInv, RequestInv, ResultInv
  <2>2. PollInv'
    BY <1>3 DEF PollSnapshot, GetPendingForAgent, PollInv, RequestInv
  <2>3. RunInv'
    BY <1>3 DEF PollSnapshot, GetPendingForAgent, RunInv, PollInv
  <2>4. QED
    BY <2>1, <2>2, <2>3
<1>4. ASSUME NEW r0 \in Requests, PollMark(s0, r0) PROVE ExecInv'
  <2>1. IdsInv'
    BY <1>4 DEF PollMark, MarkRunning, IdsInv
  <2>2. RequestInv'
    BY <1>4 DEF PollMark, MarkRunning, RequestInv, PollInv
  <2>3. PollInv'
    BY <1>4 DEF PollMark, MarkRunning, PollInv
  <2>4. RunInv'
    BY <1>4 DEF PollMark, MarkRunning, RunInv
  <2>5. ResultInv'
    BY <1>4 DEF PollMark, MarkRunning, ResultInv, RequestInv, PollInv
  <2>6. QED
    BY <2>1, <2>2, <2>3, <2>4, <2>5
<1>5. ASSUME PollReturn(s0) PROVE ExecInv'
  <2>1. IdsInv' /\ RequestInv' /\ ResultInv'
    BY <1>5 DEF PollReturn, FreeSlot, IdsInv, RequestInv, ResultInv
  <2>2. PollInv'
    BY <1>5 DEF PollReturn, FreeSlot, PollInv
  <2>3. RunInv'
    <3>1. ASSUME NEW c \in Clusters, NEW r \in batch'[c]
          PROVE  Enqueued(r) /\ cluster[r] = c /\ status[r] # "pending" /\ ranLog[r] = <<>>
      <4>1. CASE call[c] = s0
        <5>1. r \in pollOut[s0] /\ call[c] # None
          BY <1>5, <4>1, SlotAssumption DEF PollReturn
        <5>2. Enqueued(r) /\ status[r] # "pending" /\ agentOf[r] = pollAgent[s0]
          BY <5>1 DEF PollInv
        <5>3. cluster[r] = c
          BY <4>1, <5>1, <5>2 DEF PollInv, RequestInv
        <5>4. ranLog[r] = <<>>
          BY <4>1, <5>1 DEF RunInv
        <5>5. QED
          BY <5>2, <5>3, <5>4
      <4>2. CASE call[c] # s0
        BY <1>5, <4>2 DEF PollReturn, RunInv
      <4>3. QED
        BY <4>1, <4>2
    <3>2. ASSUME NEW c \in Clusters, call'[c] # None
          PROVE  call'[c] = call[c] /\ Held(call[c])' = Held(call[c])
      BY <1>5, <3>2 DEF PollReturn, FreeSlot
    <3>3. QED
      BY <1>5, <3>1, <3>2 DEF PollReturn, RunInv
  <2>4. QED
    BY <2>1, <2>2, <2>3
<1>6. QED
  BY <1>1, <1>2, <1>3, <1>4, <1>5

LEMMA InvSubmit ==
  ASSUME TypeOK, TypeOK', ExecInv, NEW m0 \in submits
  PROVE  /\ SubmitLost(m0) => ExecInv'
         /\ SubmitTooLate(m0) => ExecInv'
         /\ SubmitFinish(m0) => ExecInv'
         /\ SubmitOffer(m0) => ExecInv'
<1> USE NoneAssumption DEF ExecInv, TypeOK, StoreTypeOK, QueueTypeOK,
        storeVars, queueVars, httpVars, pollVars, agentVars, Enqueued, Held, Genuine
<1>1. ASSUME SubmitLost(m0) PROVE ExecInv'
  <2>1. IdsInv' /\ RequestInv' /\ PollInv' /\ RunInv'
    BY <1>1 DEF SubmitLost, IdsInv, RequestInv, PollInv, RunInv
  <2>2. ResultInv'
    BY <1>1 DEF SubmitLost, ResultInv
  <2>3. QED
    BY <2>1, <2>2
<1>2. ASSUME SubmitTooLate(m0) PROVE ExecInv'
  <2>1. IdsInv' /\ RequestInv' /\ PollInv' /\ RunInv'
    BY <1>2 DEF SubmitTooLate, IdsInv, RequestInv, PollInv, RunInv
  <2>2. ResultInv'
    BY <1>2 DEF SubmitTooLate, ResultInv
  <2>3. QED
    BY <2>1, <2>2
<1>3. ASSUME SubmitFinish(m0) PROVE ExecInv'
  <2>1. IdsInv'
    BY <1>3 DEF SubmitFinish, SetFinished, IdsInv
  <2>2. RequestInv'
    BY <1>3 DEF SubmitFinish, SetFinished, RequestInv
  <2>3. PollInv'
    BY <1>3 DEF SubmitFinish, SetFinished, PollInv
  <2>4. RunInv'
    BY <1>3 DEF SubmitFinish, SetFinished, RunInv
  <2>5. ResultInv'
    <3>1. ASSUME NEW m \in submits' PROVE Genuine(m.req, m.result)
      <4>1. CASE m \in submits
        BY <4>1 DEF ResultInv
      <4>2. CASE m = [m0 EXCEPT !.pc = "offering"]
        <5>1. m.req = m0.req /\ m.result = m0.result
          BY <4>2 DEF Submission
        <5>2. QED
          BY <5>1 DEF ResultInv
      <4>3. QED
        BY <1>3, <4>1, <4>2 DEF SubmitFinish
    <3>2. \A r \in Requests : audit[r] = "denied" => status'[r] = "none"
      BY <1>3 DEF SubmitFinish, SetFinished, ResultInv, RequestInv
    <3>3. QED
      BY <1>3, <3>1, <3>2 DEF SubmitFinish, SetFinished, ResultInv
  <2>6. QED
    BY <2>1, <2>2, <2>3, <2>4, <2>5
<1>4. ASSUME SubmitOffer(m0) PROVE ExecInv'
  <2>1. IdsInv' /\ RequestInv' /\ PollInv' /\ RunInv'
    BY <1>4 DEF SubmitOffer, OfferResult, IdsInv, RequestInv, PollInv, RunInv
  <2>2. ResultInv'
    BY <1>4 DEF SubmitOffer, OfferResult, ResultInv
  <2>3. QED
    BY <2>1, <2>2
<1>5. QED
  BY <1>1, <1>2, <1>3, <1>4

LEMMA InvAgent ==
  ASSUME TypeOK, TypeOK', ExecInv, NEW c0 \in Clusters
  PROVE  /\ PollFail(c0) => ExecInv'
         /\ (\E r0 \in Requests, res0 \in Results : Execute(c0, r0, res0)) => ExecInv'
         /\ (\E a0 \in AgentIds : AgentRegister(c0, a0)) => ExecInv'
         /\ AgentHeartbeat(c0) => ExecInv'
         /\ AgentRestart(c0) => ExecInv'
<1> USE NoneAssumption DEF ExecInv, TypeOK, StoreTypeOK, QueueTypeOK,
        storeVars, queueVars, httpVars, pollVars, agentVars, Enqueued, Held, Genuine
<1>1. ASSUME PollFail(c0) PROVE ExecInv'
  <2>1. IdsInv' /\ RequestInv' /\ ResultInv'
    BY <1>1 DEF PollFail, IdsInv, RequestInv, ResultInv
  <2>2. PollInv'
    BY <1>1 DEF PollFail, PollInv
  <2>3. RunInv'
    BY <1>1 DEF PollFail, RunInv
  <2>4. QED
    BY <2>1, <2>2, <2>3
<1>2. ASSUME NEW r0 \in Requests, NEW res0 \in Results, Execute(c0, r0, res0) PROVE ExecInv'
  <2>1. IdsInv' /\ RequestInv'
    BY <1>2 DEF Execute, IdsInv, RequestInv
  <2>2. PollInv'
    BY <1>2 DEF Execute, PollInv
  <2>3. RunInv'
    BY <1>2 DEF Execute, RunInv, PollInv, RequestInv
  <2>4. ResultInv'
    BY <1>2 DEF Execute, ResultInv, RunInv
  <2>5. QED
    BY <2>1, <2>2, <2>3, <2>4
<1>3. ASSUME NEW a0 \in AgentIds, AgentRegister(c0, a0) PROVE ExecInv'
  <2>1. RunInv' /\ ResultInv'
    BY <1>3 DEF AgentRegister, StoreRegister, RunInv, ResultInv
  <2>2. IdsInv'
    BY <1>3 DEF AgentRegister, StoreRegister, IdsInv
  <2>3. RequestInv'
    BY <1>3 DEF AgentRegister, StoreRegister, RequestInv, IdsInv
  <2>4. PollInv'
    BY <1>3 DEF AgentRegister, StoreRegister, PollInv, IdsInv, RequestInv
  <2>5. QED
    BY <2>1, <2>2, <2>3, <2>4
<1>4. ASSUME AgentHeartbeat(c0) PROVE ExecInv'
  BY <1>4 DEF AgentHeartbeat, UpdateHeartbeat, IdsInv, RequestInv, PollInv, RunInv, ResultInv
<1>5. ASSUME AgentRestart(c0) PROVE ExecInv'
  <2>1. RequestInv' /\ ResultInv'
    BY <1>5 DEF AgentRestart, RequestInv, ResultInv
  <2>2. IdsInv'
    BY <1>5 DEF AgentRestart, IdsInv
  <2>3. PollInv'
    BY <1>5 DEF AgentRestart, PollInv
  <2>4. RunInv'
    BY <1>5 DEF AgentRestart, RunInv
  <2>5. QED
    BY <2>1, <2>2, <2>3, <2>4
<1>6. QED
  BY <1>1, <1>2, <1>3, <1>4, <1>5

LEMMA InvCentral ==
  ASSUME TypeOK, TypeOK', ExecInv
  PROVE  /\ (\E S \in SUBSET AgentIds : DisconnectCheck(S)) => ExecInv'
         /\ CentralRestart => ExecInv'
<1> USE NoneAssumption DEF ExecInv, TypeOK, StoreTypeOK, QueueTypeOK,
        storeVars, queueVars, httpVars, pollVars, agentVars, Enqueued, Held, Genuine
<1>1. ASSUME NEW S \in SUBSET AgentIds, DisconnectCheck(S) PROVE ExecInv'
  BY <1>1 DEF DisconnectCheck, MarkDisconnected, IdsInv, RequestInv, PollInv, RunInv, ResultInv
<1>2. ASSUME CentralRestart PROVE ExecInv'
  <2>1. IdsInv'
    BY <1>2 DEF CentralRestart, StoreLost, QueueLost, IdsInv
  <2>2. RequestInv'
    BY <1>2 DEF CentralRestart, StoreLost, QueueLost, RequestInv
  <2>3. PollInv'
    BY <1>2 DEF CentralRestart, StoreLost, QueueLost, PollInv
  <2>4. RunInv'
    BY <1>2 DEF CentralRestart, StoreLost, QueueLost, RunInv
  <2>5. ResultInv'
    BY <1>2 DEF CentralRestart, StoreLost, QueueLost, ResultInv, Results
  <2>6. QED
    BY <2>1, <2>2, <2>3, <2>4, <2>5
<1>3. QED
  BY <1>1, <1>2

LEMMA ExecInvInit == Init => ExecInv
BY NoneAssumption DEF Init, NewAgentStore, NewCommandQueue, ExecInv, IdsInv, RequestInv,
   PollInv, RunInv, ResultInv, Enqueued, Held, Genuine, Results

LEMMA ExecInvNext == TypeOK /\ ExecInv /\ [Next]_vars => ExecInv'
<1> SUFFICES ASSUME TypeOK, ExecInv, [Next]_vars PROVE ExecInv'
  OBVIOUS
<1>1. TypeOK'
  BY TypeNext
<1>2. CASE Next
  BY <1>1, <1>2, NextCases, InvHttp, InvPoll, InvSubmit, InvAgent, InvCentral
<1>3. CASE UNCHANGED vars
  BY <1>3 DEF vars, storeVars, queueVars, httpVars, pollVars, agentVars, ExecInv, IdsInv,
              RequestInv, PollInv, RunInv, ResultInv, Enqueued, Held, Genuine
<1>4. QED
  BY <1>2, <1>3

(* ExecInv holds in every reachable state. *)
THEOREM ExecInvariant == Spec => []ExecInv
BY TypeCorrect, ExecInvInit, ExecInvNext, PTL DEF Spec

-------------------------------------------------------------------------------
(* What follows from the invariant. *)

(* The run log of a request has no entry, or one at index 1. *)
LEMMA OneRun ==
  ASSUME TypeOK, ExecInv, NEW r \in Requests
  PROVE  /\ Len(ranLog[r]) <= 1
         /\ \A i \in DOMAIN ranLog[r] : i = 1 /\ ranLog[r] # <<>>
         /\ ranLog[r] # <<>> => 1 \in DOMAIN ranLog[r]
<1>1. ranLog[r] \in Seq(Run)
  BY DEF TypeOK
<1>2. CASE ranLog[r] = <<>>
  BY <1>2
<1>3. CASE ranLog[r] # <<>>
  <2>1. Len(ranLog[r]) = 1
    BY <1>3 DEF ExecInv, RunInv
  <2>2. DOMAIN ranLog[r] = 1..1
    BY <1>1, <2>1
  <2>3. QED
    BY <1>3, <2>1, <2>2
<1>4. QED
  BY <1>2, <1>3

(* No command is executed twice: not by overlapping polls, re-registered   *)
(* agents, retries or restarts (GetPendingCommands, runCommandPollLoop).   *)
THEOREM RunsAtMostOnce == Spec => []AtMostOnce
<1>1. TypeOK /\ ExecInv => AtMostOnce
  BY OneRun DEF AtMostOnce
<1>2. QED
  BY <1>1, TypeCorrect, ExecInvariant, PTL

(* A command runs only after handleExecCommand's own policy check allowed  *)
(* it, and only in the cluster the request named.                          *)
THEOREM RunsOnlyAsAuthorized == Spec => []RunsAsAuthorized
<1>1. TypeOK /\ ExecInv => RunsAsAuthorized
  BY OneRun DEF RunsAsAuthorized, ExecInv, RunInv, RequestInv
<1>2. QED
  BY <1>1, TypeCorrect, ExecInvariant, PTL

(* The result in a 200 response is that of a run of the same request. *)
THEOREM AnswersAreGenuine == Spec => []AnswerGenuine
<1>1. TypeOK /\ ExecInv => AnswerGenuine
  BY OneRun DEF AnswerGenuine, ExecInv, ResultInv, Genuine
<1>2. QED
  BY <1>1, TypeCorrect, ExecInvariant, PTL

(* An audit row says what happened to the command, also in the long run. *)
THEOREM AuditIsTruthful == Spec => []AuditTruthful
<1>1. TypeOK /\ ExecInv => AuditTruthful
  <2> SUFFICES ASSUME TypeOK, ExecInv, NEW r \in Requests
               PROVE  /\ audit[r] = "denied" => ranLog[r] = <<>>
                      /\ audit[r] = "success" =>
                           \E i \in DOMAIN ranLog[r] : ranLog[r][i].result = "ok"
                      /\ audit[r] = "failed" =>
                           \E i \in DOMAIN ranLog[r] : ranLog[r][i].result # "ok"
    BY DEF AuditTruthful
  <2>1. audit[r] = "denied" => ranLog[r] = <<>>
    BY DEF ExecInv, ResultInv, RunInv
  <2>2. audit[r] = "success" => \E i \in DOMAIN ranLog[r] : ranLog[r][i].result = "ok"
    BY OneRun DEF ExecInv, ResultInv, Genuine
  <2>3. audit[r] = "failed" => \E i \in DOMAIN ranLog[r] : ranLog[r][i].result # "ok"
    BY OneRun DEF ExecInv, ResultInv
  <2>4. QED
    BY <2>1, <2>2, <2>3
<1>2. QED
  BY <1>1, TypeCorrect, ExecInvariant, PTL

(* Every entry of the command queue has a handler that will remove it. *)
THEOREM QueueDoesNotLeak == Spec => []QueueHasOwner
<1>1. TypeOK /\ ExecInv => QueueHasOwner
  BY DEF QueueHasOwner, TypeOK, QueueTypeOK, HandlerPcs, ExecInv, RequestInv
<1>2. QED
  BY <1>1, TypeCorrect, ExecInvariant, PTL

-------------------------------------------------------------------------------
(* NoLostWakeup is inductive by itself. *)

(* A step that finishes no awaited command and touches no result. *)
LEMMA WakeupFrame ==
  ASSUME NoLostWakeup, UNCHANGED <<resultCh, submits>>,
         \A r \in Requests : handler'[r] = "waiting" /\ status'[r] \in {"completed", "failed"}
                            => handler[r] = "waiting" /\ status[r] \in {"completed", "failed"}
  PROVE  NoLostWakeup'
BY DEF NoLostWakeup

LEMMA WakeupHttp ==
  ASSUME TypeOK, NoLostWakeup, NEW r0 \in Requests
  PROVE  /\ (\E c0 \in Clusters : ExecRoute(r0, c0)) => NoLostWakeup'
         /\ ExecDeny(r0) \/ ExecAnswer(r0) \/ ExecRemove(r0) => NoLostWakeup'
         /\ ExecEnqueue(r0) => NoLostWakeup'
         /\ ExecResult(r0) => NoLostWakeup'
         /\ ExecTimeout(r0) => NoLostWakeup'
<1> USE DEF TypeOK, QueueTypeOK, NoLostWakeup, queueVars
<1>1. ASSUME NEW c0 \in Clusters, ExecRoute(r0, c0) PROVE NoLostWakeup'
  <2>1. \A r \in Requests : handler'[r] = "waiting" => handler[r] = "waiting"
    BY <1>1 DEF ExecRoute, Refuse
  <2>2. QED
    BY <1>1, <2>1, WakeupFrame DEF ExecRoute
<1>2. ASSUME ExecDeny(r0) \/ ExecAnswer(r0) \/ ExecRemove(r0) PROVE NoLostWakeup'
  <2>1. \A r \in Requests : handler'[r] = "waiting" => handler[r] = "waiting"
    BY <1>2 DEF ExecDeny, Refuse, ExecAnswer, ExecRemove
  <2>2. UNCHANGED <<status, resultCh, submits>>
    BY <1>2 DEF ExecDeny, ExecAnswer, ExecRemove, Remove
  <2>3. QED
    BY <2>1, <2>2, WakeupFrame
<1>3. ASSUME ExecEnqueue(r0) PROVE NoLostWakeup'
  <2>1. CASE Refuse(r0, "internal") /\ UNCHANGED queueVars
    BY <1>3, <2>1, WakeupFrame DEF ExecEnqueue, Refuse
  <2>2. CASE Enqueue(r0, routed[r0]) /\ handler' = [handler EXCEPT ![r0] = "waiting"]
    BY <1>3, <2>2, WakeupFrame DEF ExecEnqueue, Enqueue
  <2>3. QED
    BY <1>3, <2>1, <2>2 DEF ExecEnqueue
<1>4. ASSUME ExecResult(r0) PROVE NoLostWakeup'
  BY <1>4 DEF ExecResult, TakeResult
<1>5. ASSUME ExecTimeout(r0) PROVE NoLostWakeup'
  BY <1>5 DEF ExecTimeout, GiveUpWaiting
<1>6. QED
  BY <1>1, <1>2, <1>3, <1>4, <1>5

LEMMA WakeupSubmit ==
  ASSUME TypeOK, NoLostWakeup, NEW m0 \in submits
  PROVE  /\ SubmitLost(m0) \/ SubmitTooLate(m0) => NoLostWakeup'
         /\ SubmitFinish(m0) => NoLostWakeup'
         /\ SubmitOffer(m0) => NoLostWakeup'
<1> USE DEF TypeOK, QueueTypeOK, NoLostWakeup, queueVars, httpVars
<1>1. ASSUME SubmitLost(m0) \/ SubmitTooLate(m0) PROVE NoLostWakeup'
  BY <1>1 DEF SubmitLost, SubmitTooLate
<1>2. ASSUME SubmitFinish(m0) PROVE NoLostWakeup'
  <2>1. [m0 EXCEPT !.pc = "offering"].req = m0.req /\ [m0 EXCEPT !.pc = "offering"].pc = "offering"
    BY DEF Submission
  <2>2. \A m \in submits : m.pc = "offering" => m \in submits'
    BY <1>2 DEF SubmitFinish
  <2>3. \A r \in Requests : r # m0.req => status'[r] = status[r]
    BY <1>2 DEF SubmitFinish, SetFinished, Submission
  <2>4. UNCHANGED <<handler, resultCh>> /\ [m0 EXCEPT !.pc = "offering"] \in submits'
    BY <1>2 DEF SubmitFinish, SetFinished
  <2>5. ASSUME NEW r \in Requests, handler[r] = "waiting", status'[r] \in {"completed", "failed"}
        PROVE  resultCh[r] # "empty" \/ \E m \in submits' : m.req = r /\ m.pc = "offering"
    <3>1. CASE r = m0.req
      BY <2>1, <2>4, <3>1
    <3>2. CASE r # m0.req
      BY <2>2, <2>3, <2>5, <3>2
    <3>3. QED
      BY <3>1, <3>2
  <2>6. QED
    BY <2>4, <2>5
<1>3. ASSUME SubmitOffer(m0) PROVE NoLostWakeup'
  <2>1. resultCh'[m0.req] # "empty"
    BY <1>3 DEF SubmitOffer, OfferResult, Submission, Results
  <2>2. \A r \in Requests : resultCh[r] # "empty" => resultCh'[r] # "empty"
    BY <1>3, <2>1 DEF SubmitOffer, OfferResult, Submission
  <2>3. \A m \in submits : m.req # m0.req => m \in submits'
    BY <1>3 DEF SubmitOffer
  <2>4. UNCHANGED <<handler, status>>
    BY <1>3 DEF SubmitOffer, OfferResult
  <2>5. ASSUME NEW r \in Requests, handler[r] = "waiting", status[r] \in {"completed", "failed"}
        PROVE  resultCh'[r] # "empty" \/ \E m \in submits' : m.req = r /\ m.pc = "offering"
    BY <2>1, <2>2, <2>3, <2>5
  <2>6. QED
    BY <2>4, <2>5
<1>4. QED
  BY <1>1, <1>2, <1>3

LEMMA WakeupOther ==
  ASSUME TypeOK, NoLostWakeup, Next
  PROVE  \/ NoLostWakeup'
         \/ \E r0 \in Requests : ExecStep(r0)
         \/ SubmitStep
<1> USE DEF TypeOK, QueueTypeOK, NoLostWakeup, queueVars, httpVars
<1>1. ASSUME NEW s \in PollSlots, NEW r \in Requests, PollMark(s, r) PROVE NoLostWakeup'
  BY <1>1 DEF PollMark, MarkRunning
<1>2. ASSUME CentralRestart PROVE NoLostWakeup'
  BY <1>2 DEF CentralRestart, QueueLost
<1>3. ASSUME NEW c \in Clusters, NEW r \in Requests, NEW res \in Results, Execute(c, r, res)
      PROVE  NoLostWakeup'
  BY <1>3 DEF Execute
<1>4. ASSUME UNCHANGED <<handler, queueVars, submits>> PROVE NoLostWakeup'
  BY <1>4
<1>5. QED
  BY <1>1, <1>2, <1>3, <1>4 DEF Next, PollStep, PollCall, PollNotFound, PollSnapshot, PollReturn,
     AgentStep, PollFail, AgentRegister, AgentHeartbeat, AgentRestart, DisconnectCheck

(* A finished command's result reaches, or is about to reach, the handler  *)
(* that waits for it (Complete, Fail and WaitForResult).                   *)
THEOREM NoWakeupIsLost == Spec => []NoLostWakeup
<1>1. Init => NoLostWakeup
  BY DEF Init, NewCommandQueue, NoLostWakeup
<1>2. TypeOK /\ NoLostWakeup /\ [Next]_vars => NoLostWakeup'
  <2> SUFFICES ASSUME TypeOK, NoLostWakeup, [Next]_vars PROVE NoLostWakeup'
    OBVIOUS
  <2>1. CASE Next
    <3>1. ASSUME NEW r0 \in Requests, ExecStep(r0) PROVE NoLostWakeup'
      BY <3>1, WakeupHttp DEF ExecStep
    <3>2. ASSUME SubmitStep PROVE NoLostWakeup'
      BY <3>2, WakeupSubmit DEF SubmitStep
    <3>3. QED
      BY <2>1, <3>1, <3>2, WakeupOther
  <2>2. CASE UNCHANGED vars
    BY <2>2 DEF vars, queueVars, httpVars, NoLostWakeup
  <2>3. QED
    BY <2>1, <2>2
<1>3. QED
  BY <1>1, <1>2, TypeCorrect, PTL DEF Spec

-------------------------------------------------------------------------------
(* The path implements ExecService: the step simulation. *)

LEMMA ServiceInit == Init => Service!SvcInit
BY DEF Init, NewCommandQueue, Service!SvcInit, SvcPhase, SvcReply, Enqueued

(* A step that changes neither a request's answer, nor its cluster, nor    *)
(* its runs, nor whether it was enqueued, is invisible to the service.     *)
LEMMA ServiceStutter ==
  ASSUME UNCHANGED <<cluster, ranLog, answer>>,
         \A r \in Requests : Enqueued(r)' = Enqueued(r)
  PROVE  UNCHANGED Service!svcVars
BY DEF Service!svcVars, SvcPhase, SvcReply

(* A step that changes the phase of one request only. *)
LEMMA ServicePhase ==
  ASSUME NEW r0 \in Requests, NEW x, SvcPhase'[r0] = x,
         \A r \in Requests \ {r0} : SvcPhase'[r] = SvcPhase[r]
  PROVE  SvcPhase' = [SvcPhase EXCEPT ![r0] = x]
BY DEF SvcPhase

LEMMA ServiceHttp ==
  ASSUME TypeOK, TypeOK', ExecInv, ExecInv', NEW r0 \in Requests
  PROVE  /\ (\E c0 \in Clusters : ExecRoute(r0, c0)) => Service!SvcNext
         /\ ExecDeny(r0) => Service!SvcNext
         /\ ExecEnqueue(r0) => Service!SvcNext
         /\ ExecResult(r0) => UNCHANGED Service!svcVars
         /\ ExecTimeout(r0) => UNCHANGED Service!svcVars
         /\ ExecAnswer(r0) => Service!SvcNext
         /\ ExecRemove(r0) => UNCHANGED Service!svcVars
<1> USE NoneAssumption DEF storeVars, queueVars, httpVars, pollVars, agentVars, Enqueued
<1>1. ASSUME NEW c0 \in Clusters, ExecRoute(r0, c0) PROVE Service!SvcNext
  <2>1. handler[r0] = "new" /\ cluster[r0] = None /\ answer[r0] = "none" /\ ~Enqueued(r0)
    BY <1>1 DEF ExecRoute, ExecInv, RequestInv
  <2>2. UNCHANGED <<status, ranLog>> /\ cluster' = [cluster EXCEPT ![r0] = c0]
    BY <1>1 DEF ExecRoute
  <2>3. \/ answer' = answer
        \/ \E x \in Refusals : answer' = [answer EXCEPT ![r0] = x]
    BY <1>1 DEF ExecRoute, Refuse, Refusals
  <2>4. UNCHANGED SvcReply
    BY <2>1, <2>2, <2>3 DEF SvcReply, TypeOK
  <2>5. \/ UNCHANGED SvcPhase
        \/ SvcPhase' = [SvcPhase EXCEPT ![r0] = "refused"]
    <3>1. CASE answer' = answer
      BY <2>2, <3>1 DEF SvcPhase
    <3>2. ASSUME NEW x \in Refusals, answer' = [answer EXCEPT ![r0] = x]
          PROVE  SvcPhase' = [SvcPhase EXCEPT ![r0] = "refused"]
      <4>1. SvcPhase'[r0] = "refused"
        BY <2>1, <2>2, <3>2 DEF SvcPhase, TypeOK, Refusals
      <4>2. \A r \in Requests \ {r0} : SvcPhase'[r] = SvcPhase[r]
        BY <2>2, <3>2 DEF SvcPhase, TypeOK
      <4>3. QED
        BY <4>1, <4>2, ServicePhase
    <3>3. QED
      BY <2>3, <3>1, <3>2
  <2>6. Service!Arrive(r0, c0)
    BY <2>1, <2>2, <2>4, <2>5 DEF Service!Arrive, SvcPhase
  <2>7. QED
    BY <2>6 DEF Service!SvcNext
<1>2. ASSUME ExecDeny(r0) PROVE Service!SvcNext
  <2>1. cluster[r0] # None /\ answer[r0] = "none" /\ ~Enqueued(r0)
    BY <1>2 DEF ExecDeny, ExecInv, RequestInv
  <2>2. UNCHANGED <<status, ranLog, cluster>> /\ answer' = [answer EXCEPT ![r0] = "denied"]
    BY <1>2 DEF ExecDeny, Refuse
  <2>3. UNCHANGED SvcReply /\ SvcPhase' = [SvcPhase EXCEPT ![r0] = "refused"]
    <3>1. UNCHANGED SvcReply
      BY <2>1, <2>2 DEF SvcReply, TypeOK
    <3>2. /\ SvcPhase'[r0] = "refused"
          /\ \A r \in Requests \ {r0} : SvcPhase'[r] = SvcPhase[r]
      BY <2>1, <2>2 DEF SvcPhase, TypeOK
    <3>3. QED
      BY <3>1, <3>2, ServicePhase
  <2>4. Service!SvcRefuse(r0)
    BY <2>1, <2>2, <2>3 DEF Service!SvcRefuse, SvcPhase
  <2>5. QED
    BY <2>4 DEF Service!SvcNext
<1>3. ASSUME ExecEnqueue(r0) PROVE Service!SvcNext
  <2>1. cluster[r0] # None /\ answer[r0] = "none" /\ ~Enqueued(r0)
    BY <1>3 DEF ExecEnqueue, ExecInv, RequestInv
  <2>2. UNCHANGED <<ranLog, cluster>>
    BY <1>3 DEF ExecEnqueue
  <2>3. CASE Refuse(r0, "internal") /\ UNCHANGED queueVars
    <3>1. UNCHANGED SvcReply /\ SvcPhase' = [SvcPhase EXCEPT ![r0] = "refused"]
      <4>1. UNCHANGED SvcReply
        BY <2>1, <2>3 DEF SvcReply, TypeOK, Refuse
      <4>2. /\ SvcPhase'[r0] = "refused"
            /\ \A r \in Requests \ {r0} : SvcPhase'[r] = SvcPhase[r]
        BY <2>1, <2>3 DEF SvcPhase, TypeOK, Refuse
      <4>3. QED
        BY <4>1, <4>2, ServicePhase
    <3>2. Service!SvcRefuse(r0)
      BY <2>1, <2>2, <3>1 DEF Service!SvcRefuse, SvcPhase
    <3>3. QED
      BY <3>2 DEF Service!SvcNext
  <2>4. CASE Enqueue(r0, routed[r0]) /\ UNCHANGED answer
    <3>1. UNCHANGED SvcReply /\ SvcPhase' = [SvcPhase EXCEPT ![r0] = "accepted"]
      <4>1. UNCHANGED SvcReply
        BY <2>1, <2>4 DEF SvcReply, TypeOK, QueueTypeOK, Enqueue
      <4>2. /\ SvcPhase'[r0] = "accepted"
            /\ \A r \in Requests \ {r0} : SvcPhase'[r] = SvcPhase[r]
        BY <2>1, <2>4 DEF SvcPhase, TypeOK, QueueTypeOK, Enqueue
      <4>3. QED
        BY <4>1, <4>2, ServicePhase
    <3>2. Service!Accept(r0)
      BY <2>1, <2>2, <3>1 DEF Service!Accept, SvcPhase
    <3>3. QED
      BY <3>2 DEF Service!SvcNext
  <2>5. QED
    BY <1>3, <2>3, <2>4 DEF ExecEnqueue
<1>4. ASSUME ExecResult(r0) PROVE UNCHANGED Service!svcVars
  BY <1>4, ServiceStutter DEF ExecResult, TakeResult
<1>5. ASSUME ExecTimeout(r0) PROVE UNCHANGED Service!svcVars
  <2>1. \A r \in Requests : Enqueued(r)' = Enqueued(r)
    BY <1>5 DEF ExecTimeout, GiveUpWaiting, TypeOK, QueueTypeOK
  <2>2. QED
    BY <1>5, <2>1, ServiceStutter DEF ExecTimeout
<1>6. ASSUME ExecAnswer(r0) PROVE Service!SvcNext
  <2>1. answer[r0] = "none" /\ Enqueued(r0)
    BY <1>6 DEF ExecAnswer, ExecInv, RequestInv
  <2>2. /\ UNCHANGED <<status, ranLog, cluster>>
        /\ answer' = [answer EXCEPT ![r0] = outcome[r0]]
    BY <1>6 DEF ExecAnswer
  <2>3. outcome[r0] = "timeout" \/ (outcome[r0] \in Results /\ Genuine(r0, outcome[r0]))
    BY <1>6 DEF ExecAnswer, TypeOK, ExecInv, ResultInv
  <2>4. outcome[r0] # "none"
    BY <2>3 DEF Results
  <2>5. SvcReply' = [SvcReply EXCEPT ![r0] = outcome[r0]]
    BY <2>1, <2>2, <2>4 DEF SvcReply, TypeOK
  <2>6. SvcPhase' = [SvcPhase EXCEPT ![r0] = "answered"]
    BY <2>1, <2>2, <2>4 DEF SvcPhase, TypeOK
  <2>7. Service!Answer(r0, outcome[r0])
    BY <2>1, <2>2, <2>3, <2>5, <2>6 DEF Service!Answer, SvcPhase, Genuine
  <2>8. QED
    BY <2>3, <2>7 DEF Service!SvcNext
<1>7. ASSUME ExecRemove(r0) PROVE UNCHANGED Service!svcVars
  BY <1>7, ServiceStutter DEF ExecRemove, Remove
<1>8. QED
  BY <1>1, <1>2, <1>3, <1>4, <1>5, <1>6, <1>7

LEMMA ServicePoll ==
  ASSUME TypeOK, TypeOK', ExecInv, NEW s0 \in PollSlots
  PROVE  /\ (\E c0 \in Clusters : PollCall(c0, s0)) => UNCHANGED Service!svcVars
         /\ PollNotFound(s0) => UNCHANGED Service!svcVars
         /\ PollSnapshot(s0) => UNCHANGED Service!svcVars
         /\ (\E r0 \in Requests : PollMark(s0, r0)) => UNCHANGED Service!svcVars
         /\ PollReturn(s0) => UNCHANGED Service!svcVars
<1> USE ServiceStutter DEF queueVars, httpVars, agentVars, Enqueued
<1>1. ASSUME NEW c0 \in Clusters, PollCall(c0, s0) PROVE UNCHANGED Service!svcVars
  BY <1>1 DEF PollCall
<1>2. ASSUME PollNotFound(s0) PROVE UNCHANGED Service!svcVars
  BY <1>2 DEF PollNotFound
<1>3. ASSUME PollSnapshot(s0) PROVE UNCHANGED Service!svcVars
  BY <1>3 DEF PollSnapshot
<1>4. ASSUME NEW r0 \in Requests, PollMark(s0, r0) PROVE UNCHANGED Service!svcVars
  <2>1. \A r \in Requests : Enqueued(r)' = Enqueued(r)
    BY <1>4 DEF PollMark, MarkRunning, TypeOK, QueueTypeOK, ExecInv, PollInv, Held
  <2>2. QED
    BY <1>4, <2>1 DEF PollMark
<1>5. ASSUME PollReturn(s0) PROVE UNCHANGED Service!svcVars
  BY <1>5 DEF PollReturn
<1>6. QED
  BY <1>1, <1>2, <1>3, <1>4, <1>5

LEMMA ServiceSubmit ==
  ASSUME TypeOK, TypeOK', ExecInv, NEW m0 \in submits
  PROVE  /\ SubmitLost(m0) => UNCHANGED Service!svcVars
         /\ SubmitTooLate(m0) => UNCHANGED Service!svcVars
         /\ SubmitFinish(m0) => UNCHANGED Service!svcVars
         /\ SubmitOffer(m0) => UNCHANGED Service!svcVars
<1> USE ServiceStutter DEF queueVars, httpVars, agentVars, Enqueued
<1>1. ASSUME SubmitLost(m0) PROVE UNCHANGED Service!svcVars
  BY <1>1 DEF SubmitLost
<1>2. ASSUME SubmitTooLate(m0) PROVE UNCHANGED Service!svcVars
  BY <1>2 DEF SubmitTooLate
<1>3. ASSUME SubmitFinish(m0) PROVE UNCHANGED Service!svcVars
  <2>1. \A r \in Requests : Enqueued(r)' = Enqueued(r)
    BY <1>3 DEF SubmitFinish, SetFinished, TypeOK, QueueTypeOK, ExecInv, RequestInv
  <2>2. QED
    BY <1>3, <2>1 DEF SubmitFinish
<1>4. ASSUME SubmitOffer(m0) PROVE UNCHANGED Service!svcVars
  BY <1>4 DEF SubmitOffer, OfferResult
<1>5. QED
  BY <1>1, <1>2, <1>3, <1>4

LEMMA ServiceAgent ==
  ASSUME TypeOK, TypeOK', ExecInv, NEW c0 \in Clusters
  PROVE  /\ PollFail(c0) => UNCHANGED Service!svcVars
         /\ (\E r0 \in Requests, res0 \in Results : Execute(c0, r0, res0)) => Service!SvcNext
         /\ (\E a0 \in AgentIds : AgentRegister(c0, a0)) => UNCHANGED Service!svcVars
         /\ AgentHeartbeat(c0) => UNCHANGED Service!svcVars
         /\ AgentRestart(c0) => UNCHANGED Service!svcVars
<1> USE DEF queueVars, httpVars, agentVars, Enqueued
<1>1. ASSUME PollFail(c0) PROVE UNCHANGED Service!svcVars
  BY <1>1, ServiceStutter DEF PollFail
<1>2. ASSUME NEW r0 \in Requests, NEW res0 \in Results, Execute(c0, r0, res0)
      PROVE  Service!SvcNext
  <2>1. Enqueued(r0) /\ cluster[r0] = c0 /\ ranLog[r0] = <<>>
    BY <1>2 DEF Execute, ExecInv, RunInv
  <2>2. UNCHANGED <<SvcPhase, SvcReply, cluster>>
    BY <1>2 DEF Execute, SvcPhase, SvcReply
  <2>3. ranLog' = [ranLog EXCEPT ![r0] = <<[cluster |-> cluster[r0], result |-> res0]>>]
    BY <1>2, <2>1 DEF Execute, TypeOK
  <2>4. Service!RunOnce(r0, res0)
    BY <2>1, <2>2, <2>3 DEF Service!RunOnce, SvcPhase
  <2>5. QED
    BY <2>4 DEF Service!SvcNext
<1>3. ASSUME NEW a0 \in AgentIds, AgentRegister(c0, a0) PROVE UNCHANGED Service!svcVars
  BY <1>3, ServiceStutter DEF AgentRegister
<1>4. ASSUME AgentHeartbeat(c0) PROVE UNCHANGED Service!svcVars
  BY <1>4, ServiceStutter DEF AgentHeartbeat
<1>5. ASSUME AgentRestart(c0) PROVE UNCHANGED Service!svcVars
  BY <1>5, ServiceStutter DEF AgentRestart
<1>6. QED
  BY <1>1, <1>2, <1>3, <1>4, <1>5

LEMMA ServiceCentral ==
  ASSUME TypeOK, TypeOK', ExecInv
  PROVE  /\ (\E S \in SUBSET AgentIds : DisconnectCheck(S)) => UNCHANGED Service!svcVars
         /\ CentralRestart => Service!SvcNext
<1> USE DEF queueVars, httpVars, agentVars, Enqueued
<1>1. ASSUME NEW S \in SUBSET AgentIds, DisconnectCheck(S) PROVE UNCHANGED Service!svcVars
  BY <1>1, ServiceStutter DEF DisconnectCheck
<1>2. ASSUME CentralRestart PROVE Service!SvcNext
  <2>1. /\ UNCHANGED <<status, ranLog, cluster>>
        /\ answer' = [r \in Requests |->
             IF handler[r] # "new" /\ answer[r] = "none" THEN "aborted" ELSE answer[r]]
    BY <1>2 DEF CentralRestart, QueueLost
  <2>2. \A r \in Requests : /\ handler[r] = "new" <=> cluster[r] = None
                            /\ Enqueued(r) => handler[r] # "new"
    BY DEF ExecInv, RequestInv
  <2>3. SvcPhase' = [r \in Requests |->
          CASE SvcPhase[r] = "open" /\ cluster[r] # None -> "refused"
            [] SvcPhase[r] = "accepted" -> "answered"
            [] OTHER -> SvcPhase[r]]
    BY <2>1, <2>2 DEF SvcPhase
  <2>4. SvcReply' = [r \in Requests |-> IF SvcPhase[r] = "accepted" THEN "aborted" ELSE SvcReply[r]]
    BY <2>1, <2>2 DEF SvcPhase, SvcReply
  <2>5. Service!Breakdown
    BY <2>1, <2>3, <2>4 DEF Service!Breakdown
  <2>6. QED
    BY <2>5 DEF Service!SvcNext
<1>3. QED
  BY <1>1, <1>2

LEMMA ServiceStep ==
  TypeOK /\ TypeOK' /\ ExecInv /\ ExecInv' /\ [Next]_vars
    => [Service!SvcNext]_(Service!svcVars)
<1> SUFFICES ASSUME TypeOK, TypeOK', ExecInv, ExecInv', [Next]_vars
             PROVE  Service!SvcNext \/ UNCHANGED Service!svcVars
  OBVIOUS
<1>1. CASE Next
  BY <1>1, NextCases, ServiceHttp, ServicePoll, ServiceSubmit, ServiceAgent, ServiceCentral
<1>2. CASE UNCHANGED vars
  BY <1>2, ServiceStutter DEF vars, queueVars, httpVars, agentVars, Enqueued
<1>3. QED
  BY <1>1, <1>2

(* The one-shot path implements the abstract service ExecService (its      *)
(* safety part): refused or accepted, run at most once and in the right    *)
(* cluster, answered once and with the result of that run.                 *)
THEOREM PathImplementsService == Spec => Service!SvcSpec
BY ServiceInit, ServiceStep, TypeCorrect, ExecInvariant, PTL DEF Spec, Service!SvcSpec
===============================================================================
