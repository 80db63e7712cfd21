--------------------------- MODULE StreamPathProofs ---------------------------
(***************************************************************************)
(* Proofs about the streaming endpoints, for any number of requests,       *)
(* streams and agents, any buffer sizes and any session limit.             *)
(***************************************************************************)
EXTENDS StreamPath, TLAPS

(* How far a request's handler has come bounds what else exists of it: its *)
(* agent and agentConn, its process, its audit row.  A request was         *)
(* inserted in the maps once it has its 200, and is not inserted again.    *)
HandlerInv ==
  \A s \in Sessions :
    /\ pc[s] \in {"relaying", "waiting"} => reply[s] = "streaming"
    /\ reply[s] = "streaming" => pc[s] \in {"relaying", "waiting", "done"}
    /\ pc[s] \in {"authorized", "starting", "inserting"} \/ reply[s] = "streaming" =>
         agentID[s] \in AgentIds
    /\ pc[s] \in {"starting", "inserting"} \/ proc[s] # "none" => startConn[s] \in Streams
    /\ proc[s] # "none" => pc[s] \in {"inserting", "relaying", "waiting", "done"}
    /\ audit[s] # "none" => pc[s] = "done"

(* A goroutine inside Cancel or the exit path works on a session that was  *)
(* inserted, from one place of its own program, and has dropped the        *)
(* session before it closes it.  It reports 0 only for a process that      *)
(* exited with 0.                                                          *)
JobInv ==
  /\ \A t \in Threads :
       /\ job[t].at = "none" => job[t] = NoJob
       /\ job[t].at # "none" => job[t].sess \in Sessions /\ reply[job[t].sess] = "streaming"
       /\ job[t].at = "close" => job[t].sess \notin sessions
       /\ job[t].at # "none" /\ job[t].how = "exit0" => proc[job[t].sess] = "exit0"
  /\ \A s \in Sessions : job[s].at # "none" => pc[s] = "waiting"
  /\ \A c \in Streams : job[c].at # "none" => srv[c] = "recv"

(* Messages on their way to a handler: an error is one of a port-forward,  *)
(* an exit code of 0 that of a process that exited with 0.                 *)
MessageOK(s, what) ==
  /\ what = "error" => kind[s] = "pf" /\ pc[s] # "new"
  /\ what = "exit0" => proc[s] = "exit0"

MessageInv ==
  /\ \A c \in Streams : \A i \in 1..Len(wire[c]) : MessageOK(wire[c][i].sess, wire[c][i].what)
  /\ \A c \in Streams : srv[c] = "deliver" =>
       /\ routing[c] \in Message /\ routing[c].what \in {"output", "error"}
       /\ reply[routing[c].sess] = "streaming"
       /\ MessageOK(routing[c].sess, routing[c].what)
  /\ \A s \in Sessions : \A i \in 1..Len(output[s]) : output[s][i] = "error" => kind[s] = "pf" /\ pc[s] # "new"

(* OpenStream: it knows its agent, and holds sessions to close only while  *)
(* it unregisters.  These are out of the map.                              *)
ServerInv ==
  \A c \in Streams :
    /\ link[c] = "unused" => srv[c] = "unused"
    /\ srv[c] # "unused" => owner[c] \in AgentIds
    /\ srv[c] # "closing" => dead[c] = {}
    /\ \A s \in dead[c] : s \notin sessions /\ reply[s] = "streaming"
    /\ \A s \in connSessions[c] : reply[s] = "streaming"

(* Goroutines that will close session s, whatever happens meanwhile. *)
SureClosers(s) ==
  {t \in Threads : job[t].sess = s /\ job[t].at \in {"send", "drop", "close"}}
    \cup {c \in Streams : s \in dead[c]}

(* A session in the map is open; one that is out of it is closed or about  *)
(* to be.                                                                  *)
SessionsInv ==
  \A s \in Sessions :
    /\ s \in sessions => reply[s] = "streaming" /\ ended[s] = "no"
    /\ ended[s] # "no" => reply[s] = "streaming"
    /\ ended[s] = "exit0" => proc[s] = "exit0"
    /\ reply[s] = "streaming" => ended[s] # "no" \/ s \in sessions \/ SureClosers(s) # {}

(* How the handlers return. *)
DoneInv ==
  \A s \in Sessions :
    /\ pc[s] = "done" /\ kind[s] # "pf" /\ reply[s] = "streaming" => ended[s] # "no"
    /\ audit[s] = "success" => proc[s] = "exit0"
    /\ audit[s] = "denied" => proc[s] = "none"

StreamInv ==
  TypeOK /\ HandlerInv /\ JobInv /\ MessageInv /\ ServerInv /\ SessionsInv /\ DoneInv
-------------------------------------------------------------------------------
(* What no step takes back: a handler stays past its first step, with its  *)
(* kind; an inserted session and a process that exited with 0 stay so.     *)
Advances ==
  \A s \in Sessions :
    /\ reply[s] = "streaming" => reply'[s] = "streaming"
    /\ proc[s] = "exit0" => proc'[s] = "exit0"
    /\ pc[s] # "new" => pc'[s] # "new" /\ kind'[s] = kind[s]

(* The parts of the invariant that a step leaves alone. *)
LEMMA KeepTypes ==
  ASSUME TypeOK
  PROVE  /\ UNCHANGED managerVars => ManagerTypeOK'
         /\ UNCHANGED httpVars => HttpTypeOK'
         /\ UNCHANGED <<output, job, srv, routing, dead, crashed>> => ServerTypeOK'
         /\ UNCHANGED <<owner, link, serving, proc, wire>> => AgentTypeOK'
<1> USE DEF TypeOK
<1>1. UNCHANGED managerVars => ManagerTypeOK'
  BY DEF ManagerTypeOK, managerVars
<1>2. UNCHANGED httpVars => HttpTypeOK'
  BY DEF HttpTypeOK, httpVars
<1>3. UNCHANGED <<output, job, srv, routing, dead, crashed>> => ServerTypeOK'
  BY DEF ServerTypeOK
<1>4. UNCHANGED <<owner, link, serving, proc, wire>> => AgentTypeOK'
  BY DEF AgentTypeOK
<1> QED
  BY <1>1, <1>2, <1>3, <1>4

LEMMA KeepHandlers ==
  ASSUME HandlerInv, UNCHANGED <<pc, reply, agentID, startConn, audit>>,
         \A s \in Sessions : proc'[s] # "none" => proc[s] # "none"
  PROVE  HandlerInv'
BY DEF HandlerInv

LEMMA KeepJobs ==
  ASSUME JobInv, TypeOK, Advances, UNCHANGED job,
         \A t \in Threads : job[t].at = "close" => job[t].sess \notin sessions',
         \A s \in Sessions : job[s].at # "none" => pc'[s] = "waiting",
         \A c \in Streams : job[c].at # "none" => srv'[c] = "recv"
  PROVE  JobInv'
BY DEF JobInv, Advances

LEMMA KeepMessages ==
  ASSUME MessageInv, TypeOK, Advances, UNCHANGED <<wire, srv, routing, output>>
  PROVE  MessageInv'
<1>1. ASSUME NEW s \in Sessions, NEW x, MessageOK(s, x)
      PROVE  MessageOK(s, x)'
  BY <1>1 DEF MessageOK, Advances
<1>2. \A c \in Streams : \A i \in 1..Len(wire[c]) : wire[c][i] \in Message
  BY DEF TypeOK, AgentTypeOK
<1> QED
  BY <1>1, <1>2 DEF MessageInv, Message, Advances

LEMMA KeepServers ==
  ASSUME ServerInv, TypeOK, Advances, UNCHANGED <<srv, owner, dead, connSessions>>,
         \A c \in Streams : link'[c] = "unused" => link[c] = "unused",
         \A c \in Streams : \A s \in dead[c] : s \notin sessions'
  PROVE  ServerInv'
BY DEF ServerInv, Advances, TypeOK, ManagerTypeOK, ServerTypeOK

LEMMA KeepSessions ==
  ASSUME SessionsInv, Advances, UNCHANGED <<sessions, ended, job, dead>>,
         \A s \in Sessions : reply'[s] = "streaming" => reply[s] = "streaming"
  PROVE  SessionsInv'
BY DEF SessionsInv, Advances, SureClosers

LEMMA KeepDone ==
  ASSUME DoneInv, Advances, UNCHANGED <<pc, kind, reply, audit>>,
         \A s \in Sessions : ended[s] # "no" => ended'[s] # "no",
         \A s \in Sessions : audit[s] = "denied" => proc'[s] = proc[s]
  PROVE  DoneInv'
BY DEF DoneInv, Advances
-------------------------------------------------------------------------------
(* The HTTP handlers. *)

LEMMA StreamRouteStep ==
  ASSUME StreamInv, NEW s \in Sessions, NEW k \in Kinds, NEW a \in AgentIds, StreamRoute(s, k, a)
  PROVE  StreamInv'
<1> USE DEF StreamInv, TypeOK
<1>0. reply[s] # "streaming" /\ proc[s] = "none" /\ audit[s] = "none" /\ job[s].at = "none"
  BY DEF StreamRoute, HandlerInv, JobInv
<1>1. TypeOK'
  <2>1. ManagerTypeOK'
    BY DEF StreamRoute, ManagerTypeOK
  <2>2. HttpTypeOK'
    BY DEF StreamRoute, Reject, Record, HttpTypeOK
  <2> QED
    BY <2>1, <2>2, KeepTypes DEF StreamRoute, srvVars, agentVars
<1>2. Advances
  BY <1>0 DEF StreamRoute, Reject, Record, HttpTypeOK, agentVars, Advances
<1>3. \A z \in Sessions : reply'[z] = "streaming" => reply[z] = "streaming"
  BY DEF StreamRoute, Reject, HttpTypeOK
<1>4. HandlerInv'
  BY <1>0 DEF StreamRoute, Reject, Record, HttpTypeOK, agentVars, ManagerTypeOK, HandlerInv
<1>5. JobInv'
  BY <1>0, <1>2, KeepJobs DEF StreamRoute, Reject, HttpTypeOK, JobInv, srvVars
<1>6. MessageInv' /\ ServerInv' /\ SessionsInv'
  BY <1>2, <1>3, KeepMessages, KeepServers, KeepSessions DEF StreamRoute, srvVars, agentVars, ServerInv
<1>7. DoneInv'
  BY <1>0, <1>3 DEF StreamRoute, Reject, Record, HttpTypeOK, agentVars, DoneInv
<1> QED
  BY <1>1, <1>4, <1>5, <1>6, <1>7

LEMMA StartCheckStep ==
  ASSUME StreamInv, NEW s \in Sessions, StartCheck(s)
  PROVE  StreamInv'
<1> USE DEF StreamInv, TypeOK
<1>0. /\ reply[s] # "streaming" /\ proc[s] = "none" /\ audit[s] = "none" /\ job[s].at = "none"
      /\ agentID[s] \in AgentIds
  BY DEF StartCheck, HandlerInv, JobInv
<1>1. TypeOK'
  <2>1. HttpTypeOK'
    BY <1>0 DEF StartCheck, Reject, NoAgentStream, HttpTypeOK, ManagerTypeOK
  <2> QED
    BY <2>1, KeepTypes DEF StartCheck, managerVars, srvVars, agentVars
<1>2. Advances
  BY <1>0 DEF StartCheck, Reject, HttpTypeOK, agentVars, Advances
<1>3. \A z \in Sessions : reply'[z] = "streaming" => reply[z] = "streaming"
  BY DEF StartCheck, Reject, HttpTypeOK
<1>4. HandlerInv'
  <2>1. agents[agentID[s]] \in Streams \cup {None}
    BY <1>0 DEF ManagerTypeOK
  <2> QED
    BY <1>0, <2>1 DEF StartCheck, NoAgentStream, Reject, HttpTypeOK, managerVars, agentVars, ManagerTypeOK, HandlerInv
<1>5. JobInv'
  BY <1>0, <1>2, KeepJobs DEF StartCheck, Reject, HttpTypeOK, JobInv, managerVars, srvVars
<1>6. MessageInv' /\ ServerInv' /\ SessionsInv'
  BY <1>2, <1>3, KeepMessages, KeepServers, KeepSessions
     DEF StartCheck, managerVars, srvVars, agentVars, ServerInv
<1>7. DoneInv'
  BY <1>0, <1>3 DEF StartCheck, Reject, HttpTypeOK, managerVars, agentVars, DoneInv
<1> QED
  BY <1>1, <1>4, <1>5, <1>6, <1>7

LEMMA StartSendStep ==
  ASSUME StreamInv, NEW s \in Sessions, StartSend(s)
  PROVE  StreamInv'
<1> USE DEF StreamInv, TypeOK
<1>0. /\ reply[s] # "streaming" /\ proc[s] = "none" /\ audit[s] = "none" /\ job[s].at = "none"
      /\ startConn[s] \in Streams
  BY DEF StartSend, HandlerInv, JobInv
<1>1. TypeOK'
  <2>1. HttpTypeOK'
    BY DEF StartSend, Reject, HttpTypeOK
  <2>2. AgentTypeOK'
    BY DEF StartSend, AgentTypeOK, Live
  <2> QED
    BY <2>1, <2>2, KeepTypes DEF StartSend, managerVars, srvVars
<1>2. Advances
  BY <1>0 DEF StartSend, Reject, HttpTypeOK, AgentTypeOK, Advances
<1>3. \A z \in Sessions : reply'[z] = "streaming" => reply[z] = "streaming"
  BY DEF StartSend, Reject, HttpTypeOK
<1>4. HandlerInv'
  BY <1>0 DEF StartSend, Reject, HttpTypeOK, AgentTypeOK, managerVars, HandlerInv
<1>5. JobInv'
  BY <1>0, <1>2, KeepJobs DEF StartSend, Reject, HttpTypeOK, JobInv, managerVars, srvVars
<1>6. MessageInv' /\ ServerInv' /\ SessionsInv'
  BY <1>2, <1>3, KeepMessages, KeepServers, KeepSessions
     DEF StartSend, managerVars, srvVars, ServerInv
<1>7. DoneInv'
  BY <1>0, <1>3 DEF StartSend, Reject, HttpTypeOK, AgentTypeOK, managerVars, DoneInv
<1> QED
  BY <1>1, <1>4, <1>5, <1>6, <1>7

LEMMA StartInsertStep ==
  ASSUME StreamInv, NEW s \in Sessions, StartInsert(s)
  PROVE  StreamInv'
<1> USE DEF StreamInv, TypeOK
<1>0. /\ reply[s] # "streaming" /\ audit[s] = "none" /\ job[s].at = "none"
      /\ startConn[s] \in Streams /\ ended[s] = "no"
      /\ \A t \in Threads : job[t].at # "none" => job[t].sess # s
      /\ \A c \in Streams : s \notin dead[c]
  BY DEF StartInsert, HandlerInv, JobInv, SessionsInv, ServerInv
<1>1. TypeOK'
  <2>1. ManagerTypeOK'
    BY <1>0 DEF StartInsert, InsertSession, ManagerTypeOK
  <2>2. HttpTypeOK'
    BY DEF StartInsert, HttpTypeOK
  <2> QED
    BY <2>1, <2>2, KeepTypes DEF StartInsert, srvVars, agentVars
<1>2. Advances
  BY <1>0 DEF StartInsert, HttpTypeOK, agentVars, Advances
<1>4. HandlerInv'
  BY <1>0 DEF StartInsert, InsertSession, HttpTypeOK, agentVars, ManagerTypeOK, HandlerInv
<1>5. JobInv'
  BY <1>0, <1>2, KeepJobs DEF StartInsert, InsertSession, HttpTypeOK, JobInv, srvVars
<1>6. MessageInv'
  BY <1>2, KeepMessages DEF StartInsert, srvVars
<1>7. ServerInv'
  BY <1>0, <1>2 DEF StartInsert, InsertSession, HttpTypeOK, ManagerTypeOK, ServerTypeOK, srvVars, agentVars, ServerInv, Advances
<1>8. SessionsInv'
  BY <1>0, <1>2
     DEF StartInsert, InsertSession, HttpTypeOK, srvVars, SessionsInv, SureClosers, Advances
<1>9. DoneInv'
  BY <1>0 DEF StartInsert, InsertSession, HttpTypeOK, agentVars, DoneInv
<1> QED
  BY <1>1, <1>4, <1>5, <1>6, <1>7, <1>8, <1>9
LEMMA ClientGoneStep ==
  ASSUME StreamInv, NEW s \in Sessions, ClientGone(s)
  PROVE  StreamInv'
<1> USE DEF StreamInv, TypeOK
<1>1. TypeOK'
  <2>1. HttpTypeOK'
    BY DEF ClientGone, HttpTypeOK
  <2> QED
    BY <2>1, KeepTypes DEF ClientGone, srvVars, agentVars
<1>2. Advances
  BY DEF ClientGone, agentVars, Advances
<1> QED
  BY <1>1, <1>2, KeepHandlers, KeepJobs, KeepMessages, KeepServers, KeepSessions, KeepDone
     DEF ClientGone, managerVars, srvVars, agentVars, JobInv, ServerInv

LEMMA RelayChunkStep ==
  ASSUME StreamInv, NEW s \in Sessions, RelayChunk(s)
  PROVE  StreamInv'
<1> USE DEF StreamInv, TypeOK
<1>0. reply[s] = "streaming" /\ audit[s] = "none" /\ job[s].at = "none"
  BY DEF RelayChunk, HandlerInv, JobInv
<1>1. /\ output[s] \in Seq({"output", "error"}) /\ output[s] # <<>>
      /\ Tail(output[s]) \in Seq({"output", "error"}) /\ Len(Tail(output[s])) = Len(output[s]) - 1
      /\ \A i \in 1..Len(Tail(output[s])) : i + 1 \in 1..Len(output[s]) /\ Tail(output[s])[i] = output[s][i + 1]
      /\ 1 \in 1..Len(output[s]) /\ Head(output[s]) = output[s][1]
  BY DEF RelayChunk, ServerTypeOK
<1>2. output' = [output EXCEPT ![s] = Tail(output[s])]
  BY DEF RelayChunk
<1>3. TypeOK'
  <2>1. HttpTypeOK'
    BY DEF RelayChunk, Record, HttpTypeOK
  <2>2. ServerTypeOK'
    BY <1>1, <1>2, StreamAssumption DEF RelayChunk, srvVars, ServerTypeOK
  <2> QED
    BY <2>1, <2>2, KeepTypes DEF RelayChunk, agentVars
<1>4. Advances
  BY DEF RelayChunk, HttpTypeOK, agentVars, Advances
<1>5. HandlerInv'
  BY <1>0 DEF RelayChunk, Record, HttpTypeOK, managerVars, agentVars, HandlerInv
<1>6. JobInv'
  BY <1>0, <1>4, KeepJobs DEF RelayChunk, HttpTypeOK, JobInv, managerVars, srvVars
<1>7. MessageInv'
  <2>1. \A z \in Sessions : \A i \in 1..Len(output'[z]) :
          output'[z][i] = "error" => kind'[z] = "pf" /\ pc'[z] # "new"
    <3> SUFFICES ASSUME NEW z \in Sessions, NEW i \in 1..Len(output'[z]), output'[z][i] = "error"
                 PROVE  kind'[z] = "pf" /\ pc'[z] # "new"
      OBVIOUS
    <3>1. \E j \in 1..Len(output[z]) : output[z][j] = "error"
      BY <1>1, <1>2 DEF ServerTypeOK
    <3> QED
      BY <3>1, <1>4 DEF MessageInv, Advances
  <2>2. ASSUME NEW z \in Sessions, NEW x, MessageOK(z, x)
        PROVE  MessageOK(z, x)'
    BY <2>2, <1>4 DEF MessageOK, Advances
  <2>3. \A c \in Streams : \A i \in 1..Len(wire[c]) : wire[c][i] \in Message
    BY DEF AgentTypeOK
  <2> QED
    BY <2>1, <2>2, <2>3, <1>4 DEF RelayChunk, srvVars, MessageInv, Message, Advances
<1>8. ServerInv' /\ SessionsInv'
  BY <1>4, KeepServers, KeepSessions DEF RelayChunk, managerVars, srvVars, agentVars, ServerInv
<1>9. DoneInv'
  <2>1. Head(output[s]) = "error" => kind[s] = "pf"
    BY <1>1 DEF MessageInv
  <2> QED
    BY <2>1, <1>0 DEF RelayChunk, Record, HttpTypeOK, managerVars, agentVars, DoneInv
<1> QED
  BY <1>3, <1>5, <1>6, <1>7, <1>8, <1>9

LEMMA RelayGoneStep ==
  ASSUME StreamInv, NEW s \in Sessions, RelayGone(s)
  PROVE  StreamInv'
<1> USE DEF StreamInv, TypeOK
<1> DEFINE r == [NoJob EXCEPT !.at = "lookup", !.sess = s]
<1>0. reply[s] = "streaming" /\ job[s].at = "none" /\ audit[s] = "none" /\ s \in Threads
  BY DEF RelayGone, HandlerInv, JobInv, Threads
<1>1. /\ r \in Job /\ r.at = "lookup" /\ r.sess = s /\ r.how = "canceled"
      /\ job' = [job EXCEPT ![s] = r]
  BY DEF RelayGone, NoJob, Job, Endings
<1> HIDE DEF r
<1>2. TypeOK'
  <2>1. HttpTypeOK'
    BY DEF RelayGone, HttpTypeOK
  <2>2. ServerTypeOK'
    <3>1. UNCHANGED <<output, srv, routing, dead, crashed>>
      BY DEF RelayGone, srvVars
    <3>2. job' \in [Threads -> Job]
      BY <1>1 DEF ServerTypeOK
    <3> QED
      BY <3>1, <3>2 DEF ServerTypeOK
  <2> QED
    BY <2>1, <2>2, KeepTypes DEF RelayGone, agentVars
<1>3. Advances
  BY DEF RelayGone, HttpTypeOK, agentVars, Advances
<1>4. HandlerInv'
  BY <1>0 DEF RelayGone, HttpTypeOK, managerVars, agentVars, HandlerInv
<1>5. JobInv'
  <2>1. job'[s] = r /\ \A t \in Threads : t # s => job'[t] = job[t]
    BY <1>0, <1>1 DEF ServerTypeOK
  <2>2. \A c \in Streams : c # s /\ c \in Threads
    BY SessionAssumption DEF Threads
  <2>3. \A z \in Sessions : z \in Threads
    BY DEF Threads
  <2>4. UNCHANGED <<reply, sessions, proc, srv>> /\ pc' = [pc EXCEPT ![s] = "waiting"]
    BY DEF RelayGone, managerVars, srvVars, agentVars
  <2>5. pc'[s] = "waiting" /\ \A z \in Sessions : z # s => pc'[z] = pc[z]
    BY <2>4 DEF HttpTypeOK
  <2> QED
    BY <1>0, <1>1, <2>1, <2>2, <2>3, <2>4, <2>5 DEF JobInv
<1>6. MessageInv' /\ ServerInv'
  BY <1>3, KeepMessages, KeepServers DEF RelayGone, managerVars, srvVars, agentVars, ServerInv
<1>7. SessionsInv'
  <2>1. \A z \in Sessions : SureClosers(z)' = SureClosers(z)
    BY <1>0, <1>1 DEF RelayGone, srvVars, ServerTypeOK, SureClosers
  <2> QED
    BY <2>1 DEF RelayGone, managerVars, agentVars, SessionsInv
<1>8. DoneInv'
  BY DEF RelayGone, HttpTypeOK, managerVars, agentVars, DoneInv
<1> QED
  BY <1>2, <1>4, <1>5, <1>6, <1>7, <1>8

LEMMA RelayEndStep ==
  ASSUME StreamInv, NEW s \in Sessions, RelayEnd(s)
  PROVE  StreamInv'
<1> USE DEF StreamInv, TypeOK
<1>1. TypeOK'
  <2>1. HttpTypeOK'
    BY DEF RelayEnd, HttpTypeOK
  <2> QED
    BY <2>1, KeepTypes DEF RelayEnd, srvVars, agentVars
<1>2. Advances
  BY DEF RelayEnd, HttpTypeOK, agentVars, Advances
<1>3. HandlerInv'
  BY DEF RelayEnd, HttpTypeOK, managerVars, agentVars, HandlerInv
<1>4. JobInv'
  BY <1>2, KeepJobs DEF RelayEnd, HttpTypeOK, JobInv, managerVars, srvVars
<1>5. MessageInv' /\ ServerInv' /\ SessionsInv'
  BY <1>2, KeepMessages, KeepServers, KeepSessions
     DEF RelayEnd, managerVars, srvVars, agentVars, ServerInv
<1>6. DoneInv'
  BY DEF RelayEnd, HttpTypeOK, managerVars, agentVars, DoneInv
<1> QED
  BY <1>1, <1>3, <1>4, <1>5, <1>6

LEMMA FinishStep ==
  ASSUME StreamInv, NEW s \in Sessions, Finish(s)
  PROVE  StreamInv'
<1> USE DEF StreamInv, TypeOK
<1>0. audit[s] = "none" /\ reply[s] = "streaming" /\ job[s].at = "none"
  BY DEF Finish, HandlerInv, NoJob
<1>1. /\ AuditStatusOf(s) \in {"success", "failed", "canceled"}
      /\ AuditStatusOf(s) = "success" => ended[s] = "exit0"
  BY DEF AuditStatusOf
<1>2. TypeOK'
  <2>1. HttpTypeOK'
    BY <1>1 DEF Finish, Record, HttpTypeOK
  <2> QED
    BY <2>1, KeepTypes DEF Finish, srvVars, agentVars
<1>3. Advances
  BY DEF Finish, HttpTypeOK, agentVars, Advances
<1>4. HandlerInv'
  BY <1>0 DEF Finish, Record, HttpTypeOK, managerVars, agentVars, HandlerInv
<1>5. JobInv'
  BY <1>0, <1>3, KeepJobs DEF Finish, HttpTypeOK, JobInv, managerVars, srvVars
<1>6. MessageInv' /\ ServerInv' /\ SessionsInv'
  BY <1>3, KeepMessages, KeepServers, KeepSessions
     DEF Finish, managerVars, srvVars, agentVars, ServerInv
<1>7. DoneInv'
  BY <1>1 DEF Finish, Record, HttpTypeOK, managerVars, agentVars, SessionsInv, DoneInv
<1> QED
  BY <1>2, <1>4, <1>5, <1>6, <1>7
-------------------------------------------------------------------------------
(* Cancel and the exit path. *)

Ending == {"send", "drop", "close"}

(* What a goroutine's record may be. *)
GoodJob(r) ==
  /\ r \in Job
  /\ r.at = "none" => r = NoJob
  /\ r.at # "none" => r.sess \in Sessions /\ reply[r.sess] = "streaming"
  /\ r.at = "close" => r.sess \notin sessions
  /\ r.at # "none" /\ r.how = "exit0" => proc[r.sess] = "exit0"

LEMMA MoveJob ==
  ASSUME JobInv, TypeOK, Advances, NEW t \in Threads, NEW r, job' = [job EXCEPT ![t] = r],
         GoodJob(r)', sessions' \subseteq sessions, UNCHANGED pc,
         \A c \in Streams : srv[c] = "recv" => srv'[c] = "recv",
         r.at # "none" => \/ job[t].at # "none"
                          \/ t \in Streams /\ srv'[t] = "recv"
  PROVE  JobInv'
<1> USE DEF TypeOK
<1>1. job'[t] = r /\ \A u \in Threads : u # t => job'[u] = job[u]
  BY DEF ServerTypeOK
<1>2. \A c \in Streams : c \in Threads /\ c \notin Sessions
  BY SessionAssumption DEF Threads
<1>3. \A s \in Sessions : s \in Threads
  BY DEF Threads
<1>4. ASSUME NEW u \in Threads
      PROVE  /\ job'[u].at = "none" => job'[u] = NoJob
             /\ job'[u].at # "none" => job'[u].sess \in Sessions /\ reply'[job'[u].sess] = "streaming"
             /\ job'[u].at = "close" => job'[u].sess \notin sessions'
             /\ job'[u].at # "none" /\ job'[u].how = "exit0" => proc'[job'[u].sess] = "exit0"
  BY <1>1 DEF JobInv, GoodJob, Advances
<1>5. \A s \in Sessions : job'[s].at # "none" => pc'[s] = "waiting"
  BY <1>1, <1>2, <1>3 DEF JobInv
<1>6. \A c \in Streams : job'[c].at # "none" => srv'[c] = "recv"
  BY <1>1, <1>2 DEF JobInv
<1> QED
  BY <1>4, <1>5, <1>6 DEF JobInv

(* A goroutine that stays at its session, and sure to close it if it was. *)
LEMMA ClosersStay ==
  ASSUME TypeOK, NEW t \in Threads, NEW r \in Job, job' = [job EXCEPT ![t] = r],
         job[t].at \in Ending => r.at \in Ending /\ r.sess = job[t].sess,
         \A c \in Streams : dead[c] \subseteq dead'[c]
  PROVE  \A s \in Sessions : SureClosers(s) \subseteq SureClosers(s)'
<1>1. job'[t] = r /\ \A u \in Threads : u # t => job'[u] = job[u]
  BY DEF TypeOK, ServerTypeOK
<1> QED
  BY <1>1 DEF SureClosers, Ending

LEMMA JobFacts ==
  ASSUME StreamInv, NEW t \in Threads, job[t].at # "none"
  PROVE  /\ job[t] \in Job /\ job[t].sess \in Sessions /\ reply[job[t].sess] = "streaming"
         /\ agentID[job[t].sess] \in AgentIds
         /\ agents[agentID[job[t].sess]] \in Streams \cup {None}
<1>1. job[t] \in Job /\ job[t].sess \in Sessions /\ reply[job[t].sess] = "streaming"
  BY DEF StreamInv, TypeOK, ServerTypeOK, JobInv
<1>2. agentID[job[t].sess] \in AgentIds
  BY <1>1 DEF StreamInv, HandlerInv
<1> QED
  BY <1>1, <1>2 DEF StreamInv, TypeOK, ManagerTypeOK

LEMMA NoJobFacts == NoJob \in Job /\ NoJob.at = "none" /\ NoJob.sess = None /\ NoJob.how = "canceled"
BY DEF NoJob, Job, Endings

LEMMA CancelLookupStep ==
  ASSUME StreamInv, NEW t \in Threads, CancelLookup(t)
  PROVE  StreamInv'
<1> USE DEF StreamInv, TypeOK
<1> DEFINE c == agents[agentID[job[t].sess]]
<1>r. PICK r : r = IF ~Found(job[t].sess) THEN NoJob
                   ELSE [job[t] EXCEPT !.at = IF c = None THEN "drop" ELSE "send", !.conn = c]
  OBVIOUS
<1>0. job[t].at = "lookup" /\ job' = [job EXCEPT ![t] = r]
  BY <1>r DEF CancelLookup
<1>1. /\ job[t] \in Job /\ job[t].sess \in Sessions /\ reply[job[t].sess] = "streaming"
      /\ c \in Streams \cup {None}
  BY <1>0, JobFacts
<1>2. \/ r = NoJob
      \/ r \in Job /\ r.at \in {"drop", "send"} /\ r.sess = job[t].sess /\ r.how = job[t].how
  BY <1>1, <1>r DEF Job
<1>3. TypeOK'
  <2>1. ServerTypeOK'
    BY <1>0, <1>2, NoJobFacts DEF CancelLookup, srvVars, ServerTypeOK
  <2> QED
    BY <2>1, KeepTypes DEF CancelLookup, agentVars
<1>4. Advances
  BY DEF CancelLookup, httpVars, agentVars, Advances
<1>5. GoodJob(r)'
  BY <1>0, <1>1, <1>2, NoJobFacts DEF CancelLookup, GoodJob, JobInv, httpVars, managerVars, agentVars
<1>6. JobInv'
  BY <1>0, <1>4, <1>5, MoveJob DEF CancelLookup, httpVars, managerVars, srvVars
<1>7. HandlerInv' /\ MessageInv' /\ ServerInv' /\ DoneInv'
  BY <1>4, KeepHandlers, KeepMessages, KeepServers, KeepDone
     DEF CancelLookup, managerVars, httpVars, srvVars, agentVars, ServerInv
<1>8. SessionsInv'
  <2>1. \A s \in Sessions : SureClosers(s) \subseteq SureClosers(s)'
    <3>1. r \in Job /\ UNCHANGED dead
      BY <1>2, NoJobFacts DEF CancelLookup, srvVars
    <3>2. job[t].at \notin Ending
      BY <1>0 DEF Ending
    <3> QED
      BY <1>0, <3>1, <3>2, ClosersStay
  <2> QED
    BY <2>1 DEF CancelLookup, managerVars, httpVars, agentVars, SessionsInv
<1> QED
  BY <1>3, <1>6, <1>7, <1>8

LEMMA CancelSendStep ==
  ASSUME StreamInv, NEW t \in Threads, CancelSend(t)
  PROVE  StreamInv'
<1> USE DEF StreamInv, TypeOK
<1>r. PICK r : r = [job[t] EXCEPT !.at = "drop"]
  OBVIOUS
<1>0. job[t].at = "send" /\ job' = [job EXCEPT ![t] = r]
  BY <1>r DEF CancelSend, ServerTypeOK
<1>1. job[t] \in Job /\ job[t].sess \in Sessions /\ reply[job[t].sess] = "streaming"
  BY <1>0, JobFacts
<1>2. r \in Job /\ r.at = "drop" /\ r.sess = job[t].sess /\ r.how = job[t].how
  BY <1>1, <1>r DEF Job
<1>3. \A s \in Sessions : proc'[s] = proc[s] \/ (proc[s] \in Live /\ proc'[s] = "canceled")
  <2>1. \/ proc' = proc
        \/ proc[job[t].sess] \in Live /\ proc' = [proc EXCEPT ![job[t].sess] = "canceled"]
    BY DEF CancelSend
  <2> QED
    BY <1>1, <2>1 DEF AgentTypeOK
<1>4. TypeOK'
  <2>1. ServerTypeOK'
    BY <1>0, <1>2 DEF CancelSend, srvVars, ServerTypeOK
  <2>2. AgentTypeOK'
    BY <1>1 DEF CancelSend, AgentTypeOK, Live
  <2> QED
    BY <2>1, <2>2, KeepTypes DEF CancelSend
<1>5. Advances
  BY <1>3 DEF CancelSend, httpVars, Live, Advances
<1>6. GoodJob(r)'
  BY <1>0, <1>1, <1>2, <1>5 DEF CancelSend, GoodJob, JobInv, httpVars, managerVars, Advances
<1>7. JobInv'
  BY <1>0, <1>5, <1>6, MoveJob DEF CancelSend, httpVars, managerVars, srvVars
<1>8. HandlerInv' /\ MessageInv' /\ ServerInv'
  BY <1>3, <1>5, KeepHandlers, KeepMessages, KeepServers
     DEF CancelSend, managerVars, httpVars, srvVars, ServerInv, Live
<1>9. DoneInv'
  BY <1>3, <1>5, KeepDone DEF CancelSend, managerVars, httpVars, DoneInv, Live
<1>10. SessionsInv'
  <2>1. \A s \in Sessions : SureClosers(s) \subseteq SureClosers(s)'
    BY <1>0, <1>2, ClosersStay DEF CancelSend, srvVars, Ending
  <2> QED
    BY <2>1, <1>5 DEF CancelSend, managerVars, httpVars, SessionsInv, Advances
<1> QED
  BY <1>4, <1>7, <1>8, <1>9, <1>10

LEMMA EndDropStep ==
  ASSUME StreamInv, NEW t \in Threads, EndDrop(t)
  PROVE  StreamInv'
<1> USE DEF StreamInv, TypeOK
<1> DEFINE z == job[t].sess
<1>r. PICK r : r = [job[t] EXCEPT !.at = "close"]
  OBVIOUS
<1>0. job[t].at = "drop" /\ job' = [job EXCEPT ![t] = r]
  BY <1>r DEF EndDrop, ServerTypeOK
<1>1. /\ job[t] \in Job /\ z \in Sessions /\ reply[z] = "streaming"
      /\ agents[agentID[z]] \in Streams \cup {None}
  BY <1>0, JobFacts
<1>2. r \in Job /\ r.at = "close" /\ r.sess = z /\ r.how = job[t].how
  BY <1>1, <1>r DEF Job
<1>3. /\ sessions' = sessions \ {z} /\ UNCHANGED <<agents, agentID, ended>>
      /\ connSessions' \in [Streams -> SUBSET Sessions]
      /\ \A c \in Streams : connSessions'[c] \subseteq connSessions[c]
  BY <1>1 DEF EndDrop, DropSession, ManagerTypeOK
<1>4. TypeOK'
  <2>1. ServerTypeOK'
    BY <1>0, <1>2 DEF EndDrop, srvVars, ServerTypeOK
  <2>2. ManagerTypeOK'
    BY <1>3 DEF ManagerTypeOK
  <2> QED
    BY <2>1, <2>2, KeepTypes DEF EndDrop, agentVars
<1>5. Advances
  BY DEF EndDrop, httpVars, agentVars, Advances
<1>6. GoodJob(r)'
  BY <1>0, <1>1, <1>2, <1>3 DEF EndDrop, GoodJob, JobInv, httpVars, agentVars
<1>7. JobInv'
  BY <1>0, <1>3, <1>5, <1>6, MoveJob DEF EndDrop, httpVars, srvVars
<1>8. HandlerInv' /\ MessageInv' /\ DoneInv'
  BY <1>3, <1>5, KeepHandlers, KeepMessages, KeepDone DEF EndDrop, httpVars, srvVars, agentVars
<1>9. ServerInv'
  BY <1>3 DEF EndDrop, httpVars, srvVars, agentVars, ServerInv
<1>10. SessionsInv'
  <2>1. \A s \in Sessions : SureClosers(s) \subseteq SureClosers(s)'
    BY <1>0, <1>2, ClosersStay DEF EndDrop, srvVars, Ending
  <2>2. t \in SureClosers(z)'
    BY <1>0, <1>2 DEF ServerTypeOK, SureClosers
  <2> QED
    BY <1>3, <2>1, <2>2 DEF EndDrop, httpVars, agentVars, SessionsInv
<1> QED
  BY <1>4, <1>7, <1>8, <1>9, <1>10

LEMMA EndCloseStep ==
  ASSUME StreamInv, NEW t \in Threads, EndClose(t)
  PROVE  StreamInv'
<1> USE DEF StreamInv, TypeOK
<1> DEFINE z == job[t].sess
<1>0. job[t].at = "close" /\ job' = [job EXCEPT ![t] = NoJob]
  BY DEF EndClose
<1>1. job[t] \in Job /\ z \in Sessions /\ reply[z] = "streaming" /\ z \notin sessions
  BY <1>0, JobFacts DEF JobInv
<1>2. /\ UNCHANGED <<agents, connSessions, sessions, agentID>>
      /\ ended' \in [Sessions -> Endings \cup {"no"}]
      /\ ended'[z] # "no"
      /\ \A s \in Sessions : s # z => ended'[s] = ended[s]
      /\ ended[z] # "no" => ended'[z] = ended[z]
      /\ ended[z] = "no" => ended'[z] = job[t].how
  BY <1>1 DEF EndClose, CloseSession, ManagerTypeOK, Job, Endings
<1>3. TypeOK'
  <2>1. ServerTypeOK'
    BY <1>0, NoJobFacts DEF EndClose, srvVars, ServerTypeOK
  <2>2. ManagerTypeOK'
    BY <1>2 DEF ManagerTypeOK
  <2> QED
    BY <2>1, <2>2, KeepTypes DEF EndClose, agentVars
<1>4. Advances
  BY DEF EndClose, httpVars, agentVars, Advances
<1>5. JobInv'
  <2>1. GoodJob(NoJob)'
    BY NoJobFacts DEF GoodJob
  <2> QED
    BY <2>1, <1>0, <1>2, <1>4, NoJobFacts, MoveJob DEF EndClose, httpVars, srvVars
<1>6. HandlerInv' /\ MessageInv' /\ ServerInv' /\ DoneInv'
  BY <1>2, <1>4, KeepHandlers, KeepMessages, KeepServers, KeepDone
     DEF EndClose, httpVars, srvVars, agentVars, ServerInv
<1>7. SessionsInv'
  <2>1. ASSUME NEW s \in Sessions, s # z
        PROVE  SureClosers(s) \subseteq SureClosers(s)'
    BY <2>1, <1>0, <1>1 DEF EndClose, srvVars, ServerTypeOK, SureClosers
  <2>2. ended'[z] = "exit0" => proc[z] = "exit0"
    BY <1>0, <1>1, <1>2 DEF JobInv, SessionsInv
  <2> QED
    BY <2>1, <2>2, <1>1, <1>2 DEF EndClose, httpVars, agentVars, SessionsInv
<1> QED
  BY <1>3, <1>5, <1>6, <1>7
-------------------------------------------------------------------------------
(* OpenStream. *)

(* Messages stay good, and new ones are. *)
LEMMA MessagesFlow ==
  ASSUME MessageInv, TypeOK, Advances,
         \A c \in Streams : \A i \in 1..Len(wire'[c]) :
           \/ \E j \in 1..Len(wire[c]) : wire'[c][i] = wire[c][j]
           \/ \E s \in Sessions, x \in {"output", "error", "exit0", "exit1"} :
                wire'[c][i] = [sess |-> s, what |-> x] /\ MessageOK(s, x)',
         \A c \in Streams : srv'[c] = "deliver" =>
           \/ srv[c] = "deliver" /\ routing'[c] = routing[c]
           \/ /\ \E j \in 1..Len(wire[c]) : routing'[c] = wire[c][j]
              /\ routing'[c].what \in {"output", "error"}
              /\ reply[routing'[c].sess] = "streaming",
         \A s \in Sessions : \A i \in 1..Len(output'[s]) :
           \/ \E j \in 1..Len(output[s]) : output'[s][i] = output[s][j]
           \/ output'[s][i] = "error" => kind[s] = "pf" /\ pc[s] # "new"
  PROVE  MessageInv'
<1> USE DEF TypeOK
<1>1. ASSUME NEW s \in Sessions, NEW x, MessageOK(s, x)
      PROVE  MessageOK(s, x)'
  BY <1>1 DEF MessageOK, Advances
<1>2. ASSUME NEW c \in Streams, NEW j \in 1..Len(wire[c])
      PROVE  /\ wire[c][j] \in Message
             /\ wire[c][j].sess \in Sessions
             /\ MessageOK(wire[c][j].sess, wire[c][j].what)
  <2>1. wire[c][j] \in Message
    BY DEF AgentTypeOK
  <2> QED
    BY <2>1 DEF MessageInv, Message
<1>3. ASSUME NEW c \in Streams, NEW i \in 1..Len(wire'[c])
      PROVE  (MessageOK(wire[c][i].sess, wire[c][i].what))'
  <2>1. CASE \E j \in 1..Len(wire[c]) : wire'[c][i] = wire[c][j]
    <3>1. PICK j \in 1..Len(wire[c]) : wire'[c][i] = wire[c][j]
      BY <2>1
    <3>2. PICK s, x : s = wire[c][j].sess /\ x = wire[c][j].what
      OBVIOUS
    <3>3. MessageOK(s, x)'
      BY <3>2, <1>1, <1>2
    <3> QED
      BY <3>1, <3>2, <3>3 DEF MessageOK
  <2>2. CASE \E s \in Sessions, x \in {"output", "error", "exit0", "exit1"} :
               wire'[c][i] = [sess |-> s, what |-> x] /\ MessageOK(s, x)'
    <3>1. PICK s \in Sessions, x \in {"output", "error", "exit0", "exit1"} :
               wire'[c][i] = [sess |-> s, what |-> x] /\ MessageOK(s, x)'
      BY <2>2
    <3>2. wire'[c][i].sess = s /\ wire'[c][i].what = x
      BY <3>1
    <3> QED
      BY <3>1, <3>2 DEF MessageOK
  <2> QED
    BY <2>1, <2>2
<1>4. ASSUME NEW c \in Streams, srv'[c] = "deliver"
      PROVE  /\ routing'[c] \in Message /\ routing'[c].what \in {"output", "error"}
             /\ reply'[routing'[c].sess] = "streaming"
             /\ (MessageOK(routing[c].sess, routing[c].what))'
  <2>1. PICK m : m = routing'[c]
    OBVIOUS
  <2>2. /\ m \in Message /\ m.sess \in Sessions /\ m.what \in {"output", "error"}
        /\ reply'[m.sess] = "streaming" /\ MessageOK(m.sess, m.what)
    BY <1>4, <2>1, <1>2 DEF MessageInv, Message, Advances
  <2>3. MessageOK(m.sess, m.what)'
    BY <2>2, <1>1
  <2> QED
    BY <2>1, <2>2, <2>3 DEF MessageOK
<1>5. ASSUME NEW s \in Sessions, NEW i \in 1..Len(output'[s]), output'[s][i] = "error"
      PROVE  kind'[s] = "pf" /\ pc'[s] # "new"
  BY <1>5 DEF MessageInv, Advances
<1> QED
  BY <1>3, <1>4, <1>5 DEF MessageInv

LEMMA StreamRegisterStep ==
  ASSUME StreamInv, NEW c \in Streams, StreamRegister(c)
  PROVE  StreamInv'
<1> USE DEF StreamInv, TypeOK
<1>0. owner[c] \in AgentIds /\ dead[c] = {} /\ job[c].at = "none"
  BY DEF StreamRegister, ServerInv, JobInv
<1>1. TypeOK'
  <2>1. ManagerTypeOK'
    BY <1>0 DEF StreamRegister, RegisterAgentStream, managerVars, ManagerTypeOK
  <2>2. ServerTypeOK'
    BY DEF StreamRegister, ServerTypeOK
  <2>3. AgentTypeOK'
    BY DEF StreamRegister, AgentTypeOK
  <2> QED
    BY <2>1, <2>2, <2>3, KeepTypes DEF StreamRegister
<1>2. Advances
  BY DEF StreamRegister, httpVars, Advances
<1>3. UNCHANGED <<connSessions, sessions, agentID, ended>>
  BY DEF StreamRegister, RegisterAgentStream, managerVars
<1>4. HandlerInv' /\ SessionsInv' /\ DoneInv'
  BY <1>2, <1>3, KeepHandlers, KeepSessions, KeepDone DEF StreamRegister, httpVars
<1>5. JobInv'
  BY <1>0, <1>2, <1>3, KeepJobs DEF StreamRegister, httpVars, ServerTypeOK, JobInv
<1>6. MessageInv'
  <2>1. \A d \in Streams : srv'[d] = "deliver" => srv[d] = "deliver" /\ routing'[d] = routing[d]
    BY DEF StreamRegister, ServerTypeOK
  <2>2. UNCHANGED <<wire, output>>
    BY DEF StreamRegister
  <2> QED
    BY <2>1, <2>2, <1>2, MessagesFlow
<1>7. ServerInv'
  BY <1>0, <1>3 DEF StreamRegister, httpVars, ServerTypeOK, AgentTypeOK, ServerInv
<1> QED
  BY <1>1, <1>4, <1>5, <1>6, <1>7

LEMMA RouteStep ==
  ASSUME StreamInv, NEW c \in Streams, Route(c)
  PROVE  StreamInv'
<1> USE DEF StreamInv, TypeOK
<1>m. PICK m : m = Head(wire[c])
  OBVIOUS
<1>0. srv[c] = "recv" /\ job[c] = NoJob /\ dead[c] = {} /\ c \in Threads
  BY DEF Route, ServerInv, Threads
<1>1. /\ wire[c] \in Seq(Message) /\ wire[c] # <<>>
      /\ Tail(wire[c]) \in Seq(Message) /\ Len(Tail(wire[c])) = Len(wire[c]) - 1
      /\ \A i \in 1..Len(Tail(wire[c])) : i + 1 \in 1..Len(wire[c]) /\ Tail(wire[c])[i] = wire[c][i + 1]
      /\ 1 \in 1..Len(wire[c]) /\ m = wire[c][1] /\ m \in Message
  BY <1>m DEF Route, AgentTypeOK
<1>2. m.sess \in Sessions /\ MessageOK(m.sess, m.what)
  BY <1>1 DEF MessageInv, Message
<1>3. wire' = [wire EXCEPT ![c] = Tail(wire[c])]
  BY DEF Route
<1>r. PICK r : r = IF Found(m.sess) /\ m.what \in {"exit0", "exit1"}
                   THEN [NoJob EXCEPT !.at = "drop", !.sess = m.sess, !.how = m.what] ELSE NoJob
  OBVIOUS
<1>4. /\ job' = [job EXCEPT ![c] = r]
      /\ \/ r = NoJob
         \/ r \in Job /\ Found(m.sess) /\ r.at = "drop" /\ r.sess = m.sess /\ r.how = m.what
  <2>1. r # NoJob => job' = [job EXCEPT ![c] = r] /\ Found(m.sess)
    BY <1>m, <1>r DEF Route
  <2>2. r = NoJob => job' = job
    BY <1>m, <1>r, <1>1 DEF Route, NoJob
  <2>3. job = [job EXCEPT ![c] = NoJob]
    BY <1>0 DEF ServerTypeOK
  <2>4. \/ r = NoJob
        \/ r \in Job /\ r.at = "drop" /\ r.sess = m.sess /\ r.how = m.what
    BY <1>r, <1>2 DEF Job, NoJob, Endings
  <2> QED
    BY <2>1, <2>2, <2>3, <2>4
<1>5. /\ \A d \in Streams : srv[d] = "recv" /\ d # c => srv'[d] = "recv"
      /\ srv'[c] \in {"recv", "deliver"} /\ (r # NoJob => srv'[c] = "recv")
      /\ \A d \in Streams : d # c => srv'[d] = srv[d] /\ routing'[d] = routing[d]
      /\ srv'[c] = "deliver" => routing'[c] = m /\ m.what \in {"output", "error"} /\ Found(m.sess)
  BY <1>0, <1>m, <1>r DEF Route, ServerTypeOK
<1>6. TypeOK'
  <2>1. srv' \in [Streams -> {"unused", "opening", "recv", "deliver", "closing", "done"}]
    BY DEF Route, ServerTypeOK
  <2>2. routing' \in [Streams -> Message \cup {None}]
    BY <1>1, <1>m DEF Route, ServerTypeOK
  <2>3. job' \in [Threads -> Job]
    BY <1>4, NoJobFacts DEF ServerTypeOK
  <2>4. ServerTypeOK'
    BY <2>1, <2>2, <2>3 DEF Route, ServerTypeOK
  <2>5. AgentTypeOK'
    BY <1>1, <1>3, StreamAssumption DEF Route, agentVars, AgentTypeOK
  <2> QED
    BY <2>4, <2>5, KeepTypes DEF Route
<1>7. Advances
  BY DEF Route, httpVars, agentVars, Advances
<1>8. HandlerInv' /\ DoneInv'
  BY <1>7, KeepHandlers, KeepDone DEF Route, managerVars, httpVars, agentVars
<1>9. JobInv'
  <2>1. reply[m.sess] = "streaming" \/ ~Found(m.sess)
    BY <1>2 DEF Found, SessionsInv
  <2>2. m.what = "exit0" => proc[m.sess] = "exit0"
    BY <1>2 DEF MessageOK
  <2>3. GoodJob(r)'
    BY <1>2, <1>4, <2>1, <2>2, NoJobFacts DEF Route, httpVars, agentVars, GoodJob
  <2>4. sessions' = sessions /\ pc' = pc
    BY DEF Route, managerVars, httpVars
  <2>5. r.at # "none" => srv'[c] = "recv"
    BY <1>4, <1>5, NoJobFacts
  <2>6. \A d \in Streams : job[d].at # "none" => srv'[d] = "recv"
    BY <1>0, <1>5, NoJobFacts DEF JobInv
  <2>7. job'[c] = r /\ \A u \in Threads : u # c => job'[u] = job[u]
    BY <1>0, <1>4 DEF ServerTypeOK
  <2>8. c \notin Sessions /\ (\A z \in Sessions : z \in Threads) /\ \A d \in Streams : d \in Threads
    BY SessionAssumption DEF Threads
  <2> QED
    BY <2>3, <2>4, <2>5, <2>6, <2>7, <2>8, <1>7 DEF JobInv, GoodJob, Advances
<1>10. MessageInv'
  <2>1. \A d \in Streams : \A i \in 1..Len(wire'[d]) : \E j \in 1..Len(wire[d]) : wire'[d][i] = wire[d][j]
    BY <1>1, <1>3 DEF AgentTypeOK
  <2>2. \A d \in Streams : srv'[d] = "deliver" =>
           \/ srv[d] = "deliver" /\ routing'[d] = routing[d]
           \/ /\ \E j \in 1..Len(wire[d]) : routing'[d] = wire[d][j]
              /\ routing'[d].what \in {"output", "error"}
              /\ reply[routing'[d].sess] = "streaming"
    BY <1>1, <1>2, <1>5 DEF Found, SessionsInv
  <2>3. UNCHANGED output
    BY DEF Route
  <2> QED
    BY <2>1, <2>2, <2>3, <1>7, MessagesFlow
<1>11. ServerInv'
  BY <1>0, <1>5 DEF Route, managerVars, httpVars, agentVars, ServerInv
<1>12. SessionsInv'
  <2>1. \A s \in Sessions : SureClosers(s) \subseteq SureClosers(s)'
    BY <1>0, <1>4, NoJobFacts, ClosersStay DEF Route, Ending
  <2> QED
    BY <2>1 DEF Route, managerVars, httpVars, agentVars, SessionsInv
<1> QED
  BY <1>6, <1>8, <1>9, <1>10, <1>11, <1>12
LEMMA RouteDeliverStep ==
  ASSUME StreamInv, NEW c \in Streams, RouteDeliver(c)
  PROVE  StreamInv'
<1> USE DEF StreamInv, TypeOK
<1>m. PICK m : m = routing[c]
  OBVIOUS
<1>s. PICK s : s = m.sess
  OBVIOUS
<1>0. /\ srv[c] = "deliver" /\ job[c].at = "none" /\ job[c] = NoJob /\ dead[c] = {} /\ c \in Threads
      /\ m.what \in {"output", "error"} /\ s \in Sessions /\ MessageOK(s, m.what)
  <2>1. c \in Threads
    BY DEF Threads
  <2> QED
    BY <2>1, <1>m, <1>s DEF RouteDeliver, ServerInv, JobInv, MessageInv, Message
<1>1. \/ UNCHANGED output
      \/ ended[s] = "no" /\ Len(output[s]) < OutputBuffer /\ output' = [output EXCEPT ![s] = Append(output[s], m.what)]
  BY <1>m, <1>s DEF RouteDeliver
<1>2. /\ Append(output[s], m.what) \in Seq({"output", "error"})
      /\ Len(Append(output[s], m.what)) = Len(output[s]) + 1
      /\ \A i \in 1..Len(Append(output[s], m.what)) :
           \/ i \in 1..Len(output[s]) /\ Append(output[s], m.what)[i] = output[s][i]
           \/ Append(output[s], m.what)[i] = m.what
  BY <1>0 DEF ServerTypeOK
<1>r. PICK r : r = [NoJob EXCEPT !.at = "lookup", !.sess = s]
  OBVIOUS
<1>3. r \in Job /\ r.at = "lookup" /\ r.sess = s /\ r.how = "canceled"
  BY <1>0, <1>r DEF NoJob, Job, Endings
<1>4. PICK q \in {r, NoJob} : job' = [job EXCEPT ![c] = q] /\ (q = r => ended[s] = "no")
  <2>1. job = [job EXCEPT ![c] = NoJob]
    BY <1>0 DEF ServerTypeOK
  <2>2. job' = job \/ (job' = [job EXCEPT ![c] = r] /\ ended[s] = "no")
    BY <1>m, <1>s, <1>r DEF RouteDeliver
  <2>3. NoJob # r
    BY <1>3, NoJobFacts
  <2> QED
    BY <2>1, <2>2, <2>3
<1>5. /\ srv'[c] = "recv" /\ \A d \in Streams : d # c => srv'[d] = srv[d] /\ routing'[d] = routing[d]
  BY DEF RouteDeliver, ServerTypeOK
<1>6. TypeOK'
  <2>1. srv' \in [Streams -> {"unused", "opening", "recv", "deliver", "closing", "done"}]
        /\ routing' \in [Streams -> Message \cup {None}]
    BY DEF RouteDeliver, ServerTypeOK
  <2>2. job' \in [Threads -> Job]
    BY <1>3, <1>4, NoJobFacts DEF ServerTypeOK
  <2>3. output' \in [Sessions -> Seq({"output", "error"})]
    BY <1>0, <1>1, <1>2 DEF ServerTypeOK
  <2>4. \A z \in Sessions : Len(output'[z]) <= OutputBuffer
    BY <1>0, <1>1, <1>2, StreamAssumption, SMTT(20) DEF ServerTypeOK
  <2>5. dead' = dead /\ crashed' \in BOOLEAN
    BY DEF RouteDeliver, ServerTypeOK
  <2>6. ServerTypeOK'
    BY <2>1, <2>2, <2>3, <2>4, <2>5 DEF ServerTypeOK
  <2> QED
    BY <2>6, KeepTypes DEF RouteDeliver, agentVars
<1>7. Advances
  BY DEF RouteDeliver, httpVars, agentVars, Advances
<1>8. HandlerInv' /\ DoneInv'
  BY <1>7, KeepHandlers, KeepDone DEF RouteDeliver, managerVars, httpVars, agentVars
<1>9. JobInv'
  <2>1. reply[s] = "streaming"
    BY <1>0, <1>m, <1>s DEF MessageInv
  <2>2. GoodJob(q)'
    BY <1>0, <1>3, <1>4, <2>1, NoJobFacts DEF RouteDeliver, httpVars, agentVars, GoodJob
  <2> QED
    BY <2>2, <1>0, <1>4, <1>5, <1>7, MoveJob DEF RouteDeliver, managerVars, httpVars
<1>10. MessageInv'
  <2>1. UNCHANGED wire
    BY DEF RouteDeliver
  <2>2. \A d \in Streams : srv'[d] = "deliver" => srv[d] = "deliver" /\ routing'[d] = routing[d]
    BY <1>5
  <2>3. \A z \in Sessions : \A i \in 1..Len(output'[z]) :
           \/ \E j \in 1..Len(output[z]) : output'[z][i] = output[z][j]
           \/ output'[z][i] = "error" => kind[z] = "pf" /\ pc[z] # "new"
    <3>a. PICK a : a = Append(output[s], m.what)
      OBVIOUS
    <3>1. CASE UNCHANGED output
      BY <3>1
    <3>2. CASE output' = [output EXCEPT ![s] = a]
      <4>1. \A z \in Sessions : output'[z] = IF z = s THEN a ELSE output[z]
        BY <3>2 DEF ServerTypeOK
      <4>2. \A i \in 1..Len(a) : (i \in 1..Len(output[s]) /\ a[i] = output[s][i]) \/ a[i] = m.what
        BY <3>a, <1>2
      <4>3. m.what = "error" => kind[s] = "pf" /\ pc[s] # "new"
        BY <1>0 DEF MessageOK
      <4> QED
        BY <4>1, <4>2, <4>3
    <3> QED
      BY <3>1, <3>2, <3>a, <1>1
  <2> QED
    BY <2>1, <2>2, <2>3, <1>7, MessagesFlow
<1>11. ServerInv'
  BY <1>0, <1>5 DEF RouteDeliver, managerVars, httpVars, agentVars, ServerInv
<1>12. SessionsInv'
  <2>1. \A z \in Sessions : SureClosers(z) \subseteq SureClosers(z)'
    <3>1. q \in Job /\ UNCHANGED dead
      BY <1>3, <1>4, NoJobFacts DEF RouteDeliver
    <3>2. job[c].at \notin Ending
      BY <1>0, NoJobFacts DEF Ending
    <3> QED
      BY <1>0, <1>4, <3>1, <3>2, ClosersStay
  <2> QED
    BY <2>1 DEF RouteDeliver, managerVars, httpVars, agentVars, SessionsInv
<1> QED
  BY <1>6, <1>8, <1>9, <1>10, <1>11, <1>12

LEMMA StreamClosedStep ==
  ASSUME StreamInv, NEW c \in Streams, StreamClosed(c)
  PROVE  StreamInv'
<1> USE DEF StreamInv, TypeOK
<1>D. PICK D : D = Dead(owner[c])
  OBVIOUS
<1>0. /\ srv[c] = "recv" /\ dead[c] = {} /\ owner[c] \in AgentIds /\ job[c].at = "none"
      /\ D \subseteq Sessions /\ \A s \in D : reply[s] = "streaming"
  <2>1. owner[c] \in AgentIds
    BY DEF StreamClosed, ServerInv
  <2>2. agents[owner[c]] \in Streams \cup {None}
    BY <2>1 DEF ManagerTypeOK
  <2>3. D \subseteq Sessions /\ \A s \in D : reply[s] = "streaming"
    BY <2>2, <1>D DEF Dead, ManagerTypeOK, ServerInv
  <2> QED
    BY <2>1, <2>3, NoJobFacts DEF StreamClosed, ServerInv
<1>1. /\ sessions' = sessions \ D /\ UNCHANGED <<connSessions, agentID, ended>>
      /\ dead' = [dead EXCEPT ![c] = D] /\ srv' = [srv EXCEPT ![c] = "closing"]
      /\ wire' = [wire EXCEPT ![c] = <<>>]
      /\ agents' = [agents EXCEPT ![owner[c]] = None]
      /\ UNCHANGED <<httpVars, output, job, routing, agentVars, crashed>>
  BY <1>D DEF StreamClosed, UnregisterAgentStream
<1>2. /\ dead'[c] = D /\ srv'[c] = "closing"
      /\ \A d \in Streams : d # c => dead'[d] = dead[d] /\ srv'[d] = srv[d]
  BY <1>1 DEF ServerTypeOK
<1>3. TypeOK'
  <2>1. ManagerTypeOK'
    BY <1>1 DEF ManagerTypeOK
  <2>2. ServerTypeOK'
    BY <1>0, <1>1 DEF ServerTypeOK
  <2>3. AgentTypeOK'
    <3>1. <<>> \in Seq(Message) /\ Len(<<>>) <= WireBound
      BY StreamAssumption
    <3> QED
      BY <1>1, <3>1 DEF agentVars, AgentTypeOK
  <2> QED
    BY <2>1, <2>2, <2>3, <1>1, KeepTypes
<1>4. Advances
  BY <1>1 DEF httpVars, agentVars, Advances
<1>5. HandlerInv' /\ DoneInv'
  BY <1>1, <1>4, KeepHandlers, KeepDone DEF httpVars, agentVars
<1>6. JobInv'
  BY <1>0, <1>1, <1>2, <1>4, KeepJobs DEF JobInv, httpVars
<1>7. MessageInv'
  <2>1. \A d \in Streams : \A i \in 1..Len(wire'[d]) : \E j \in 1..Len(wire[d]) : wire'[d][i] = wire[d][j]
    BY <1>1 DEF AgentTypeOK
  <2>2. \A d \in Streams : srv'[d] = "deliver" => srv[d] = "deliver" /\ routing'[d] = routing[d]
    BY <1>1, <1>2
  <2> QED
    BY <2>1, <2>2, <1>1, <1>4, MessagesFlow
<1>8. ServerInv'
  BY <1>0, <1>1, <1>2 DEF httpVars, agentVars, ServerInv
<1>9. SessionsInv'
  <2>1. \A s \in Sessions : SureClosers(s) \subseteq SureClosers(s)'
    BY <1>0, <1>1, <1>2 DEF SureClosers
  <2>2. \A s \in D : c \in SureClosers(s)'
    BY <1>2 DEF SureClosers
  <2> QED
    BY <2>1, <2>2, <1>1 DEF httpVars, agentVars, SessionsInv
<1> QED
  BY <1>3, <1>5, <1>6, <1>7, <1>8, <1>9

LEMMA CloseDeadStep ==
  ASSUME StreamInv, NEW c \in Streams, CloseDead(c)
  PROVE  StreamInv'
<1> USE DEF StreamInv, TypeOK
<1>0. srv[c] = "closing" /\ job[c].at = "none" /\ UNCHANGED <<httpVars, output, job, routing, agentVars, wire, crashed>>
  BY DEF CloseDead, JobInv
<1>4. Advances
  BY <1>0 DEF httpVars, agentVars, Advances
<1>a. CASE dead[c] = {} /\ srv' = [srv EXCEPT ![c] = "done"] /\ UNCHANGED <<managerVars, dead>>
  <2>1. srv'[c] = "done" /\ \A d \in Streams : d # c => srv'[d] = srv[d]
    BY <1>a DEF ServerTypeOK
  <2>2. TypeOK'
    <3>1. ServerTypeOK'
      BY <1>0, <1>a DEF ServerTypeOK
    <3> QED
      BY <3>1, <1>0, <1>a, KeepTypes DEF agentVars
  <2>3. HandlerInv' /\ SessionsInv' /\ DoneInv'
    BY <1>0, <1>4, <1>a, KeepHandlers, KeepSessions, KeepDone DEF managerVars, httpVars, agentVars
  <2>4. JobInv'
    BY <1>0, <1>4, <1>a, <2>1, KeepJobs DEF managerVars, httpVars, JobInv
  <2>5. MessageInv'
    BY <1>0, <1>4, <2>1, MessagesFlow
  <2>6. ServerInv'
    BY <1>0, <1>a, <2>1 DEF managerVars, httpVars, agentVars, ServerInv
  <2> QED
    BY <2>2, <2>3, <2>4, <2>5, <2>6
<1>b. CASE \E s \in dead[c] :
             /\ CloseSession(s, "disconnected")
             /\ dead' = [dead EXCEPT ![c] = @ \ {s}]
             /\ UNCHANGED srv
  <2>0. PICK z \in dead[c] :
             /\ CloseSession(z, "disconnected")
             /\ dead' = [dead EXCEPT ![c] = dead[c] \ {z}]
             /\ UNCHANGED srv
    BY <1>b
  <2>1. z \in Sessions /\ z \notin sessions /\ reply[z] = "streaming"
    BY DEF ServerTypeOK, ServerInv
  <2>2. /\ UNCHANGED <<agents, connSessions, sessions, agentID>>
        /\ ended' \in [Sessions -> Endings \cup {"no"}]
        /\ ended'[z] # "no"
        /\ \A s \in Sessions : s # z => ended'[s] = ended[s]
        /\ ended[z] # "no" => ended'[z] = ended[z]
        /\ ended[z] = "no" => ended'[z] = "disconnected"
    BY <2>0, <2>1 DEF CloseSession, ManagerTypeOK, Endings
  <2>3. dead'[c] = dead[c] \ {z} /\ \A d \in Streams : d # c => dead'[d] = dead[d]
    BY <2>0 DEF ServerTypeOK
  <2>4. TypeOK'
    <3>1. ServerTypeOK'
      BY <1>0, <2>0 DEF ServerTypeOK
    <3>2. ManagerTypeOK'
      BY <2>2 DEF ManagerTypeOK
    <3> QED
      BY <3>1, <3>2, <1>0, KeepTypes DEF agentVars
  <2>5. HandlerInv' /\ MessageInv' /\ DoneInv'
    BY <1>0, <1>4, <2>0, <2>2, KeepHandlers, KeepMessages, KeepDone DEF httpVars, agentVars
  <2>6. JobInv'
    BY <1>0, <1>4, <2>0, <2>2, KeepJobs DEF httpVars, JobInv
  <2>7. ServerInv'
    BY <1>0, <2>0, <2>2, <2>3 DEF httpVars, agentVars, ServerInv
  <2>8. SessionsInv'
    <3>1. ASSUME NEW s \in Sessions, s # z
          PROVE  SureClosers(s) \subseteq SureClosers(s)'
      BY <3>1, <1>0, <2>3 DEF SureClosers
    <3> QED
      BY <3>1, <1>0, <2>1, <2>2 DEF httpVars, agentVars, SessionsInv
  <2> QED
    BY <2>4, <2>5, <2>6, <2>7, <2>8
<1> QED
  BY <1>a, <1>b DEF CloseDead
-------------------------------------------------------------------------------
(* The agent. *)

(* Steps that change only the stream's ends and processes. *)
LEMMA AgentSteps ==
  ASSUME StreamInv, AgentTypeOK', Advances, MessageInv',
         UNCHANGED <<managerVars, httpVars, output, job, srvVars, owner, crashed>>,
         \A c \in Streams : link'[c] = "unused" => link[c] = "unused",
         \A s \in Sessions : proc'[s] # "none" => proc[s] # "none"
  PROVE  StreamInv'
<1> USE DEF StreamInv, TypeOK
<1>1. TypeOK'
  BY KeepTypes DEF srvVars
<1>2. DoneInv'
  <2>1. \A s \in Sessions : audit[s] = "denied" => proc'[s] = proc[s]
    BY DEF DoneInv
  <2> QED
    BY <2>1, KeepDone DEF managerVars, httpVars
<1> QED
  BY <1>1, <1>2, KeepHandlers, KeepJobs, KeepServers, KeepSessions
     DEF managerVars, httpVars, srvVars, JobInv, ServerInv

LEMMA OpenStreamStep ==
  ASSUME StreamInv, NEW a \in AgentIds, NEW c \in Streams, OpenStream(a, c)
  PROVE  StreamInv'
<1> USE DEF StreamInv, TypeOK
<1>0. job[c].at = "none" /\ srv[c] = "unused"
  BY DEF OpenStream, ServerInv, JobInv
<1>1. TypeOK'
  <2>1. ServerTypeOK'
    BY DEF OpenStream, ServerTypeOK
  <2>2. AgentTypeOK'
    BY DEF OpenStream, AgentTypeOK
  <2> QED
    BY <2>1, <2>2, KeepTypes DEF OpenStream
<1>2. Advances
  BY DEF OpenStream, httpVars, Advances
<1>3. HandlerInv' /\ SessionsInv' /\ DoneInv'
  BY <1>2, KeepHandlers, KeepSessions, KeepDone DEF OpenStream, managerVars, httpVars
<1>4. JobInv'
  BY <1>0, <1>2, KeepJobs DEF OpenStream, managerVars, httpVars, ServerTypeOK, JobInv
<1>5. MessageInv'
  <2>1. \A d \in Streams : srv'[d] = "deliver" => srv[d] = "deliver" /\ routing'[d] = routing[d]
    BY DEF OpenStream, ServerTypeOK
  <2>2. UNCHANGED <<wire, output>>
    BY DEF OpenStream
  <2> QED
    BY <2>1, <2>2, <1>2, MessagesFlow
<1>6. ServerInv'
  BY <1>0 DEF OpenStream, managerVars, httpVars, ServerTypeOK, AgentTypeOK, ServerInv
<1> QED
  BY <1>1, <1>3, <1>4, <1>5, <1>6

LEMMA LinkBreakStep ==
  ASSUME StreamInv, NEW c \in Streams, LinkBreak(c)
  PROVE  StreamInv'
<1>1. AgentTypeOK'
  BY DEF StreamInv, TypeOK, LinkBreak, AgentTypeOK
<1>2. Advances
  BY DEF LinkBreak, httpVars, Advances
<1>3. MessageInv'
  BY <1>2, KeepMessages DEF StreamInv, LinkBreak, srvVars
<1> QED
  BY <1>1, <1>2, <1>3, AgentSteps DEF LinkBreak

LEMMA AgentTeardownStep ==
  ASSUME StreamInv, NEW a \in AgentIds, AgentTeardown(a)
  PROVE  StreamInv'
<1>1. \A s \in Sessions : proc'[s] = proc[s] \/ (proc[s] \in Live /\ proc'[s] = "killed")
  BY DEF AgentTeardown
<1>2. AgentTypeOK'
  BY DEF StreamInv, TypeOK, AgentTeardown, AgentTypeOK
<1>3. Advances
  BY <1>1 DEF AgentTeardown, httpVars, Live, Advances
<1>4. MessageInv'
  BY <1>3, KeepMessages DEF StreamInv, AgentTeardown, srvVars
<1> QED
  BY <1>1, <1>2, <1>3, <1>4, AgentSteps DEF AgentTeardown, Live

(* stream.Send of a message that is true of its session. *)
LEMMA AgentSendFacts ==
  ASSUME StreamInv, Advances, NEW s \in Sessions, proc[s] # "none",
         NEW x \in {"output", "error", "exit0", "exit1"},
         AgentSend(s, x), MessageOK(s, x)', UNCHANGED <<srvVars, output>>
  PROVE  /\ wire' \in [Streams -> Seq(Message)]
         /\ \A c \in Streams : Len(wire'[c]) <= WireBound
         /\ MessageInv'
<1> USE DEF StreamInv, TypeOK
<1> DEFINE k == startConn[s]
<1>m. PICK m : m = [sess |-> s, what |-> x]
  OBVIOUS
<1>0. k \in Streams /\ m \in Message
  BY <1>m DEF HandlerInv, Message
<1>1. /\ wire[k] \in Seq(Message) /\ Append(wire[k], m) \in Seq(Message)
      /\ Len(Append(wire[k], m)) = Len(wire[k]) + 1
      /\ \A i \in 1..Len(Append(wire[k], m)) :
           \/ i \in 1..Len(wire[k]) /\ Append(wire[k], m)[i] = wire[k][i]
           \/ Append(wire[k], m)[i] = m
  BY <1>0 DEF AgentTypeOK
<1>2. \/ UNCHANGED wire
      \/ Len(wire[k]) < WireBound /\ wire' = [wire EXCEPT ![k] = Append(wire[k], m)]
  BY <1>m DEF AgentSend
<1>3. wire' \in [Streams -> Seq(Message)]
  BY <1>0, <1>1, <1>2 DEF AgentTypeOK
<1>4. \A c \in Streams : Len(wire'[c]) <= WireBound
  <2>1. Len(wire[k]) < WireBound => Len(Append(wire[k], m)) <= WireBound
    BY <1>1, StreamAssumption
  <2> QED
    BY <2>1, <1>0, <1>2 DEF AgentTypeOK
<1>5. \A c \in Streams : \A i \in 1..Len(wire'[c]) :
        \/ \E j \in 1..Len(wire[c]) : wire'[c][i] = wire[c][j]
        \/ \E z \in Sessions, y \in {"output", "error", "exit0", "exit1"} :
             wire'[c][i] = [sess |-> z, what |-> y] /\ MessageOK(z, y)'
  <2> SUFFICES ASSUME NEW c \in Streams, NEW i \in 1..Len(wire'[c]),
                      ~\E j \in 1..Len(wire[c]) : wire'[c][i] = wire[c][j]
               PROVE  wire'[c][i] = [sess |-> s, what |-> x]
    OBVIOUS
  <2> QED
    BY <1>0, <1>1, <1>2, <1>m DEF AgentTypeOK
<1>6. MessageInv'
  BY <1>5, MessagesFlow DEF srvVars
<1> QED
  BY <1>3, <1>4, <1>6

LEMMA AgentStartStep ==
  ASSUME StreamInv, NEW s \in Sessions, AgentStart(s)
  PROVE  StreamInv'
<1> USE DEF StreamInv, TypeOK
<1>0. proc[s] = "told" /\ pc[s] # "new"
  BY DEF AgentStart, HandlerInv
<1>1. /\ proc' \in [Sessions -> Live \cup {"none", "exit0", "exit1", "killed"}]
      /\ proc' = [proc EXCEPT ![s] = "running"] \/ proc' = [proc EXCEPT ![s] = "exit1"]
  BY DEF AgentStart, AgentTypeOK, Live
<1>2. Advances
  BY <1>0, <1>1 DEF AgentStart, httpVars, AgentTypeOK, Advances
<1>3. /\ wire' \in [Streams -> Seq(Message)]
      /\ \A c \in Streams : Len(wire'[c]) <= WireBound
      /\ MessageInv'
  <2>1. CASE UNCHANGED wire
    BY <2>1, <1>2, KeepMessages DEF AgentStart, srvVars, AgentTypeOK
  <2>2. CASE kind[s] = "pf" /\ AgentSend(s, "error")
    <3>1. MessageOK(s, "error")'
      BY <1>0, <2>2 DEF AgentStart, httpVars, MessageOK
    <3> QED
      BY <3>1, <2>2, <1>0, <1>2, AgentSendFacts DEF AgentStart
  <2> QED
    BY <2>1, <2>2 DEF AgentStart
<1>4. AgentTypeOK'
  BY <1>1, <1>3 DEF AgentStart, AgentTypeOK
<1>5. \A z \in Sessions : proc'[z] # "none" => proc[z] # "none"
  BY <1>0, <1>1 DEF AgentTypeOK
<1> QED
  BY <1>2, <1>3, <1>4, <1>5, AgentSteps DEF AgentStart

LEMMA AgentOutputStep ==
  ASSUME StreamInv, NEW s \in Sessions, AgentOutput(s)
  PROVE  StreamInv'
<1>1. Advances
  BY DEF AgentOutput, httpVars, agentVars, Advances
<1>2. MessageOK(s, "output")'
  BY DEF MessageOK
<1>3. /\ wire' \in [Streams -> Seq(Message)]
      /\ \A c \in Streams : Len(wire'[c]) <= WireBound
      /\ MessageInv'
  BY <1>1, <1>2, AgentSendFacts DEF AgentOutput
<1>4. AgentTypeOK'
  BY <1>3 DEF StreamInv, TypeOK, AgentOutput, agentVars, AgentTypeOK
<1> QED
  BY <1>1, <1>3, <1>4, AgentSteps DEF AgentOutput, agentVars

LEMMA AgentExitStep ==
  ASSUME StreamInv, NEW s \in Sessions, NEW x \in {"exit0", "exit1"}, AgentExit(s, x)
  PROVE  StreamInv'
<1> USE DEF StreamInv, TypeOK
<1>0. proc[s] \in {"running", "canceled"} /\ proc' = [proc EXCEPT ![s] = x]
  BY DEF AgentExit
<1>1. proc' \in [Sessions -> Live \cup {"none", "exit0", "exit1", "killed"}]
  BY <1>0 DEF AgentTypeOK
<1>2. Advances
  BY <1>0 DEF AgentExit, httpVars, AgentTypeOK, Advances
<1>3. /\ wire' \in [Streams -> Seq(Message)]
      /\ \A c \in Streams : Len(wire'[c]) <= WireBound
      /\ MessageInv'
  <2>1. CASE UNCHANGED wire
    BY <2>1, <1>2, KeepMessages DEF AgentExit, srvVars, AgentTypeOK
  <2>2. CASE AgentSend(s, x)
    <3>1. MessageOK(s, x)'
      BY <1>0 DEF AgentTypeOK, MessageOK
    <3> QED
      BY <3>1, <2>2, <1>0, <1>2, AgentSendFacts DEF AgentExit
  <2> QED
    BY <2>1, <2>2 DEF AgentExit
<1>4. AgentTypeOK'
  BY <1>1, <1>3 DEF AgentExit, AgentTypeOK
<1>5. \A z \in Sessions : proc'[z] # "none" => proc[z] # "none"
  BY <1>0 DEF AgentTypeOK
<1> QED
  BY <1>2, <1>3, <1>4, <1>5, AgentSteps DEF AgentExit
-------------------------------------------------------------------------------
LEMMA StreamInitially == Init => StreamInv
<1> SUFFICES ASSUME Init PROVE StreamInv
  OBVIOUS
<1> USE DEF Init, NewSessionManager
<1>1. ManagerTypeOK
  BY DEF ManagerTypeOK
<1>2. HttpTypeOK
  BY DEF HttpTypeOK
<1>3. <<>> \in Seq(Message) /\ <<>> \in Seq({"output", "error"}) /\ Len(<<>>) = 0
  OBVIOUS
<1>4. ServerTypeOK
  <2>1. 0 <= OutputBuffer
    BY StreamAssumption
  <2>2. \A s \in Sessions : output[s] = <<>> /\ Len(output[s]) <= OutputBuffer
    BY <2>1, <1>3
  <2>3. job \in [Threads -> Job]
    BY NoJobFacts
  <2> QED
    BY <2>2, <2>3, <1>3 DEF ServerTypeOK
<1>5. AgentTypeOK
  BY <1>3, StreamAssumption DEF AgentTypeOK
<1>6. HandlerInv /\ ServerInv /\ DoneInv
  BY DEF HandlerInv, ServerInv, DoneInv
<1>7. JobInv
  BY NoJobFacts DEF JobInv, Threads
<1>8. MessageInv
  BY <1>3 DEF MessageInv
<1>9. SessionsInv
  BY DEF SessionsInv
<1> QED
  BY <1>1, <1>2, <1>4, <1>5, <1>6, <1>7, <1>8, <1>9 DEF StreamInv, TypeOK

LEMMA StreamStutters == ASSUME StreamInv, UNCHANGED vars PROVE StreamInv'
<1> USE DEF StreamInv, vars, managerVars, httpVars, srvVars, agentVars
<1>1. Advances
  BY DEF Advances
<1>2. TypeOK'
  BY KeepTypes DEF TypeOK
<1>3. HandlerInv' /\ JobInv'
  BY <1>1, KeepHandlers, KeepJobs DEF JobInv
<1>4. MessageInv' /\ ServerInv'
  BY <1>1, KeepMessages, KeepServers DEF ServerInv
<1>5. SessionsInv' /\ DoneInv'
  BY <1>1, KeepSessions, KeepDone
<1> QED
  BY <1>2, <1>3, <1>4, <1>5

LEMMA StreamSteps == ASSUME StreamInv, Next PROVE StreamInv'
<1>1. ASSUME NEW s \in Sessions,
             \/ \E k \in Kinds, a \in AgentIds : StreamRoute(s, k, a)
             \/ HandlerStep(s) \/ ClientGone(s) \/ RelayGone(s)
             \/ AgentStart(s) \/ AgentOutput(s)
             \/ \E x \in {"exit0", "exit1"} : AgentExit(s, x)
      PROVE  StreamInv'
  BY <1>1, StreamRouteStep, StartCheckStep, StartSendStep, StartInsertStep, RelayChunkStep,
     RelayEndStep, FinishStep, ClientGoneStep, RelayGoneStep, AgentStartStep, AgentOutputStep,
     AgentExitStep DEF HandlerStep
<1>2. ASSUME NEW t \in Threads, EndStep(t)
      PROVE  StreamInv'
  BY <1>2, CancelLookupStep, CancelSendStep, EndDropStep, EndCloseStep DEF EndStep
<1>3. ASSUME NEW c \in Streams,
             ServerStep(c) \/ LinkBreak(c) \/ \E a \in AgentIds : OpenStream(a, c)
      PROVE  StreamInv'
  BY <1>3, StreamRegisterStep, RouteStep, RouteDeliverStep, StreamClosedStep, CloseDeadStep,
     LinkBreakStep, OpenStreamStep DEF ServerStep
<1>4. ASSUME NEW a \in AgentIds, AgentTeardown(a)
      PROVE  StreamInv'
  BY <1>4, AgentTeardownStep
<1> QED
  BY <1>1, <1>2, <1>3, <1>4 DEF Next

(* The inductive invariant of the streaming endpoints. *)
THEOREM StreamInvariant == Spec => []StreamInv
<1>1. StreamInv /\ [Next]_vars => StreamInv'
  BY StreamSteps, StreamStutters
<1> QED
  BY <1>1, StreamInitially, PTL DEF Spec

(* The variables of central and of the agents keep their types; no channel *)
(* holds more than its capacity.                                           *)
THEOREM StreamTypes == Spec => []TypeOK
<1>1. StreamInv => TypeOK
  BY DEF StreamInv
<1> QED
  BY <1>1, StreamInvariant, PTL

(* Route, Cancel and Unregister find open sessions only: whatever they     *)
(* race with, a session leaves m.sessions before its channels are closed.  *)
THEOREM FoundSessionsAreOpen == Spec => []ListedSessionsOpen
<1>1. StreamInv => ListedSessionsOpen
  BY DEF StreamInv, TypeOK, ManagerTypeOK, SessionsInv, ListedSessionsOpen
<1> QED
  BY <1>1, StreamInvariant, PTL

(* No handler is stranded: the session it relays or waits for is closed,   *)
(* can be found, or is in the hands of a goroutine that will close it.     *)
THEOREM HandlersCanReturn == Spec => []NoStrandedHandler
<1>1. StreamInv => NoStrandedHandler
  <2> SUFFICES ASSUME StreamInv, NEW s \in Sessions, pc[s] \in {"relaying", "waiting"},
                      ended[s] = "no", ~Found(s)
               PROVE  Closers(s) # {}
    BY DEF NoStrandedHandler
  <2>1. SureClosers(s) # {}
    BY DEF StreamInv, HandlerInv, SessionsInv, Found
  <2>2. SureClosers(s) \subseteq Closers(s)
    BY DEF SureClosers, Closers
  <2> QED
    BY <2>1, <2>2
<1> QED
  BY <1>1, StreamInvariant, PTL

(* Every return path of a /stream or /attach handler leaves its session    *)
(* closed and out of the map.                                              *)
THEOREM ReturnedHandlersReleased == Spec => []HandlersReleaseSessions
<1>1. StreamInv => HandlersReleaseSessions
  BY DEF StreamInv, SessionsInv, DoneInv, HandlersReleaseSessions, Found
<1> QED
  BY <1>1, StreamInvariant, PTL

(* Audit rows are true: "success" only of a process that exited with 0,    *)
(* "denied" only of a request that never started one.                      *)
THEOREM StreamAuditHolds == Spec => []StreamAuditTruthful
<1>1. StreamInv => StreamAuditTruthful
  BY DEF StreamInv, DoneInv, StreamAuditTruthful
<1> QED
  BY <1>1, StreamInvariant, PTL
===============================================================================
