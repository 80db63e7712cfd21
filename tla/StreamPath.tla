------------------------------ MODULE StreamPath ------------------------------
(***************************************************************************)
(* Streaming commands end to end: the HTTP handlers of /stream, /attach    *)
(* and /portforward, the OpenStream handler that receives from an agent's  *)
(* stream, and the agent's openAndServeStream, over SessionManager.        *)
(*                                                                         *)
(* Goroutines of central: one per HTTP request (a session) and one per     *)
(* OpenStream call (a stream).  Both may be inside Cancel or the exit path *)
(* of Route, whose steps job records.  A stream's two ends notice a broken *)
(* connection independently, so the agent may have opened the next stream  *)
(* before central's handler of the previous one returns.                   *)
(*                                                                         *)
(* A send on a closed channel panics, and nothing recovers a panic of a    *)
(* gRPC handler: central crashes.                                          *)
(*                                                                         *)
(* Abstracted: the content of chunks; stdin, resize and port-forward       *)
(* connection messages to the agent, which change no state of central;     *)
(* the agent registry (whether the cluster is found and connected is an    *)
(* input).                                                                 *)
(***************************************************************************)
EXTENDS SessionManager

CONSTANTS Kinds,          \* request kinds considered, a subset of AllKinds
          OutputBuffer,   \* sessionOutputBuffer
          WireBound       \* messages in flight on a stream (flow control)

AllKinds == {"stream", "exec", "pf"}

ASSUME StreamAssumption ==
  /\ Kinds \subseteq AllKinds
  /\ OutputBuffer \in Nat \ {0} /\ WireBound \in Nat \ {0}

VARIABLES
  pc,         \* Sessions -> program counter of the HTTP handler
  kind,       \* Sessions -> which endpoint
  startConn,  \* Sessions -> the agentConn the session was started on
  output,     \* Sessions -> content of Output or PfOutput
  gone,       \* requests whose client has disconnected
  reply,      \* Sessions -> HTTP status class
  audit,      \* Sessions -> Status of the audit row, "none" without one
  job,        \* Sessions \cup Streams -> the goroutine's progress in Cancel or exit
  srv,        \* Streams -> program counter of OpenStream
  routing,    \* Streams -> the message Route is delivering
  dead,       \* Streams -> sessions UnregisterAgentStream has yet to close
  owner,      \* Streams -> the agent ID in StreamRegister
  link,       \* Streams -> "unused", "up" or "down"
  serving,    \* AgentIds -> the stream openAndServeStream reads
  proc,       \* Sessions -> the kubectl process on the agent
  wire,       \* Streams -> messages from agent to central
  crashed     \* central has panicked

httpVars == <<pc, kind, startConn, gone, reply, audit>>
srvVars  == <<srv, routing, dead>>
agentVars == <<owner, link, serving, proc>>
vars == <<managerVars, httpVars, output, job, srvVars, agentVars, wire, crashed>>

Threads == Sessions \cup Streams
Message == [sess : Sessions, what : {"output", "error", "exit0", "exit1"}]
NoJob == [at |-> "none", sess |-> None, conn |-> None, how |-> "canceled"]
Job == [at : {"none", "lookup", "send", "drop", "close"}, sess : Sessions \cup {None},
        conn : Streams \cup {None}, how : Endings]
Live == {"told", "running", "canceled"}

HttpTypeOK ==
  /\ pc \in [Sessions -> {"new", "authorized", "starting", "inserting", "relaying",
                          "waiting", "done"}]
  /\ kind \in [Sessions -> Kinds \cup {None}]
  /\ startConn \in [Sessions -> Streams \cup {None}]
  /\ gone \in SUBSET Sessions
  /\ reply \in [Sessions -> {"none", "refused", "denied", "nostream", "toomany", "streaming"}]
  /\ audit \in [Sessions -> {"none", "denied", "success", "failed", "canceled"}]

ServerTypeOK ==
  /\ output \in [Sessions -> Seq({"output", "error"})]
  /\ \A s \in Sessions : Len(output[s]) <= OutputBuffer
  /\ job \in [Threads -> Job]
  /\ srv \in [Streams -> {"unused", "opening", "recv", "deliver", "closing", "done"}]
  /\ routing \in [Streams -> Message \cup {None}]
  /\ dead \in [Streams -> SUBSET Sessions]
  /\ crashed \in BOOLEAN

AgentTypeOK ==
  /\ owner \in [Streams -> AgentIds \cup {None}]
  /\ link \in [Streams -> {"unused", "up", "down"}]
  /\ serving \in [AgentIds -> Streams \cup {None}]
  /\ proc \in [Sessions -> Live \cup {"none", "exit0", "exit1", "killed"}]
  /\ wire \in [Streams -> Seq(Message)]
  /\ \A c \in Streams : Len(wire[c]) <= WireBound

TypeOK == ManagerTypeOK /\ HttpTypeOK /\ ServerTypeOK /\ AgentTypeOK

Init ==
  /\ NewSessionManager
  /\ pc = [s \in Sessions |-> "new"]
  /\ kind = [s \in Sessions |-> None]
  /\ startConn = [s \in Sessions |-> None]
  /\ output = [s \in Sessions |-> <<>>]
  /\ gone = {}
  /\ reply = [s \in Sessions |-> "none"]
  /\ audit = [s \in Sessions |-> "none"]
  /\ job = [t \in Threads |-> NoJob]
  /\ srv = [c \in Streams |-> "unused"]
  /\ routing = [c \in Streams |-> None]
  /\ dead = [c \in Streams |-> {}]
  /\ owner = [c \in Streams |-> None]
  /\ link = [c \in Streams |-> "unused"]
  /\ serving = [a \in AgentIds |-> None]
  /\ proc = [s \in Sessions |-> "none"]
  /\ wire = [c \in Streams |-> <<>>]
  /\ crashed = FALSE

-------------------------------------------------------------------------------
(* The HTTP handlers *)

(* Write status x and return. *)
Reject(s, x) ==
  /\ reply' = [reply EXCEPT ![s] = x]
  /\ pc' = [pc EXCEPT ![s] = "done"]

(* AuditRecorder.Record: a failed insert is only logged. *)
Record(s, x) == audit' = [audit EXCEPT ![s] = x] \/ UNCHANGED audit

(* Find the agent (404, 503), parse the request (400), authorize it (403,  *)
(* audited).                                                               *)
StreamRoute(s, k, a) ==
  /\ pc[s] = "new"
  /\ kind' = [kind EXCEPT ![s] = k]
  /\ \/ Reject(s, "refused") /\ UNCHANGED <<audit, agentID>>
     \/ /\ Reject(s, "denied")
        /\ Record(s, "denied")
        /\ UNCHANGED agentID
     \/ /\ pc' = [pc EXCEPT ![s] = "authorized"]
        /\ agentID' = [agentID EXCEPT ![s] = a]
        /\ UNCHANGED <<reply, audit>>
  /\ UNCHANGED <<agents, connSessions, sessions, ended, startConn, gone, output, job,
                 srvVars, agentVars, wire, crashed>>

(* startSession, first critical section. *)
StartCheck(s) ==
  /\ pc[s] = "authorized"
  /\ LET a == agentID[s] IN
       \/ NoAgentStream(a) /\ Reject(s, "nostream") /\ UNCHANGED startConn
       \/ ~NoAgentStream(a) /\ TooManyStreams /\ Reject(s, "toomany") /\ UNCHANGED startConn
       \/ /\ ~NoAgentStream(a) /\ ~TooManyStreams
          /\ startConn' = [startConn EXCEPT ![s] = agents[a]]
          /\ pc' = [pc EXCEPT ![s] = "starting"]
          /\ UNCHANGED reply
  /\ UNCHANGED <<managerVars, kind, gone, audit, output, job, srvVars, agentVars, wire, crashed>>

(* The send of StartStream or PortForwardStart.  On a broken stream it     *)
(* fails, or is lost unnoticed while the handler of the stream still runs. *)
StartSend(s) ==
  /\ pc[s] = "starting"
  /\ LET c == startConn[s] IN
       \/ /\ link[c] = "down"
          /\ Reject(s, "nostream")
          /\ UNCHANGED proc
       \/ /\ srv[c] # "done"
          /\ proc' = IF link[c] = "up" THEN [proc EXCEPT ![s] = "told"] ELSE proc
          /\ pc' = [pc EXCEPT ![s] = "inserting"]
          /\ UNCHANGED reply
  /\ UNCHANGED <<managerVars, kind, startConn, gone, audit, output, job, srvVars,
                 owner, link, serving, wire, crashed>>

(* startSession, second critical section; then the 200. *)
StartInsert(s) ==
  /\ pc[s] = "inserting"
  /\ InsertSession(s, startConn[s])
  /\ pc' = [pc EXCEPT ![s] = "relaying"]
  /\ reply' = [reply EXCEPT ![s] = "streaming"]
  /\ UNCHANGED <<kind, startConn, gone, audit, output, job, srvVars, agentVars, wire, crashed>>

(* The request's context ends: the client has disconnected. *)
ClientGone(s) ==
  /\ pc[s] \notin {"new", "done"}
  /\ gone' = gone \cup {s}
  /\ UNCHANGED <<managerVars, pc, kind, startConn, reply, audit, output, job, srvVars,
                 agentVars, wire, crashed>>

(* case chunk, ok := <-sess.Output with ok.  A port-forward SESSION_ERROR  *)
(* makes runPortForwardBridge return at once: audited as failed, and the   *)
(* session is neither closed nor dropped.                                  *)
RelayChunk(s) ==
  /\ pc[s] = "relaying"
  /\ output[s] # <<>>
  /\ output' = [output EXCEPT ![s] = Tail(@)]
  /\ \/ Head(output[s]) = "output" /\ UNCHANGED <<pc, audit>>
     \/ /\ Head(output[s]) = "error"
        /\ pc' = [pc EXCEPT ![s] = "done"]
        /\ Record(s, "failed")
  /\ UNCHANGED <<managerVars, kind, startConn, gone, reply, job, srvVars, agentVars, wire, crashed>>

(* Mutant of RelayGone: Wait without Cancel. *)
RelayGoneNoCancel(s) ==
  /\ pc[s] = "relaying"
  /\ s \in gone
  /\ pc' = [pc EXCEPT ![s] = "waiting"]
  /\ UNCHANGED <<managerVars, kind, startConn, gone, reply, audit, output, job, srvVars,
                 agentVars, wire, crashed>>

(* case <-ctx.Done(): Cancel, then Wait. *)
RelayGone(s) ==
  /\ pc[s] = "relaying"
  /\ s \in gone
  /\ pc' = [pc EXCEPT ![s] = "waiting"]
  /\ job' = [job EXCEPT ![s] = [NoJob EXCEPT !.at = "lookup", !.sess = s]]
  /\ UNCHANGED <<managerVars, kind, startConn, gone, reply, audit, output, srvVars,
                 agentVars, wire, crashed>>

(* The channel is closed and drained. *)
RelayEnd(s) ==
  /\ pc[s] = "relaying"
  /\ output[s] = <<>>
  /\ ended[s] # "no"
  /\ pc' = [pc EXCEPT ![s] = "waiting"]
  /\ UNCHANGED <<managerVars, kind, startConn, gone, reply, audit, output, job, srvVars,
                 agentVars, wire, crashed>>

(* Mutant of AuditStatusOf: only a non-zero exit code counts as failure. *)
AuditStatusExitOnly(s) ==
  CASE kind[s] # "pf" /\ s \in gone -> "canceled"
    [] ended[s] = "exit1" -> "failed"
    [] OTHER -> "success"

(* The audit status each handler derives from how the session ended and    *)
(* from the request's context.                                             *)
AuditStatusOf(s) ==
  CASE kind[s] # "pf" /\ s \in gone -> "canceled"
    [] kind[s] # "stream" /\ ended[s] = "canceled" -> "canceled"
    [] ended[s] = "exit0" -> "success"
    [] OTHER -> "failed"

(* Mutant of Finish: the handler returns without waiting for the session. *)
FinishEarly(s) ==
  /\ pc[s] = "waiting"
  /\ audit' = [audit EXCEPT ![s] = "canceled"]
  /\ pc' = [pc EXCEPT ![s] = "done"]
  /\ UNCHANGED <<managerVars, kind, startConn, gone, reply, output, job, srvVars,
                 agentVars, wire, crashed>>

(* sess.Wait returns; audit and return. *)
Finish(s) ==
  /\ pc[s] = "waiting"
  /\ job[s] = NoJob
  /\ ended[s] # "no"
  /\ Record(s, AuditStatusOf(s))
  /\ pc' = [pc EXCEPT ![s] = "done"]
  /\ UNCHANGED <<managerVars, kind, startConn, gone, reply, output, job, srvVars,
                 agentVars, wire, crashed>>

-------------------------------------------------------------------------------
(* Cancel, and the exit case of Route, run by goroutine t *)

CancelLookup(t) ==
  LET s == job[t].sess
      c == agents[agentID[s]]
  IN
  /\ job[t].at = "lookup"
  /\ job' = [job EXCEPT ![t] =
               IF ~Found(s) THEN NoJob
               ELSE [job[t] EXCEPT !.at = IF c = None THEN "drop" ELSE "send", !.conn = c]]
  /\ UNCHANGED <<managerVars, httpVars, output, srvVars, agentVars, wire, crashed>>

(* Mutant of CancelSend: CancelStream is not sent. *)
CancelNotSent(t) ==
  /\ job[t].at = "send"
  /\ job' = [job EXCEPT ![t].at = "drop"]
  /\ UNCHANGED <<managerVars, httpVars, output, srvVars, agentVars, wire, crashed>>

(* Best effort; the agent's stream knows the sessions started on it only. *)
CancelSend(t) ==
  LET s == job[t].sess
      c == job[t].conn
      reaches == c = startConn[s] /\ link[c] = "up" /\ proc[s] \in Live
  IN
  /\ job[t].at = "send"
  /\ proc' = IF reaches THEN [proc EXCEPT ![s] = "canceled"] ELSE proc
  /\ job' = [job EXCEPT ![t].at = "drop"]
  /\ UNCHANGED <<managerVars, httpVars, output, srvVars, owner, link, serving, wire, crashed>>

EndDrop(t) ==
  /\ job[t].at = "drop"
  /\ DropSession(job[t].sess)
  /\ job' = [job EXCEPT ![t].at = "close"]
  /\ UNCHANGED <<httpVars, output, srvVars, agentVars, wire, crashed>>

EndClose(t) ==
  /\ job[t].at = "close"
  /\ CloseSession(job[t].sess, job[t].how)
  /\ job' = [job EXCEPT ![t] = NoJob]
  /\ UNCHANGED <<httpVars, output, srvVars, agentVars, wire, crashed>>

-------------------------------------------------------------------------------
(* The OpenStream handler *)

(* Receive StreamRegister.  The agent store knows the ID: register.  It    *)
(* does not, or the connection broke before: return an error.              *)
StreamRegister(c) ==
  /\ srv[c] = "opening"
  /\ \/ /\ RegisterAgentStream(owner[c], c)
        /\ srv' = [srv EXCEPT ![c] = "recv"]
        /\ UNCHANGED link
     \/ /\ srv' = [srv EXCEPT ![c] = "done"]
        /\ link' = [link EXCEPT ![c] = "down"]
        /\ UNCHANGED managerVars
  /\ UNCHANGED <<httpVars, output, job, routing, dead, owner, serving, proc, wire, crashed>>

(* Recv returns a message and Route looks its session up: unknown sessions *)
(* are ignored, an exit starts the exit path, output is to be delivered.   *)
Route(c) ==
  LET m == Head(wire[c]) IN
  /\ srv[c] = "recv" /\ job[c] = NoJob
  /\ wire[c] # <<>>
  /\ wire' = [wire EXCEPT ![c] = Tail(@)]
  /\ \/ ~Found(m.sess) /\ UNCHANGED <<srv, routing, job>>
     \/ /\ Found(m.sess) /\ m.what \in {"exit0", "exit1"}
        /\ job' = [job EXCEPT ![c] = [NoJob EXCEPT !.at = "drop", !.sess = m.sess, !.how = m.what]]
        /\ UNCHANGED <<srv, routing>>
     \/ /\ Found(m.sess) /\ m.what \in {"output", "error"}
        /\ srv' = [srv EXCEPT ![c] = "deliver"]
        /\ routing' = [routing EXCEPT ![c] = m]
        /\ UNCHANGED job
  /\ UNCHANGED <<managerVars, httpVars, output, dead, agentVars, crashed>>

(* The non-blocking send on Output or PfOutput.  A full channel cancels    *)
(* the session; a closed one panics.                                       *)
RouteDeliver(c) ==
  LET s == routing[c].sess IN
  /\ srv[c] = "deliver"
  /\ \/ /\ ended[s] # "no"
        /\ crashed' = TRUE
        /\ UNCHANGED <<output, job>>
     \/ /\ ended[s] = "no" /\ Len(output[s]) < OutputBuffer
        /\ output' = [output EXCEPT ![s] = Append(@, routing[c].what)]
        /\ UNCHANGED <<job, crashed>>
     \/ /\ ended[s] = "no" /\ Len(output[s]) = OutputBuffer
        /\ job' = [job EXCEPT ![c] = [NoJob EXCEPT !.at = "lookup", !.sess = s]]
        /\ UNCHANGED <<output, crashed>>
  /\ srv' = [srv EXCEPT ![c] = "recv"]
  /\ routing' = [routing EXCEPT ![c] = None]
  /\ UNCHANGED <<managerVars, httpVars, dead, agentVars, wire>>

(* Recv fails: the deferred UnregisterAgentStream, critical section. *)
StreamClosed(c) ==
  /\ srv[c] = "recv" /\ job[c] = NoJob
  /\ link[c] = "down"
  /\ dead' = [dead EXCEPT ![c] = Dead(owner[c])]
  /\ UnregisterAgentStream(owner[c])
  /\ srv' = [srv EXCEPT ![c] = "closing"]
  /\ wire' = [wire EXCEPT ![c] = <<>>]
  /\ UNCHANGED <<httpVars, output, job, routing, agentVars, crashed>>

(* Mutant of CloseDead: the sessions are dropped and not closed. *)
ForgetDead(c) ==
  /\ srv[c] = "closing"
  /\ dead' = [dead EXCEPT ![c] = {}]
  /\ srv' = [srv EXCEPT ![c] = "done"]
  /\ UNCHANGED <<managerVars, httpVars, output, job, routing, agentVars, wire, crashed>>

(* UnregisterAgentStream closes the dead sessions one by one and returns. *)
CloseDead(c) ==
  /\ srv[c] = "closing"
  /\ \/ \E s \in dead[c] :
          /\ CloseSession(s, "disconnected")
          /\ dead' = [dead EXCEPT ![c] = @ \ {s}]
          /\ UNCHANGED srv
     \/ /\ dead[c] = {}
        /\ srv' = [srv EXCEPT ![c] = "done"]
        /\ UNCHANGED <<managerVars, dead>>
  /\ UNCHANGED <<httpVars, output, job, routing, agentVars, wire, crashed>>

-------------------------------------------------------------------------------
(* The agent's openAndServeStream *)

OpenStream(a, c) ==
  /\ serving[a] = None
  /\ link[c] = "unused"
  /\ serving' = [serving EXCEPT ![a] = c]
  /\ owner' = [owner EXCEPT ![c] = a]
  /\ link' = [link EXCEPT ![c] = "up"]
  /\ srv' = [srv EXCEPT ![c] = "opening"]
  /\ UNCHANGED <<managerVars, httpVars, output, job, routing, dead, proc, wire, crashed>>

(* The connection breaks; neither end knows yet. *)
LinkBreak(c) ==
  /\ link[c] = "up"
  /\ link' = [link EXCEPT ![c] = "down"]
  /\ UNCHANGED <<managerVars, httpVars, output, job, srvVars, owner, serving, proc, wire, crashed>>

(* The agent's Recv fails: cancelAll kills every process of the stream. *)
AgentTeardown(a) ==
  /\ serving[a] # None
  /\ link[serving[a]] = "down"
  /\ proc' = [s \in Sessions |->
                IF startConn[s] = serving[a] /\ proc[s] \in Live THEN "killed" ELSE proc[s]]
  /\ serving' = [serving EXCEPT ![a] = None]
  /\ UNCHANGED <<managerVars, httpVars, output, job, srvVars, owner, link, wire, crashed>>

(* stream.Send of a session goroutine; on a broken stream it is lost. *)
AgentSend(s, what) ==
  LET c == startConn[s] IN
  \/ /\ link[c] = "up" /\ Len(wire[c]) < WireBound
     /\ wire' = [wire EXCEPT ![c] = Append(@, [sess |-> s, what |-> what])]
  \/ link[c] = "down" /\ UNCHANGED wire

(* Start a session's kubectl.  A port-forward that cannot start reports a  *)
(* session error and ends.                                                 *)
AgentStart(s) ==
  /\ proc[s] = "told"
  /\ \/ proc' = [proc EXCEPT ![s] = "running"] /\ UNCHANGED wire
     \/ /\ kind[s] = "pf"
        /\ AgentSend(s, "error")
        /\ proc' = [proc EXCEPT ![s] = "exit1"]
  /\ UNCHANGED <<managerVars, httpVars, output, job, srvVars, owner, link, serving, crashed>>

(* A piece of output, PfReady or port-forward data. *)
AgentOutput(s) ==
  /\ proc[s] \in {"running", "canceled"}
  /\ AgentSend(s, "output")
  /\ UNCHANGED <<managerVars, httpVars, output, job, srvVars, agentVars, crashed>>

(* kubectl ends, by itself or killed by the cancel.  runStreamSession and  *)
(* runInteractiveSession report it; runPortForwardSession does not.        *)
AgentExit(s, x) ==
  /\ \/ proc[s] = "running"
     \/ proc[s] = "canceled" /\ x = "exit1"
  /\ IF kind[s] = "pf" THEN UNCHANGED wire ELSE AgentSend(s, x)
  /\ proc' = [proc EXCEPT ![s] = x]
  /\ UNCHANGED <<managerVars, httpVars, output, job, srvVars, owner, link, serving, crashed>>

-------------------------------------------------------------------------------
HandlerStep(s) ==
  \/ StartCheck(s) \/ StartSend(s) \/ StartInsert(s)
  \/ RelayChunk(s) \/ RelayEnd(s) \/ Finish(s)

EndStep(t) == CancelLookup(t) \/ CancelSend(t) \/ EndDrop(t) \/ EndClose(t)

ServerStep(c) ==
  StreamRegister(c) \/ Route(c) \/ RouteDeliver(c) \/ StreamClosed(c) \/ CloseDead(c)

Next ==
  /\ ~crashed
  /\ \/ \E s \in Sessions :
          \/ \E k \in Kinds, a \in AgentIds : StreamRoute(s, k, a)
          \/ HandlerStep(s)
          \/ ClientGone(s)
          \/ RelayGone(s)
          \/ AgentStart(s)
          \/ AgentOutput(s)
          \/ \E x \in {"exit0", "exit1"} : AgentExit(s, x)
     \/ \E t \in Threads : EndStep(t)
     \/ \E c \in Streams :
          \/ ServerStep(c)
          \/ LinkBreak(c)
          \/ \E a \in AgentIds : OpenStream(a, c)
     \/ \E a \in AgentIds : AgentTeardown(a)

Spec == Init /\ [][Next]_vars

(* Go runs every runnable goroutine; select chooses at random among the    *)
(* ready cases, so a client that left is noticed although output keeps     *)
(* coming.  Both ends of a broken connection notice it.  A canceled        *)
(* process dies and its goroutine gets its turn on the stream's mutex.     *)
(* Clients, output, exits and broken connections owe nothing.              *)
Fairness ==
  /\ \A s \in Sessions :
       /\ WF_vars(~crashed /\ HandlerStep(s))
       /\ WF_vars(~crashed /\ RelayGone(s))
       /\ WF_vars(~crashed /\ AgentStart(s))
       /\ SF_vars(~crashed /\ proc[s] = "canceled" /\ \E x \in {"exit0", "exit1"} : AgentExit(s, x))
  /\ \A t \in Threads : WF_vars(~crashed /\ EndStep(t))
  /\ \A c \in Streams : WF_vars(~crashed /\ ServerStep(c))
  /\ \A a \in AgentIds : WF_vars(~crashed /\ AgentTeardown(a))

FairSpec == Spec /\ Fairness

-------------------------------------------------------------------------------
(* Properties *)

(* A session that Route, Cancel or Unregister can still find is open:      *)
(* every path drops a session from the map before it closes its channels,  *)
(* so a panic needs a lookup that came before the drop.                    *)
ListedSessionsOpen == \A s \in sessions : ended[s] = "no"

(* Goroutines on their way to close session s. *)
Closers(s) ==
  {t \in Threads : job[t].sess = s} \cup {c \in Streams : s \in dead[c]}

(* No handler waits for ever on a session nobody can end: a running        *)
(* handler's session is closed, or in the map, or someone who took it out  *)
(* is about to close it, whichever of exit, cancel and disconnect race.    *)
NoStrandedHandler ==
  \A s \in Sessions : pc[s] \in {"relaying", "waiting"} =>
    ended[s] # "no" \/ Found(s) \/ Closers(s) # {}

(* A /stream or /attach handler that has returned has left a closed        *)
(* session and a free slot, on every return path ("every return path       *)
(* closes the session", exec_http.go).                                     *)
HandlersReleaseSessions ==
  \A s \in Sessions : pc[s] = "done" /\ kind[s] # "pf" =>
    /\ ~Found(s)
    /\ reply[s] = "streaming" => ended[s] # "no"

(* The audit trail tells the truth: success means the agent's process of   *)
(* this session exited with 0, denied means none was ever started.         *)
StreamAuditTruthful ==
  \A s \in Sessions :
    /\ audit[s] = "success" => proc[s] = "exit0"
    /\ audit[s] = "denied" => proc[s] = "none"

(* A client that disconnects gets its handler to return, whatever else     *)
(* happens to the session meanwhile.                                       *)
DisconnectEndsHandler ==
  \A s \in Sessions : s \in gone ~> pc[s] = "done" \/ crashed

(* A process whose stream is up and still the registered one. *)
Reachable(s) == link[startConn[s]] = "up" => agents[agentID[s]] = startConn[s]

(* Once a request's handler has returned, its kubectl process ends: it was *)
(* told to, or exited, or dies with its stream.  Excepted is a process on  *)
(* a stream that central no longer has registered although it is up.       *)
ProcessEnds ==
  \A s \in Sessions :
    pc[s] = "done" ~> proc[s] \notin Live \/ ~Reachable(s) \/ crashed
===============================================================================
