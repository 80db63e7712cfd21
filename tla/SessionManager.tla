---------------------------- MODULE SessionManager ----------------------------
(***************************************************************************)
(* Central's streaming sessions (internal/central/stream_manager.go).      *)
(*                                                                         *)
(* m.agents maps an agent ID to its agentConn, named here by the           *)
(* OpenStream call it belongs to; every agentConn has a session map of its *)
(* own beside the global m.sessions.  An agentConn that was replaced or    *)
(* unregistered lives on in the goroutines that hold a pointer to it.      *)
(*                                                                         *)
(* Each operator below is one critical section of m.mu, except             *)
(* CloseSession, which is Session.close behind its sync.Once.              *)
(***************************************************************************)
EXTENDS Naturals, FiniteSets, Sequences

CONSTANTS AgentIds,       \* agent IDs
          Sessions,       \* session IDs, one per streaming HTTP request
          Streams,        \* OpenStream calls, each with its agentConn
          MaxConcurrent,  \* m.max
          None            \* Go's nil

ASSUME SessionAssumption ==
  /\ None \notin AgentIds \cup Sessions \cup Streams
  /\ Sessions \cap Streams = {}
  /\ MaxConcurrent \in Nat \ {0}

VARIABLES
  agents,        \* AgentIds -> the registered agentConn, None without one
  connSessions,  \* Streams -> agentConn.sessions
  sessions,      \* m.sessions
  agentID,       \* Sessions -> Session.AgentID
  ended          \* Sessions -> how the session was closed, "no" while it is open

managerVars == <<agents, connSessions, sessions, agentID, ended>>

(* Session.close arguments: the exit code sent by the agent (zero or not), *)
(* "agent disconnected", "canceled".                                       *)
Endings == {"exit0", "exit1", "disconnected", "canceled"}

ManagerTypeOK ==
  /\ agents \in [AgentIds -> Streams \cup {None}]
  /\ connSessions \in [Streams -> SUBSET Sessions]
  /\ sessions \in SUBSET Sessions
  /\ agentID \in [Sessions -> AgentIds \cup {None}]
  /\ ended \in [Sessions -> Endings \cup {"no"}]

NewSessionManager ==
  /\ agents = [a \in AgentIds |-> None]
  /\ connSessions = [c \in Streams |-> {}]
  /\ sessions = {}
  /\ agentID = [s \in Sessions |-> None]
  /\ ended = [s \in Sessions |-> "no"]

-------------------------------------------------------------------------------
(* A new agentConn replaces whatever was registered for the ID. *)
RegisterAgentStream(a, c) ==
  /\ agents' = [agents EXCEPT ![a] = c]
  /\ UNCHANGED <<connSessions, sessions, agentID, ended>>

(* The sessions UnregisterAgentStream(a) will close: those in the map of   *)
(* the agentConn registered now, whoever registered it.                    *)
Dead(a) == IF agents[a] = None THEN {} ELSE connSessions[agents[a]]

UnregisterAgentStream(a) ==
  /\ agents' = [agents EXCEPT ![a] = None]
  /\ sessions' = sessions \ Dead(a)
  /\ UNCHANGED <<connSessions, agentID, ended>>

(* startSession and StartPortForward: the checks, then, after the send in  *)
(* a second critical section, the insertion under the agentConn captured   *)
(* by the first.                                                           *)
NoAgentStream(a) == agents[a] = None

TooManyStreams == Cardinality(sessions) >= MaxConcurrent

InsertSession(s, c) ==
  /\ connSessions' = [connSessions EXCEPT ![c] = @ \cup {s}]
  /\ sessions' = sessions \cup {s}
  /\ UNCHANGED <<agents, agentID, ended>>

(* lookup *)
Found(s) == s \in sessions

(* Mutant of DropSession: only the map of the agentConn is cleaned. *)
DropFromConn(s) ==
  LET c == agents[agentID[s]] IN
  /\ connSessions' = IF Found(s) /\ c # None
                     THEN [connSessions EXCEPT ![c] = @ \ {s}] ELSE connSessions
  /\ UNCHANGED <<agents, sessions, agentID, ended>>

DropSession(s) ==
  LET c == agents[agentID[s]] IN
  /\ connSessions' = IF Found(s) /\ c # None
                     THEN [connSessions EXCEPT ![c] = @ \ {s}] ELSE connSessions
  /\ sessions' = sessions \ {s}
  /\ UNCHANGED <<agents, agentID, ended>>

CloseSession(s, how) ==
  /\ ended' = IF ended[s] = "no" THEN [ended EXCEPT ![s] = how] ELSE ended
  /\ UNCHANGED <<agents, connSessions, sessions, agentID>>
===============================================================================
