----------------------------- MODULE PortForward ------------------------------
(***************************************************************************)
(* One port-forward session end to end: the connection registry of kb      *)
(* (internal/cli/portforward.go), central's bridge                         *)
(* (internal/central/portforward_http.go, stream_manager.go) and the       *)
(* agent's pfSession (internal/agent/portforward.go, stream.go).           *)
(*                                                                         *)
(* up and down are the frames on their way to the agent and to kb: the two *)
(* hops of each are one FIFO channel.  down is central's PfOutput, with    *)
(* room for DownBuf frames; a frame that finds it full ends the session.   *)
(* The n-th chunk of bytes of a connection is the number n.  kb has one    *)
(* goroutine for what comes down, and it writes to the sockets of all      *)
(* local programs without a deadline: it waits for a program that does not *)
(* read.  Starting a session, its slot and its audit row are in            *)
(* StreamPath.                                                             *)
(***************************************************************************)
EXTENDS Naturals, Sequences

CONSTANTS MaxConns,    \* bound: connections accepted in a behaviour
          MaxChunks,   \* bound: chunks sent by each end of a connection
          InBuf,       \* capacity of pfConn.in (32 in the code)
          DownBuf,     \* capacity of Session.PfOutput
          SockBuf      \* chunks the system holds for a local program that does not read

ASSUME PortForwardAssumption ==
  /\ MaxConns \in Nat /\ MaxChunks \in Nat
  /\ InBuf \in Nat \ {0} /\ DownBuf \in Nat \ {0} /\ SockBuf \in Nat \ {0}

Conns == 1..MaxConns

VARIABLES
  cli,       \* "wait" for READY, "ready", "done"
  nextID,    \* pfConnRegistry.nextID
  client,    \* Conns -> [state, rd, sent, got]: local socket and its read goroutine
  unread,    \* Conns -> chunks in the local socket that its program has not read
  up, down,  \* frames in flight
  alive,     \* the session is in central's m.sessions
  pf,        \* agent: "starting", "live", "shut" (shutdown has run), "ended"
  listed,    \* agent: the session is in sessionCancels
  kubectl,   \* agent: kubectl port-forward runs
  conn,      \* Conns -> the agent's pfConn and its goroutines
  table,     \* pfSession.conns
  hand,      \* what the agent's receive loop holds between two critical sections
  panicked   \* the agent sent on a closed channel

cliVars == <<cli, nextID, client, unread>>
agentVars == <<pf, listed, kubectl, conn, table, hand, panicked>>
vars == <<cliVars, up, down, alive, agentVars>>

Kinds == {"open", "dialled", "data", "close", "connerror", "ready", "error", "cancel"}
Frame(k, c, n) == [k |-> k, c |-> c, n |-> n]
Frames == [k : Kinds, c : 0..MaxConns, n : 0..MaxChunks]
NoFrame == Frame("ready", 0, 0)

NoClient == [state |-> "none", rd |-> FALSE, sent |-> 0, got |-> <<>>]
NoConn == [sock |-> "none", in |-> <<>>, closed |-> 0, writer |-> FALSE, reader |-> FALSE,
           sent |-> 0, got |-> <<>>]

Clients == [state : {"none", "open", "closed"}, rd : BOOLEAN,
            sent : 0..MaxChunks, got : Seq(1..MaxChunks)]
AgentConns == [sock : {"none", "open", "closed"}, in : Seq(1..MaxChunks), closed : 0..2,
               writer : BOOLEAN, reader : BOOLEAN, sent : 0..MaxChunks, got : Seq(1..MaxChunks)]

CliTypeOK ==
  /\ cli \in {"wait", "ready", "done"} /\ nextID \in 0..MaxConns
  /\ client \in [Conns -> Clients] /\ unread \in [Conns -> 0..SockBuf]

NetTypeOK ==
  up \in Seq(Frames) /\ down \in Seq(Frames) /\ Len(down) <= DownBuf /\ alive \in BOOLEAN

ConnTypeOK ==
  /\ conn \in [Conns -> AgentConns]
  /\ \A c \in Conns : Len(conn[c].in) <= InBuf
  /\ table \subseteq Conns

AgentTypeOK ==
  /\ pf \in {"starting", "live", "shut", "ended"}
  /\ listed \in BOOLEAN /\ kubectl \in BOOLEAN /\ panicked \in BOOLEAN
  /\ hand \in Frames

TypeOK == CliTypeOK /\ NetTypeOK /\ ConnTypeOK /\ AgentTypeOK

Init ==
  /\ cli = "wait" /\ nextID = 0 /\ client = [c \in Conns |-> NoClient]
  /\ unread = [c \in Conns |-> 0]
  /\ up = <<>> /\ down = <<>> /\ alive = TRUE
  /\ pf = "starting" /\ listed = TRUE /\ kubectl = FALSE
  /\ conn = [c \in Conns |-> NoConn] /\ table = {} /\ hand = NoFrame
  /\ panicked = FALSE

-------------------------------------------------------------------------------
(* Central *)

(* writeFrame, the upstream goroutine of runPortForwardBridge and SendPf*: *)
(* a frame of a session that is gone is dropped.                           *)
ToAgent(f) == up' = IF alive THEN Append(up, f) ELSE up

(* A message of the agent through routePf: dropped without a session; when *)
(* PfOutput is full the session is cancelled, which tells the agent.       *)
ToClient(f) ==
  \/ ~alive /\ UNCHANGED <<up, down, alive>>
  \/ alive /\ Len(down) < DownBuf /\ down' = Append(down, f) /\ UNCHANGED <<up, alive>>
  \/ alive /\ Len(down) = DownBuf /\ alive' = FALSE
           /\ up' = Append(up, Frame("cancel", 0, 0)) /\ UNCHANGED down

-------------------------------------------------------------------------------
(* kb port-forward *)

(* handleConn: the accepted connection gets the next ID. *)
HandleConn(c) ==
  /\ cli = "ready" /\ c = nextID + 1
  /\ nextID' = c
  /\ client' = [client EXCEPT ![c] = [@ EXCEPT !.state = "open", !.rd = TRUE]]
  /\ ToAgent(Frame("open", c, 0))
  /\ UNCHANGED <<cli, unread, down, alive, agentVars>>

(* handleConn's goroutine reads a chunk from the local program. *)
ClientData(c) ==
  /\ cli = "ready" /\ client[c].state = "open" /\ client[c].rd /\ client[c].sent < MaxChunks
  /\ client' = [client EXCEPT ![c].sent = @ + 1]
  /\ ToAgent(Frame("data", c, client[c].sent + 1))
  /\ UNCHANGED <<cli, nextID, unread, down, alive, agentVars>>

(* Mutant of ClientReadEnds: no CLOSE is sent. *)
MutClientReadEnds(c) ==
  /\ cli = "ready" /\ client[c].rd
  /\ client' = [client EXCEPT ![c] = [@ EXCEPT !.state = "closed", !.rd = FALSE]]
  /\ UNCHANGED <<cli, nextID, unread, up, down, alive, agentVars>>

(* handleConn's goroutine: the local program has closed its end, or        *)
(* closeConn has closed the socket.                                        *)
ClientReadEnds(c) ==
  /\ cli = "ready" /\ client[c].rd
  /\ client' = [client EXCEPT ![c] = [@ EXCEPT !.state = "closed", !.rd = FALSE]]
  /\ ToAgent(Frame("close", c, 0))
  /\ UNCHANGED <<cli, nextID, unread, down, alive, agentVars>>

(* The local program reads what is in its socket. *)
LocalRead(c) ==
  /\ client[c].state = "open" /\ unread[c] > 0
  /\ unread' = [unread EXCEPT ![c] = @ - 1]
  /\ UNCHANGED <<cli, nextID, client, up, down, alive, agentVars>>

(* finish and shutdown. *)
CliDone ==
  /\ cli' = "done"
  /\ client' = [c \in Conns |-> IF client[c].state = "none" THEN client[c]
                                ELSE [client[c] EXCEPT !.state = "closed", !.rd = FALSE]]

(* Mutant of ReadLoop: a CLOSE is not handled. *)
MutReadLoop ==
  /\ cli # "done" /\ down # <<>>
  /\ LET f == Head(down)
     IN  \/ f.k = "ready" /\ cli' = "ready" /\ UNCHANGED <<client, unread>>
         \/ f.k = "error" /\ CliDone /\ UNCHANGED unread
         \/ /\ f.k = "connerror"
            /\ client' = [client EXCEPT ![f.c].state = "closed"]
            /\ UNCHANGED <<cli, unread>>
         \/ f.k \in {"data", "close"} /\ UNCHANGED <<cli, client, unread>>
  /\ down' = Tail(down)
  /\ UNCHANGED <<nextID, up, alive, agentVars>>

(* readLoop has data for a socket that is open, and there is no room: its  *)
(* Write returns when the program reads or the socket is closed.           *)
KbWaits ==
  /\ cli # "done" /\ down # <<>> /\ Head(down).k = "data"
  /\ client[Head(down).c].state = "open" /\ unread[Head(down).c] = SockBuf

(* readLoop, one frame.  An error frame ends the session at kb; central's  *)
(* bridge has returned without telling the agent.                          *)
ReadLoop ==
  /\ cli # "done" /\ down # <<>> /\ ~KbWaits
  /\ LET f == Head(down)
     IN  \/ f.k = "ready" /\ cli' = "ready" /\ UNCHANGED <<client, unread>>
         \/ /\ f.k = "data" /\ client[f.c].state = "open"
            /\ client' = [client EXCEPT ![f.c].got = Append(@, f.n)]
            /\ unread' = [unread EXCEPT ![f.c] = @ + 1]
            /\ UNCHANGED cli
         \/ f.k = "data" /\ client[f.c].state # "open" /\ UNCHANGED <<cli, client, unread>>
         \/ /\ f.k \in {"close", "connerror"}
            /\ client' = [client EXCEPT ![f.c].state = "closed"]
            /\ UNCHANGED <<cli, unread>>
         \/ f.k = "error" /\ CliDone /\ UNCHANGED unread
  /\ down' = Tail(down)
  /\ UNCHANGED <<nextID, up, alive, agentVars>>

(* The response body ends: central has closed the session's channel. *)
ReadLoopEnds ==
  /\ cli # "done" /\ down = <<>> /\ ~alive
  /\ CliDone
  /\ UNCHANGED <<nextID, unread, up, down, alive, agentVars>>

(* central's bridge: the request has ended, Cancel. *)
BridgeCancels ==
  /\ alive' = FALSE
  /\ up' = IF alive THEN Append(up, Frame("cancel", 0, 0)) ELSE up

(* Ctrl-C, or kb finds the connection to central broken. *)
Interrupt ==
  /\ cli # "done"
  /\ CliDone
  /\ BridgeCancels
  /\ down' = <<>>
  /\ UNCHANGED <<nextID, unread, agentVars>>

(* The connection breaks and kb has frames to read, or waits in a Write:   *)
(* it finds out later.                                                     *)
ConnectionBreaks ==
  /\ alive /\ cli # "done"
  /\ BridgeCancels
  /\ UNCHANGED <<cliVars, down, agentVars>>

-------------------------------------------------------------------------------
(* The agent *)

Running == ~panicked

(* runPortForwardSession: startKubectlPortForward failed. *)
StartFails ==
  /\ Running /\ pf = "starting"
  /\ pf' = "ended" /\ listed' = FALSE
  /\ ToClient(Frame("error", 0, 0))
  /\ UNCHANGED <<cliVars, kubectl, conn, table, hand, panicked>>

(* It succeeded: setPf, then PfReady.  After a cancel, setPf finds no      *)
(* session and the context ends the process.                               *)
StartReady ==
  /\ Running /\ pf = "starting"
  /\ pf' = "live" /\ kubectl' = TRUE
  /\ ToClient(Frame("ready", 0, 0))
  /\ UNCHANGED <<cliVars, listed, conn, table, hand, panicked>>

(* pfFor: the session while it is in the map. *)
PfFor == listed /\ pf \in {"live", "shut"}

(* Mutant of Closed: an entry stays in the table. *)
MutClosed(S) ==
  /\ conn' = [c \in Conns |-> IF c \in S /\ conn[c].closed < 2
                              THEN [conn[c] EXCEPT !.closed = conn[c].closed + 1, !.sock = "closed"] ELSE conn[c]]
  /\ UNCHANGED table

(* closeConn and shutdown: take entries out of the table under the lock,   *)
(* then close their channels and sockets.                                  *)
Closed(S) ==
  /\ conn' = [c \in Conns |-> IF c \in S
                              THEN [conn[c] EXCEPT !.closed = conn[c].closed + 1, !.sock = "closed"] ELSE conn[c]]
  /\ table' = table \ S

Recv(k) == Running /\ hand = NoFrame /\ up # <<>> /\ Head(up).k = k

(* The receive loop drops what it finds no session or connection for. *)
RecvDropped ==
  /\ \/ \E k \in {"open", "close"} : Recv(k) /\ ~PfFor
     \/ Recv("data") /\ (~PfFor \/ Head(up).c \notin table)
     \/ Recv("close") /\ PfFor /\ Head(up).c \notin table
     \/ Recv("cancel") /\ ~listed
  /\ up' = Tail(up)
  /\ UNCHANGED <<cliVars, down, alive, agentVars>>

(* open and data up to the table's lock: PfFor, and for data the lookup.   *)
RecvTake ==
  /\ Recv("open") \/ Recv("data")
  /\ PfFor /\ (Head(up).k = "data" => Head(up).c \in table)
  /\ hand' = Head(up)
  /\ up' = Tail(up)
  /\ UNCHANGED <<cliVars, down, alive, pf, listed, kubectl, conn, table, panicked>>

(* open: no such port or the dial fails. *)
OpenFails ==
  /\ Running /\ hand.k = "open"
  /\ hand' = NoFrame
  /\ ToClient(Frame("connerror", hand.c, 0))
  /\ UNCHANGED <<cliVars, pf, listed, kubectl, conn, table, panicked>>

(* open: net.Dial reaches kubectl's listener. *)
Dial ==
  /\ Running /\ hand.k = "open" /\ kubectl
  /\ hand' = [hand EXCEPT !.k = "dialled"]
  /\ UNCHANGED <<cliVars, up, down, alive, pf, listed, kubectl, conn, table, panicked>>

(* open, the rest: insert and start the two goroutines.  shutdown may have *)
(* emptied the table since the dial.                                       *)
OpenConn ==
  /\ Running /\ hand.k = "dialled"
  /\ conn' = [conn EXCEPT ![hand.c] = [@ EXCEPT !.sock = "open", !.writer = TRUE, !.reader = TRUE]]
  /\ table' = table \cup {hand.c}
  /\ hand' = NoFrame
  /\ UNCHANGED <<cliVars, up, down, alive, pf, listed, kubectl, panicked>>

(* Mutant of DataSend: a chunk that does not fit is skipped. *)
MutDataSend ==
  /\ Running /\ hand.k = "data"
  /\ hand' = NoFrame
  /\ \/ conn[hand.c].closed > 0 /\ panicked' = TRUE /\ UNCHANGED conn
     \/ conn[hand.c].closed = 0 /\ Len(conn[hand.c].in) < InBuf
        /\ conn' = [conn EXCEPT ![hand.c].in = Append(@, hand.n)] /\ UNCHANGED panicked
     \/ conn[hand.c].closed = 0 /\ Len(conn[hand.c].in) = InBuf /\ UNCHANGED <<conn, panicked>>
  /\ UNCHANGED <<cliVars, up, down, alive, pf, listed, kubectl, table>>

(* data after the unlock: the channel may have been closed by the read     *)
(* goroutine or by shutdown meanwhile, and sending on it panics; a full    *)
(* one closes the connection.                                              *)
DataSend ==
  /\ Running /\ hand.k = "data"
  /\ hand' = NoFrame
  /\ \/ /\ conn[hand.c].closed > 0
        /\ panicked' = TRUE
        /\ UNCHANGED <<conn, table, up, down, alive>>
     \/ /\ conn[hand.c].closed = 0 /\ Len(conn[hand.c].in) < InBuf
        /\ conn' = [conn EXCEPT ![hand.c].in = Append(@, hand.n)]
        /\ UNCHANGED <<table, panicked, up, down, alive>>
     \/ /\ conn[hand.c].closed = 0 /\ Len(conn[hand.c].in) = InBuf
        /\ Closed(table \cap {hand.c})
        /\ ToClient(Frame("connerror", hand.c, 0))
        /\ UNCHANGED panicked
  /\ UNCHANGED <<cliVars, pf, listed, kubectl>>

RecvClose ==
  /\ Recv("close") /\ PfFor /\ Head(up).c \in table
  /\ Closed({Head(up).c})
  /\ up' = Tail(up)
  /\ UNCHANGED <<cliVars, down, alive, pf, listed, kubectl, hand, panicked>>

(* sessions.cancel: forget the session and cancel its context. *)
RecvCancel ==
  /\ Recv("cancel") /\ listed
  /\ listed' = FALSE
  /\ up' = Tail(up)
  /\ UNCHANGED <<cliVars, down, alive, pf, kubectl, conn, table, hand, panicked>>

(* open's writer goroutine: one chunk to the pod, or its end. *)
Writer(c) ==
  /\ Running /\ conn[c].writer
  /\ \/ /\ conn[c].in # <<>> /\ conn[c].sock = "open"
        /\ conn' = [conn EXCEPT ![c] = [@ EXCEPT !.in = Tail(conn[c].in),
                                              !.got = Append(conn[c].got, Head(conn[c].in))]]
     \/ /\ conn[c].in # <<>> /\ conn[c].sock = "closed"
        /\ conn' = [conn EXCEPT ![c] = [@ EXCEPT !.in = Tail(conn[c].in), !.writer = FALSE]]
     \/ /\ conn[c].in = <<>> /\ conn[c].closed > 0
        /\ conn' = [conn EXCEPT ![c].writer = FALSE]
  /\ UNCHANGED <<cliVars, up, down, alive, pf, listed, kubectl, table, hand, panicked>>

(* open's reader goroutine: a chunk from the pod. *)
PodData(c) ==
  /\ Running /\ kubectl
  /\ conn[c].reader /\ conn[c].sock = "open" /\ conn[c].sent < MaxChunks
  /\ conn' = [conn EXCEPT ![c].sent = @ + 1]
  /\ ToClient(Frame("data", c, conn[c].sent + 1))
  /\ UNCHANGED <<cliVars, pf, listed, kubectl, table, hand, panicked>>

(* Mutant of PodReadEnds: the connection is not closed. *)
MutPodReadEnds(c) ==
  /\ Running /\ conn[c].reader
  /\ conn' = [conn EXCEPT ![c].reader = FALSE]
  /\ ToClient(Frame("close", c, 0))
  /\ UNCHANGED <<cliVars, pf, listed, kubectl, table, hand, panicked>>

(* open's reader goroutine: the socket is closed, or the pod or kubectl    *)
(* has ended the connection.                                               *)
PodReadEnds(c) ==
  /\ Running /\ conn[c].reader
  /\ \/ /\ c \in table
        /\ conn' = [conn EXCEPT ![c] = [@ EXCEPT !.reader = FALSE, !.sock = "closed",
                                                 !.closed = conn[c].closed + 1]]
        /\ table' = table \ {c}
     \/ c \notin table /\ conn' = [conn EXCEPT ![c].reader = FALSE] /\ UNCHANGED table
  /\ ToClient(Frame("close", c, 0))
  /\ UNCHANGED <<cliVars, pf, listed, kubectl, hand, panicked>>

KubectlExits ==
  /\ Running /\ kubectl
  /\ kubectl' = FALSE
  /\ UNCHANGED <<cliVars, up, down, alive, pf, listed, conn, table, hand, panicked>>

(* runPortForwardSession returns: kubectl is killed, shutdown. *)
Shutdown ==
  /\ Running /\ pf = "live" /\ (~listed \/ ~kubectl)
  /\ kubectl' = FALSE
  /\ Closed(table)
  /\ pf' = "shut"
  /\ UNCHANGED <<cliVars, up, down, alive, listed, hand, panicked>>

(* The deferred sessions.cancel of the session's goroutine. *)
SessionGone ==
  /\ Running /\ pf = "shut"
  /\ pf' = "ended" /\ listed' = FALSE
  /\ UNCHANGED <<cliVars, up, down, alive, kubectl, conn, table, hand, panicked>>

-------------------------------------------------------------------------------
AgentStep ==
  \/ RecvDropped \/ RecvTake \/ RecvClose \/ RecvCancel \/ OpenFails \/ Dial \/ OpenConn \/ DataSend
AgentEnds == Shutdown \/ SessionGone
ReaderEnd(c) == (conn[c].sock = "closed" \/ ~kubectl) /\ PodReadEnds(c)
ClientEnd(c) == client[c].state = "closed" /\ ClientReadEnds(c)
WriteEnds(c) == conn[c].sock = "closed" /\ Writer(c)
KbRead == ReadLoop \/ ReadLoopEnds

Next ==
  \/ \E c \in Conns : \/ HandleConn(c) \/ ClientData(c) \/ ClientReadEnds(c) \/ LocalRead(c)
                      \/ Writer(c) \/ PodData(c) \/ PodReadEnds(c)
  \/ ReadLoop \/ ReadLoopEnds \/ Interrupt \/ ConnectionBreaks
  \/ StartFails \/ StartReady \/ AgentStep \/ KubectlExits \/ AgentEnds

(* Both processes and the channels between them make progress; the local   *)
(* program, the pod and the user need not.  Nobody has to read: KbRead is  *)
(* disabled while kb waits for a local program, and a Write to the pod is  *)
(* sure to return only when its socket is closed.                          *)
Fairness ==
  /\ WF_vars(AgentStep) /\ WF_vars(AgentEnds) /\ WF_vars(StartFails \/ StartReady) /\ WF_vars(KbRead)
  /\ \A c \in Conns : WF_vars(WriteEnds(c)) /\ WF_vars(ReaderEnd(c)) /\ WF_vars(ClientEnd(c))

Spec == Init /\ [][Next]_vars
FairSpec == Spec /\ Fairness

-------------------------------------------------------------------------------
(* Properties *)

(* Both ends of a connection receive its bytes in order and without a gap, *)
(* although full buffers, closes and the end of the session drop frames    *)
(* on four hops (portforward.go 112-126, stream_manager.go 325-338).       *)
BytesInOrder ==
  \A c \in Conns : /\ \A i \in DOMAIN conn[c].got : conn[c].got[i] = i
                   /\ \A i \in DOMAIN client[c].got : client[c].got[i] = i

(* No channel is closed twice (a panic in Go): the receive loop, the read  *)
(* goroutine and shutdown may all close one connection, in any order       *)
(* (agent/portforward.go 128-148).                                         *)
ClosedOnce == \A c \in Conns : conn[c].closed <= 1 /\ (c \in table => conn[c].closed = 0)

(* The local program's close reaches the pod: the agent's socket for a     *)
(* connection that kb has closed is closed, unless the agent died.         *)
ClientCloseReachesPod ==
  \A c \in Conns : client[c].state = "closed" ~> conn[c].sock # "open" \/ panicked

(* The pod's close reaches the local program, as long as kb runs and does  *)
(* not come to a Write to a local program, of this or another connection,  *)
(* that holds its socket open and does not read: conn[c].sock stays closed *)
(* for ever, so that the close arrives or kb waits again and again         *)
(* (cli/portforward.go 256-295).                                           *)
PodCloseReachesClient ==
  \A c \in Conns : conn[c].sock = "closed" ~> client[c].state = "closed" \/ panicked \/ KbWaits

(* When the agent's session has ended, the goroutines of its connections   *)
(* end, one that was being opened meanwhile included: shutdown has emptied *)
(* the table before open inserts it (agent/portforward.go 65-110).         *)
SessionReleases ==
  pf = "ended" ~> panicked \/ \A c \in Conns : ~conn[c].writer /\ ~conn[c].reader
===============================================================================
