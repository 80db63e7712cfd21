----------------------------- MODULE Interactive ------------------------------
(***************************************************************************)
(* One kb exec -i session end to end, with a terminal (tty) or without:    *)
(* the terminal bridge of kb (internal/cli/exec.go), both halves of        *)
(* central's bridge (internal/central/exec_http.go, stream_manager.go),    *)
(* the agent's session (internal/agent/stream.go) and its executor with    *)
(* the goroutines around the kubectl process (internal/agent/executor.go). *)
(*                                                                         *)
(* up holds the messages on their way to the agent: the HTTP body and the  *)
(* gRPC stream are one FIFO channel.  down is the session's Output at      *)
(* central, drained by the handler into the response.  The n-th chunk kb   *)
(* reads, and the n-th the process writes to stdout or stderr, is the      *)
(* number n; a window size is the number of its change.  Bytes central     *)
(* reads out of step are Garbled input, the wrong size 0, or nothing.  A   *)
(* write to the process's stdin takes place when the process reads it, as  *)
(* if the pipe were always full.  The start of the session, its slot and   *)
(* audit row, and the loss of the agent's stream are in StreamPath.        *)
(***************************************************************************)
EXTENDS Naturals, Sequences

CONSTANTS MaxIn,       \* bound: chunks of local input
          MaxOut,      \* bound: chunks the process writes to each of its outputs
          MaxResizes,  \* bound: changes of the window size
          StdinBuf,    \* capacity of streamSession.stdin (16 in the code)
          ResizeBuf,   \* capacity of streamSession.resize (4 in the code)
          DownBuf,     \* capacity of Session.Output (64 in the code)
          Ttys,        \* the modes considered, a set of Booleans
          Heirs        \* TRUE: kubectl may leave a process that holds its output pipes

ASSUME InteractiveAssumption ==
  /\ {MaxIn, MaxOut, MaxResizes} \subseteq Nat /\ {StdinBuf, ResizeBuf, DownBuf} \subseteq Nat \ {0}
  /\ Ttys \subseteq BOOLEAN /\ Heirs \in BOOLEAN

Outs == {"stdout", "stderr"}

VARIABLES
  tty,      \* the session has a terminal
  kb,       \* [pc, eof, torn, sent, size, got]: the kb process
  up, down, \* messages in flight
  sess,     \* the session at central: "open", or how it was closed
  listed,   \* agent: the session is in sessionCancels, its context is live
  stdin,    \* agent: the session's stdin channel
  resize,   \* agent: the session's resize channel
  pump,     \* the executor's goroutines that run: "stdin", "resize", readers of Outs
  hand,     \* the chunk the stdin goroutine is writing, 0 if none
  proc,     \* [st, in, read, size, wrote, pipe]: the kubectl process
  exec,     \* the session's goroutine: "start", "run", "report" (the result is to be sent), "gone"
  dropped   \* chunks the agent dropped (history)

kbVars == <<tty, kb>>
procVars == <<proc, pump, hand>>
vars == <<kbVars, up, down, sess, listed, stdin, resize, procVars, exec, dropped>>

Live == proc.st = "running"
Readers == IF tty THEN {"stdout"} ELSE Outs

Garbled == MaxIn + 1
Messages == [k : {"stdin"}, n : 1..Garbled] \cup [k : {"resize"}, n : 0..MaxResizes]
            \cup [k : {"cancel"}, n : {0}]
Chunks == [o : Outs, n : 1..MaxOut]

Kbs == [pc : {"on", "exit", "lost"}, eof : BOOLEAN, torn : BOOLEAN, sent : 0..MaxIn,
        size : 0..MaxResizes, got : [Outs -> Seq(1..MaxOut)]]
Processes == [st : {"none", "running", "exited", "killed"}, heir : BOOLEAN, in : {"open", "eof"},
              read : Seq(1..Garbled), size : 0..MaxResizes, wrote : [Outs -> 0..MaxOut],
              pipe : [Outs -> Seq(1..MaxOut)]]

NetTypeOK ==
  /\ up \in Seq(Messages) /\ down \in Seq(Chunks) /\ Len(down) <= DownBuf
  /\ sess \in {"open", "exited", "failed", "canceled"}

ChannelTypeOK ==
  /\ stdin \in Seq(1..Garbled) /\ Len(stdin) <= StdinBuf
  /\ resize \in Seq(0..MaxResizes) /\ Len(resize) <= ResizeBuf
  /\ dropped \subseteq 1..Garbled

ExecTypeOK ==
  /\ listed \in BOOLEAN /\ exec \in {"start", "run", "report", "gone"}
  /\ pump \subseteq Outs \cup {"stdin", "resize"} /\ hand \in 0..Garbled

TypeOK ==
  /\ tty \in BOOLEAN /\ kb \in Kbs /\ proc \in Processes
  /\ NetTypeOK /\ ChannelTypeOK /\ ExecTypeOK

Init ==
  /\ tty \in Ttys
  /\ kb = [pc |-> "on", eof |-> FALSE, torn |-> FALSE, sent |-> 0, size |-> 0,
           got |-> [o \in Outs |-> <<>>]]
  /\ up = <<>> /\ down = <<>> /\ sess = "open"
  /\ listed = TRUE /\ stdin = <<>> /\ resize = <<>>
  /\ pump = {} /\ hand = 0
  /\ proc = [st |-> "none", heir |-> FALSE, in |-> "open", read |-> <<>>, size |-> 0,
             wrote |-> [o \in Outs |-> 0], pipe |-> [o \in Outs |-> <<>>]]
  /\ exec = "start" /\ dropped = {}

-------------------------------------------------------------------------------
(* Central *)

(* The upstream goroutine of runExecBridge, SendStdin and SendResize: a    *)
(* message of a session that is gone is dropped.                           *)
ToAgent(m) == up' = IF sess = "open" THEN Append(up, m) ELSE up

(* Cancel: the session is closed and the agent told, once. *)
Cancel ==
  /\ sess' = IF sess = "open" THEN "canceled" ELSE sess
  /\ ToAgent([k |-> "cancel", n |-> 0])

(* Route, output: dropped without a session, and a full channel cancels. *)
RouteOutput(c) ==
  \/ sess # "open" /\ UNCHANGED <<up, down, sess>>
  \/ sess = "open" /\ Len(down) < DownBuf /\ down' = Append(down, c) /\ UNCHANGED <<up, sess>>
  \/ sess = "open" /\ Len(down) = DownBuf /\ Cancel /\ UNCHANGED down

(* Mutant of RouteExit: the session is dropped and not closed. *)
MutRouteExit(how) == UNCHANGED sess

(* Route, exit: drop and close the session with the result. *)
RouteExit(how) == sess' = IF sess = "open" THEN how ELSE sess

-------------------------------------------------------------------------------
(* kb exec *)

(* A frame written after one was torn: central's Decode takes payload for  *)
(* a header, and fails or finds a frame that nobody sent.                  *)
KbGarbage ==
  \/ UNCHANGED up
  \/ ToAgent([k |-> "stdin", n |-> Garbled])
  \/ ToAgent([k |-> "resize", n |-> 0])

(* Encode writes one frame: header and payload, in two writes. *)
KbEncode(m) == IF kb.torn THEN KbGarbage ELSE ToAgent(m)

(* The stdin goroutine reads a chunk and sends it as a STDIN frame. *)
KbInput ==
  /\ kb.pc = "on" /\ ~kb.eof /\ kb.sent < MaxIn
  /\ kb' = [kb EXCEPT !.sent = @ + 1]
  /\ KbEncode([k |-> "stdin", n |-> kb.sent + 1])
  /\ UNCHANGED <<tty, down, sess, listed, stdin, resize, procVars, exec, dropped>>

(* End of the local input: the request body is half-closed.  Central's     *)
(* upstream goroutine returns and tells nobody.                            *)
KbEOF ==
  /\ kb.pc = "on" /\ ~kb.eof
  /\ kb' = [kb EXCEPT !.eof = TRUE]
  /\ UNCHANGED <<tty, up, down, sess, listed, stdin, resize, procVars, exec, dropped>>

(* A SIGWINCH becomes a RESIZE frame, while the request body is open. *)
KbResize ==
  /\ kb.pc = "on" /\ tty /\ kb.size < MaxResizes
  /\ kb' = [kb EXCEPT !.size = @ + 1]
  /\ IF kb.eof THEN UNCHANGED up ELSE KbEncode([k |-> "resize", n |-> kb.size + 1])
  /\ UNCHANGED <<tty, down, sess, listed, stdin, resize, procVars, exec, dropped>>

(* Both goroutines write a frame at the same time: no lock keeps the two   *)
(* writes of one frame together, and the header of the one separates those *)
(* of the other.                                                           *)
KbTear ==
  /\ kb.pc = "on" /\ tty /\ ~kb.eof /\ kb.sent < MaxIn /\ kb.size < MaxResizes
  /\ kb' = [kb EXCEPT !.sent = @ + 1, !.size = @ + 1, !.torn = TRUE]
  /\ KbGarbage
  /\ UNCHANGED <<tty, down, sess, listed, stdin, resize, procVars, exec, dropped>>

(* The downstream half of runExecBridge and kb's response loop: a chunk. *)
KbOutput ==
  /\ kb.pc = "on" /\ down # <<>>
  /\ LET c == Head(down)
     IN  kb' = [kb EXCEPT !.got = [kb.got EXCEPT ![c.o] = Append(kb.got[c.o], c.n)]]
  /\ down' = Tail(down)
  /\ UNCHANGED <<tty, up, sess, listed, stdin, resize, procVars, exec, dropped>>

(* The channel is closed and drained: the EXIT frame, which ends kb. *)
KbExit ==
  /\ kb.pc = "on" /\ down = <<>> /\ sess # "open"
  /\ kb' = [kb EXCEPT !.pc = "exit"]
  /\ UNCHANGED <<tty, up, down, sess, listed, stdin, resize, procVars, exec, dropped>>

(* kb is interrupted or its connection breaks: the handler's context is    *)
(* done, and it cancels the session.                                       *)
KbLost ==
  /\ kb.pc = "on"
  /\ kb' = [kb EXCEPT !.pc = "lost"]
  /\ down' = <<>>
  /\ Cancel
  /\ UNCHANGED <<tty, listed, stdin, resize, procVars, exec, dropped>>

-------------------------------------------------------------------------------
(* The agent's receive loop *)

Recv(k) == up # <<>> /\ Head(up).k = k /\ up' = Tail(up)

(* Mutant of StdinTo: a chunk that has to wait does so in a goroutine of   *)
(* its own, and the next one overtakes it.                                 *)
MutStdinTo ==
  /\ Recv("stdin")
  /\ IF listed THEN stdin' \in {Append(stdin, Head(up).n), <<Head(up).n>> \o stdin}
     ELSE UNCHANGED stdin
  /\ UNCHANGED <<kbVars, down, sess, listed, resize, procVars, exec, dropped>>

(* stdinTo: for a known session, wait a second for room in its channel,    *)
(* then drop the chunk.  The channel is never closed, so one that belongs  *)
(* to a session forgotten since the lookup only keeps the chunk.           *)
StdinTo ==
  /\ Recv("stdin")
  /\ stdin' = IF listed /\ Len(stdin) < StdinBuf THEN Append(stdin, Head(up).n) ELSE stdin
  /\ dropped' = IF listed /\ Len(stdin) = StdinBuf THEN dropped \cup {Head(up).n} ELSE dropped
  /\ UNCHANGED <<kbVars, down, sess, listed, resize, procVars, exec>>

(* resizeTo: the newest size is dropped when the channel is full. *)
ResizeTo ==
  /\ Recv("resize")
  /\ resize' = IF listed /\ tty /\ Len(resize) < ResizeBuf THEN Append(resize, Head(up).n) ELSE resize
  /\ UNCHANGED <<kbVars, down, sess, listed, stdin, procVars, exec, dropped>>

(* sessions.cancel: forget the session, cancel its context. *)
RecvCancel ==
  /\ Recv("cancel")
  /\ listed' = FALSE
  /\ UNCHANGED <<kbVars, down, sess, stdin, resize, procVars, exec, dropped>>

-------------------------------------------------------------------------------
(* The executor *)

(* The context of the executor: the session's, until the executor returns. *)
Done == ~listed \/ exec \in {"report", "gone"}

(* ExecuteInteractive, ExecuteInteractiveNoTTY: start the process and its  *)
(* goroutines, unless that fails or the context is done.                   *)
StartProcess ==
  /\ exec = "start"
  /\ \/ /\ listed
        /\ exec' = "run"
        /\ proc' = [proc EXCEPT !.st = "running"]
        /\ pump' = Readers \cup {"stdin"} \cup (IF tty THEN {"resize"} ELSE {})
     \/ exec' = "report" /\ UNCHANGED <<proc, pump>>
  /\ UNCHANGED <<kbVars, up, down, sess, listed, stdin, resize, hand, dropped>>

(* The stdin goroutine takes a chunk from the channel. *)
StdinTake ==
  /\ "stdin" \in pump /\ hand = 0 /\ stdin # <<>>
  /\ hand' = Head(stdin) /\ stdin' = Tail(stdin)
  /\ UNCHANGED <<kbVars, up, down, sess, listed, resize, proc, pump, exec, dropped>>

(* Mutant of StdinEnds: the goroutine waits for its channel to be closed. *)
MutStdinEnds ==
  /\ "stdin" \in pump /\ hand # 0 /\ ~Live
  /\ pump' = pump \ {"stdin"} /\ hand' = 0
  /\ UNCHANGED <<kbVars, up, down, sess, listed, stdin, resize, proc, exec, dropped>>

(* It ends when it sees the context done, or, without a terminal, on a     *)
(* failed write; it closes the pipe then.  With a terminal a failed write  *)
(* is ignored.                                                             *)
StdinEnds ==
  /\ "stdin" \in pump
  /\ \/ hand = 0 /\ Done /\ pump' = pump \ {"stdin"} /\ UNCHANGED hand
     \/ hand # 0 /\ ~Live /\ hand' = 0 /\ pump' = IF tty THEN pump ELSE pump \ {"stdin"}
  /\ proc' = [proc EXCEPT !.in = IF tty \/ "stdin" \in pump' THEN proc.in ELSE "eof"]
  /\ UNCHANGED <<kbVars, up, down, sess, listed, stdin, resize, exec, dropped>>

(* The resize goroutine sets the size of the terminal, and ends with the   *)
(* context.                                                                *)
ResizePump ==
  /\ "resize" \in pump
  /\ \/ /\ resize # <<>>
        /\ proc' = [proc EXCEPT !.size = Head(resize)]
        /\ resize' = Tail(resize) /\ UNCHANGED pump
     \/ Done /\ pump' = pump \ {"resize"} /\ UNCHANGED <<proc, resize>>
  /\ UNCHANGED <<kbVars, up, down, sess, listed, stdin, hand, exec, dropped>>

(* pumpStream and the read loop of ExecuteInteractive: a chunk. *)
PumpChunk(o) ==
  /\ o \in pump /\ proc.pipe[o] # <<>>
  /\ proc' = [proc EXCEPT !.pipe = [proc.pipe EXCEPT ![o] = Tail(proc.pipe[o])]]
  /\ RouteOutput([o |-> o, n |-> Head(proc.pipe[o])])
  /\ UNCHANGED <<kbVars, listed, stdin, resize, pump, hand, exec, dropped>>

(* Their end: nobody has the pipe open for writing, and it is empty. *)
PumpEnds(o) ==
  /\ o \in pump /\ proc.pipe[o] = <<>> /\ ~Live /\ ~proc.heir
  /\ pump' = pump \ {o}
  /\ UNCHANGED <<kbVars, up, down, sess, listed, stdin, resize, proc, hand, exec, dropped>>

(* Mutant of Wait: the readers are not waited for. *)
MutWait ==
  /\ exec = "run" /\ ~Live
  /\ exec' = "report"
  /\ UNCHANGED <<kbVars, up, down, sess, listed, stdin, resize, procVars, dropped>>

(* wg.Wait or the end of the read loop, then cmd.Wait: the result. *)
Wait ==
  /\ exec = "run" /\ pump \cap Outs = {} /\ ~Live
  /\ exec' = "report"
  /\ UNCHANGED <<kbVars, up, down, sess, listed, stdin, resize, procVars, dropped>>

(* runStreamSession, runInteractiveSession: send the result; the deferred  *)
(* sessions.cancel.                                                        *)
Report ==
  /\ exec = "report"
  /\ RouteExit(IF proc.st = "exited" THEN "exited" ELSE "failed")
  /\ exec' = "gone" /\ listed' = FALSE
  /\ UNCHANGED <<kbVars, up, down, stdin, resize, procVars, dropped>>

-------------------------------------------------------------------------------
(* The process (external) *)

ProcReads ==
  /\ Live /\ hand # 0
  /\ proc' = [proc EXCEPT !.read = Append(@, hand)]
  /\ hand' = 0
  /\ UNCHANGED <<kbVars, up, down, sess, listed, stdin, resize, pump, exec, dropped>>

ProcWrites(o) ==
  /\ Live /\ o \in Readers /\ proc.wrote[o] < MaxOut
  /\ LET n == proc.wrote[o] + 1
     IN  proc' = [proc EXCEPT !.wrote = [proc.wrote EXCEPT ![o] = n],
                              !.pipe = [proc.pipe EXCEPT ![o] = Append(proc.pipe[o], n)]]
  /\ UNCHANGED <<kbVars, up, down, sess, listed, stdin, resize, pump, hand, exec, dropped>>

Ends(st) ==
  /\ Live
  /\ \E h \in BOOLEAN : (h => Heirs) /\ proc' = [proc EXCEPT !.st = st, !.heir = h]
  /\ UNCHANGED <<kbVars, up, down, sess, listed, stdin, resize, pump, hand, exec, dropped>>

ProcExits == Ends("exited")

(* CommandContext kills the process when the context is done. *)
Kill == Done /\ Ends("killed")

HeirEnds ==
  /\ proc.heir
  /\ proc' = [proc EXCEPT !.heir = FALSE]
  /\ UNCHANGED <<kbVars, up, down, sess, listed, stdin, resize, pump, hand, exec, dropped>>

-------------------------------------------------------------------------------
RecvLoop == StdinTo \/ ResizeTo \/ RecvCancel
ExecStep == StartProcess \/ Wait \/ Report
KbLoop == KbOutput \/ KbExit

Next ==
  \/ KbInput \/ KbEOF \/ KbResize \/ KbTear \/ KbLoop \/ KbLost
  \/ RecvLoop \/ ExecStep \/ StdinTake \/ StdinEnds \/ ResizePump
  \/ \E o \in Outs : PumpChunk(o) \/ PumpEnds(o) \/ ProcWrites(o)
  \/ ProcReads \/ ProcExits \/ Kill \/ HeirEnds

(* Goroutines run, and a select with a case that stays ready takes it; a   *)
(* kill is carried out.  Users and processes may do nothing for ever.      *)
Fairness ==
  /\ WF_vars(KbLoop) /\ WF_vars(RecvLoop) /\ WF_vars(ExecStep) /\ WF_vars(Kill)
  /\ WF_vars(StdinTake) /\ SF_vars(StdinEnds) /\ WF_vars(ResizePump)
  /\ \A o \in Outs : WF_vars(PumpChunk(o)) /\ WF_vars(PumpEnds(o))

Spec == Init /\ [][Next]_vars
FairSpec == Spec /\ Fairness

-------------------------------------------------------------------------------
(* Properties *)

(* The process reads what the user typed in order, and a chunk is missing  *)
(* before one it has read only if the agent dropped it after its second of *)
(* waiting (agent/stream.go 189-199); what it reads from the first frame   *)
(* on that a RESIZE frame tore (cli/exec.go 210-238) is none of it.        *)
InputInOrder ==
  \A i \in DOMAIN proc.read :
    IF proc.read[i] = Garbled THEN kb.torn
    ELSE /\ i > 1 => proc.read[i - 1] < proc.read[i]
         /\ 1..proc.read[i] \subseteq {proc.read[j] : j \in 1..i} \cup dropped

(* When kb ends with the exit code of the process, it has shown all the    *)
(* process wrote, each stream in order: the result passes the readers of   *)
(* both pipes, the session's channel and the closing of it (executor.go    *)
(* 313-333, stream_manager.go 295-323, exec_http.go 42-63).                *)
OutputComplete ==
  kb.pc = "exit" /\ sess = "exited" =>
    \A o \in Outs : kb.got[o] = [i \in 1..proc.wrote[o] |-> i]

(* The end of the process ends kb, while the channel is full, input is     *)
(* still on its way or a cancel crosses the result, unless a descendant    *)
(* of kubectl keeps its output open.                                       *)
ExitReachesUser == proc.st = "exited" ~> kb.pc # "on" \/ proc.heir

(* When kb has gone, the process is killed and every goroutine of its      *)
(* session ends, the one blocked in a write to the process included        *)
(* (executor.go 289-333), unless a descendant keeps the output open:       *)
(* cmd.Wait, whose WaitDelay would close the pipes, comes after the        *)
(* readers.                                                                *)
LeavesNothing ==
  kb.pc # "on" ~> (~Live /\ pump = {} /\ exec = "gone") \/ proc.heir

(* "half-close request: send EOF to remote stdin" (cli/exec.go:221): the   *)
(* end of the local input ends the input of the process, as long as the    *)
(* session lasts.                                                          *)
EOFReachesProcess == kb.eof /\ Live ~> proc.in = "eof" \/ ~Live
===============================================================================
