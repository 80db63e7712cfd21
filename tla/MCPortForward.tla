----------------------------- MODULE MCPortForward ----------------------------
(***************************************************************************)
(* PortForward, and the frames of Frames over all short inputs.  A         *)
(* behaviour is one of PortForward, with NoInput, or writes down an input  *)
(* while the session rests: a stream of one or two frames, byte by byte,   *)
(* beside a number that stands for an ID, a window size or an exit code.   *)
(***************************************************************************)
EXTENDS PortForward, Frames, SequencesExt

CONSTANT MaxShared   \* bound: chunks sent in a session with two connections

VARIABLE input

NoInput == [number |-> 0, frames |-> <<>>, written |-> FALSE]
Inputs == [number : 0..Base32 - 1, frames : {<<>>}, written : {TRUE}]

MCInit == Init /\ input \in {NoInput} \cup Inputs

NewFrame ==
  /\ input.written /\ Len(input.frames) < 2
  /\ \E t \in Bytes : input' = [input EXCEPT !.frames = Append(@, [type |-> t, payload |-> <<>>])]

(* A payload may be one byte too long. *)
NewByte ==
  /\ input.frames # <<>> /\ Len(Last(input.frames).payload) <= MaxPayload
  /\ \E b \in Bytes :
       LET longer == [Last(input.frames) EXCEPT !.payload = Append(@, b)]
       IN  input' = [input EXCEPT !.frames = Append(Front(@), longer)]

(* With a second connection, which carries no data, the session is there   *)
(* for what the two share: the first one's data come from the pod only.    *)
Shared ==
  nextID > 1 => /\ conn[1].sent <= MaxShared
                /\ \A c \in Conns : client[c].sent = 0 /\ (c > 1 => conn[c].sent = 0)

(* Shared bounds HandleConn, ClientData and PodData, which owe nothing. *)
MCNext ==
  \/ Next /\ Shared' /\ input = NoInput /\ UNCHANGED input
  \/ (NewFrame \/ NewByte) /\ UNCHANGED vars

MCSpec == MCInit /\ [][MCNext]_<<vars, input>> /\ (input = NoInput => Fairness)

Written(f) == WriteFrame(f.type, f.payload)
ReadsAs(r, f) == ~r.error /\ r.type = f.type /\ r.payload = f.payload

(* A stream of two frames is read back as these two frames, whatever bytes *)
(* they hold; of a stream cut anywhere only whole frames are read, and a   *)
(* frame that is too long is not written at all (frame.go 26-58).          *)
StreamsRoundTrip ==
  /\ \A i \in DOMAIN input.frames : Written(input.frames[i]).error <=> Len(input.frames[i].payload) > MaxPayload
  /\ Len(input.frames) = 2 /\ ~Written(input.frames[1]).error /\ ~Written(input.frames[2]).error =>
       LET a == Written(input.frames[1]).bytes
           b == Written(input.frames[2]).bytes
       IN  \A cut \in 0..Len(b) :
             LET first == ReadFrame(a \o SubSeq(b, 1, cut))
                 second == ReadFrame(first.rest)
             IN  /\ ReadsAs(first, input.frames[1])
                 /\ IF cut < Len(b) THEN second.error
                    ELSE ReadsAs(second, input.frames[2]) /\ second.rest = <<>>

PayloadsRoundTrip ==
  Len(input.frames) = 1 =>
    LET data == input.frames[1].payload
        low == input.number % Base16
        high == input.number \div Base16
        code == input.number - Base32 \div 2
    IN  /\ DecodeOpen(EncodeOpen(input.number, low)) = [error |-> FALSE, id |-> input.number, port |-> low]
        /\ DecodeData(EncodeData(input.number, data)) = [error |-> FALSE, id |-> input.number, data |-> data]
        /\ DecodeResize(EncodeResize(high, low)) = [error |-> FALSE, rows |-> high, cols |-> low]
        /\ DecodeExit(EncodeExit(code, data)) = [error |-> FALSE, code |-> code, msg |-> data]
        /\ (Len(data) # 6 => DecodeOpen(data).error) /\ (Len(data) # 4 => DecodeResize(data).error)
        /\ (Len(data) < 4 => DecodeData(data).error /\ DecodeExit(data).error)

(* Streams of frames are read as they were written; what a payload encodes *)
(* is decoded again, negative exit codes and the largest IDs included, and *)
(* payloads of another length are refused (pfframe/frame.go 35-91,         *)
(* execframe/frame.go 26-97).                                              *)
FramesRoundTrip == StreamsRoundTrip /\ PayloadsRoundTrip
===============================================================================
