-------------------------------- MODULE Frames --------------------------------
(***************************************************************************)
(* The wire format of the interactive and port-forward streams             *)
(* (internal/execframe/frame.go, internal/pfframe/frame.go): a type byte,  *)
(* a big-endian length of four bytes and the payload; conn_id, port,       *)
(* window size and exit code are big-endian numbers at the payload's       *)
(* start.  A byte is a number below ByteBase (256 in the code).            *)
(***************************************************************************)
EXTENDS Integers, Sequences

CONSTANTS ByteBase,     \* values of a byte
          MaxPayload    \* execframe.MaxPayload

(* The numbers that two and four bytes hold are below these. *)
Base16 == ByteBase * ByteBase
Base32 == Base16 * Base16

ASSUME FrameAssumption ==
  ByteBase \in Nat \ {0, 1} /\ MaxPayload \in Nat /\ MaxPayload < Base32

Bytes == 0..ByteBase - 1
Error == [error |-> TRUE]

(* binary.BigEndian: PutUint16 and PutUint32, Uint16 and Uint32. *)
PutUint16(n) == <<(n \div ByteBase) % ByteBase, n % ByteBase>>
PutUint32(n) == <<(n \div (Base16 * ByteBase)) % ByteBase, (n \div Base16) % ByteBase,
                  (n \div ByteBase) % ByteBase, n % ByteBase>>
Uint16(b) == b[1] * ByteBase + b[2]
Uint32(b) == ((b[1] * ByteBase + b[2]) * ByteBase + b[3]) * ByteBase + b[4]
From(b, i) == SubSeq(b, i, Len(b))

(* WriteFrame: what is written, or Error before anything is. *)
WriteFrame(t, payload) ==
  IF Len(payload) > MaxPayload THEN Error
  ELSE [error |-> FALSE, bytes |-> <<t>> \o PutUint32(Len(payload)) \o payload]

(* ReadFrame from the bytes r: the frame and what is left of them; Error   *)
(* when they end too early or announce too much.                           *)
ReadFrame(r) ==
  IF Len(r) < 5 THEN Error
  ELSE LET n == Uint32(SubSeq(r, 2, 5))
       IN  IF n > MaxPayload \/ Len(r) < 5 + n THEN Error
           ELSE [error |-> FALSE, type |-> r[1], payload |-> SubSeq(r, 6, 5 + n),
                 rest |-> From(r, 6 + n)]

(* pfframe payloads. *)
EncodeOpen(id, port) == PutUint32(id) \o PutUint16(port)
DecodeOpen(p) ==
  IF Len(p) # 6 THEN Error
  ELSE [error |-> FALSE, id |-> Uint32(SubSeq(p, 1, 4)), port |-> Uint16(From(p, 5))]

(* EncodeData, EncodeConnError and EncodeConnID: conn_id and the rest. *)
EncodeData(id, data) == PutUint32(id) \o data
DecodeData(p) ==
  IF Len(p) < 4 THEN Error
  ELSE [error |-> FALSE, id |-> Uint32(SubSeq(p, 1, 4)), data |-> From(p, 5)]

(* execframe payloads: the window size, and the exit code as an int32. *)
EncodeResize(rows, cols) == PutUint16(rows) \o PutUint16(cols)
DecodeResize(p) ==
  IF Len(p) # 4 THEN Error
  ELSE [error |-> FALSE, rows |-> Uint16(SubSeq(p, 1, 2)), cols |-> Uint16(From(p, 3))]

EncodeExit(code, msg) == PutUint32(code % Base32) \o msg

(* Mutant of DecodeExit: the code is not converted to a signed number. *)
MutDecodeExit(p) ==
  IF Len(p) < 4 THEN Error
  ELSE [error |-> FALSE, code |-> Uint32(SubSeq(p, 1, 4)), msg |-> From(p, 5)]

DecodeExit(p) ==
  IF Len(p) < 4 THEN Error
  ELSE LET u == Uint32(SubSeq(p, 1, 4))
       IN  [error |-> FALSE, code |-> IF 2 * u >= Base32 THEN u - Base32 ELSE u,
            msg |-> From(p, 5)]
===============================================================================
