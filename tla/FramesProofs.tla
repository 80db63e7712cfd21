----------------------------- MODULE FramesProofs -----------------------------
(***************************************************************************)
(* Proofs about Frames, for every value of ByteBase and MaxPayload: what   *)
(* is written is read again, and what is cut short is refused.             *)
(***************************************************************************)
EXTENDS MCPortForward, TLAPS

-------------------------------------------------------------------------------
(* Division *)

(* The quotient and the remainder of a natural number. *)
LEMMA DivMod ==
  ASSUME NEW n \in Nat, NEW b \in Nat \ {0}
  PROVE  n \div b \in Nat /\ n % b \in 0..b-1 /\ n = b * (n \div b) + (n % b)
<1>1. n \div b \in Int /\ n % b \in 0..b-1
  OBVIOUS
<1>2. n = b * (n \div b) + (n % b)
  OBVIOUS
<1>3. n \div b \in Nat
  OBVIOUS
<1> QED
  BY <1>1, <1>2, <1>3

(* Multiples of a are at least a apart. *)
LEMMA MulMono ==
  ASSUME NEW a \in Nat, NEW x \in Nat, NEW y \in Nat, x < y
  PROVE  a * x + a <= a * y
<1>1. PICK d \in Nat : y = x + 1 + d
  <2> WITNESS y - x - 1 \in Nat
  <2> QED
    OBVIOUS
<1>2. a * y = a * x + a + a * d
  BY <1>1
<1>3. a * d \in Nat
  OBVIOUS
<1>4. a * x \in Nat
  OBVIOUS
<1> QED
  BY <1>2, <1>3, <1>4

(* Products of positive numbers are positive. *)
LEMMA ProductPositive ==
  ASSUME NEW a \in Nat \ {0}, NEW b \in Nat \ {0}
  PROVE  a * b \in Nat \ {0}
<1>1. PICK c \in Nat : a = c + 1
  <2> WITNESS a - 1 \in Nat
  <2> QED
    OBVIOUS
<1>2. a * b = c * b + b /\ c * b \in Nat
  BY <1>1
<1> QED
  BY <1>2

(* Quotient and remainder are the only such numbers. *)
LEMMA DivUnique ==
  ASSUME NEW m \in Nat \ {0}, NEW q \in Nat, NEW r \in 0..m-1, NEW n \in Nat, n = m * q + r
  PROVE  n \div m = q /\ n % m = r
<1>1. PICK q2, r2 : q2 = n \div m /\ r2 = n % m
  OBVIOUS
<1>2. q2 \in Nat /\ r2 \in 0..m-1 /\ n = m * q2 + r2
  BY <1>1, DivMod
<1>3. m * q2 \in Nat /\ m * q \in Nat
  BY <1>2
<1>4. ~(q2 < q)
  <2> SUFFICES ASSUME q2 < q PROVE FALSE
    OBVIOUS
  <2>1. m * q2 + m <= m * q
    BY <1>2, MulMono
  <2> QED
    BY <1>2, <1>3, <2>1
<1>5. ~(q < q2)
  <2> SUFFICES ASSUME q < q2 PROVE FALSE
    OBVIOUS
  <2>1. m * q + m <= m * q2
    BY <1>2, MulMono
  <2> QED
    BY <1>2, <1>3, <2>1
<1>6. q2 = q
  BY <1>2, <1>4, <1>5
<1> QED
  BY <1>1, <1>2, <1>3, <1>6

(* Dividing twice, as the bytes of a number are computed. *)
LEMMA DivDiv ==
  ASSUME NEW a \in Nat \ {0}, NEW b \in Nat \ {0}, NEW n \in Nat
  PROVE  n \div (a * b) = (n \div a) \div b
<1>1. PICK q, r : q = n \div a /\ r = n % a
  OBVIOUS
<1>2. q \in Nat /\ r \in 0..a-1 /\ n = a * q + r
  BY <1>1, DivMod
<1>3. PICK q2, r2 : q2 = q \div b /\ r2 = q % b
  OBVIOUS
<1>4. q2 \in Nat /\ r2 \in 0..b-1 /\ q = b * q2 + r2
  BY <1>2, <1>3, DivMod
<1>5. PICK s : s = a * r2 + r
  OBVIOUS
<1>6. n = (a * b) * q2 + s
  BY <1>2, <1>4, <1>5
<1>7. s \in 0..(a*b)-1
  <2>1. a * r2 + a <= a * b
    BY <1>4, MulMono
  <2>2. a * r2 \in Nat /\ a * b \in Nat
    BY <1>4
  <2> QED
    BY <1>2, <1>5, <2>1, <2>2
<1>8. a * b \in Nat \ {0}
  BY ProductPositive
<1>9. PICK m : m = a * b
  OBVIOUS
<1>10. n \div m = q2
  BY <1>4, <1>6, <1>7, <1>8, <1>9, DivUnique
<1> QED
  BY <1>1, <1>3, <1>9, <1>10
-------------------------------------------------------------------------------
(* Numbers in bytes *)

(* The bases are positive. *)
LEMMA Bases ==
  /\ ByteBase \in Nat \ {0, 1} /\ ByteBase \in Nat \ {0}
  /\ Base16 \in Nat \ {0} /\ Base32 \in Nat \ {0} /\ Base16 * ByteBase \in Nat \ {0}
<1>1. ByteBase \in Nat \ {0, 1}
  BY FrameAssumption
<1>2. Base16 \in Nat \ {0}
  BY <1>1, ProductPositive DEF Base16
<1>3. Base32 \in Nat \ {0}
  BY <1>2, ProductPositive DEF Base32
<1>4. Base16 * ByteBase \in Nat \ {0}
  BY <1>1, <1>2, ProductPositive
<1> QED
  BY <1>1, <1>2, <1>3, <1>4

(* A quotient is below what the dividend is below, divided. *)
LEMMA QuotientBound ==
  ASSUME NEW a \in Nat \ {0}, NEW b \in Nat, NEW n \in Nat, n < a * b
  PROVE  n \div a \in 0..b-1
<1>1. PICK q, r : q = n \div a /\ r = n % a
  OBVIOUS
<1>2. q \in Nat /\ r \in 0..a-1 /\ n = a * q + r
  BY <1>1, DivMod
<1>3. ~(q >= b)
  <2> SUFFICES ASSUME q >= b PROVE FALSE
    OBVIOUS
  <2>1. PICK d \in Nat : q = b + d
    <3>1. q - b \in Nat
      BY <1>2
    <3> QED
      BY <1>2, <3>1
  <2>2. a * q = a * b + a * d /\ a * d \in Nat /\ a * b \in Nat
    BY <2>1
  <2> QED
    BY <1>2, <2>2
<1> QED
  BY <1>1, <1>2, <1>3

(* PutUint16 writes two bytes. *)
LEMMA PutUint16IsBytes ==
  ASSUME NEW n \in Nat
  PROVE  PutUint16(n) \in Seq(Bytes) /\ Len(PutUint16(n)) = 2
<1>1. n \div ByteBase \in Nat
  BY Bases, DivMod
<1>2. (n \div ByteBase) % ByteBase \in Bytes /\ n % ByteBase \in Bytes
  BY <1>1, Bases, DivMod DEF Bytes
<1> QED
  BY <1>2 DEF PutUint16

(* PutUint32 writes four bytes. *)
LEMMA PutUint32IsBytes ==
  ASSUME NEW n \in Nat
  PROVE  PutUint32(n) \in Seq(Bytes) /\ Len(PutUint32(n)) = 4
<1>1. n \div ByteBase \in Nat /\ n \div Base16 \in Nat /\ n \div (Base16 * ByteBase) \in Nat
  BY Bases, DivMod
<1>2. /\ (n \div ByteBase) % ByteBase \in Bytes /\ n % ByteBase \in Bytes
      /\ (n \div Base16) % ByteBase \in Bytes /\ (n \div (Base16 * ByteBase)) % ByteBase \in Bytes
  BY <1>1, Bases, DivMod DEF Bytes
<1> QED
  BY <1>2 DEF PutUint32

(* Two bytes hold any number below Base16. *)
LEMMA Uint16RoundTrip ==
  ASSUME NEW n \in 0..Base16 - 1
  PROVE  Uint16(PutUint16(n)) = n
<1>1. PICK q, r : q = n \div ByteBase /\ r = n % ByteBase
  OBVIOUS
<1>2. q \in Nat /\ r \in 0..ByteBase-1 /\ n = ByteBase * q + r
  BY <1>1, Bases, DivMod
<1>3. n < ByteBase * ByteBase /\ n \in Nat
  BY Bases DEF Base16
<1>4. q \in 0..ByteBase-1
  BY <1>1, <1>3, Bases, QuotientBound
<1>5. q % ByteBase = q
  BY <1>4, Bases
<1>6. PutUint16(n) = <<q, r>>
  BY <1>1, <1>5 DEF PutUint16
<1>7. Uint16(<<q, r>>) = q * ByteBase + r
  BY DEF Uint16
<1> QED
  BY <1>2, <1>6, <1>7, Bases

(* Four bytes hold any number below Base32: each byte is the remainder of  *)
(* the quotient before it.                                                 *)
LEMMA Uint32RoundTrip ==
  ASSUME NEW n \in 0..Base32 - 1
  PROVE  Uint32(PutUint32(n)) = n
<1> DEFINE B == ByteBase
<1>1. B \in Nat \ {0} /\ n \in Nat
  BY Bases
<1>2. PICK q1, r1 : q1 = n \div B /\ r1 = n % B
  OBVIOUS
<1>3. q1 \in Nat /\ r1 \in 0..B-1 /\ n = B * q1 + r1
  BY <1>1, <1>2, DivMod
<1>4. PICK q2, r2 : q2 = q1 \div B /\ r2 = q1 % B
  OBVIOUS
<1>5. q2 \in Nat /\ r2 \in 0..B-1 /\ q1 = B * q2 + r2
  BY <1>1, <1>3, <1>4, DivMod
<1>6. PICK q3, r3 : q3 = q2 \div B /\ r3 = q2 % B
  OBVIOUS
<1>7. q3 \in Nat /\ r3 \in 0..B-1 /\ q2 = B * q3 + r3
  BY <1>1, <1>5, <1>6, DivMod
<1>8. n \div Base16 = q2
  BY <1>1, <1>2, <1>4, DivDiv DEF Base16
<1>9. n \div (Base16 * B) = q3
  BY <1>1, <1>6, <1>8, Bases, DivDiv
<1>10. q3 \in 0..B-1
  <2>1. PICK m : m = Base16 * B
    OBVIOUS
  <2>2. m \in Nat \ {0}
    BY <2>1, Bases
  <2>3. Base32 = m * B
    BY <1>1, <2>1 DEF Base32, Base16
  <2>4. n < m * B
    BY <2>3, Bases
  <2>5. n \div m \in 0..B-1
    BY <1>1, <2>2, <2>4, QuotientBound
  <2> QED
    BY <1>9, <2>1, <2>5
<1>11. q3 % B = q3
  BY <1>1, <1>10
<1>12. PutUint32(n) = <<q3, r3, r2, r1>>
  BY <1>2, <1>4, <1>6, <1>8, <1>9, <1>11 DEF PutUint32
<1>13. Uint32(<<q3, r3, r2, r1>>) = ((q3 * B + r3) * B + r2) * B + r1
  BY DEF Uint32
<1>14. q3 * B + r3 = q2
  BY <1>1, <1>7
<1>15. q2 * B + r2 = q1
  BY <1>1, <1>5
<1>16. q1 * B + r1 = n
  BY <1>1, <1>3
<1> QED
  BY <1>12, <1>13, <1>14, <1>15, <1>16
-------------------------------------------------------------------------------
(* Frames *)

Payload == {p \in Seq(Bytes) : Len(p) <= MaxPayload}

(* The members of a concatenation. *)
Joined(c, a, b) ==
  /\ Len(c) = Len(a) + Len(b)
  /\ \A i \in 1..Len(a) : c[i] = a[i]
  /\ \A i \in 1..Len(b) : c[Len(a) + i] = b[i]

LEMMA ConcatMembers ==
  ASSUME NEW C, NEW a \in Seq(C), NEW b \in Seq(C)
  PROVE  a \o b \in Seq(C) /\ Joined(a \o b, a, b)
  BY DEF Joined

(* A concatenation is taken apart where it was joined. *)
LEMMA SplitConcat ==
  ASSUME NEW C, NEW a \in Seq(C), NEW b \in Seq(C)
  PROVE  /\ a \o b \in Seq(C) /\ Len(a \o b) = Len(a) + Len(b)
         /\ SubSeq(a \o b, 1, Len(a)) = a
         /\ SubSeq(a \o b, Len(a) + 1, Len(a) + Len(b)) = b
<1>1. a \o b \in Seq(C) /\ Len(a \o b) = Len(a) + Len(b)
  OBVIOUS
<1>2. PICK c \in Seq(C) : c = a \o b
  BY <1>1
<1>3. /\ Len(c) = Len(a) + Len(b) /\ Len(a) \in Nat /\ Len(b) \in Nat
      /\ \A i \in 1..Len(a) : c[i] = a[i]
      /\ \A i \in 1..Len(b) : c[Len(a) + i] = b[i]
  BY <1>2
<1>4. SubSeq(c, 1, Len(a)) = a
  BY <1>3
<1>5. PICK d : d = SubSeq(c, Len(a) + 1, Len(a) + Len(b))
  OBVIOUS
<1>6. d \in Seq(C) /\ Len(d) = Len(b) /\ \A i \in 1..Len(b) : d[i] = b[i]
  BY <1>3, <1>5
<1>7. d = b
  BY <1>6
<1> QED
  BY <1>1, <1>2, <1>4, <1>5, <1>7

(* The bytes p are a header h and what follows it. *)
Split(p, h, d) ==
  Len(p) = Len(h) + Len(d) /\ SubSeq(p, 1, Len(h)) = h /\ From(p, Len(h) + 1) = d

LEMMA SplitHeader ==
  ASSUME NEW h \in Seq(Bytes), NEW d \in Seq(Bytes)
  PROVE  Split(h \o d, h, d)
  BY SplitConcat DEF Split, From

(* The bytes WriteFrame writes: type, length and payload. *)
FrameBytes(t, payload) == <<t>> \o PutUint32(Len(payload)) \o payload

LEMMA FrameIsBytes ==
  ASSUME NEW t \in Bytes, NEW payload \in Payload
  PROVE  FrameBytes(t, payload) \in Seq(Bytes)
<1>1. payload \in Seq(Bytes) /\ Len(payload) \in Nat
  BY DEF Payload
<1>2. PICK u : u = PutUint32(Len(payload))
  OBVIOUS
<1>3. u \in Seq(Bytes)
  BY <1>1, <1>2, PutUint32IsBytes
<1>4. <<t>> \in Seq(Bytes)
  OBVIOUS
<1>5. <<t>> \o u \in Seq(Bytes)
  BY <1>3, <1>4, ConcatMembers, Zenon
<1>6. <<t>> \o u \o payload \in Seq(Bytes)
  BY <1>1, <1>5, ConcatMembers, Zenon
<1> QED
  BY <1>2, <1>6, Zenon DEF FrameBytes

(* The bytes r begin with such a frame, and rest follows it. *)
Layout(r, t, payload, rest) ==
  /\ r \in Seq(Bytes) /\ Len(r) = 5 + Len(payload) + Len(rest) /\ r[1] = t
  /\ SubSeq(r, 2, 5) = PutUint32(Len(payload))
  /\ SubSeq(r, 6, 5 + Len(payload)) = payload
  /\ From(r, 6 + Len(payload)) = rest

LEMMA FrameLayout ==
  ASSUME NEW t \in Bytes, NEW payload \in Payload, NEW rest \in Seq(Bytes)
  PROVE  Layout(FrameBytes(t, payload) \o rest, t, payload, rest)
<1>1. payload \in Seq(Bytes) /\ Len(payload) \in Nat /\ Len(rest) \in Nat
  BY DEF Payload
<1>2. PICK u : u = PutUint32(Len(payload))
  OBVIOUS
<1>3. u \in Seq(Bytes) /\ Len(u) = 4
  BY <1>1, <1>2, PutUint32IsBytes
<1>4. PICK s : s = <<t>>
  OBVIOUS
<1>5. s \in Seq(Bytes) /\ Len(s) = 1 /\ s[1] = t
  BY <1>4
<1>6. PICK h : h = s \o u
  OBVIOUS
<1>7. h \in Seq(Bytes) /\ Joined(h, s, u)
  BY <1>3, <1>5, <1>6, ConcatMembers, Zenon
<1>8. PICK f : f = h \o payload
  OBVIOUS
<1>9. f \in Seq(Bytes) /\ Joined(f, h, payload)
  BY <1>1, <1>7, <1>8, ConcatMembers, Zenon
<1>10. PICK r : r = f \o rest
  OBVIOUS
<1>11. r \in Seq(Bytes) /\ Joined(r, f, rest)
  BY <1>9, <1>10, ConcatMembers, Zenon
<1>12. r = FrameBytes(t, payload) \o rest
  BY <1>2, <1>4, <1>6, <1>8, <1>10, Zenon DEF FrameBytes
<1>13. Len(h) = 5 /\ h[1] = t /\ \A i \in 1..4 : h[1 + i] = u[i]
  BY <1>3, <1>5, <1>7 DEF Joined
<1>14. /\ Len(f) = 5 + Len(payload)
       /\ \A i \in 1..5 : f[i] = h[i]
       /\ \A i \in 1..Len(payload) : f[5 + i] = payload[i]
  BY <1>9, <1>13 DEF Joined
<1>15. /\ Len(r) = 5 + Len(payload) + Len(rest)
       /\ \A i \in 1..5 + Len(payload) : r[i] = f[i]
       /\ \A i \in 1..Len(rest) : r[5 + Len(payload) + i] = rest[i]
  BY <1>11, <1>14 DEF Joined
<1>16. r[1] = t
  BY <1>1, <1>13, <1>14, <1>15
<1>17. SubSeq(r, 2, 5) = u
  <2>1. PICK v : v = SubSeq(r, 2, 5)
    OBVIOUS
  <2>2. v \in Seq(Bytes) /\ Len(v) = 4 /\ \A i \in 1..4 : v[i] = r[i + 1]
    BY <1>1, <1>11, <1>15, <2>1
  <2>3. \A i \in 1..4 : r[i + 1] = u[i]
    <3> SUFFICES ASSUME NEW i \in 1..4 PROVE r[i + 1] = u[i]
      OBVIOUS
    <3>1. PICK k : k = i + 1
      OBVIOUS
    <3>2. k \in 1..5 /\ k \in 1..5 + Len(payload) /\ 1 + i = k
      BY <1>1, <3>1
    <3>3. h[k] = u[i]
      BY <1>13, <3>2
    <3> QED
      BY <1>14, <1>15, <3>1, <3>2, <3>3
  <2> QED
    BY <1>3, <2>1, <2>2, <2>3
<1>18. SubSeq(r, 6, 5 + Len(payload)) = payload
  <2>1. PICK v : v = SubSeq(r, 6, 5 + Len(payload))
    OBVIOUS
  <2>2. v \in Seq(Bytes) /\ Len(v) = Len(payload) /\ \A i \in 1..Len(payload) : v[i] = r[5 + i]
    BY <1>1, <1>11, <1>15, <2>1
  <2>3. \A i \in 1..Len(payload) : r[5 + i] = payload[i]
    BY <1>1, <1>14, <1>15, SMTT(60)
  <2> QED
    BY <1>1, <2>1, <2>2, <2>3
<1>19. From(r, 6 + Len(payload)) = rest
  <2>1. PICK v : v = SubSeq(r, 6 + Len(payload), Len(r))
    OBVIOUS
  <2>2. v \in Seq(Bytes) /\ Len(v) = Len(rest) /\ \A i \in 1..Len(rest) : v[i] = r[5 + Len(payload) + i]
    BY <1>1, <1>11, <1>15, <2>1
  <2>3. v = rest
    BY <1>15, <2>2
  <2> QED
    BY <2>1, <2>3 DEF From
<1> QED
  BY <1>2, <1>11, <1>12, <1>15, <1>16, <1>17, <1>18, <1>19 DEF Layout

(* A frame is written when its payload is not too long, and only then. *)
LEMMA WritesFrame ==
  ASSUME NEW t \in Bytes, NEW payload \in Seq(Bytes)
  PROVE  /\ WriteFrame(t, payload).error \in BOOLEAN
         /\ WriteFrame(t, payload).error <=> Len(payload) > MaxPayload
         /\ payload \in Payload => WriteFrame(t, payload).bytes = FrameBytes(t, payload)
<1>1. CASE Len(payload) > MaxPayload
  BY <1>1, FrameAssumption DEF WriteFrame, Error, Payload
<1>2. CASE ~(Len(payload) > MaxPayload)
  <2>1. WriteFrame(t, payload) = [error |-> FALSE, bytes |-> FrameBytes(t, payload)]
    BY <1>2 DEF WriteFrame, FrameBytes
  <2> QED
    BY <1>2, <2>1
<1> QED
  BY <1>1, <1>2

(* A frame is read as it was written, and what follows it is left          *)
(* (WriteFrame and ReadFrame, execframe/frame.go 26-58): so is a stream of *)
(* any number of frames, one after the other.                              *)
THEOREM FrameIsRead ==
  ASSUME NEW t \in Bytes, NEW payload \in Payload, NEW rest \in Seq(Bytes)
  PROVE  ReadFrame(WriteFrame(t, payload).bytes \o rest)
           = [error |-> FALSE, type |-> t, payload |-> payload, rest |-> rest]
<1>1. PICK f : f = FrameBytes(t, payload)
  OBVIOUS
<1>2. WriteFrame(t, payload).bytes = f
  BY <1>1, WritesFrame DEF Payload
<1>3. PICK r : r = f \o rest
  OBVIOUS
<1>4. /\ Len(r) = 5 + Len(payload) + Len(rest) /\ r[1] = t
      /\ SubSeq(r, 2, 5) = PutUint32(Len(payload))
      /\ SubSeq(r, 6, 5 + Len(payload)) = payload
      /\ From(r, 6 + Len(payload)) = rest
  <2>1. Layout(r, t, payload, rest)
    BY <1>1, <1>3, FrameLayout, Zenon
  <2> QED
    BY <2>1 DEF Layout
<1>5. PICK n : n = Len(payload)
  OBVIOUS
<1>6. n \in Nat /\ n <= MaxPayload /\ MaxPayload \in Nat /\ n \in 0..Base32 - 1 /\ Len(rest) \in Nat
  BY <1>5, FrameAssumption, Bases DEF Payload
<1>7. Uint32(SubSeq(r, 2, 5)) = n
  BY <1>4, <1>5, <1>6, Uint32RoundTrip
<1>8. ~(Len(r) < 5) /\ ~(n > MaxPayload \/ Len(r) < 5 + n)
  BY <1>4, <1>5, <1>6
<1>9. ReadFrame(r) = [error |-> FALSE, type |-> r[1], payload |-> SubSeq(r, 6, 5 + n), rest |-> From(r, 6 + n)]
  BY <1>7, <1>8 DEF ReadFrame
<1> QED
  BY <1>2, <1>3, <1>4, <1>5, <1>9

(* A frame that is cut short, in its header or in its payload, is not read *)
(* (io.ReadFull, execframe/frame.go 44-58).                                *)
THEOREM CutFrameIsRefused ==
  ASSUME NEW t \in Bytes, NEW payload \in Payload,
         NEW cut \in 0..Len(WriteFrame(t, payload).bytes) - 1
  PROVE  ReadFrame(SubSeq(WriteFrame(t, payload).bytes, 1, cut)) = Error
<1>1. PICK f : f = FrameBytes(t, payload)
  OBVIOUS
<1>2. WriteFrame(t, payload).bytes = f
  BY <1>1, WritesFrame DEF Payload
<1>3. PICK e : e = <<>>
  OBVIOUS
<1>4. f \in Seq(Bytes) /\ Len(f) = 5 + Len(payload) /\ SubSeq(f, 2, 5) = PutUint32(Len(payload))
  <2>1. e \in Seq(Bytes) /\ Len(e) = 0
    BY <1>3
  <2>2. Layout(f \o e, t, payload, e)
    BY <1>1, <2>1, FrameLayout, Zenon
  <2>3. f \in Seq(Bytes)
    BY <1>1, FrameIsBytes
  <2>4. f \o e = f
    BY <1>3, <2>3
  <2> QED
    BY <2>1, <2>2, <2>4 DEF Layout, Payload
<1>6. PICK r : r = SubSeq(f, 1, cut)
  OBVIOUS
<1>7. Len(payload) \in Nat /\ cut \in Nat /\ cut < 5 + Len(payload)
  BY <1>2, <1>4 DEF Payload
<1>8. r \in Seq(Bytes) /\ Len(r) = cut /\ \A i \in 1..cut : r[i] = f[i]
  BY <1>4, <1>6, <1>7
<1>9. CASE cut < 5
  BY <1>2, <1>6, <1>8, <1>9 DEF ReadFrame
<1>10. CASE cut >= 5
  <2>1. PICK u : u = SubSeq(r, 2, 5)
    OBVIOUS
  <2>2. u \in Seq(Bytes) /\ Len(u) = 4 /\ \A i \in 1..4 : u[i] = f[i + 1]
    BY <1>7, <1>8, <1>10, <2>1
  <2>3. PICK v : v = SubSeq(f, 2, 5)
    OBVIOUS
  <2>4. v \in Seq(Bytes) /\ Len(v) = 4 /\ \A i \in 1..4 : v[i] = f[i + 1]
    BY <1>4, <1>7, <2>3
  <2>5. u = v
    BY <2>2, <2>4
  <2>6. PICK n : n = Len(payload)
    OBVIOUS
  <2>7. n \in 0..Base32 - 1
    BY <2>6, FrameAssumption, Bases DEF Payload
  <2>8. Uint32(u) = n
    BY <1>4, <2>3, <2>5, <2>6, <2>7, Uint32RoundTrip
  <2>9. Len(r) < 5 + n
    BY <1>7, <1>8, <2>6
  <2> QED
    BY <1>2, <1>6, <2>1, <2>8, <2>9 DEF ReadFrame
<1> QED
  BY <1>7, <1>9, <1>10
-------------------------------------------------------------------------------
(* Payloads *)

(* A connection's ID and a port are decoded as they were encoded           *)
(* (pfframe/frame.go 35-47).                                               *)
LEMMA OpenRoundTrip ==
  ASSUME NEW id \in 0..Base32 - 1, NEW port \in 0..Base16 - 1
  PROVE  DecodeOpen(EncodeOpen(id, port)) = [error |-> FALSE, id |-> id, port |-> port]
<1>1. id \in Nat /\ port \in Nat
  BY Bases
<1>2. PICK h, d : h = PutUint32(id) /\ d = PutUint16(port)
  OBVIOUS
<1>3. h \in Seq(Bytes) /\ d \in Seq(Bytes) /\ Len(h) = 4 /\ Len(d) = 2
  BY <1>1, <1>2, PutUint32IsBytes, PutUint16IsBytes
<1>4. PICK p : p = h \o d
  OBVIOUS
<1>5. Len(p) = 6 /\ SubSeq(p, 1, 4) = h /\ From(p, 5) = d
  <2>1. h \in Seq(Bytes) /\ d \in Seq(Bytes)
    BY <1>3
  <2>2. Split(p, h, d)
    BY <1>4, <2>1, SplitHeader, Zenon
  <2> QED
    BY <1>3, <2>2 DEF Split
<1>6. Uint32(h) = id /\ Uint16(d) = port
  BY <1>2, Uint32RoundTrip, Uint16RoundTrip, Zenon
<1> QED
  BY <1>2, <1>4, <1>5, <1>6 DEF EncodeOpen, DecodeOpen

(* A connection's ID and its data (pfframe/frame.go 50-91). *)
LEMMA DataRoundTrip ==
  ASSUME NEW id \in 0..Base32 - 1, NEW data \in Seq(Bytes)
  PROVE  DecodeData(EncodeData(id, data)) = [error |-> FALSE, id |-> id, data |-> data]
<1>1. id \in Nat
  BY Bases
<1>2. PICK h : h = PutUint32(id)
  OBVIOUS
<1>3. h \in Seq(Bytes) /\ Len(h) = 4
  BY <1>1, <1>2, PutUint32IsBytes
<1>4. PICK p : p = h \o data
  OBVIOUS
<1>5. Len(p) = 4 + Len(data) /\ SubSeq(p, 1, 4) = h /\ From(p, 5) = data
  <2>1. h \in Seq(Bytes) /\ data \in Seq(Bytes)
    BY <1>3
  <2>2. Split(p, h, data)
    BY <1>4, <2>1, SplitHeader, Zenon
  <2> QED
    BY <1>3, <2>2 DEF Split
<1>6. Uint32(h) = id
  BY <1>2, Uint32RoundTrip, Zenon
<1>7. ~(Len(p) < 4)
  BY <1>5
<1> QED
  BY <1>2, <1>4, <1>5, <1>6, <1>7 DEF EncodeData, DecodeData

(* A window's size (execframe/frame.go 70-82). *)
LEMMA ResizeRoundTrip ==
  ASSUME NEW rows \in 0..Base16 - 1, NEW cols \in 0..Base16 - 1
  PROVE  DecodeResize(EncodeResize(rows, cols)) = [error |-> FALSE, rows |-> rows, cols |-> cols]
<1>1. rows \in Nat /\ cols \in Nat
  BY Bases
<1>2. PICK h, d : h = PutUint16(rows) /\ d = PutUint16(cols)
  OBVIOUS
<1>3. h \in Seq(Bytes) /\ d \in Seq(Bytes) /\ Len(h) = 2 /\ Len(d) = 2
  BY <1>1, <1>2, PutUint16IsBytes
<1>4. PICK p : p = h \o d
  OBVIOUS
<1>5. Len(p) = 4 /\ SubSeq(p, 1, 2) = h /\ From(p, 3) = d
  <2>1. h \in Seq(Bytes) /\ d \in Seq(Bytes)
    BY <1>3
  <2>2. Split(p, h, d)
    BY <1>4, <2>1, SplitHeader, Zenon
  <2> QED
    BY <1>3, <2>2 DEF Split
<1>6. Uint16(h) = rows /\ Uint16(d) = cols
  BY <1>2, Uint16RoundTrip, Zenon
<1> QED
  BY <1>2, <1>4, <1>5, <1>6 DEF EncodeResize, DecodeResize

(* An exit code, negative ones included, and its message                   *)
(* (execframe/frame.go 85-97): int32(uint32(code)) is code.                *)
LEMMA ExitRoundTrip ==
  ASSUME NEW code \in Int, 0 - Base32 <= 2 * code, 2 * code < Base32, NEW msg \in Seq(Bytes)
  PROVE  DecodeExit(EncodeExit(code, msg)) = [error |-> FALSE, code |-> code, msg |-> msg]
<1>1. PICK B \in Nat \ {0} : B = Base32
  BY Bases
<1>2. PICK u : u = IF code >= 0 THEN code ELSE code + B
  OBVIOUS
<1>3. u \in 0..B-1 /\ (IF 2 * u >= B THEN u - B ELSE u) = code
  BY <1>1, <1>2
<1>4. code % B = u
  BY <1>1, <1>2, <1>3
<1>5. u \in Nat /\ u \in 0..Base32 - 1
  BY <1>1, <1>3
<1>6. PICK h : h = PutUint32(u)
  OBVIOUS
<1>7. h \in Seq(Bytes) /\ Len(h) = 4 /\ Uint32(h) = u
  BY <1>5, <1>6, PutUint32IsBytes, Uint32RoundTrip
<1>8. PICK p : p = h \o msg
  OBVIOUS
<1>9. Len(p) = 4 + Len(msg) /\ SubSeq(p, 1, 4) = h /\ From(p, 5) = msg
  <2>1. h \in Seq(Bytes) /\ msg \in Seq(Bytes)
    BY <1>7
  <2>2. Split(p, h, msg)
    BY <1>8, <2>1, SplitHeader, Zenon
  <2> QED
    BY <1>7, <2>2 DEF Split
<1>10. ~(Len(p) < 4)
  BY <1>9
<1>11. EncodeExit(code, msg) = p
  BY <1>1, <1>4, <1>6, <1>8, Zenon DEF EncodeExit
<1>12. DecodeExit(p) = [error |-> FALSE, code |-> IF 2 * u >= B THEN u - B ELSE u, msg |-> msg]
  BY <1>1, <1>7, <1>9, <1>10, Zenon DEF DecodeExit
<1> QED
  BY <1>3, <1>11, <1>12

(* What the payloads of the exec and port-forward streams encode is        *)
(* decoded again, for every number their fields hold.                      *)
THEOREM PayloadsAreDecoded ==
  ASSUME NEW id \in 0..Base32 - 1, NEW high \in 0..Base16 - 1, NEW low \in 0..Base16 - 1,
         NEW code \in Int, 0 - Base32 <= 2 * code, 2 * code < Base32, NEW data \in Seq(Bytes)
  PROVE  /\ DecodeOpen(EncodeOpen(id, low)) = [error |-> FALSE, id |-> id, port |-> low]
         /\ DecodeData(EncodeData(id, data)) = [error |-> FALSE, id |-> id, data |-> data]
         /\ DecodeResize(EncodeResize(high, low)) = [error |-> FALSE, rows |-> high, cols |-> low]
         /\ DecodeExit(EncodeExit(code, data)) = [error |-> FALSE, code |-> code, msg |-> data]
  BY OpenRoundTrip, DataRoundTrip, ResizeRoundTrip, ExitRoundTrip

-------------------------------------------------------------------------------
(* The inputs of the model *)

RawFrame == [type : Bytes, payload : Seq(Bytes)]
InputInv == input \in [number : 0..Base32 - 1, frames : Seq(RawFrame), written : BOOLEAN]

LEMMA InputInit == MCInit => InputInv
<1> SUFFICES ASSUME input \in {NoInput} \cup Inputs PROVE InputInv
  BY DEF MCInit
<1>1. <<>> \in Seq(RawFrame) /\ 0 \in 0..Base32 - 1
  BY Bases
<1>2. CASE input = NoInput
  BY <1>1, <1>2 DEF InputInv, NoInput
<1>3. CASE input \in Inputs
  BY <1>1, <1>3 DEF InputInv, Inputs
<1> QED
  BY <1>2, <1>3

LEMMA InputStep == InputInv /\ [MCNext]_<<vars, input>> => InputInv'
<1> SUFFICES ASSUME InputInv, [MCNext]_<<vars, input>> PROVE InputInv'
  OBVIOUS
<1>0. PICK frames \in Seq(RawFrame) : frames = input.frames
  BY DEF InputInv
<1>1. CASE UNCHANGED input
  BY <1>1 DEF InputInv
<1>2. ASSUME NEW new \in Seq(RawFrame), input' = [input EXCEPT !.frames = new] PROVE InputInv'
  BY <1>2 DEF InputInv
<1>3. CASE NewFrame
  <2>1. PICK t \in Bytes : input' = [input EXCEPT !.frames = Append(@, [type |-> t, payload |-> <<>>])]
    BY <1>3 DEF NewFrame
  <2>2. [type |-> t, payload |-> <<>>] \in RawFrame
    BY DEF RawFrame
  <2>3. Append(frames, [type |-> t, payload |-> <<>>]) \in Seq(RawFrame)
    BY <2>2
  <2>4. input' = [input EXCEPT !.frames = Append(frames, [type |-> t, payload |-> <<>>])]
    BY <1>0, <2>1
  <2> QED
    BY <1>2, <2>3, <2>4
<1>4. CASE NewByte
  <2>1. PICK b \in Bytes :
          input' = [input EXCEPT !.frames = Append(Front(@), [Last(input.frames) EXCEPT !.payload = Append(@, b)])]
    BY <1>4 DEF NewByte
  <2>2. Len(frames) \in Nat \ {0}
    BY <1>0, <1>4 DEF NewByte
  <2>3. PICK f \in RawFrame : f = Last(frames)
    BY <2>2 DEF Last
  <2>4. PICK longer : longer = [f EXCEPT !.payload = Append(@, b)]
    OBVIOUS
  <2>5. longer \in RawFrame
    <3>1. f.payload \in Seq(Bytes)
      BY DEF RawFrame
    <3>2. Append(f.payload, b) \in Seq(Bytes)
      BY <3>1
    <3> QED
      BY <2>4, <3>2 DEF RawFrame
  <2>6. PICK front : front = Front(frames)
    OBVIOUS
  <2>7. front \in Seq(RawFrame)
    BY <2>2, <2>6 DEF Front
  <2>8. Append(front, longer) \in Seq(RawFrame)
    BY <2>5, <2>7
  <2>9. input' = [input EXCEPT !.frames = Append(front, longer)]
    BY <1>0, <2>1, <2>3, <2>4, <2>6
  <2> QED
    BY <1>2, <2>8, <2>9
<1> QED
  BY <1>1, <1>3, <1>4 DEF MCNext

LEMMA StreamsAreRead == InputInv => StreamsRoundTrip
<1> SUFFICES ASSUME InputInv PROVE StreamsRoundTrip
  OBVIOUS
<1>0. PICK frames \in Seq(RawFrame) : frames = input.frames
  BY DEF InputInv
<1>1. \A i \in DOMAIN frames : frames[i].type \in Bytes /\ frames[i].payload \in Seq(Bytes)
  <2>1. \A i \in DOMAIN frames : frames[i] \in RawFrame
    OBVIOUS
  <2> QED
    BY <2>1 DEF RawFrame
<1>2. \A i \in DOMAIN frames : Written(frames[i]).error <=> Len(frames[i].payload) > MaxPayload
  BY <1>1, WritesFrame DEF Written
<1>3. ASSUME Len(frames) = 2, ~Written(frames[1]).error, ~Written(frames[2]).error,
             NEW cut \in 0..Len(Written(frames[2]).bytes),
             NEW a, a = Written(frames[1]).bytes, NEW b, b = Written(frames[2]).bytes,
             NEW first, first = ReadFrame(a \o SubSeq(b, 1, cut)),
             NEW second, second = ReadFrame(first.rest)
      PROVE  /\ ReadsAs(first, frames[1])
             /\ IF cut < Len(b) THEN second.error
                ELSE ReadsAs(second, frames[2]) /\ second.rest = <<>>
  <2>1. 1 \in DOMAIN frames /\ 2 \in DOMAIN frames
    BY <1>3
  <2>2. PICK f, g : f = frames[1] /\ g = frames[2]
    OBVIOUS
  <2>3. f.type \in Bytes /\ f.payload \in Payload /\ g.type \in Bytes /\ g.payload \in Payload
    BY <1>1, <1>2, <1>3, <2>1, <2>2, FrameAssumption DEF Payload
  <2>4. a = WriteFrame(f.type, f.payload).bytes /\ b = WriteFrame(g.type, g.payload).bytes
    BY <1>3, <2>2 DEF Written
  <2>5. b \in Seq(Bytes)
    BY <2>3, <2>4, WritesFrame, FrameIsBytes DEF Payload
  <2>6. cut \in 0..Len(b) /\ Len(b) \in Nat
    BY <1>3, <2>5
  <2>7. SubSeq(b, 1, cut) \in Seq(Bytes)
    BY <2>5, <2>6
  <2>8. first = [error |-> FALSE, type |-> f.type, payload |-> f.payload, rest |-> SubSeq(b, 1, cut)]
    BY <1>3, <2>3, <2>4, <2>7, FrameIsRead, Zenon
  <2>9. second = ReadFrame(SubSeq(b, 1, cut))
    <3>1. first.rest = SubSeq(b, 1, cut)
      BY <2>8
    <3> QED
      BY <1>3, <3>1, Zenon
  <2>10. CASE cut < Len(b)
    <3>1. cut \in 0..Len(b) - 1
      BY <2>6, <2>10
    <3>2. second = Error
      BY <2>3, <2>4, <2>9, <3>1, CutFrameIsRefused, Zenon
    <3> QED
      BY <2>2, <2>8, <2>10, <3>2 DEF ReadsAs, Error
  <2>11. CASE cut = Len(b)
    <3>1. SubSeq(b, 1, cut) = b
      BY <2>5, <2>11
    <3>2. PICK e : e = <<>>
      OBVIOUS
    <3>3. e \in Seq(Bytes) /\ b \o e = b
      BY <2>5, <3>2
    <3>4. ReadFrame(b \o e) = [error |-> FALSE, type |-> g.type, payload |-> g.payload, rest |-> e]
      BY <2>3, <2>4, <3>3, FrameIsRead, Zenon
    <3>5. second = [error |-> FALSE, type |-> g.type, payload |-> g.payload, rest |-> <<>>]
      BY <2>9, <3>1, <3>2, <3>3, <3>4
    <3> QED
      BY <2>2, <2>6, <2>8, <2>11, <3>5 DEF ReadsAs
  <2> QED
    BY <2>6, <2>10, <2>11
<1> QED
  BY <1>0, <1>2, <1>3 DEF StreamsRoundTrip

LEMMA PayloadsAreRead == InputInv => PayloadsRoundTrip
<1> SUFFICES ASSUME InputInv, Len(input.frames) = 1 PROVE PayloadsRoundTrip
  BY DEF PayloadsRoundTrip
<1>0. PICK frames \in Seq(RawFrame) : frames = input.frames
  BY DEF InputInv
<1>1. PICK data \in Seq(Bytes) : data = input.frames[1].payload
  <2>1. frames[1] \in RawFrame
    BY <1>0
  <2> QED
    BY <1>0, <2>1 DEF RawFrame
<1>2. PICK n \in 0..Base32 - 1 : n = input.number
  BY DEF InputInv
<1>3. PICK low, high, code : low = n % Base16 /\ high = n \div Base16 /\ code = n - Base32 \div 2
  OBVIOUS
<1>4. n \in Nat /\ n < Base16 * Base16
  BY Bases DEF Base32
<1>5. low \in 0..Base16 - 1 /\ high \in 0..Base16 - 1
  BY <1>3, <1>4, Bases, DivMod, QuotientBound
<1>6. code \in Int /\ 0 - Base32 <= 2 * code /\ 2 * code < Base32
  <2>1. PICK B \in Nat \ {0} : B = Base32
    BY Bases
  <2>2. PICK k : k = B \div 2
    OBVIOUS
  <2>3. k \in Nat /\ 2 * k <= B /\ B <= 2 * k + 1
    BY <2>2
  <2>4. code = n - k /\ n \in 0..B-1
    BY <1>3, <2>1, <2>2
  <2>5. code \in Int /\ 0 - B <= 2 * code /\ 2 * code < B
    BY <2>3, <2>4
  <2> QED
    BY <2>1, <2>5
<1>7. /\ DecodeOpen(EncodeOpen(n, low)) = [error |-> FALSE, id |-> n, port |-> low]
      /\ DecodeData(EncodeData(n, data)) = [error |-> FALSE, id |-> n, data |-> data]
      /\ DecodeResize(EncodeResize(high, low)) = [error |-> FALSE, rows |-> high, cols |-> low]
      /\ DecodeExit(EncodeExit(code, data)) = [error |-> FALSE, code |-> code, msg |-> data]
  BY <1>5, <1>6, PayloadsAreDecoded, Zenon
<1>8. /\ (Len(data) # 6 => DecodeOpen(data).error) /\ (Len(data) # 4 => DecodeResize(data).error)
      /\ (Len(data) < 4 => DecodeData(data).error /\ DecodeExit(data).error)
  BY DEF DecodeOpen, DecodeResize, DecodeData, DecodeExit, Error
<1> QED
  BY <1>1, <1>2, <1>3, <1>7, <1>8, Zenon DEF PayloadsRoundTrip

(* FramesRoundTrip for bytes of every size, payloads of every length up to *)
(* the maximum and one beyond, and every number of four bytes.             *)
THEOREM FramesAlwaysRoundTrip == MCSpec => []FramesRoundTrip
<1>1. InputInv => FramesRoundTrip
  BY StreamsAreRead, PayloadsAreRead DEF FramesRoundTrip
<1> QED
  BY InputInit, InputStep, <1>1, PTL DEF MCSpec
===============================================================================
