--------------------------- MODULE PortForwardProofs --------------------------
(***************************************************************************)
(* Proofs about a port-forward session, for any number of connections,     *)
(* any amount of data and any buffer sizes.                                *)
(***************************************************************************)
EXTENDS PortForward, TLAPS

IsData(f, c) == f.k = "data" /\ f.c = c

(* The data frames of each connection are in order in channel q. *)
Ordered(q) ==
  \A c \in Conns : \A i, j \in 1..Len(q) :
    IsData(q[i], c) /\ IsData(q[j], c) /\ i < j => q[i].n < q[j].n

Holds(q, c, n) == \E i \in 1..Len(q) : q[i] = Frame("data", c, n)

(* Of what has been sent of connection c, up to chunk last, and not yet    *)
(* received, from chunk next on, channel q holds a first part without a    *)
(* gap; all of it while the session is open.                               *)
Carries(q, c, next, last, open) ==
  /\ \A i \in 1..Len(q) : IsData(q[i], c) =>
       next <= q[i].n /\ \A n \in next..q[i].n : Holds(q, c, n)
  /\ open => next <= last + 1 /\ \A n \in next..last : Holds(q, c, n)

(* Frames for the agent: of connections that kb has opened; the open frame *)
(* comes once, before the data, and before the agent has the connection.   *)
UpInv ==
  /\ \A i \in 1..Len(up) :
       /\ up[i].k \in {"open", "data", "close", "cancel"}
       /\ up[i].k # "cancel" => up[i].c \in 1..nextID
       /\ up[i].k = "data" => up[i].n \in 1..client[up[i].c].sent
       /\ up[i].k = "open" => conn[up[i].c].sock = "none"
  /\ \A i, j \in 1..Len(up) :
       i < j /\ up[j].k = "open" /\ up[i].k \in {"open", "data"} => up[i].c # up[j].c
  /\ Ordered(up)

DownInv ==
  /\ \A i \in 1..Len(down) :
       /\ down[i].k \in {"ready", "error", "data", "close", "connerror"}
       /\ down[i].k \in {"data", "close", "connerror"} => down[i].c \in 1..nextID
       /\ down[i].k = "data" => down[i].n \in 1..conn[down[i].c].sent
  /\ Ordered(down)

(* Chunks an agent's connection has taken from the receive loop. *)
Taken(r) == Len(r.got) + Len(r.in)

(* What the receive loop holds: an open frame is the only one of its       *)
(* connection, a chunk is the next one.                                    *)
HandInv ==
  /\ hand = NoFrame \/ hand.k \in {"open", "dialled", "data"}
  /\ hand.k \in {"open", "dialled"} =>
       /\ hand.c \in 1..nextID /\ conn[hand.c].sock = "none"
       /\ \A i \in 1..Len(up) : up[i].k = "open" => up[i].c # hand.c
  /\ hand.k = "data" =>
       /\ hand.c \in 1..nextID /\ hand.n \in 1..MaxChunks /\ conn[hand.c].sock # "none"
       /\ conn[hand.c].closed = 0 => hand.n = Taken(conn[hand.c]) + 1

(* A connection of the agent, with ID c: it is in the table exactly while  *)
(* its socket is open, and its channel is closed when it leaves.           *)
ConnOK(r, c) ==
  /\ r.sock = "none" => r = NoConn
  /\ r.sock # "none" => c <= nextID
  /\ c \in table <=> r.sock = "open"
  /\ r.sock = "open" => r.closed = 0 /\ r.writer
  /\ r.sock = "closed" => r.closed = 1
  /\ r.writer => \A i \in 1..Len(r.in) : r.in[i] = Len(r.got) + i
  /\ \A i \in 1..Len(r.got) : r.got[i] = i

ConnInv == \A c \in Conns : ConnOK(conn[c], c)

ClientInv ==
  /\ \A c \in Conns :
       /\ client[c].state = "none" <=> c > nextID
       /\ c > nextID => client[c] = NoClient
       /\ \A i \in 1..Len(client[c].got) : client[c].got[i] = i
  /\ pf = "starting" =>
       /\ nextID = 0 /\ cli # "ready"
       /\ \A i \in 1..Len(down) : down[i].k # "ready"

(* The agent still takes frames of the session, and connection c is open   *)
(* or on its way to be.                                                    *)
Pending(c) ==
  \/ \E i \in 1..Len(up) : up[i].k = "open" /\ up[i].c = c
  \/ hand.k \in {"open", "dialled"} /\ hand.c = c
Flowing(c) == listed /\ pf # "ended" /\ (c \in table \/ Pending(c))

(* The next chunk connection c takes from the channel. *)
Expected(c) == Taken(conn[c]) + 1 + (IF IsData(hand, c) THEN 1 ELSE 0)

UpFlow == \A c \in Conns : Flowing(c) => Carries(up, c, Expected(c), client[c].sent, alive)

DownFlow ==
  \A c \in Conns : client[c].state = "open" =>
    Carries(down, c, Len(client[c].got) + 1, conn[c].sent, alive)

ForwardInv ==
  TypeOK /\ UpInv /\ DownInv /\ HandInv /\ ConnInv /\ ClientInv /\ UpFlow /\ DownFlow

-------------------------------------------------------------------------------
(* Channels. *)

LEMMA AppendFacts ==
  ASSUME NEW q \in Seq(Frames), NEW f \in Frames
  PROVE  /\ Append(q, f) \in Seq(Frames)
         /\ Len(Append(q, f)) = Len(q) + 1 /\ Len(q) \in Nat
         /\ \A i \in 1..Len(q) : i \in 1..Len(Append(q, f)) /\ Append(q, f)[i] = q[i]
         /\ Len(q) + 1 \in 1..Len(Append(q, f)) /\ Append(q, f)[Len(q) + 1] = f
         /\ \A i \in 1..Len(Append(q, f)) : i \in 1..Len(q) \/ i = Len(q) + 1
OBVIOUS

(* A frame that opens nothing adds no opens. *)
LEMMA NoNewOpen ==
  ASSUME NEW q \in Seq(Frames), NEW f \in Frames, f.k # "open", NEW r, r = q \/ r = Append(q, f)
  PROVE  \A i \in 1..Len(r) : r[i].k = "open" => \E j \in 1..Len(q) : q[j] = r[i]
<1>1. CASE r = q
  BY <1>1, Zenon
<1>2. CASE r = Append(q, f)
  <2> TAKE i \in 1..Len(r)
  <2> HAVE r[i].k = "open"
  <2>1. CASE i \in 1..Len(q)
    <3>1. r[i] = q[i]
      BY <1>2, <2>1
    <3> QED
      BY <2>1, <3>1, Zenon
  <2>2. CASE i = Len(q) + 1
    <3>1. r[i] = f
      BY <1>2, <2>2, AppendFacts, Zenon
    <3> QED
      BY <3>1, Zenon
  <2> QED
    BY <1>2, <2>1, <2>2, AppendFacts, Zenon
<1> QED
  BY <1>1, <1>2

LEMMA TailFacts ==
  ASSUME NEW q \in Seq(Frames), q # <<>>
  PROVE  /\ Tail(q) \in Seq(Frames) /\ Head(q) \in Frames
         /\ Len(Tail(q)) = Len(q) - 1 /\ Len(q) \in Nat
         /\ 1 \in 1..Len(q) /\ Head(q) = q[1]
         /\ \A i \in 1..Len(Tail(q)) : i + 1 \in 1..Len(q) /\ Tail(q)[i] = q[i + 1]
         /\ \A i \in 1..Len(q) : i # 1 => i - 1 \in 1..Len(Tail(q)) /\ Tail(q)[i - 1] = q[i]
OBVIOUS

LEMMA OrderedAppend ==
  ASSUME NEW q \in Seq(Frames), NEW f \in Frames, Ordered(q),
         \A i \in 1..Len(q) : f.k = "data" /\ IsData(q[i], f.c) => q[i].n < f.n
  PROVE  Ordered(Append(q, f))
<1>1. PICK r : r = Append(q, f)
  OBVIOUS
<1>2. /\ Len(q) \in Nat
      /\ \A i \in 1..Len(q) : r[i] = q[i]
      /\ r[Len(q) + 1] = f
      /\ \A i \in 1..Len(r) : i \in 1..Len(q) \/ i = Len(q) + 1
  BY <1>1, AppendFacts
<1> SUFFICES ASSUME NEW c \in Conns, NEW i \in 1..Len(r), NEW j \in 1..Len(r),
                    IsData(r[i], c), IsData(r[j], c), i < j
             PROVE  r[i].n < r[j].n
  BY <1>1 DEF Ordered
<1>3. i \in 1..Len(q)
  BY <1>2
<1>4. CASE j \in 1..Len(q)
  BY <1>2, <1>3, <1>4 DEF Ordered
<1>5. CASE j = Len(q) + 1
  BY <1>2, <1>3, <1>5 DEF IsData
<1> QED
  BY <1>2, <1>4, <1>5

LEMMA OrderedTail ==
  ASSUME NEW q \in Seq(Frames), q # <<>>, Ordered(q)
  PROVE  Ordered(Tail(q))
<1>1. PICK r : r = Tail(q)
  OBVIOUS
<1>2. \A i \in 1..Len(r) : i + 1 \in 1..Len(q) /\ r[i] = q[i + 1]
  BY <1>1, TailFacts
<1> SUFFICES ASSUME NEW c \in Conns, NEW i \in 1..Len(r), NEW j \in 1..Len(r),
                    IsData(r[i], c), IsData(r[j], c), i < j
             PROVE  r[i].n < r[j].n
  BY <1>1 DEF Ordered
<1>3. i + 1 < j + 1
  OBVIOUS
<1> QED
  BY <1>2, <1>3 DEF Ordered

LEMMA OrderedEmpty == Ordered(<<>>)
BY DEF Ordered

LEMMA HoldsAppend ==
  ASSUME NEW q \in Seq(Frames), NEW f \in Frames, NEW c, NEW n, Holds(q, c, n)
  PROVE  Holds(Append(q, f), c, n)
BY AppendFacts DEF Holds

LEMMA CarriesAppend ==
  ASSUME NEW q \in Seq(Frames), NEW f \in Frames, NEW c, ~IsData(f, c),
         NEW next, NEW last, NEW open, Carries(q, c, next, last, open)
  PROVE  Carries(Append(q, f), c, next, last, open)
<1>1. PICK r : r = Append(q, f)
  OBVIOUS
<1>2. \A n : Holds(q, c, n) => Holds(r, c, n)
  BY <1>1, HoldsAppend
<1>3. \A i \in 1..Len(r) : IsData(r[i], c) => i \in 1..Len(q) /\ r[i] = q[i]
  BY <1>1, AppendFacts
<1> QED
  BY <1>1, <1>2, <1>3 DEF Carries

LEMMA CarriesMore ==
  ASSUME NEW q \in Seq(Frames), NEW c, NEW next \in Nat, NEW last \in Nat,
         Frame("data", c, last + 1) \in Frames, Carries(q, c, next, last, TRUE)
  PROVE  Carries(Append(q, Frame("data", c, last + 1)), c, next, last + 1, TRUE)
<1>1. PICK f : f = Frame("data", c, last + 1)
  OBVIOUS
<1>2. PICK r : r = Append(q, f)
  OBVIOUS
<1>3. f \in Frames /\ f.n = last + 1
  BY <1>1 DEF Frame
<1>4. \A n : Holds(q, c, n) => Holds(r, c, n)
  BY <1>2, <1>3, HoldsAppend
<1>5. Holds(r, c, last + 1)
  BY <1>1, <1>2, <1>3, AppendFacts DEF Holds
<1>6. \A n \in next..last + 1 : Holds(r, c, n)
  <2> TAKE n \in next..last + 1
  <2>1. CASE n = last + 1
    BY <2>1, <1>5
  <2>2. CASE n \in next..last
    BY <2>2, <1>4 DEF Carries
  <2> QED
    BY <2>1, <2>2
<1>7. next <= last + 1 + 1
  BY DEF Carries
<1>8. ASSUME NEW i \in 1..Len(r), IsData(r[i], c)
      PROVE  next <= r[i].n /\ \A n \in next..r[i].n : Holds(r, c, n)
  <2>1. CASE i \in 1..Len(q)
    <3>1. r[i] = q[i]
      BY <2>1, <1>2, <1>3, AppendFacts
    <3> QED
      BY <3>1, <2>1, <1>4, <1>8 DEF Carries
  <2>2. CASE i = Len(q) + 1
    <3>1. r[i] = f
      BY <2>2, <1>2, <1>3, AppendFacts
    <3> QED
      BY <3>1, <1>3, <1>6 DEF Carries
  <2> QED
    BY <2>1, <2>2, <1>2, <1>3, AppendFacts
<1> QED
  BY <1>1, <1>2, <1>6, <1>7, <1>8 DEF Carries

LEMMA CarriesTail ==
  ASSUME NEW q \in Seq(Frames), q # <<>>, NEW c, ~IsData(Head(q), c),
         NEW next, NEW last, NEW open, Carries(q, c, next, last, open)
  PROVE  Carries(Tail(q), c, next, last, open)
<1>1. PICK r : r = Tail(q)
  OBVIOUS
<1>2. ASSUME NEW n, Holds(q, c, n)
      PROVE  Holds(r, c, n)
  <2>1. PICK i \in 1..Len(q) : q[i] = Frame("data", c, n)
    BY <1>2 DEF Holds
  <2>2. i # 1
    BY <2>1, TailFacts DEF IsData, Frame
  <2>3. i - 1 \in 1..Len(r) /\ r[i - 1] = Frame("data", c, n)
    BY <2>1, <2>2, <1>1, TailFacts
  <2> QED
    BY <2>3 DEF Holds
<1>3. \A i \in 1..Len(r) : i + 1 \in 1..Len(q) /\ r[i] = q[i + 1]
  BY <1>1, TailFacts
<1> QED
  BY <1>1, <1>2, <1>3 DEF Carries

LEMMA CarriesNext ==
  ASSUME NEW q \in Seq(Frames), q # <<>>, NEW c \in Conns, IsData(Head(q), c), Ordered(q),
         NEW next \in Nat, NEW last \in Nat, NEW open, Carries(q, c, next, last, open),
         Head(q).n <= last
  PROVE  Head(q).n = next /\ Carries(Tail(q), c, next + 1, last, open)
<1>1. PICK r : r = Tail(q)
  OBVIOUS
<1>2. Head(q) \in Frames /\ 1 \in 1..Len(q) /\ Head(q) = q[1] /\ Head(q).n \in Nat
  <2>1. Head(q) \in Frames /\ 1 \in 1..Len(q) /\ Head(q) = q[1]
    BY TailFacts
  <2>2. \A f \in Frames : f.n \in Nat
    BY PortForwardAssumption DEF Frames
  <2> QED
    BY <2>1, <2>2
<1>3. next <= Head(q).n /\ \A n \in next..Head(q).n : Holds(q, c, n)
  BY <1>2 DEF Carries
<1>4. ASSUME NEW n \in Nat, Holds(q, c, n)
      PROVE  n = Head(q).n \/ (Head(q).n < n /\ Holds(r, c, n))
  <2>1. PICK i \in 1..Len(q) : q[i] = Frame("data", c, n)
    BY <1>4 DEF Holds
  <2>2. q[i].n = n /\ IsData(q[i], c)
    BY <2>1 DEF Frame, IsData
  <2>3. CASE i = 1
    BY <2>2, <2>3, <1>2
  <2>4. CASE i # 1
    <3>1. Head(q).n < n
      BY <2>2, <2>4, <1>2 DEF Ordered
    <3>2. i - 1 \in 1..Len(r) /\ r[i - 1] = Frame("data", c, n)
      BY <2>1, <2>4, <1>1, TailFacts
    <3>3. Holds(r, c, n)
      BY <3>2 DEF Holds
    <3> QED
      BY <3>1, <3>3
  <2> QED
    BY <2>3, <2>4
<1>5. Head(q).n = next
  BY <1>2, <1>3, <1>4
<1>6. ASSUME NEW i \in 1..Len(r), IsData(r[i], c)
      PROVE  next + 1 <= r[i].n /\ \A n \in next + 1..r[i].n : Holds(r, c, n)
  <2>1. i + 1 \in 1..Len(q) /\ r[i] = q[i + 1] /\ q[i + 1] \in Frames /\ 1 < i + 1
    BY <1>1, TailFacts
  <2>2. r[i].n \in Nat /\ next < r[i].n
    BY <2>1, <1>2, <1>5, <1>6, SMTT(20) DEF Ordered, Frames
  <2>3. \A n \in next..r[i].n : Holds(q, c, n)
    BY <2>1, <1>6 DEF Carries
  <2> QED
    BY <2>2, <2>3, <1>4, <1>5
<1>7. open => \A n \in next + 1..last : Holds(r, c, n)
  BY <1>4, <1>5 DEF Carries
<1> QED
  BY <1>1, <1>2, <1>5, <1>6, <1>7 DEF Carries

LEMMA CarriesLess ==
  ASSUME NEW q, NEW c, NEW next, NEW last, NEW more, NEW open, Carries(q, c, next, last, open)
  PROVE  Carries(q, c, next, more, FALSE)
BY DEF Carries

LEMMA CarriesNothing ==
  ASSUME NEW q, NEW c, \A i \in 1..Len(q) : ~IsData(q[i], c), NEW open
  PROVE  Carries(q, c, 1, 0, open)
BY DEF Carries
-------------------------------------------------------------------------------
(* What a step that changes part of the state leaves alone. *)

LEMMA Fields ==
  ASSUME TypeOK
  PROVE  /\ \A c \in Conns :
              /\ client[c] \in Clients /\ client[c].sent \in 0..MaxChunks /\ client[c].sent \in Nat
              /\ client[c].got \in Seq(1..MaxChunks) /\ Len(client[c].got) \in Nat
              /\ conn[c] \in AgentConns /\ conn[c].sent \in 0..MaxChunks /\ conn[c].sent \in Nat
              /\ conn[c].got \in Seq(1..MaxChunks) /\ Len(conn[c].got) \in Nat
              /\ conn[c].in \in Seq(1..MaxChunks) /\ Len(conn[c].in) \in Nat
              /\ Taken(conn[c]) \in Nat
         /\ nextID \in Nat /\ MaxConns \in Nat /\ MaxChunks \in Nat
         /\ 1..nextID \subseteq Conns
<1>0. MaxConns \in Nat /\ MaxChunks \in Nat
  BY PortForwardAssumption
<1>1. ASSUME NEW c \in Conns
      PROVE  /\ client[c] \in Clients /\ client[c].sent \in 0..MaxChunks /\ client[c].sent \in Nat
             /\ client[c].got \in Seq(1..MaxChunks) /\ Len(client[c].got) \in Nat
  BY <1>0 DEF TypeOK, CliTypeOK, Clients
<1>2. ASSUME NEW c \in Conns
      PROVE  /\ conn[c] \in AgentConns /\ conn[c].sent \in 0..MaxChunks /\ conn[c].sent \in Nat
             /\ conn[c].got \in Seq(1..MaxChunks) /\ Len(conn[c].got) \in Nat
             /\ conn[c].in \in Seq(1..MaxChunks) /\ Len(conn[c].in) \in Nat
  BY <1>0 DEF TypeOK, ConnTypeOK, AgentConns
<1>3. nextID \in Nat /\ 1..nextID \subseteq Conns
  BY <1>0 DEF TypeOK, CliTypeOK, Conns
<1>4. ASSUME NEW c \in Conns PROVE Taken(conn[c]) \in Nat
  <2>1. Len(conn[c].got) \in Nat /\ Len(conn[c].in) \in Nat
    BY <1>2
  <2>2. PICK a \in Nat, b \in Nat : a = Len(conn[c].got) /\ b = Len(conn[c].in)
    BY <2>1
  <2>3. Taken(conn[c]) = a + b
    BY <2>2 DEF Taken
  <2> QED
    BY <2>3
<1> QED
  BY <1>0, <1>1, <1>2, <1>3, <1>4

(* The client side and the numbering only advance. *)
Advances ==
  /\ nextID' \in 0..MaxConns /\ nextID <= nextID'
  /\ \A c \in Conns :
       /\ client'[c].sent \in Nat /\ client[c].sent <= client'[c].sent
       /\ conn'[c].sent \in Nat /\ conn[c].sent <= conn'[c].sent
       /\ conn[c].sock # "none" => conn'[c].sock # "none"

LEMMA AgentAdvances ==
  ASSUME TypeOK, UNCHANGED <<nextID, client>>,
         \A c \in Conns : /\ conn'[c].sent \in Nat /\ conn[c].sent <= conn'[c].sent
                          /\ conn[c].sock # "none" => conn'[c].sock # "none"
  PROVE  Advances
<1>1. nextID \in 0..MaxConns /\ nextID \in Nat
  BY Fields DEF TypeOK, CliTypeOK
<1>2. \A c \in Conns : client[c].sent \in Nat
  BY Fields
<1> QED
  BY <1>1, <1>2 DEF Advances

LEMMA NothingMoves ==
  ASSUME TypeOK, UNCHANGED <<nextID, client, conn>>
  PROVE  Advances
<1>1. \A c \in Conns : conn[c].sent \in Nat
  BY Fields
<1> QED
  BY <1>1, AgentAdvances

(* A frame sent to the agent stays one of an accepted connection and of a  *)
(* chunk that was read.                                                    *)
LEMMA SentStaysSent ==
  ASSUME TypeOK, Advances, NEW f, f.c \in 1..nextID
  PROVE  /\ f.c \in Conns /\ f.c \in 1..nextID' /\ f.c <= nextID
         /\ f.n \in 1..client[f.c].sent =>
              f.n \in 1..client'[f.c].sent /\ f.n <= client[f.c].sent /\ f.n \in Nat
         /\ f.n \in 1..conn[f.c].sent =>
              f.n \in 1..conn'[f.c].sent /\ f.n <= conn[f.c].sent /\ f.n \in Nat
<1>1. f.c \in Conns /\ f.c \in 1..nextID' /\ f.c <= nextID
  BY Fields DEF Advances
<1>2. PICK a, b, c, d : a = client[f.c].sent /\ b = client'[f.c].sent /\ c = conn[f.c].sent /\ d = conn'[f.c].sent
  OBVIOUS
<1>3. a \in Nat /\ b \in Nat /\ c \in Nat /\ d \in Nat /\ a <= b /\ c <= d
  BY <1>1, <1>2, Fields DEF Advances
<1>4. f.n \in 1..a => f.n \in 1..b /\ f.n <= a /\ f.n \in Nat
  BY <1>3
<1>5. f.n \in 1..c => f.n \in 1..d /\ f.n <= c /\ f.n \in Nat
  BY <1>3
<1> QED
  BY <1>1, <1>2, <1>4, <1>5

LEMMA KeepUp ==
  ASSUME TypeOK, UpInv, Advances, UNCHANGED up,
         \A i \in 1..Len(up) : up[i].k = "open" => conn'[up[i].c].sock = "none"
  PROVE  UpInv'
<1>1. ASSUME NEW i \in 1..Len(up)
      PROVE  /\ up[i].k \in {"open", "data", "close", "cancel"}
             /\ up[i].k # "cancel" => up[i].c \in 1..nextID'
             /\ up[i].k = "data" => up[i].n \in 1..client'[up[i].c].sent
             /\ up[i].k = "open" => conn'[up[i].c].sock = "none"
  BY SentStaysSent DEF UpInv
<1> QED
  BY <1>1 DEF UpInv

LEMMA AppendUp ==
  ASSUME TypeOK, UpInv, Advances, NEW f \in Frames, up' = Append(up, f),
         \A i \in 1..Len(up) : up[i].k = "open" => conn'[up[i].c].sock = "none",
         f.k \in {"open", "data", "close", "cancel"},
         f.k # "cancel" => f.c \in 1..nextID',
         f.k = "data" => f.n \in 1..client'[f.c].sent /\ client[f.c].sent < f.n,
         f.k = "open" => nextID < f.c /\ conn'[f.c].sock = "none"
  PROVE  UpInv'
<1>0. up \in Seq(Frames)
  BY DEF TypeOK, NetTypeOK
<1>1. /\ Len(up) \in Nat
      /\ \A i \in 1..Len(up) : up'[i] = up[i]
      /\ up'[Len(up) + 1] = f
      /\ \A i \in 1..Len(up') : i \in 1..Len(up) \/ i = Len(up) + 1
  BY <1>0, AppendFacts
<1>2. ASSUME NEW i \in 1..Len(up)
      PROVE  /\ up[i].k \in {"open", "data", "close", "cancel"}
             /\ up[i].k # "cancel" => up[i].c \in 1..nextID' /\ up[i].c <= nextID
             /\ up[i].k = "data" => up[i].n \in 1..client'[up[i].c].sent /\ up[i].n <= client[up[i].c].sent
             /\ up[i].k = "open" => conn'[up[i].c].sock = "none"
  BY SentStaysSent DEF UpInv
<1>3. Ordered(up')
  <2>1. \A i \in 1..Len(up) : f.k = "data" /\ IsData(up[i], f.c) => up[i].n < f.n
    <3> SUFFICES ASSUME NEW i \in 1..Len(up), f.k = "data", IsData(up[i], f.c)
                 PROVE  up[i].n < f.n
      OBVIOUS
    <3>1. up[i].n <= client[f.c].sent /\ client[f.c].sent < f.n /\ f.c \in Conns
      BY <1>2, Fields, SMTT(20) DEF IsData, Advances, Conns
    <3>2. up[i].n \in Nat /\ f.n \in Nat /\ client[f.c].sent \in Nat
      BY <3>1, <1>2, Fields, SMTT(20) DEF IsData, Advances
    <3> QED
      BY <3>1, <3>2
  <2> QED
    BY <2>1, <1>0, OrderedAppend DEF UpInv
<1>4. ASSUME NEW i \in 1..Len(up'), NEW j \in 1..Len(up'), i < j, up'[j].k = "open",
             up'[i].k \in {"open", "data"}
      PROVE  up'[i].c # up'[j].c
  <2>1. i \in 1..Len(up)
    BY <1>1, <1>4
  <2>2. CASE j \in 1..Len(up)
    BY <2>1, <2>2, <1>1, <1>4 DEF UpInv
  <2>3. CASE j = Len(up) + 1
    BY <2>1, <2>3, <1>1, <1>2, <1>4, Fields DEF Advances
  <2> QED
    BY <2>2, <2>3, <1>1
<1>5. ASSUME NEW i \in 1..Len(up')
      PROVE  /\ up'[i].k \in {"open", "data", "close", "cancel"}
             /\ up'[i].k # "cancel" => up'[i].c \in 1..nextID'
             /\ up'[i].k = "data" => up'[i].n \in 1..client'[up'[i].c].sent
             /\ up'[i].k = "open" => conn'[up'[i].c].sock = "none"
  BY <1>1, <1>2
<1> QED
  BY <1>3, <1>4, <1>5 DEF UpInv

LEMMA TailUp ==
  ASSUME TypeOK, UpInv, Advances, up # <<>>, up' = Tail(up),
         \A i \in 1..Len(up') : up'[i].k = "open" => conn'[up'[i].c].sock = "none"
  PROVE  UpInv'
<1>0. up \in Seq(Frames)
  BY DEF TypeOK, NetTypeOK
<1>1. \A i \in 1..Len(up') : i + 1 \in 1..Len(up) /\ up'[i] = up[i + 1]
  BY <1>0, TailFacts
<1>2. Ordered(up')
  BY <1>0, OrderedTail DEF UpInv
<1>3. ASSUME NEW i \in 1..Len(up')
      PROVE  /\ up'[i].k \in {"open", "data", "close", "cancel"}
             /\ up'[i].k # "cancel" => up'[i].c \in 1..nextID'
             /\ up'[i].k = "data" => up'[i].n \in 1..client'[up'[i].c].sent
  <2>1. PICK f : f = up'[i]
    OBVIOUS
  <2>2. /\ f.k \in {"open", "data", "close", "cancel"}
        /\ f.k # "cancel" => f.c \in 1..nextID
        /\ f.k = "data" => f.n \in 1..client[f.c].sent
    BY <1>1, <2>1 DEF UpInv
  <2> QED
    BY <2>1, <2>2, SentStaysSent
<1>4. ASSUME NEW i \in 1..Len(up'), NEW j \in 1..Len(up'), i < j, up'[j].k = "open",
             up'[i].k \in {"open", "data"}
      PROVE  up'[i].c # up'[j].c
  <2>1. i + 1 < j + 1
    BY <1>4
  <2> QED
    BY <2>1, <1>1, <1>4 DEF UpInv
<1> QED
  BY <1>2, <1>3, <1>4 DEF UpInv
LEMMA KeepDown ==
  ASSUME TypeOK, DownInv, Advances, UNCHANGED down
  PROVE  DownInv'
<1>1. ASSUME NEW i \in 1..Len(down)
      PROVE  /\ down[i].k \in {"ready", "error", "data", "close", "connerror"}
             /\ down[i].k \in {"data", "close", "connerror"} => down[i].c \in 1..nextID'
             /\ down[i].k = "data" => down[i].n \in 1..conn'[down[i].c].sent
  BY SentStaysSent DEF DownInv
<1> QED
  BY <1>1 DEF DownInv

LEMMA AppendDown ==
  ASSUME TypeOK, DownInv, Advances, NEW f \in Frames, down' = Append(down, f),
         f.k \in {"ready", "error", "data", "close", "connerror"},
         f.k \in {"data", "close", "connerror"} => f.c \in 1..nextID',
         f.k = "data" => f.n \in 1..conn'[f.c].sent /\ conn[f.c].sent < f.n
  PROVE  DownInv'
<1>0. down \in Seq(Frames)
  BY DEF TypeOK, NetTypeOK
<1>1. /\ Len(down) \in Nat
      /\ \A i \in 1..Len(down) : down'[i] = down[i]
      /\ down'[Len(down) + 1] = f
      /\ \A i \in 1..Len(down') : i \in 1..Len(down) \/ i = Len(down) + 1
  BY <1>0, AppendFacts
<1>2. ASSUME NEW i \in 1..Len(down)
      PROVE  /\ down[i].k \in {"ready", "error", "data", "close", "connerror"}
             /\ down[i].k \in {"data", "close", "connerror"} => down[i].c \in 1..nextID'
             /\ down[i].k = "data" => down[i].n \in 1..conn'[down[i].c].sent /\ down[i].n <= conn[down[i].c].sent
  BY SentStaysSent DEF DownInv
<1>3. Ordered(down')
  <2>1. \A i \in 1..Len(down) : f.k = "data" /\ IsData(down[i], f.c) => down[i].n < f.n
    <3> SUFFICES ASSUME NEW i \in 1..Len(down), f.k = "data", IsData(down[i], f.c)
                 PROVE  down[i].n < f.n
      OBVIOUS
    <3>1. down[i].n <= conn[f.c].sent /\ conn[f.c].sent < f.n
      BY <1>2 DEF IsData
    <3>0. f.c \in Conns
      BY <1>2, Fields DEF Advances, Conns
    <3>2. down[i].n \in Nat /\ f.n \in Nat /\ conn[f.c].sent \in Nat
      BY <3>0, <1>2, Fields, SMTT(20) DEF IsData, Advances
    <3> QED
      BY <3>1, <3>2
  <2> QED
    BY <2>1, <1>0, OrderedAppend DEF DownInv
<1>4. ASSUME NEW i \in 1..Len(down')
      PROVE  /\ down'[i].k \in {"ready", "error", "data", "close", "connerror"}
             /\ down'[i].k \in {"data", "close", "connerror"} => down'[i].c \in 1..nextID'
             /\ down'[i].k = "data" => down'[i].n \in 1..conn'[down'[i].c].sent
  BY <1>1, <1>2
<1> QED
  BY <1>3, <1>4 DEF DownInv

LEMMA TailDown ==
  ASSUME TypeOK, DownInv, Advances, down # <<>>, down' = Tail(down)
  PROVE  DownInv'
<1>0. down \in Seq(Frames)
  BY DEF TypeOK, NetTypeOK
<1>1. \A i \in 1..Len(down') : i + 1 \in 1..Len(down) /\ down'[i] = down[i + 1]
  BY <1>0, TailFacts
<1>2. Ordered(down')
  BY <1>0, OrderedTail DEF DownInv
<1>3. ASSUME NEW i \in 1..Len(down')
      PROVE  /\ down'[i].k \in {"ready", "error", "data", "close", "connerror"}
             /\ down'[i].k \in {"data", "close", "connerror"} => down'[i].c \in 1..nextID'
             /\ down'[i].k = "data" => down'[i].n \in 1..conn'[down'[i].c].sent
  <2>1. PICK f : f = down'[i]
    OBVIOUS
  <2>2. /\ f.k \in {"ready", "error", "data", "close", "connerror"}
        /\ f.k \in {"data", "close", "connerror"} => f.c \in 1..nextID
        /\ f.k = "data" => f.n \in 1..conn[f.c].sent
    BY <1>1, <2>1 DEF DownInv
  <2> QED
    BY <2>1, <2>2, SentStaysSent
<1> QED
  BY <1>2, <1>3 DEF DownInv

LEMMA KeepHand ==
  ASSUME TypeOK, HandInv, Advances, UNCHANGED hand,
         hand.k \in {"open", "dialled"} =>
           /\ conn'[hand.c].sock = "none"
           /\ \A i \in 1..Len(up') : up'[i].k = "open" => up'[i].c # hand.c,
         hand.k = "data" /\ conn'[hand.c].closed = 0 =>
           conn[hand.c].closed = 0 /\ Taken(conn'[hand.c]) = Taken(conn[hand.c])
  PROVE  HandInv'
<1>1. hand.k \in {"open", "dialled", "data"} => hand.c \in 1..nextID' /\ hand.c \in Conns
  BY SentStaysSent DEF HandInv
<1>2. hand.k = "data" => conn'[hand.c].sock # "none"
  BY <1>1 DEF HandInv, Advances
<1>3. Taken(conn[hand.c])' = Taken(conn'[hand.c])
  BY DEF Taken
<1> QED
  BY <1>1, <1>2, <1>3 DEF HandInv

LEMMA KeepConn ==
  ASSUME TypeOK, ConnInv, Advances, UNCHANGED <<conn, table>>
  PROVE  ConnInv'
<1> SUFFICES ASSUME NEW c \in Conns
             PROVE  ConnOK(conn[c], c)'
  BY DEF ConnInv
<1>1. ConnOK(conn[c], c) /\ c \in Nat /\ nextID \in Nat /\ nextID' \in Nat /\ nextID <= nextID'
  BY Fields DEF ConnInv, Advances, Conns
<1>2. c <= nextID => c <= nextID'
  BY <1>1
<1> QED
  BY <1>1, <1>2 DEF ConnOK

LEMMA MoveConn ==
  ASSUME TypeOK, ConnInv, UNCHANGED nextID, NEW c \in Conns, NEW r, conn' = [conn EXCEPT ![c] = r],
         \A d \in Conns : d # c => (d \in table' <=> d \in table),
         ConnOK(r, c)'
  PROVE  ConnInv'
<1> SUFFICES ASSUME NEW d \in Conns
             PROVE  ConnOK(conn[d], d)'
  BY DEF ConnInv
<1>1. CASE d = c
  <2>1. conn'[d] = r
    BY <1>1 DEF TypeOK, ConnTypeOK
  <2> QED
    BY <1>1, <2>1 DEF ConnOK
<1>2. CASE d # c
  <2>1. conn'[d] = conn[d] /\ ConnOK(conn[d], d)
    BY <1>2 DEF TypeOK, ConnTypeOK, ConnInv
  <2> QED
    BY <1>2, <2>1 DEF ConnOK
<1> QED
  BY <1>1, <1>2

LEMMA KeepClient ==
  ASSUME ClientInv, UNCHANGED <<cli, nextID, client>>,
         pf' = "starting" =>
           pf = "starting" /\ \A i \in 1..Len(down') : down'[i].k # "ready"
  PROVE  ClientInv'
BY DEF ClientInv

LEMMA KeepUpFlow ==
  ASSUME TypeOK, UpFlow, alive' \in BOOLEAN, alive' => alive,
         up' = up \/ \E f \in Frames : f.k # "data" /\ up' = Append(up, f),
         \A c \in Conns : Flowing(c)' =>
           Flowing(c) /\ Expected(c)' = Expected(c) /\ client'[c].sent = client[c].sent
  PROVE  UpFlow'
<1> SUFFICES ASSUME NEW c \in Conns, Flowing(c)'
             PROVE  Carries(up', c, Expected(c)', client'[c].sent, alive')
  BY DEF UpFlow
<1>1. PICK e, l : e = Expected(c) /\ l = client[c].sent
  OBVIOUS
<1>2. Carries(up, c, e, l, alive) /\ Expected(c)' = e /\ client'[c].sent = l
  BY <1>1 DEF UpFlow
<1>3. Carries(up', c, e, l, alive)
  <2>1. CASE up' = up
    BY <1>2, <2>1
  <2>2. CASE \E f \in Frames : f.k # "data" /\ up' = Append(up, f)
    <3>1. PICK f \in Frames : f.k # "data" /\ up' = Append(up, f)
      BY <2>2
    <3>2. ~IsData(f, c) /\ up \in Seq(Frames)
      BY <3>1 DEF IsData, TypeOK, NetTypeOK
    <3> QED
      BY <3>1, <3>2, <1>2, CarriesAppend
  <2> QED
    BY <2>1, <2>2
<1>4. Carries(up', c, e, l, alive')
  BY <1>3 DEF Carries
<1> QED
  BY <1>2, <1>4

LEMMA KeepDownFlow ==
  ASSUME TypeOK, DownFlow, alive' \in BOOLEAN, alive' => alive,
         down' = down \/ \E f \in Frames : f.k # "data" /\ down' = Append(down, f),
         \A c \in Conns : client'[c].state = "open" =>
           client[c].state = "open" /\ client'[c].got = client[c].got /\ conn'[c].sent = conn[c].sent
  PROVE  DownFlow'
<1> SUFFICES ASSUME NEW c \in Conns, client'[c].state = "open"
             PROVE  Carries(down', c, Len(client'[c].got) + 1, conn'[c].sent, alive')
  BY DEF DownFlow
<1>1. PICK e, l : e = Len(client[c].got) + 1 /\ l = conn[c].sent
  OBVIOUS
<1>2. Carries(down, c, e, l, alive) /\ Len(client'[c].got) + 1 = e /\ conn'[c].sent = l
  BY <1>1 DEF DownFlow
<1>3. Carries(down', c, e, l, alive)
  <2>1. CASE down' = down
    BY <1>2, <2>1
  <2>2. CASE \E f \in Frames : f.k # "data" /\ down' = Append(down, f)
    <3>1. PICK f \in Frames : f.k # "data" /\ down' = Append(down, f)
      BY <2>2
    <3>2. ~IsData(f, c) /\ down \in Seq(Frames)
      BY <3>1 DEF IsData, TypeOK, NetTypeOK
    <3> QED
      BY <3>1, <3>2, <1>2, CarriesAppend
  <2> QED
    BY <2>1, <2>2
<1>4. Carries(down', c, e, l, alive')
  BY <1>3 DEF Carries
<1> QED
  BY <1>2, <1>4
LEMMA KeepTypes ==
  ASSUME TypeOK
  PROVE  /\ UNCHANGED <<cli, nextID, client, unread>> => CliTypeOK'
         /\ UNCHANGED <<up, down, alive>> => NetTypeOK'
         /\ UNCHANGED <<conn, table>> => ConnTypeOK'
         /\ UNCHANGED <<pf, listed, kubectl, hand, panicked>> => AgentTypeOK'
BY DEF TypeOK, CliTypeOK, NetTypeOK, ConnTypeOK, AgentTypeOK

LEMMA CancelFrame ==
  Frame("cancel", 0, 0) \in Frames /\ Frame("cancel", 0, 0).k = "cancel"
BY PortForwardAssumption DEF Frame, Frames, Kinds

LEMMA FrameFacts ==
  ASSUME NEW k \in Kinds, NEW c \in 0..MaxConns, NEW n \in 0..MaxChunks
  PROVE  /\ Frame(k, c, n) \in Frames
         /\ Frame(k, c, n).k = k /\ Frame(k, c, n).c = c /\ Frame(k, c, n).n = n
BY DEF Frame, Frames

LEMMA ConnsFacts ==
  ASSUME NEW c \in Conns
  PROVE  c \in 0..MaxConns /\ c \in Nat /\ c # 0 /\ 0 \in 0..MaxConns /\ 0 \in 0..MaxChunks
BY PortForwardAssumption DEF Conns

(* ToAgent. *)
LEMMA ToAgentFacts ==
  ASSUME TypeOK, NEW f \in Frames, ToAgent(f), UNCHANGED <<down, alive>>
  PROVE  /\ NetTypeOK'
         /\ up' = up \/ up' = Append(up, f)
         /\ alive => up' = Append(up, f)
<1>1. up \in Seq(Frames) /\ Append(up, f) \in Seq(Frames)
  BY AppendFacts DEF TypeOK, NetTypeOK
<1> QED
  BY <1>1 DEF ToAgent, TypeOK, NetTypeOK

(* ToClient. *)
LEMMA ToClientFacts ==
  ASSUME TypeOK, NEW f \in Frames, ToClient(f)
  PROVE  /\ NetTypeOK' /\ alive' \in BOOLEAN /\ (alive' => alive)
         /\ up' = up \/ up' = Append(up, Frame("cancel", 0, 0))
         /\ down' = down \/ down' = Append(down, f)
         /\ alive' => down' = Append(down, f)
<1>1. /\ up \in Seq(Frames) /\ Append(up, Frame("cancel", 0, 0)) \in Seq(Frames)
      /\ down \in Seq(Frames) /\ Append(down, f) \in Seq(Frames)
      /\ Len(Append(down, f)) = Len(down) + 1 /\ Len(down) \in Nat /\ DownBuf \in Nat
      /\ Len(down) <= DownBuf /\ alive \in BOOLEAN
  BY CancelFrame, AppendFacts, PortForwardAssumption DEF TypeOK, NetTypeOK
<1>2. CASE ~alive /\ UNCHANGED <<up, down, alive>>
  BY <1>1, <1>2 DEF NetTypeOK
<1>3. CASE alive /\ Len(down) < DownBuf /\ down' = Append(down, f) /\ UNCHANGED <<up, alive>>
  BY <1>1, <1>3 DEF NetTypeOK
<1>4. CASE /\ alive /\ Len(down) = DownBuf /\ alive' = FALSE
           /\ up' = Append(up, Frame("cancel", 0, 0)) /\ UNCHANGED down
  BY <1>1, <1>4 DEF NetTypeOK
<1> QED
  BY <1>2, <1>3, <1>4 DEF ToClient

LEMMA ToClientChannels ==
  ASSUME TypeOK, UpInv, DownInv, Advances, NEW f \in Frames, ToClient(f),
         \A i \in 1..Len(up) : up[i].k = "open" => conn'[up[i].c].sock = "none",
         f.k \in {"ready", "error", "data", "close", "connerror"},
         f.k \in {"data", "close", "connerror"} => f.c \in 1..nextID',
         f.k = "data" => f.n \in 1..conn'[f.c].sent /\ conn[f.c].sent < f.n
  PROVE  /\ UpInv' /\ DownInv'
         /\ \A i \in 1..Len(up') : up'[i].k = "open" => \E j \in 1..Len(up) : up[j] = up'[i]
<1>1. /\ up' = up \/ up' = Append(up, Frame("cancel", 0, 0))
      /\ down' = down \/ down' = Append(down, f)
  BY ToClientFacts
<1>2. UpInv'
  BY <1>1, CancelFrame, KeepUp, AppendUp
<1>3. DownInv'
  BY <1>1, KeepDown, AppendDown
<1>4. \A i \in 1..Len(up') : up'[i].k = "open" => \E j \in 1..Len(up) : up[j] = up'[i]
  BY <1>1, CancelFrame, NoNewOpen DEF TypeOK, NetTypeOK
<1> QED
  BY <1>2, <1>3, <1>4

(* Connections on their way to the agent, when no open frame is added. *)
LEMMA PendingStays ==
  ASSUME \A i \in 1..Len(up') : up'[i].k = "open" => \E j \in 1..Len(up) : up[j] = up'[i],
         hand'.k \in {"open", "dialled"} => hand.k \in {"open", "dialled"} /\ hand'.c = hand.c,
         NEW c, Pending(c)'
  PROVE  Pending(c)
<1>1. CASE hand'.k \in {"open", "dialled"} /\ hand'.c = c
  BY <1>1 DEF Pending
<1>2. CASE \E i \in 1..Len(up') : up'[i].k = "open" /\ up'[i].c = c
  BY <1>2 DEF Pending
<1> QED
  BY <1>1, <1>2 DEF Pending
-------------------------------------------------------------------------------
(* kb port-forward. *)

LEMMA HandleConnStep ==
  ASSUME ForwardInv, NEW c \in Conns, HandleConn(c)
  PROVE  ForwardInv'
<1> USE DEF ForwardInv, TypeOK
<1>f. PICK f : f = Frame("open", c, 0)
  OBVIOUS
<1>r. PICK r : r = [client[c] EXCEPT !.state = "open", !.rd = TRUE]
  OBVIOUS
<1>0. /\ c = nextID + 1 /\ nextID' = c /\ cli = "ready" /\ nextID \in Nat /\ c \in Nat
      /\ client' = [client EXCEPT ![c] = r] /\ ToAgent(f)
      /\ UNCHANGED <<cli, unread, down, alive, agentVars>>
  BY <1>f, <1>r, Fields, ConnsFacts DEF HandleConn
<1>1. f \in Frames /\ f.k = "open" /\ f.c = c
  BY <1>f, ConnsFacts, FrameFacts DEF Kinds
<1>2. client[c] = NoClient /\ conn[c] = NoConn /\ conn[c].sock = "none"
  BY <1>0 DEF ClientInv, ConnInv, ConnOK, ConnTypeOK, AgentConns
<1>3. r \in Clients /\ r.sent = 0 /\ r.got = <<>> /\ r.state = "open"
  <2>1. client[c] \in Clients
    BY Fields
  <2>2. r \in Clients /\ r.sent = client[c].sent /\ r.got = client[c].got /\ r.state = "open"
    BY <2>1, <1>r DEF Clients
  <2> QED
    BY <2>2, <1>2 DEF NoClient
<1>4. \A d \in Conns : client'[d] = IF d = c THEN r ELSE client[d]
  BY <1>0 DEF CliTypeOK
<1>5. Advances
  <2>1. \A d \in Conns : client'[d].sent = client[d].sent
    BY <1>2, <1>3, <1>4 DEF NoClient
  <2>2. nextID' \in 0..MaxConns /\ nextID <= nextID'
    BY <1>0, ConnsFacts
  <2>3. \A d \in Conns : conn[d].sent \in Nat /\ client[d].sent \in Nat
    BY Fields
  <2>4. UNCHANGED conn
    BY <1>0 DEF agentVars
  <2> QED
    BY <2>1, <2>2, <2>3, <2>4 DEF Advances
<1>6. TypeOK'
  BY <1>0, <1>1, <1>3, KeepTypes, ToAgentFacts DEF CliTypeOK, agentVars, Conns
<1>7. up' = up \/ up' = Append(up, f)
  BY <1>0, <1>1, ToAgentFacts
<1>8. UpInv'
  <2>1. \A i \in 1..Len(up) : up[i].k = "open" => conn'[up[i].c].sock = "none"
    BY <1>0 DEF UpInv, agentVars
  <2>2. f.c \in 1..nextID' /\ nextID < f.c /\ conn'[f.c].sock = "none"
    BY <1>0, <1>1, <1>2 DEF agentVars
  <2> QED
    BY <1>1, <1>5, <1>7, <2>1, <2>2, KeepUp, AppendUp
<1>9. DownInv' /\ ConnInv'
  BY <1>0, <1>5, KeepDown, KeepConn DEF agentVars
<1>10. \A i \in 1..Len(up') : (i \in 1..Len(up) /\ up'[i] = up[i]) \/ up'[i] = f
  BY <1>1, <1>7, AppendFacts DEF NetTypeOK
<1>11. HandInv'
  <2>1. hand.k \in {"open", "dialled"} => \A i \in 1..Len(up') : up'[i].k = "open" => up'[i].c # hand.c
    BY <1>0, <1>1, <1>10 DEF HandInv
  <2> QED
    BY <1>0, <1>5, <2>1, KeepHand DEF HandInv, agentVars
<1>12. ClientInv'
  <2>1. ASSUME NEW d \in Conns
        PROVE  /\ client'[d].state = "none" <=> d > nextID'
               /\ d > nextID' => client'[d] = NoClient
               /\ \A i \in 1..Len(client'[d].got) : client'[d].got[i] = i
    BY <1>0, <1>3, <1>4, Fields, SMTT(20) DEF ClientInv, Conns
  <2>2. pf # "starting"
    BY <1>0 DEF ClientInv
  <2> QED
    BY <1>0, <2>1, <2>2 DEF ClientInv, agentVars
<1>13. ASSUME NEW d \in Conns, d # c, Flowing(d)'
       PROVE  Carries(up', d, Expected(d)', client'[d].sent, alive')
  <2>1. Flowing(d)
    BY <1>0, <1>1, <1>10, <1>13 DEF Flowing, Pending, agentVars
  <2>2. Expected(d)' = Expected(d)
    BY <1>0 DEF Expected, agentVars, IsData, Taken
  <2>3. Carries(up, d, Expected(d), client[d].sent, alive)
    BY <2>1 DEF UpFlow
  <2>4. Carries(up', d, Expected(d), client[d].sent, alive)
    BY <2>3, <1>1, <1>7, CarriesAppend DEF NetTypeOK, IsData
  <2> QED
    BY <2>2, <2>4, <1>0, <1>4, <1>13
<1>14. ASSUME Flowing(c)'
       PROVE  Carries(up', c, Expected(c)', client'[c].sent, alive')
  <2>1. \A i \in 1..Len(up') : ~IsData(up'[i], c)
    BY <1>0, <1>1, <1>10 DEF UpInv, IsData
  <2>2. ~IsData(hand, c)
    BY <1>0 DEF HandInv, IsData
  <2>3. Expected(c)' = 1
    BY <1>0, <1>2, <2>2 DEF Expected, Taken, NoConn, agentVars, IsData
  <2> QED
    BY <2>1, <2>3, <1>3, <1>4, CarriesNothing
<1>15. DownFlow'
  <2> SUFFICES ASSUME NEW d \in Conns, client'[d].state = "open"
               PROVE  Carries(down', d, Len(client'[d].got) + 1, conn'[d].sent, alive')
    BY DEF DownFlow
  <2>1. CASE d # c
    BY <1>0, <1>4, <2>1 DEF DownFlow, agentVars
  <2>2. CASE d = c
    <3>1. \A i \in 1..Len(down) : ~IsData(down[i], c)
      BY <1>0 DEF DownInv, IsData
    <3>2. Len(client'[c].got) + 1 = 1 /\ conn'[c].sent = 0
      BY <1>0, <1>2, <1>3, <1>4 DEF NoConn, agentVars
    <3> QED
      BY <2>2, <3>1, <3>2, <1>0, CarriesNothing
  <2> QED
    BY <2>1, <2>2
<1> QED
  BY <1>6, <1>8, <1>9, <1>11, <1>12, <1>13, <1>14, <1>15 DEF UpFlow

LEMMA ClientDataStep ==
  ASSUME ForwardInv, NEW c \in Conns, ClientData(c)
  PROVE  ForwardInv'
<1> USE DEF ForwardInv, TypeOK
<1>l. PICK l : l = client[c].sent
  OBVIOUS
<1>f. PICK f : f = Frame("data", c, l + 1)
  OBVIOUS
<1>r. PICK r : r = [client[c] EXCEPT !.sent = l + 1]
  OBVIOUS
<1>0. /\ client' = [client EXCEPT ![c] = r] /\ ToAgent(f)
      /\ client[c].state = "open" /\ l < MaxChunks
      /\ UNCHANGED <<cli, nextID, unread, down, alive, agentVars>>
  BY <1>l, <1>f, <1>r DEF ClientData, CliTypeOK
<1>1. l \in Nat /\ l + 1 \in 0..MaxChunks /\ l + 1 \in 1..l + 1 /\ l <= l + 1 /\ l < l + 1
  <2>1. l \in Nat /\ MaxChunks \in Nat
    BY <1>l, Fields
  <2> QED
    BY <1>0, <2>1
<1>2. f \in Frames /\ f.k = "data" /\ f.c = c /\ f.n = l + 1
  BY <1>1, <1>f, ConnsFacts, FrameFacts DEF Kinds
<1>3. r \in Clients /\ r.sent = l + 1 /\ r.got = client[c].got /\ r.state = "open"
  BY <1>0, <1>1, <1>r, Fields DEF Clients
<1>4. \A d \in Conns : client'[d] = IF d = c THEN r ELSE client[d]
  BY <1>0 DEF CliTypeOK
<1>5. Advances
  <2>1. \A d \in Conns : client'[d].sent \in Nat /\ client[d].sent <= client'[d].sent
    <3> TAKE d \in Conns
    <3>1. client[d].sent \in Nat
      BY Fields
    <3>2. CASE d = c
      BY <3>2, <1>1, <1>3, <1>4, <1>l
    <3>3. CASE d # c
      BY <3>1, <3>3, <1>4
    <3> QED
      BY <3>2, <3>3
  <2>2. \A d \in Conns : conn[d].sent \in Nat
    BY Fields
  <2>3. nextID \in 0..MaxConns /\ nextID \in Nat
    BY Fields DEF CliTypeOK
  <2> QED
    BY <2>1, <2>2, <2>3, <1>0 DEF Advances, agentVars
<1>6. TypeOK'
  BY <1>0, <1>2, <1>3, KeepTypes, ToAgentFacts DEF CliTypeOK, agentVars
<1>7. up' = up \/ up' = Append(up, f)
  BY <1>0, <1>2, ToAgentFacts
<1>8. UpInv'
  <2>1. \A i \in 1..Len(up) : up[i].k = "open" => conn'[up[i].c].sock = "none"
    BY <1>0 DEF UpInv, agentVars
  <2>2. c \in 1..nextID
    BY <1>0, ConnsFacts, Fields DEF ClientInv, Conns
  <2>3. f.c \in 1..nextID' /\ f.n \in 1..client'[f.c].sent /\ client[f.c].sent < f.n
    BY <2>2, <1>0, <1>1, <1>2, <1>3, <1>4, <1>l
  <2> QED
    BY <1>2, <1>5, <1>7, <2>1, <2>3, KeepUp, AppendUp
<1>9. DownInv' /\ ConnInv'
  BY <1>0, <1>5, KeepDown, KeepConn DEF agentVars
<1>10. \A i \in 1..Len(up') : up'[i].k = "open" => \E j \in 1..Len(up) : up[j] = up'[i]
  BY <1>2, <1>7, NoNewOpen DEF NetTypeOK
<1>11. HandInv'
  <2>1. hand.k \in {"open", "dialled"} => \A i \in 1..Len(up') : up'[i].k = "open" => up'[i].c # hand.c
    BY <1>10 DEF HandInv
  <2> QED
    BY <1>0, <1>5, <2>1, KeepHand DEF HandInv, agentVars
<1>12. ClientInv'
  <2>1. ASSUME NEW d \in Conns
        PROVE  /\ client'[d].state = "none" <=> d > nextID'
               /\ d > nextID' => client'[d] = NoClient
               /\ \A i \in 1..Len(client'[d].got) : client'[d].got[i] = i
    BY <1>0, <1>3, <1>4 DEF ClientInv
  <2> QED
    BY <1>0, <2>1 DEF ClientInv, agentVars
<1>13. ASSUME NEW d \in Conns, Flowing(d)'
       PROVE  Carries(up', d, Expected(d)', client'[d].sent, alive')
  <2>1. Flowing(d)
    BY <1>0, <1>10, <1>13, PendingStays DEF Flowing, agentVars
  <2>e. PICK e : e = Expected(d)
    OBVIOUS
  <2>2. Expected(d)' = e
    BY <1>0, <2>e DEF Expected, agentVars, IsData, Taken
  <2>3. Carries(up, d, e, client[d].sent, alive)
    BY <2>1, <2>e DEF UpFlow
  <2>4. CASE d # c
    <3>1. Carries(up', d, e, client[d].sent, alive)
      BY <2>3, <2>4, <1>2, <1>7, CarriesAppend DEF NetTypeOK, IsData
    <3> QED
      BY <3>1, <2>2, <2>4, <1>0, <1>4
  <2>5. CASE d = c /\ alive
    <3>1. up' = Append(up, f)
      BY <2>5, <1>0, <1>2, ToAgentFacts
    <3>2. e \in Nat
      BY <2>e, Fields DEF Expected
    <3>3. alive = TRUE
      BY <2>5 DEF NetTypeOK
    <3>4. Carries(up', c, e, l + 1, TRUE)
      BY <3>1, <3>2, <3>3, <2>3, <2>5, <1>1, <1>2, <1>f, <1>l, CarriesMore DEF NetTypeOK
    <3> QED
      BY <3>3, <3>4, <2>2, <2>5, <1>0, <1>3, <1>4
  <2>6. CASE d = c /\ ~alive
    <3>1. up' = up
      BY <2>6, <1>0 DEF ToAgent
    <3>2. alive = FALSE
      BY <2>6 DEF NetTypeOK
    <3> QED
      BY <3>1, <3>2, <2>2, <2>3, <2>6, <1>0, CarriesLess
  <2> QED
    BY <2>4, <2>5, <2>6
<1>14. DownFlow'
  <2>1. \A d \in Conns : client'[d].state = "open" =>
           client[d].state = "open" /\ client'[d].got = client[d].got /\ conn'[d].sent = conn[d].sent
    BY <1>0, <1>3, <1>4 DEF agentVars
  <2> QED
    BY <2>1, <1>0, KeepDownFlow DEF NetTypeOK
<1> QED
  BY <1>6, <1>8, <1>9, <1>11, <1>12, <1>13, <1>14 DEF UpFlow
(* Steps of kb that send nothing new on a connection. *)
SameClient(a, b) ==
  /\ b \in Clients /\ b.sent = a.sent
  /\ b.state = "none" <=> a.state = "none"
  /\ a.state = "none" => b = a

LEMMA ClientMoves ==
  ASSUME TypeOK, ClientInv, UNCHANGED <<nextID, conn>>,
         \A d \in Conns : SameClient(client[d], client'[d]),
         \A d \in Conns : \A i \in 1..Len(client'[d].got) : client'[d].got[i] = i,
         pf' = "starting" =>
           pf = "starting" /\ cli' # "ready" /\ \A i \in 1..Len(down') : down'[i].k # "ready"
  PROVE  Advances /\ ClientInv'
<1>1. \A d \in Conns : client[d].sent \in Nat /\ conn[d].sent \in Nat
  BY Fields
<1>2. Advances
  BY <1>1 DEF Advances, SameClient, TypeOK, CliTypeOK
<1>3. ClientInv'
  BY DEF ClientInv, SameClient
<1> QED
  BY <1>2, <1>3

LEMMA ClientReadEndsStep ==
  ASSUME ForwardInv, NEW c \in Conns, ClientReadEnds(c)
  PROVE  ForwardInv'
<1> USE DEF ForwardInv, TypeOK
<1>f. PICK f : f = Frame("close", c, 0)
  OBVIOUS
<1>r. PICK r : r = [client[c] EXCEPT !.state = "closed", !.rd = FALSE]
  OBVIOUS
<1>0. /\ client' = [client EXCEPT ![c] = r] /\ ToAgent(f)
      /\ client[c].rd
      /\ UNCHANGED <<cli, nextID, unread, down, alive, agentVars>>
  BY <1>f, <1>r DEF ClientReadEnds
<1>1. f \in Frames /\ f.k = "close" /\ f.c = c
  BY <1>f, ConnsFacts, FrameFacts DEF Kinds
<1>2. r \in Clients /\ r.sent = client[c].sent /\ r.got = client[c].got /\ r.state = "closed"
  <2>1. client[c] \in Clients
    BY Fields
  <2> QED
    BY <2>1, <1>r DEF Clients
<1>3. c <= nextID /\ client[c].state # "none"
  <2>1. client[c] # NoClient
    BY <1>0 DEF NoClient
  <2> QED
    BY <2>1, ConnsFacts, Fields DEF ClientInv
<1>4. \A d \in Conns : client'[d] = IF d = c THEN r ELSE client[d]
  BY <1>0 DEF CliTypeOK
<1>5. Advances /\ ClientInv'
  <2>1. \A d \in Conns : SameClient(client[d], client'[d])
    BY <1>2, <1>3, <1>4, Fields DEF SameClient
  <2>2. \A d \in Conns : \A i \in 1..Len(client'[d].got) : client'[d].got[i] = i
    BY <1>2, <1>4 DEF ClientInv
  <2> QED
    BY <2>1, <2>2, <1>0, ClientMoves DEF ClientInv, agentVars
<1>6. TypeOK'
  BY <1>0, <1>1, <1>2, KeepTypes, ToAgentFacts DEF CliTypeOK, agentVars
<1>7. up' = up \/ up' = Append(up, f)
  BY <1>0, <1>1, ToAgentFacts
<1>8. UpInv'
  <2>1. \A i \in 1..Len(up) : up[i].k = "open" => conn'[up[i].c].sock = "none"
    BY <1>0 DEF UpInv, agentVars
  <2>2. f.c \in 1..nextID'
    BY <1>0, <1>1, <1>3, ConnsFacts, Fields
  <2> QED
    BY <1>1, <1>5, <1>7, <2>1, <2>2, KeepUp, AppendUp
<1>9. DownInv' /\ ConnInv'
  BY <1>0, <1>5, KeepDown, KeepConn DEF agentVars
<1>10. \A i \in 1..Len(up') : up'[i].k = "open" => \E j \in 1..Len(up) : up[j] = up'[i]
  BY <1>1, <1>7, NoNewOpen DEF NetTypeOK
<1>11. HandInv'
  <2>1. hand.k \in {"open", "dialled"} => \A i \in 1..Len(up') : up'[i].k = "open" => up'[i].c # hand.c
    BY <1>10 DEF HandInv
  <2> QED
    BY <1>0, <1>5, <2>1, KeepHand DEF HandInv, agentVars
<1>12. UpFlow'
  <2>1. ASSUME NEW d \in Conns, Flowing(d)'
        PROVE  Flowing(d) /\ Expected(d)' = Expected(d) /\ client'[d].sent = client[d].sent
    <3>1. Flowing(d)
      BY <1>0, <1>10, <2>1, PendingStays DEF Flowing, agentVars
    <3>2. Expected(d)' = Expected(d)
      BY <1>0 DEF Expected, agentVars, IsData, Taken
    <3> QED
      BY <3>1, <3>2, <1>2, <1>4
  <2> QED
    BY <2>1, <1>0, <1>1, <1>7, KeepUpFlow DEF NetTypeOK
<1>13. DownFlow'
  <2>1. \A d \in Conns : client'[d].state = "open" =>
           client[d].state = "open" /\ client'[d].got = client[d].got /\ conn'[d].sent = conn[d].sent
    BY <1>0, <1>2, <1>4 DEF agentVars
  <2> QED
    BY <2>1, <1>0, KeepDownFlow DEF NetTypeOK
<1> QED
  BY <1>5, <1>6, <1>8, <1>9, <1>11, <1>12, <1>13

LEMMA CliDoneFacts ==
  ASSUME TypeOK, CliDone
  PROVE  /\ cli' = "done" /\ client' \in [Conns -> Clients]
         /\ \A d \in Conns : /\ SameClient(client[d], client'[d])
                             /\ client'[d].got = client[d].got /\ client'[d].state # "open"
<1>0. cli' = "done" /\ client' = [c \in Conns |-> IF client[c].state = "none" THEN client[c]
                                ELSE [client[c] EXCEPT !.state = "closed", !.rd = FALSE]]
  BY DEF CliDone
<1>1. ASSUME NEW d \in Conns
      PROVE  /\ SameClient(client[d], client'[d])
             /\ client'[d].got = client[d].got /\ client'[d].state # "open"
  <2>1. client[d] \in Clients
    BY Fields
  <2>r. PICK r : r = [client[d] EXCEPT !.state = "closed", !.rd = FALSE]
    OBVIOUS
  <2>2. r \in Clients /\ r.sent = client[d].sent /\ r.got = client[d].got /\ r.state = "closed"
    BY <2>1, <2>r DEF Clients
  <2>3. client'[d] = IF client[d].state = "none" THEN client[d] ELSE r
    BY <1>0, <2>r
  <2> QED
    BY <2>1, <2>2, <2>3 DEF SameClient
<1>2. client' \in [Conns -> Clients]
  <2>1. \A d \in Conns : client'[d] \in Clients
    BY <1>1 DEF SameClient
  <2> QED
    BY <2>1, <1>0
<1> QED
  BY <1>0, <1>1, <1>2

(* Steps that change only kb and the channel to it. *)
LEMMA CliSteps ==
  ASSUME ForwardInv, CliTypeOK', NetTypeOK', DownInv', ClientInv', DownFlow', Advances,
         UNCHANGED <<nextID, up, alive, agentVars>>,
         \A d \in Conns : client'[d].sent = client[d].sent
  PROVE  ForwardInv'
<1> USE DEF ForwardInv, TypeOK
<1>1. TypeOK'
  BY KeepTypes DEF agentVars
<1>2. UpInv'
  BY KeepUp DEF agentVars, UpInv
<1>3. HandInv' /\ ConnInv'
  BY KeepHand, KeepConn DEF agentVars, HandInv
<1>4. UpFlow'
  <2>1. ASSUME NEW d \in Conns, Flowing(d)'
        PROVE  Flowing(d) /\ Expected(d)' = Expected(d) /\ client'[d].sent = client[d].sent
    BY <2>1 DEF Flowing, Pending, Expected, agentVars, IsData, Taken
  <2> QED
    BY <2>1, KeepUpFlow DEF NetTypeOK
<1> QED
  BY <1>1, <1>2, <1>3, <1>4

LEMMA ReadLoopStep ==
  ASSUME ForwardInv, ReadLoop
  PROVE  ForwardInv'
<1> USE DEF ForwardInv, TypeOK
<1>f. PICK f : f = Head(down)
  OBVIOUS
<1>0. /\ down # <<>> /\ cli # "done" /\ ~KbWaits
      /\ down' = Tail(down) /\ UNCHANGED <<nextID, up, alive, agentVars>>
  BY DEF ReadLoop
<1>1. /\ f \in Frames /\ down' \in Seq(Frames) /\ Len(down') <= DownBuf /\ 1 \in 1..Len(down) /\ f = down[1]
      /\ \A i \in 1..Len(down') : \E j \in 1..Len(down) : down'[i] = down[j]
  <2>1. down \in Seq(Frames) /\ Len(down) \in Nat /\ DownBuf \in Nat /\ Len(down) <= DownBuf
    BY PortForwardAssumption DEF NetTypeOK
  <2>2. Len(down') = Len(down) - 1
    BY <1>0, <2>1, TailFacts
  <2>3. Len(down') <= DownBuf
    BY <2>1, <2>2
  <2> QED
    BY <1>0, <1>f, <2>1, <2>3, TailFacts
<1>2. NetTypeOK'
  BY <1>0, <1>1 DEF NetTypeOK
<1>3. /\ f.k \in {"data", "close", "connerror"} => f.c \in 1..nextID /\ f.c \in Conns /\ client[f.c].state # "none"
      /\ f.k = "data" => f.n \in 1..conn[f.c].sent
  BY <1>1, Fields DEF DownInv, ClientInv
<1>4. pf = "starting" => \A i \in 1..Len(down') : down'[i].k # "ready"
  BY <1>1 DEF ClientInv
<1>5. pf = "starting" => f.k # "ready"
  BY <1>1 DEF ClientInv
<1>6. ASSUME NEW d \in Conns, client[d].state = "open", ~IsData(f, d)
      PROVE  Carries(down', d, Len(client[d].got) + 1, conn[d].sent, alive)
  <2>1. down \in Seq(Frames) /\ ~IsData(Head(down), d)
    BY <1>6, <1>f DEF NetTypeOK
  <2>2. Carries(down, d, Len(client[d].got) + 1, conn[d].sent, alive)
    BY <1>6 DEF DownFlow
  <2> QED
    BY <2>1, <2>2, <1>0, CarriesTail
<1>7. CASE f.k = "ready" /\ cli' = "ready" /\ UNCHANGED <<client, unread>>
  <2>1. Advances /\ ClientInv'
    BY <1>0, <1>5, <1>7, ClientMoves, Fields DEF SameClient, ClientInv, agentVars
  <2>2. DownFlow'
    BY <1>0, <1>6, <1>7 DEF DownFlow, agentVars, IsData
  <2>3. DownInv'
    BY <2>1, <1>0, TailDown
  <2>4. CliTypeOK'
    BY <1>0, <1>7 DEF CliTypeOK
  <2> QED
    BY <2>1, <2>2, <2>3, <2>4, <1>0, <1>2, <1>7, CliSteps
<1>8. CASE f.k = "data" /\ client[f.c].state # "open" /\ UNCHANGED <<cli, client, unread>>
  <2>1. Advances /\ ClientInv'
    BY <1>0, <1>4, <1>8, ClientMoves, Fields DEF SameClient, ClientInv, agentVars
  <2>2. DownFlow'
    BY <1>0, <1>6, <1>8 DEF DownFlow, agentVars, IsData
  <2>3. DownInv'
    BY <2>1, <1>0, TailDown
  <2>4. CliTypeOK'
    BY <1>0, <1>8 DEF CliTypeOK
  <2> QED
    BY <2>1, <2>2, <2>3, <2>4, <1>0, <1>2, <1>8, CliSteps
<1>9. CASE /\ f.k = "data" /\ client[f.c].state = "open" /\ UNCHANGED cli
           /\ client' = [client EXCEPT ![f.c].got = Append(@, f.n)]
           /\ unread' = [unread EXCEPT ![f.c] = @ + 1]
  <2>c. PICK c : c = f.c
    OBVIOUS
  <2>g. PICK g : g = client[c].got
    OBVIOUS
  <2>r. PICK r : r = [client[c] EXCEPT !.got = Append(g, f.n)]
    OBVIOUS
  <2>1. c \in Conns /\ client[c] \in Clients /\ client[c].state = "open" /\ g \in Seq(1..MaxChunks) /\ Len(g) \in Nat
    BY <1>3, <1>9, <2>c, <2>g, Fields
  <2>2. f.n \in 1..MaxChunks /\ f.n <= conn[c].sent /\ conn[c].sent \in Nat
    <3>1. PICK l : l = conn[c].sent
      OBVIOUS
    <3>2. l \in 0..MaxChunks /\ f.n \in 1..l /\ MaxChunks \in Nat
      BY <3>1, <1>3, <1>9, <2>c, <2>1, Fields
    <3> QED
      BY <3>1, <3>2
  <2>3. f.n = Len(g) + 1 /\ Carries(down', c, Len(g) + 1 + 1, conn[c].sent, alive)
    <3>1. Carries(down, c, Len(g) + 1, conn[c].sent, alive)
      BY <2>1, <2>g DEF DownFlow
    <3>2. down \in Seq(Frames) /\ IsData(Head(down), c) /\ Ordered(down) /\ Head(down).n <= conn[c].sent
      BY <1>f, <1>9, <2>2, <2>c DEF NetTypeOK, IsData, DownInv
    <3>n. PICK n \in Nat : n = Len(g) + 1
      BY <2>1
    <3>l. PICK l \in Nat : l = conn[c].sent
      BY <2>2
    <3>3. Carries(down, c, n, l, alive) /\ Head(down).n <= l /\ down # <<>>
      BY <3>1, <3>2, <3>n, <3>l, <1>0
    <3>4. Head(down).n = n /\ Carries(Tail(down), c, n + 1, l, alive)
      BY <3>2, <3>3, <2>1, CarriesNext
    <3> QED
      BY <3>4, <3>n, <3>l, <1>0, <1>f
  <2>4. /\ Append(g, f.n) \in Seq(1..MaxChunks) /\ Len(Append(g, f.n)) = Len(g) + 1
        /\ \A i \in 1..Len(Append(g, f.n)) :
             (i \in 1..Len(g) /\ Append(g, f.n)[i] = g[i]) \/ (i = Len(g) + 1 /\ Append(g, f.n)[i] = f.n)
    BY <2>1, <2>2
  <2>5. r \in Clients /\ r.sent = client[c].sent /\ r.got = Append(g, f.n) /\ r.state = "open"
    BY <2>1, <2>4, <2>r DEF Clients
  <2>6. client' = [client EXCEPT ![c] = r]
    BY <1>9, <2>c, <2>g, <2>r DEF CliTypeOK
  <2>7. \A d \in Conns : client'[d] = IF d = c THEN r ELSE client[d]
    BY <2>6 DEF CliTypeOK
  <2>8. \A d \in Conns : SameClient(client[d], client'[d])
    BY <2>1, <2>5, <2>7, Fields DEF SameClient
  <2>9. \A d \in Conns : \A i \in 1..Len(client'[d].got) : client'[d].got[i] = i
    <3> TAKE d \in Conns
    <3>1. CASE d = c
      <4>1. client'[d].got = Append(g, f.n)
        BY <3>1, <2>5, <2>7
      <4>2. \A i \in 1..Len(g) : g[i] = i
        BY <2>1, <2>g DEF ClientInv
      <4> QED
        BY <4>1, <4>2, <2>3, <2>4
    <3>2. CASE d # c
      BY <3>2, <2>7 DEF ClientInv
    <3> QED
      BY <3>1, <3>2
  <2>10. Advances /\ ClientInv'
    BY <1>0, <1>4, <1>9, <2>8, <2>9, ClientMoves DEF ClientInv, agentVars
  <2>11. DownFlow'
    <3> SUFFICES ASSUME NEW d \in Conns, client'[d].state = "open"
                 PROVE  Carries(down', d, Len(client'[d].got) + 1, conn'[d].sent, alive')
      BY DEF DownFlow
    <3>1. CASE d = c
      <4>1. Len(client'[d].got) = Len(g) + 1
        BY <3>1, <2>4, <2>5, <2>7
      <4> QED
        BY <3>1, <4>1, <2>3, <1>0 DEF agentVars
    <3>2. CASE d # c
      BY <3>2, <1>0, <1>6, <2>7, <2>c DEF IsData, agentVars
    <3> QED
      BY <3>1, <3>2
  <2>12. DownInv'
    BY <2>10, <1>0, TailDown
  <2>13. CliTypeOK'
    <3>u. PICK u : u = unread[c]
      OBVIOUS
    <3>1. u \in 0..SockBuf /\ SockBuf \in Nat
      BY <2>1, <3>u, PortForwardAssumption DEF CliTypeOK
    <3>2. u # SockBuf
      BY <1>0, <1>f, <1>9, <2>c, <3>u DEF KbWaits
    <3>3. u + 1 \in 0..SockBuf /\ unread' = [unread EXCEPT ![c] = u + 1]
      BY <1>9, <2>c, <3>u, <3>1, <3>2
    <3> QED
      BY <1>0, <1>9, <2>5, <2>6, <3>3 DEF CliTypeOK
  <2>14. \A d \in Conns : client'[d].sent = client[d].sent
    BY <2>8 DEF SameClient
  <2> QED
    BY <2>10, <2>11, <2>12, <2>13, <2>14, <1>0, <1>2, CliSteps
<1>10. CASE /\ f.k \in {"close", "connerror"} /\ UNCHANGED <<cli, unread>>
            /\ client' = [client EXCEPT ![f.c].state = "closed"]
  <2>c. PICK c : c = f.c
    OBVIOUS
  <2>r. PICK r : r = [client[c] EXCEPT !.state = "closed"]
    OBVIOUS
  <2>1. c \in Conns /\ client[c] \in Clients /\ client[c].state # "none"
    BY <1>3, <1>10, <2>c, Fields
  <2>2. r \in Clients /\ r.sent = client[c].sent /\ r.got = client[c].got /\ r.state = "closed"
    BY <2>1, <2>r DEF Clients
  <2>3. client' = [client EXCEPT ![c] = r]
    BY <1>10, <2>c, <2>r DEF CliTypeOK
  <2>4. \A d \in Conns : client'[d] = IF d = c THEN r ELSE client[d]
    BY <2>3 DEF CliTypeOK
  <2>5. \A d \in Conns : SameClient(client[d], client'[d])
    BY <2>1, <2>2, <2>4, Fields DEF SameClient
  <2>6. \A d \in Conns : \A i \in 1..Len(client'[d].got) : client'[d].got[i] = i
    BY <2>2, <2>4 DEF ClientInv
  <2>7. Advances /\ ClientInv'
    BY <1>0, <1>4, <1>10, <2>5, <2>6, ClientMoves DEF ClientInv, agentVars
  <2>8. DownFlow'
    BY <1>0, <1>6, <1>10, <2>2, <2>4 DEF DownFlow, agentVars, IsData
  <2>9. DownInv'
    BY <2>7, <1>0, TailDown
  <2>10. CliTypeOK'
    BY <1>0, <1>10, <2>2, <2>3 DEF CliTypeOK
  <2>11. \A d \in Conns : client'[d].sent = client[d].sent
    BY <2>5 DEF SameClient
  <2> QED
    BY <2>7, <2>8, <2>9, <2>10, <2>11, <1>0, <1>2, CliSteps
<1>11. CASE f.k = "error" /\ CliDone /\ UNCHANGED unread
  <2>1. Advances /\ ClientInv'
    BY <1>0, <1>4, <1>11, CliDoneFacts, ClientMoves DEF ClientInv, agentVars
  <2>2. DownFlow'
    BY <1>11, CliDoneFacts DEF DownFlow
  <2>3. DownInv'
    BY <2>1, <1>0, TailDown
  <2>4. CliTypeOK'
    BY <1>0, <1>11, CliDoneFacts DEF CliTypeOK
  <2>5. \A d \in Conns : client'[d].sent = client[d].sent
    BY <1>11, CliDoneFacts DEF SameClient
  <2> QED
    BY <2>1, <2>2, <2>3, <2>4, <2>5, <1>0, <1>2, CliSteps
<1> QED
  BY <1>f, <1>7, <1>8, <1>9, <1>10, <1>11 DEF ReadLoop

LEMMA ReadLoopEndsStep ==
  ASSUME ForwardInv, ReadLoopEnds
  PROVE  ForwardInv'
<1> USE DEF ForwardInv, TypeOK
<1>0. CliDone /\ UNCHANGED <<nextID, unread, up, down, alive, agentVars>>
  BY DEF ReadLoopEnds
<1>1. Advances /\ ClientInv'
  BY <1>0, CliDoneFacts, ClientMoves DEF ClientInv, agentVars
<1>2. DownFlow'
  BY <1>0, CliDoneFacts DEF DownFlow
<1>3. DownInv'
  BY <1>0, <1>1, KeepDown
<1>4. CliTypeOK' /\ NetTypeOK'
  BY <1>0, CliDoneFacts DEF CliTypeOK, NetTypeOK
<1>5. \A d \in Conns : client'[d].sent = client[d].sent
  BY <1>0, CliDoneFacts DEF SameClient
<1> QED
  BY <1>0, <1>1, <1>2, <1>3, <1>4, <1>5, CliSteps

LEMMA InterruptStep ==
  ASSUME ForwardInv, Interrupt
  PROVE  ForwardInv'
<1> USE DEF ForwardInv, TypeOK
<1>f. PICK f : f = Frame("cancel", 0, 0)
  OBVIOUS
<1>0. /\ CliDone /\ alive' = FALSE /\ down' = <<>> /\ UNCHANGED <<nextID, unread, agentVars>>
      /\ up' = up \/ up' = Append(up, f)
  BY <1>f DEF Interrupt, BridgeCancels
<1>1. f \in Frames /\ f.k = "cancel"
  BY <1>f, CancelFrame
<1>2. Advances /\ ClientInv'
  BY <1>0, CliDoneFacts, ClientMoves DEF ClientInv, agentVars
<1>3. TypeOK'
  <2>1. CliTypeOK'
    BY <1>0, CliDoneFacts DEF CliTypeOK
  <2>2. NetTypeOK'
    <3>1. up' \in Seq(Frames)
      BY <1>0, <1>1, AppendFacts DEF NetTypeOK
    <3>2. <<>> \in Seq(Frames) /\ Len(<<>>) <= DownBuf
      BY PortForwardAssumption
    <3> QED
      BY <1>0, <3>1, <3>2 DEF NetTypeOK
  <2> QED
    BY <1>0, <2>1, <2>2, KeepTypes DEF agentVars
<1>4. UpInv'
  BY <1>0, <1>1, <1>2, KeepUp, AppendUp DEF UpInv, agentVars
<1>5. DownInv' /\ DownFlow'
  <2>1. DownInv'
    BY <1>0, OrderedEmpty DEF DownInv
  <2> QED
    BY <1>0, <2>1, CliDoneFacts DEF DownFlow
<1>6. \A i \in 1..Len(up') : up'[i].k = "open" => \E j \in 1..Len(up) : up[j] = up'[i]
  BY <1>0, <1>1, NoNewOpen DEF NetTypeOK
<1>7. HandInv'
  <2>1. hand.k \in {"open", "dialled"} => \A i \in 1..Len(up') : up'[i].k = "open" => up'[i].c # hand.c
    BY <1>6 DEF HandInv
  <2> QED
    BY <1>0, <1>2, <2>1, KeepHand DEF HandInv, agentVars
<1>8. ConnInv'
  BY <1>0, <1>2, KeepConn DEF agentVars
<1>9. UpFlow'
  <2>1. ASSUME NEW d \in Conns, Flowing(d)'
        PROVE  Flowing(d) /\ Expected(d)' = Expected(d) /\ client'[d].sent = client[d].sent
    <3>1. Flowing(d)
      BY <1>0, <1>6, <2>1, PendingStays DEF Flowing, agentVars
    <3>2. Expected(d)' = Expected(d)
      BY <1>0 DEF Expected, agentVars, IsData, Taken
    <3> QED
      BY <3>1, <3>2, <1>0, CliDoneFacts DEF SameClient
  <2> QED
    BY <2>1, <1>0, <1>1, KeepUpFlow
<1> QED
  BY <1>2, <1>3, <1>4, <1>5, <1>7, <1>8, <1>9

(* The connection to central breaks, and kb has not noticed. *)
LEMMA ConnectionBreaksStep ==
  ASSUME ForwardInv, ConnectionBreaks
  PROVE  ForwardInv'
<1> USE DEF ForwardInv, TypeOK
<1>f. PICK f : f = Frame("cancel", 0, 0)
  OBVIOUS
<1>0. /\ alive' = FALSE /\ UNCHANGED <<cliVars, down, agentVars>>
      /\ up' = up \/ up' = Append(up, f)
  BY <1>f DEF ConnectionBreaks, BridgeCancels
<1>1. f \in Frames /\ f.k = "cancel"
  BY <1>f, CancelFrame
<1>2. Advances
  BY <1>0, NothingMoves DEF cliVars, agentVars
<1>3. TypeOK'
  <2>1. up' \in Seq(Frames)
    BY <1>0, <1>1, AppendFacts DEF NetTypeOK
  <2>2. NetTypeOK'
    BY <1>0, <2>1 DEF NetTypeOK
  <2> QED
    BY <1>0, <2>2, KeepTypes DEF cliVars, agentVars
<1>4. UpInv'
  BY <1>0, <1>1, <1>2, KeepUp, AppendUp DEF UpInv, agentVars
<1>5. DownInv' /\ ConnInv'
  BY <1>0, <1>2, KeepDown, KeepConn DEF agentVars
<1>6. \A i \in 1..Len(up') : up'[i].k = "open" => \E j \in 1..Len(up) : up[j] = up'[i]
  BY <1>0, <1>1, NoNewOpen DEF NetTypeOK
<1>7. HandInv'
  <2>1. hand.k \in {"open", "dialled"} => \A i \in 1..Len(up') : up'[i].k = "open" => up'[i].c # hand.c
    BY <1>6 DEF HandInv
  <2> QED
    BY <1>0, <1>2, <2>1, KeepHand DEF HandInv, agentVars
<1>8. ClientInv'
  BY <1>0, KeepClient DEF ClientInv, cliVars, agentVars
<1>9. UpFlow'
  <2>1. ASSUME NEW d \in Conns, Flowing(d)'
        PROVE  Flowing(d) /\ Expected(d)' = Expected(d) /\ client'[d].sent = client[d].sent
    <3>1. Flowing(d)
      BY <1>0, <1>6, <2>1, PendingStays DEF Flowing, agentVars
    <3>2. Expected(d)' = Expected(d)
      BY <1>0 DEF Expected, agentVars, IsData, Taken
    <3> QED
      BY <3>1, <3>2, <1>0 DEF cliVars
  <2> QED
    BY <2>1, <1>0, <1>1, KeepUpFlow
<1>10. DownFlow'
  BY <1>0, KeepDownFlow DEF cliVars, agentVars
<1> QED
  BY <1>3, <1>4, <1>5, <1>7, <1>8, <1>9, <1>10

(* A local program reads: only the room in its socket changes. *)
LEMMA LocalReadStep ==
  ASSUME ForwardInv, NEW c \in Conns, LocalRead(c)
  PROVE  ForwardInv'
<1> USE DEF ForwardInv, TypeOK
<1>0. /\ unread' = [unread EXCEPT ![c] = unread[c] - 1] /\ unread[c] > 0
      /\ UNCHANGED <<cli, nextID, client, up, down, alive, agentVars>>
  BY DEF LocalRead
<1>1. Advances
  BY <1>0, NothingMoves DEF agentVars
<1>2. DownInv' /\ ClientInv'
  BY <1>0, <1>1, KeepDown, KeepClient DEF ClientInv, agentVars
<1>3. DownFlow'
  BY <1>0, KeepDownFlow DEF agentVars, NetTypeOK
<1>4. CliTypeOK'
  <2>1. unread[c] \in 0..SockBuf /\ SockBuf \in Nat
    BY PortForwardAssumption DEF CliTypeOK
  <2>2. unread[c] - 1 \in 0..SockBuf
    BY <1>0, <2>1
  <2> QED
    BY <1>0, <2>2 DEF CliTypeOK
<1>5. NetTypeOK'
  BY <1>0 DEF NetTypeOK
<1> QED
  BY <1>0, <1>1, <1>2, <1>3, <1>4, <1>5, CliSteps
-------------------------------------------------------------------------------
(* The agent. *)

LEMMA ExpectedStays ==
  ASSUME UNCHANGED <<conn, hand>>, NEW c
  PROVE  Expected(c)' = Expected(c)
BY DEF Expected, Taken, IsData

(* Steps that change the session's own state, and may send kb a frame. *)
LEMMA SessionSteps ==
  ASSUME ForwardInv, AgentTypeOK', UNCHANGED <<cliVars, conn, table, hand>>,
         UNCHANGED <<up, down, alive>> \/
           \E f \in Frames : ToClient(f) /\ f.k \in {"ready", "error"},
         pf' # "starting" \/ (pf' = pf /\ UNCHANGED <<up, down, alive>>),
         listed' /\ pf' # "ended" => listed /\ pf # "ended"
  PROVE  ForwardInv'
<1> USE DEF ForwardInv, TypeOK
<1>1. Advances
  BY NothingMoves DEF cliVars
<1>2. \A i \in 1..Len(up) : up[i].k = "open" => conn'[up[i].c].sock = "none"
  BY DEF UpInv
<1>3. /\ NetTypeOK' /\ UpInv' /\ DownInv' /\ alive' \in BOOLEAN /\ (alive' => alive)
      /\ up' = up \/ \E f \in Frames : f.k # "data" /\ up' = Append(up, f)
      /\ down' = down \/ \E f \in Frames : f.k # "data" /\ down' = Append(down, f)
      /\ \A i \in 1..Len(up') : up'[i].k = "open" => \E j \in 1..Len(up) : up[j] = up'[i]
  <2>1. CASE UNCHANGED <<up, down, alive>>
    BY <1>1, <1>2, <2>1, KeepUp, KeepDown, KeepTypes DEF NetTypeOK
  <2>2. CASE \E f \in Frames : ToClient(f) /\ f.k \in {"ready", "error"}
    <3>1. PICK f \in Frames : ToClient(f) /\ f.k \in {"ready", "error"}
      BY <2>2
    <3>2. /\ UpInv' /\ DownInv'
          /\ \A i \in 1..Len(up') : up'[i].k = "open" => \E j \in 1..Len(up) : up[j] = up'[i]
      BY <3>1, <1>1, <1>2, ToClientChannels
    <3>3. /\ NetTypeOK' /\ alive' \in BOOLEAN /\ (alive' => alive)
          /\ up' = up \/ up' = Append(up, Frame("cancel", 0, 0))
          /\ down' = down \/ down' = Append(down, f)
      BY <3>1, ToClientFacts
    <3> QED
      BY <3>1, <3>2, <3>3, CancelFrame
  <2> QED
    BY <2>1, <2>2
<1>4. TypeOK'
  BY <1>3, KeepTypes DEF cliVars
<1>5. HandInv'
  <2>1. hand.k \in {"open", "dialled"} => \A i \in 1..Len(up') : up'[i].k = "open" => up'[i].c # hand.c
    BY <1>3 DEF HandInv
  <2> QED
    BY <1>1, <2>1, KeepHand DEF HandInv
<1>6. ConnInv'
  BY <1>1, KeepConn
<1>7. ClientInv'
  BY KeepClient DEF ClientInv, cliVars
<1>8. UpFlow'
  <2>1. ASSUME NEW d \in Conns, Flowing(d)'
        PROVE  Flowing(d) /\ Expected(d)' = Expected(d) /\ client'[d].sent = client[d].sent
    <3>1. Flowing(d)
      BY <1>3, <2>1, PendingStays DEF Flowing
    <3> QED
      BY <3>1, ExpectedStays DEF cliVars
  <2> QED
    BY <2>1, <1>3, KeepUpFlow
<1>9. DownFlow'
  BY <1>3, KeepDownFlow DEF cliVars
<1> QED
  BY <1>3, <1>4, <1>5, <1>6, <1>7, <1>8, <1>9

LEMMA StartFailsStep ==
  ASSUME ForwardInv, StartFails
  PROVE  ForwardInv'
<1>1. PICK f : f = Frame("error", 0, 0)
  OBVIOUS
<1>2. f \in Frames /\ f.k = "error"
  BY <1>1, PortForwardAssumption DEF Frame, Frames, Kinds
<1>3. ToClient(f)
  BY <1>1 DEF StartFails
<1>4. AgentTypeOK'
  BY DEF ForwardInv, TypeOK, AgentTypeOK, StartFails
<1> QED
  BY <1>2, <1>3, <1>4, SessionSteps DEF StartFails

LEMMA StartReadyStep ==
  ASSUME ForwardInv, StartReady
  PROVE  ForwardInv'
<1>1. PICK f : f = Frame("ready", 0, 0)
  OBVIOUS
<1>2. f \in Frames /\ f.k = "ready"
  BY <1>1, PortForwardAssumption DEF Frame, Frames, Kinds
<1>3. ToClient(f)
  BY <1>1 DEF StartReady
<1>4. AgentTypeOK'
  BY DEF ForwardInv, TypeOK, AgentTypeOK, StartReady
<1> QED
  BY <1>2, <1>3, <1>4, SessionSteps DEF StartReady

LEMMA KubectlExitsStep ==
  ASSUME ForwardInv, KubectlExits
  PROVE  ForwardInv'
<1>1. AgentTypeOK'
  BY DEF ForwardInv, TypeOK, AgentTypeOK, KubectlExits
<1> QED
  BY <1>1, SessionSteps DEF KubectlExits

LEMMA SessionGoneStep ==
  ASSUME ForwardInv, SessionGone
  PROVE  ForwardInv'
<1>1. AgentTypeOK'
  BY DEF ForwardInv, TypeOK, AgentTypeOK, SessionGone
<1> QED
  BY <1>1, SessionSteps DEF SessionGone
(* A connection whose data the step does not touch. *)
LEMMA FlowKept ==
  ASSUME TypeOK, UpFlow, NEW c \in Conns, Flowing(c), alive' \in BOOLEAN, alive' => alive,
         Expected(c)' = Expected(c), client'[c].sent = client[c].sent,
         \/ up' = up
         \/ \E f \in Frames : f.k # "data" /\ up' = Append(up, f)
         \/ up # <<>> /\ up' = Tail(up) /\ ~IsData(Head(up), c)
  PROVE  Carries(up', c, Expected(c)', client'[c].sent, alive')
<1>1. PICK e, l : e = Expected(c) /\ l = client[c].sent
  OBVIOUS
<1>2. Carries(up, c, e, l, alive) /\ Expected(c)' = e /\ client'[c].sent = l /\ up \in Seq(Frames)
  BY <1>1 DEF UpFlow, TypeOK, NetTypeOK
<1>3. Carries(up', c, e, l, alive)
  <2>1. CASE up' = up
    BY <1>2, <2>1
  <2>2. CASE \E f \in Frames : f.k # "data" /\ up' = Append(up, f)
    BY <1>2, <2>2, CarriesAppend DEF IsData
  <2>3. CASE up # <<>> /\ up' = Tail(up) /\ ~IsData(Head(up), c)
    BY <1>2, <2>3, CarriesTail
  <2> QED
    BY <2>1, <2>2, <2>3
<1>4. Carries(up', c, e, l, alive')
  BY <1>3 DEF Carries
<1> QED
  BY <1>2, <1>4

LEMMA UpTail ==
  ASSUME ForwardInv, up # <<>>, up' = Tail(up), UNCHANGED <<down, alive>>
  PROVE  /\ NetTypeOK'
         /\ Head(up) \in Frames /\ 1 \in 1..Len(up) /\ Head(up) = up[1]
         /\ Head(up).k # "cancel" => Head(up).c \in 1..nextID /\ Head(up).c \in Conns
         /\ Head(up).k = "data" => Head(up).n \in 1..client[Head(up).c].sent
         /\ \A i \in 1..Len(up') : \E j \in 1..Len(up) : j # 1 /\ up[j] = up'[i]
         /\ \A i \in 1..Len(up') : Head(up).k \in {"open", "data"} /\ up'[i].k = "open" =>
              up'[i].c # Head(up).c
<1>1. up \in Seq(Frames)
  BY DEF ForwardInv, TypeOK, NetTypeOK
<1>2. /\ Tail(up) \in Seq(Frames) /\ Head(up) \in Frames /\ 1 \in 1..Len(up) /\ Head(up) = up[1]
      /\ \A i \in 1..Len(up') : i + 1 \in 1..Len(up) /\ up[i + 1] = up'[i] /\ i + 1 # 1 /\ 1 < i + 1
  BY <1>1, TailFacts
<1>3. NetTypeOK'
  BY <1>2 DEF ForwardInv, TypeOK, NetTypeOK
<1>4. /\ Head(up).k # "cancel" => Head(up).c \in 1..nextID /\ Head(up).c \in Conns
      /\ Head(up).k = "data" => Head(up).n \in 1..client[Head(up).c].sent
  <2>f. PICK f : f = up[1]
    OBVIOUS
  <2>1. /\ f.k # "cancel" => f.c \in 1..nextID
        /\ f.k = "data" => f.n \in 1..client[f.c].sent
    BY <2>f, <1>2 DEF ForwardInv, UpInv
  <2>2. 1..nextID \subseteq Conns
    BY Fields DEF ForwardInv
  <2> QED
    BY <2>1, <2>2, <2>f, <1>2
<1>5. \A i \in 1..Len(up') : Head(up).k \in {"open", "data"} /\ up'[i].k = "open" =>
              up'[i].c # Head(up).c
  BY <1>2 DEF ForwardInv, UpInv
<1> QED
  BY <1>2, <1>3, <1>4, <1>5

(* Steps of the receive loop that only consume a frame. *)
LEMMA ConsumeSteps ==
  ASSUME ForwardInv, up # <<>>, up' = Tail(up), hand = NoFrame,
         UNCHANGED <<cliVars, down, alive, pf, kubectl, conn, table, hand, panicked>>,
         listed' \in BOOLEAN, listed' => listed,
         Head(up).k = "data" => ~Flowing(Head(up).c)
  PROVE  ForwardInv'
<1> USE DEF ForwardInv, TypeOK
<1>1. Advances
  BY NothingMoves DEF cliVars
<1>2. TypeOK'
  BY UpTail, KeepTypes DEF cliVars, AgentTypeOK
<1>3. UpInv'
  <2>1. \A i \in 1..Len(up') : up'[i].k = "open" => conn'[up'[i].c].sock = "none"
    BY UpTail DEF UpInv
  <2> QED
    BY <1>1, <2>1, TailUp
<1>4. HandInv'
  BY DEF HandInv, NoFrame, Frame
<1>5. DownInv' /\ ConnInv' /\ ClientInv'
  BY <1>1, KeepDown, KeepConn, KeepClient DEF ClientInv, cliVars
<1>6. UpFlow'
  <2> SUFFICES ASSUME NEW d \in Conns, Flowing(d)'
               PROVE  Carries(up', d, Expected(d)', client'[d].sent, alive')
    BY DEF UpFlow
  <2>1. \A i \in 1..Len(up') : up'[i].k = "open" => \E j \in 1..Len(up) : up[j] = up'[i]
    BY UpTail
  <2>2. Flowing(d)
    BY <2>1, PendingStays DEF Flowing
  <2>3. ~IsData(Head(up), d)
    BY <2>2 DEF IsData
  <2>4. Expected(d)' = Expected(d)
    BY ExpectedStays
  <2> QED
    BY <2>2, <2>3, <2>4, FlowKept DEF cliVars, NetTypeOK
<1>7. DownFlow'
  BY KeepDownFlow DEF cliVars, NetTypeOK
<1> QED
  BY <1>2, <1>3, <1>4, <1>5, <1>6, <1>7

LEMMA RecvDroppedStep ==
  ASSUME ForwardInv, RecvDropped
  PROVE  ForwardInv'
<1>1. /\ up # <<>> /\ up' = Tail(up) /\ hand = NoFrame
      /\ UNCHANGED <<cliVars, down, alive, pf, listed, kubectl, conn, table, hand, panicked>>
      /\ Head(up).k = "data" => ~PfFor \/ Head(up).c \notin table
  BY DEF RecvDropped, Recv, agentVars
<1>2. ASSUME Head(up).k = "data" PROVE ~Flowing(Head(up).c)
  <2>c. PICK c : c = Head(up).c
    OBVIOUS
  <2>1. c \in 1..nextID /\ c \in Conns /\ 1 \in 1..Len(up) /\ Head(up) = up[1]
    BY <1>1, <1>2, <2>c, UpTail
  <2>2. pf # "starting"
    <3>1. nextID # 0
      BY <2>1, Fields DEF ForwardInv
    <3> QED
      BY <3>1 DEF ForwardInv, ClientInv
  <2>3. ~Pending(c)
    <3>1. hand.k = "ready"
      BY <1>1 DEF NoFrame, Frame
    <3>2. ASSUME NEW i \in 1..Len(up), up[i].k = "open", up[i].c = c PROVE FALSE
      <4>1. i # 1
        BY <2>1, <1>2, <3>2
      <4>2. Len(up) \in Nat
        BY DEF ForwardInv, TypeOK, NetTypeOK
      <4>3. 1 < i
        BY <4>1, <4>2
      <4> QED
        BY <4>3, <2>1, <1>2, <3>2, <2>c DEF ForwardInv, UpInv
    <3> QED
      BY <3>1, <3>2 DEF Pending
  <2>4. pf \in {"starting", "live", "shut", "ended"}
    BY DEF ForwardInv, TypeOK, AgentTypeOK
  <2> QED
    BY <1>1, <1>2, <2>c, <2>2, <2>3, <2>4 DEF Flowing, PfFor
<1>3. listed' \in BOOLEAN
  BY <1>1 DEF ForwardInv, TypeOK, AgentTypeOK
<1> QED
  BY <1>1, <1>2, <1>3, ConsumeSteps

LEMMA RecvCancelStep ==
  ASSUME ForwardInv, RecvCancel
  PROVE  ForwardInv'
BY ConsumeSteps DEF RecvCancel, Recv

LEMMA RecvTakeStep ==
  ASSUME ForwardInv, RecvTake
  PROVE  ForwardInv'
<1> USE DEF ForwardInv, TypeOK
<1>c. PICK c, n : c = Head(up).c /\ n = Head(up).n
  OBVIOUS
<1>0. /\ up # <<>> /\ up' = Tail(up) /\ hand = NoFrame /\ hand' = Head(up) /\ PfFor
      /\ Head(up).k \in {"open", "data"} /\ (Head(up).k = "data" => c \in table)
      /\ UNCHANGED <<cliVars, down, alive, pf, listed, kubectl, conn, table, panicked>>
  BY <1>c DEF RecvTake, Recv
<1>1. Advances
  BY <1>0, NothingMoves DEF cliVars
<1>2. c \in 1..nextID /\ c \in Conns /\ 1 \in 1..Len(up) /\ Head(up) = up[1] /\ Head(up) \in Frames
  BY <1>0, <1>c, UpTail
<1>3. TypeOK'
  BY <1>0, <1>2, UpTail, KeepTypes DEF cliVars, AgentTypeOK
<1>4. UpInv'
  <2>1. \A i \in 1..Len(up') : up'[i].k = "open" => conn'[up'[i].c].sock = "none"
    BY <1>0, UpTail DEF UpInv
  <2> QED
    BY <1>0, <1>1, <2>1, TailUp
<1>5. DownInv' /\ ConnInv' /\ ClientInv'
  BY <1>0, <1>1, KeepDown, KeepConn, KeepClient DEF ClientInv, cliVars
<1>6. DownFlow'
  BY <1>0, KeepDownFlow DEF cliVars, NetTypeOK
<1>7. \A d : ~IsData(hand, d) /\ hand.k \notin {"open", "dialled"}
  BY <1>0 DEF NoFrame, Frame, IsData
<1>8. ASSUME NEW d \in Conns, Flowing(d)' PROVE Flowing(d)
  <2>1. CASE hand'.k \in {"open", "dialled"} /\ hand'.c = d
    BY <1>0, <1>2, <1>8, <2>1 DEF Flowing, Pending
  <2>2. CASE ~(hand'.k \in {"open", "dialled"} /\ hand'.c = d)
    <3>1. \A i \in 1..Len(up') : \E j \in 1..Len(up) : up[j] = up'[i]
      BY <1>0, UpTail
    <3> QED
      BY <1>0, <1>8, <2>2, <3>1 DEF Flowing, Pending
  <2> QED
    BY <2>1, <2>2
<1>9. ASSUME NEW d \in Conns, Flowing(d)', ~IsData(Head(up), d)
      PROVE  Carries(up', d, Expected(d)', client'[d].sent, alive')
  <2>1. Expected(d)' = Expected(d)
    BY <1>0, <1>7, <1>9 DEF Expected, Taken, IsData
  <2> QED
    BY <1>0, <1>8, <1>9, <2>1, FlowKept DEF cliVars, NetTypeOK
<1>10. CASE Head(up).k = "open"
  <2>1. HandInv'
    <3>1. conn[c].sock = "none"
      BY <1>2, <1>10, <1>c DEF UpInv
    <3>2. \A i \in 1..Len(up') : up'[i].k = "open" => up'[i].c # c
      BY <1>0, <1>10, <1>c, UpTail
    <3> QED
      BY <1>0, <1>2, <1>10, <1>c, <3>1, <3>2 DEF HandInv, cliVars
  <2>2. UpFlow'
    BY <1>9, <1>10 DEF UpFlow, IsData
  <2> QED
    BY <2>1, <2>2, <1>3, <1>4, <1>5, <1>6
<1>11. CASE Head(up).k = "data"
  <2>t. PICK t, l : t = Taken(conn[c]) /\ l = client[c].sent
    OBVIOUS
  <2>1. t \in Nat /\ l \in 0..MaxChunks /\ l \in Nat /\ MaxChunks \in Nat /\ t + 1 \in Nat
    <3>1. t \in Nat /\ l \in 0..MaxChunks /\ l \in Nat /\ MaxChunks \in Nat
      BY <2>t, <1>2, Fields
    <3> QED
      BY <3>1
  <2>2. n \in 1..l
    BY <1>0, <1>11, <1>c, <2>t, UpTail
  <2>3. n \in 1..MaxChunks /\ n <= l
    BY <2>1, <2>2
  <2>4. Flowing(c) /\ Expected(c) = t + 1
    <3>1. Expected(c) = t + 1 + 0
      BY <1>7, <2>t DEF Expected
    <3> QED
      BY <3>1, <2>1, <1>0, <1>11 DEF Flowing, PfFor
  <2>5. Carries(up, c, t + 1, l, alive)
    BY <2>4, <2>t, <1>2 DEF UpFlow
  <2>6. n = t + 1 /\ Carries(up', c, t + 1 + 1, l, alive)
    <3>1. up \in Seq(Frames) /\ IsData(Head(up), c) /\ Ordered(up) /\ Head(up).n <= l
      BY <1>11, <1>c, <2>3 DEF NetTypeOK, UpInv, IsData
    <3> QED
      BY <3>1, <2>1, <2>5, <1>0, <1>2, <1>c, CarriesNext
  <2>7. Expected(c)' = t + 1 + 1
    <3>1. IsData(hand', c)
      BY <1>0, <1>11, <1>c DEF IsData
    <3>2. Taken(conn[c])' = t
      BY <1>0, <2>t DEF Taken
    <3> QED
      BY <3>1, <3>2 DEF Expected, IsData
  <2>8. HandInv'
    <3>1. conn[c].sock = "open"
      BY <1>0, <1>2, <1>11 DEF ConnInv, ConnOK
    <3>2. Taken(conn[c])' = t
      BY <1>0, <2>t DEF Taken
    <3>3. hand'.k = "data" /\ hand'.c = c /\ hand'.n = n
      BY <1>0, <1>11, <1>c
    <3> QED
      BY <1>0, <1>2, <2>3, <2>6, <3>1, <3>2, <3>3 DEF HandInv, cliVars
  <2>9. UpFlow'
    <3> SUFFICES ASSUME NEW d \in Conns, Flowing(d)'
                 PROVE  Carries(up', d, Expected(d)', client'[d].sent, alive')
      BY DEF UpFlow
    <3>1. CASE d = c
      BY <3>1, <2>6, <2>7, <2>t, <1>0 DEF cliVars
    <3>2. CASE d # c
      BY <3>2, <1>9, <1>c DEF IsData
    <3> QED
      BY <3>1, <3>2
  <2> QED
    BY <2>8, <2>9, <1>3, <1>4, <1>5, <1>6
<1> QED
  BY <1>0, <1>10, <1>11

LEMMA DialStep ==
  ASSUME ForwardInv, Dial
  PROVE  ForwardInv'
<1> USE DEF ForwardInv, TypeOK
<1>0. /\ hand.k = "open" /\ hand' = [hand EXCEPT !.k = "dialled"]
      /\ UNCHANGED <<cliVars, up, down, alive, pf, listed, kubectl, conn, table, panicked>>
  BY DEF Dial
<1>1. hand' \in Frames /\ hand'.k = "dialled" /\ hand'.c = hand.c
  <2>1. hand \in Frames
    BY DEF AgentTypeOK
  <2> QED
    BY <1>0, <2>1 DEF Frames, Kinds
<1>2. Advances
  BY <1>0, NothingMoves DEF cliVars
<1>3. TypeOK'
  BY <1>0, <1>1, KeepTypes DEF cliVars, AgentTypeOK
<1>4. UpInv' /\ DownInv' /\ ConnInv' /\ ClientInv'
  BY <1>0, <1>2, KeepUp, KeepDown, KeepConn, KeepClient DEF ClientInv, UpInv, cliVars
<1>5. HandInv'
  BY <1>0, <1>1 DEF HandInv, cliVars
<1>6. UpFlow'
  <2>1. ASSUME NEW d \in Conns, Flowing(d)'
        PROVE  Flowing(d) /\ Expected(d)' = Expected(d) /\ client'[d].sent = client[d].sent
    <3>1. Flowing(d)
      BY <1>0, <1>1, <2>1 DEF Flowing, Pending
    <3>2. Expected(d)' = Expected(d)
      BY <1>0, <1>1 DEF Expected, Taken, IsData
    <3> QED
      BY <3>1, <3>2, <1>0 DEF cliVars
  <2> QED
    BY <2>1, <1>0, KeepUpFlow DEF NetTypeOK
<1>7. DownFlow'
  BY <1>0, KeepDownFlow DEF cliVars, NetTypeOK
<1> QED
  BY <1>3, <1>4, <1>5, <1>6, <1>7
(* Telling kb that a connection has ended. *)
LEMMA TellClient ==
  ASSUME ForwardInv, Advances, UNCHANGED <<cliVars, pf>>, NEW f \in Frames, ToClient(f),
         f.k \in {"close", "connerror"}, f.c \in 1..nextID,
         \A c \in Conns : conn'[c].sent = conn[c].sent,
         \A i \in 1..Len(up) : up[i].k = "open" => conn'[up[i].c].sock = "none"
  PROVE  /\ NetTypeOK' /\ UpInv' /\ DownInv' /\ DownFlow' /\ ClientInv'
         /\ alive' \in BOOLEAN /\ (alive' => alive)
         /\ up' = up \/ \E g \in Frames : g.k # "data" /\ up' = Append(up, g)
         /\ \A i \in 1..Len(up') : up'[i].k = "open" => \E j \in 1..Len(up) : up[j] = up'[i]
<1> USE DEF ForwardInv
<1>1. UNCHANGED nextID
  BY DEF cliVars
<1>2. /\ UpInv' /\ DownInv'
      /\ \A i \in 1..Len(up') : up'[i].k = "open" => \E j \in 1..Len(up) : up[j] = up'[i]
  BY <1>1, ToClientChannels
<1>3. /\ NetTypeOK' /\ alive' \in BOOLEAN /\ (alive' => alive)
      /\ up' = up \/ up' = Append(up, Frame("cancel", 0, 0))
      /\ down' = down \/ down' = Append(down, f)
  BY ToClientFacts
<1>4. up' = up \/ \E g \in Frames : g.k # "data" /\ up' = Append(up, g)
  BY <1>3, CancelFrame
<1>5. DownFlow'
  BY <1>3, KeepDownFlow DEF cliVars
<1>6. ClientInv'
  <2>1. pf = "starting" => FALSE
    BY Fields DEF ClientInv
  <2> QED
    BY <2>1, KeepClient DEF cliVars
<1> QED
  BY <1>2, <1>3, <1>4, <1>5, <1>6

LEMMA EmptyHand ==
  ASSUME hand' = NoFrame
  PROVE  HandInv' /\ hand' \in Frames /\ \A d : ~IsData(hand', d) /\ hand'.k = "ready"
BY PortForwardAssumption DEF HandInv, NoFrame, Frame, Frames, Kinds, IsData

LEMMA OpenFailsStep ==
  ASSUME ForwardInv, OpenFails
  PROVE  ForwardInv'
<1> USE DEF ForwardInv, TypeOK
<1>f. PICK f : f = Frame("connerror", hand.c, 0)
  OBVIOUS
<1>0. /\ hand.k = "open" /\ hand' = NoFrame /\ ToClient(f)
      /\ UNCHANGED <<cliVars, pf, listed, kubectl, conn, table, panicked>>
  BY <1>f DEF OpenFails
<1>1. hand.c \in 1..nextID /\ hand.c \in Conns
  BY <1>0, Fields DEF HandInv
<1>2. f \in Frames /\ f.k = "connerror" /\ f.c = hand.c
  BY <1>f, <1>1, ConnsFacts, FrameFacts DEF Kinds
<1>3. Advances
  BY <1>0, NothingMoves DEF cliVars
<1>4. /\ NetTypeOK' /\ UpInv' /\ DownInv' /\ DownFlow' /\ ClientInv'
      /\ alive' \in BOOLEAN /\ (alive' => alive)
      /\ up' = up \/ \E g \in Frames : g.k # "data" /\ up' = Append(up, g)
      /\ \A i \in 1..Len(up') : up'[i].k = "open" => \E j \in 1..Len(up) : up[j] = up'[i]
  <2>1. \A i \in 1..Len(up) : up[i].k = "open" => conn'[up[i].c].sock = "none"
    BY <1>0 DEF UpInv
  <2> QED
    BY <1>0, <1>1, <1>2, <1>3, <2>1, TellClient
<1>5. TypeOK'
  BY <1>0, <1>4, EmptyHand, KeepTypes DEF cliVars, AgentTypeOK
<1>6. HandInv' /\ ConnInv'
  BY <1>0, <1>3, EmptyHand, KeepConn
<1>7. UpFlow'
  <2>1. ASSUME NEW d \in Conns, Flowing(d)'
        PROVE  Flowing(d) /\ Expected(d)' = Expected(d) /\ client'[d].sent = client[d].sent
    <3>1. Flowing(d)
      BY <1>0, <1>4, <2>1, EmptyHand, PendingStays DEF Flowing
    <3>2. Expected(d)' = Expected(d)
      BY <1>0, EmptyHand DEF Expected, Taken, IsData
    <3> QED
      BY <3>1, <3>2, <1>0 DEF cliVars
  <2> QED
    BY <2>1, <1>4, KeepUpFlow
<1> QED
  BY <1>4, <1>5, <1>6, <1>7

LEMMA OpenConnStep ==
  ASSUME ForwardInv, OpenConn
  PROVE  ForwardInv'
<1> USE DEF ForwardInv, TypeOK
<1>c. PICK c : c = hand.c
  OBVIOUS
<1>r. PICK r : r = [conn[c] EXCEPT !.sock = "open", !.writer = TRUE, !.reader = TRUE]
  OBVIOUS
<1>0. /\ hand.k = "dialled" /\ hand' = NoFrame
      /\ conn' = [conn EXCEPT ![c] = r] /\ table' = table \cup {c}
      /\ UNCHANGED <<cliVars, up, down, alive, pf, listed, kubectl, panicked>>
  BY <1>c, <1>r DEF OpenConn
<1>1. c \in 1..nextID /\ c \in Conns /\ conn[c].sock = "none" /\ c <= nextID
  BY <1>0, <1>c, Fields DEF HandInv
<1>2. conn[c] = NoConn /\ conn[c] \in AgentConns
  BY <1>1, Fields DEF ConnInv, ConnOK
<1>3. /\ r \in AgentConns /\ r.sock = "open" /\ r.writer /\ r.closed = 0
      /\ r.in = <<>> /\ r.got = <<>> /\ r.sent = 0
  <2>1. /\ r \in AgentConns /\ r.sock = "open" /\ r.writer /\ r.closed = conn[c].closed
        /\ r.in = conn[c].in /\ r.got = conn[c].got /\ r.sent = conn[c].sent
    BY <1>2, <1>r DEF AgentConns
  <2> QED
    BY <2>1, <1>2 DEF NoConn
<1>4. \A d \in Conns : conn'[d] = IF d = c THEN r ELSE conn[d]
  BY <1>0 DEF ConnTypeOK
<1>5. \A d \in Conns : conn'[d].sent = conn[d].sent /\ Taken(conn'[d]) = Taken(conn[d])
  <2>1. r.sent = conn[c].sent /\ r.got = conn[c].got /\ r.in = conn[c].in
    BY <1>2, <1>3 DEF NoConn
  <2>2. \A d \in Conns :
          conn'[d].sent = conn[d].sent /\ conn'[d].got = conn[d].got /\ conn'[d].in = conn[d].in
    BY <2>1, <1>4
  <2> QED
    BY <2>2 DEF Taken
<1>6. Advances
  <2>1. \A d \in Conns : conn[d].sent \in Nat /\ conn'[d].sent = conn[d].sent
    BY <1>5, Fields
  <2>2. \A d \in Conns : conn[d].sock # "none" => conn'[d].sock # "none"
    BY <1>3, <1>4
  <2>3. UNCHANGED <<nextID, client>>
    BY <1>0 DEF cliVars
  <2>4. \A d \in Conns : conn'[d].sent \in Nat /\ conn[d].sent <= conn'[d].sent
    BY <2>1
  <2> QED
    BY <2>2, <2>3, <2>4, AgentAdvances
<1>7. TypeOK'
  <2>1. ConnTypeOK'
    <3>1. conn' \in [Conns -> AgentConns]
      BY <1>0, <1>3 DEF ConnTypeOK
    <3>2. \A d \in Conns : Len(conn'[d].in) <= InBuf
      <4>1. Len(<<>>) <= InBuf
        BY PortForwardAssumption
      <4> QED
        BY <4>1, <1>3, <1>4 DEF ConnTypeOK
    <3> QED
      BY <3>1, <3>2, <1>0, <1>1 DEF ConnTypeOK
  <2> QED
    BY <1>0, <2>1, EmptyHand, KeepTypes DEF cliVars, AgentTypeOK
<1>8. ConnInv'
  <2>1. ConnOK(r, c)'
    BY <1>0, <1>1, <1>3 DEF ConnOK, cliVars
  <2> QED
    BY <1>0, <1>1, <2>1, MoveConn DEF cliVars
<1>9. UpInv'
  <2>1. ASSUME NEW i \in 1..Len(up), up[i].k = "open" PROVE conn'[up[i].c].sock = "none"
    <3>1. up[i].c \in Conns /\ up[i].c # c /\ conn[up[i].c].sock = "none"
      BY <2>1, <1>0, <1>c, Fields DEF UpInv, HandInv
    <3> QED
      BY <3>1, <1>4
  <2> QED
    BY <1>0, <1>6, <2>1, KeepUp
<1>10. DownInv' /\ ClientInv' /\ HandInv'
  BY <1>0, <1>6, EmptyHand, KeepDown, KeepClient DEF ClientInv, cliVars
<1>11. UpFlow'
  <2>1. ASSUME NEW d \in Conns, Flowing(d)'
        PROVE  Flowing(d) /\ Expected(d)' = Expected(d) /\ client'[d].sent = client[d].sent
    <3>1. Flowing(d)
      <4>1. Pending(c)
        BY <1>0, <1>c DEF Pending
      <4>2. Pending(d)' => Pending(d)
        BY <1>0, EmptyHand DEF Pending
      <4> QED
        BY <1>0, <2>1, <4>1, <4>2 DEF Flowing
    <3>2. Expected(d)' = Expected(d)
      <4>1. ~IsData(hand, d) /\ ~IsData(hand', d)
        BY <1>0, EmptyHand DEF IsData
      <4>2. Taken(conn[d])' = Taken(conn[d])
        BY <1>5 DEF Taken
      <4> QED
        BY <4>1, <4>2 DEF Expected, IsData
    <3> QED
      BY <3>1, <3>2, <1>0 DEF cliVars
  <2> QED
    BY <2>1, <1>0, KeepUpFlow DEF NetTypeOK
<1>12. DownFlow'
  BY <1>0, <1>5, KeepDownFlow DEF cliVars, NetTypeOK
<1> QED
  BY <1>7, <1>8, <1>9, <1>10, <1>11, <1>12

(* closeConn and shutdown, of connections that are in the table. *)
LEMMA ClosedFacts ==
  ASSUME ForwardInv, NEW S, S \subseteq table, Closed(S), UNCHANGED <<nextID, client>>
  PROVE  /\ Advances /\ ConnTypeOK' /\ ConnInv'
         /\ \A d \in Conns :
              /\ conn'[d].sent = conn[d].sent
              /\ conn'[d].closed = 0 => conn'[d] = conn[d]
              /\ d \notin S => conn'[d] = conn[d]
              /\ conn[d].sock = "none" => conn'[d].sock = "none"
         /\ table' = table \ S
<1> USE DEF ForwardInv, TypeOK
<1>0. /\ conn' = [c \in Conns |-> IF c \in S
                              THEN [conn[c] EXCEPT !.closed = conn[c].closed + 1, !.sock = "closed"] ELSE conn[c]]
      /\ table' = table \ S
  BY DEF Closed
<1>1. ASSUME NEW d \in Conns, d \notin S
      PROVE  conn'[d] = conn[d] /\ ConnOK(conn[d], d)'
  <2>1. conn'[d] = conn[d]
    BY <1>0, <1>1
  <2>2. ConnOK(conn[d], d)
    BY DEF ConnInv
  <2> QED
    BY <2>1, <2>2, <1>0, <1>1 DEF ConnOK
<1>2. ASSUME NEW d \in S
      PROVE  /\ d \in Conns /\ conn[d].sock = "open" /\ conn'[d].closed = 1 /\ conn'[d].sock = "closed"
             /\ conn'[d] \in AgentConns /\ conn'[d].sent = conn[d].sent /\ conn'[d].in = conn[d].in
             /\ ConnOK(conn[d], d)'
  <2>1. d \in Conns /\ conn[d] \in AgentConns /\ ConnOK(conn[d], d)
    BY Fields DEF ConnTypeOK, ConnInv
  <2>2. conn[d].sock = "open" /\ conn[d].closed = 0
    BY <2>1 DEF ConnOK
  <2>r. PICK r : r = [conn[d] EXCEPT !.closed = 1, !.sock = "closed"]
    OBVIOUS
  <2>3. /\ r \in AgentConns /\ r.closed = 1 /\ r.sock = "closed" /\ r.sent = conn[d].sent /\ r.in = conn[d].in
        /\ r.got = conn[d].got /\ r.writer = conn[d].writer
    <3>1. 1 \in 0..2
      OBVIOUS
    <3> QED
      BY <3>1, <2>1, <2>r DEF AgentConns
  <2>4. conn'[d] = r
    <3>1. conn[d].closed + 1 = 1
      BY <2>2
    <3> QED
      BY <3>1, <1>0, <2>1, <2>r
  <2>5. ConnOK(r, d)'
    BY <1>0, <2>1, <2>2, <2>3 DEF ConnOK
  <2>6. ConnOK(conn[d], d)'
    BY <2>4, <2>5 DEF ConnOK
  <2> QED
    BY <2>1, <2>2, <2>3, <2>4, <2>6
<1>3. ConnInv'
  BY <1>1, <1>2 DEF ConnInv
<1>4. ConnTypeOK'
  <2>1. \A d \in Conns : conn'[d] \in AgentConns /\ Len(conn'[d].in) <= InBuf
    <3>1. \A d \in Conns : conn[d] \in AgentConns /\ Len(conn[d].in) <= InBuf
      BY Fields DEF ConnTypeOK
    <3> QED
      BY <3>1, <1>1, <1>2
  <2>2. conn' \in [Conns -> AgentConns]
    BY <2>1, <1>0
  <2> QED
    BY <2>1, <2>2, <1>0 DEF ConnTypeOK
<1>5. ASSUME NEW d \in Conns
      PROVE  /\ conn'[d].sent = conn[d].sent
             /\ conn'[d].closed = 0 => conn'[d] = conn[d]
             /\ conn[d].sock = "none" => conn'[d].sock = "none"
             /\ conn[d].sock # "none" => conn'[d].sock # "none"
  BY <1>1, <1>2
<1>6. Advances
  <2>1. \A d \in Conns : conn[d].sent \in Nat
    BY Fields
  <2>2. \A d \in Conns : conn'[d].sent \in Nat /\ conn[d].sent <= conn'[d].sent
    BY <2>1, <1>5
  <2> QED
    BY <2>2, <1>5, AgentAdvances
<1> QED
  BY <1>0, <1>1, <1>3, <1>4, <1>5, <1>6

(* A connection in the table is no longer on its way. *)
LEMMA TableNotPending ==
  ASSUME ForwardInv, NEW c \in table
  PROVE  ~Pending(c)
<1>1. c \in Conns /\ conn[c].sock = "open"
  BY DEF ForwardInv, TypeOK, ConnTypeOK, ConnInv, ConnOK
<1> QED
  BY <1>1 DEF ForwardInv, Pending, UpInv, HandInv
LEMMA RecvCloseStep ==
  ASSUME ForwardInv, RecvClose
  PROVE  ForwardInv'
<1> USE DEF ForwardInv, TypeOK
<1>s. PICK S : S = {Head(up).c}
  OBVIOUS
<1>0. /\ up # <<>> /\ up' = Tail(up) /\ hand = NoFrame /\ Head(up).k = "close"
      /\ S \subseteq table /\ Closed(S)
      /\ UNCHANGED <<cliVars, down, alive, pf, listed, kubectl, hand, panicked>>
  BY <1>s DEF RecvClose, Recv
<1>1. UNCHANGED <<nextID, client>>
  BY <1>0 DEF cliVars
<1>2. /\ Advances /\ ConnTypeOK' /\ ConnInv'
      /\ \A d \in Conns : /\ conn'[d].sent = conn[d].sent
                          /\ d \notin S => conn'[d] = conn[d]
                          /\ conn[d].sock = "none" => conn'[d].sock = "none"
      /\ table' = table \ S
  BY <1>0, <1>1, ClosedFacts
<1>3. TypeOK'
  BY <1>0, <1>2, UpTail, KeepTypes DEF cliVars
<1>4. UpInv'
  <2>1. ASSUME NEW i \in 1..Len(up'), up'[i].k = "open" PROVE conn'[up'[i].c].sock = "none"
    <3>1. PICK j \in 1..Len(up) : up[j] = up'[i]
      BY <1>0, UpTail
    <3>2. up[j].c \in Conns /\ conn[up[j].c].sock = "none"
      BY <2>1, <3>1, Fields DEF UpInv
    <3> QED
      BY <3>1, <3>2, <1>2
  <2> QED
    BY <1>0, <1>2, <2>1, TailUp
<1>5. DownInv' /\ ClientInv' /\ HandInv'
  BY <1>0, <1>2, EmptyHand, KeepDown, KeepClient DEF ClientInv, cliVars
<1>6. UpFlow'
  <2> SUFFICES ASSUME NEW d \in Conns, Flowing(d)'
               PROVE  Carries(up', d, Expected(d)', client'[d].sent, alive')
    BY DEF UpFlow
  <2>1. Pending(d)' => Pending(d)
    <3>1. \A i \in 1..Len(up') : up'[i].k = "open" => \E j \in 1..Len(up) : up[j] = up'[i]
      BY <1>0, UpTail
    <3> QED
      BY <1>0, <3>1, PendingStays
  <2>2. Flowing(d) /\ d \notin S
    BY <1>0, <1>2, <2>1, TableNotPending DEF Flowing
  <2>3. Expected(d)' = Expected(d)
    BY <1>0, <1>2, <2>2 DEF Expected, Taken, IsData
  <2>4. ~IsData(Head(up), d)
    BY <1>0 DEF IsData
  <2> QED
    BY <1>0, <1>1, <2>2, <2>3, <2>4, FlowKept DEF NetTypeOK
<1>7. DownFlow'
  BY <1>0, <1>1, <1>2, KeepDownFlow DEF NetTypeOK
<1> QED
  BY <1>2, <1>3, <1>4, <1>5, <1>6, <1>7

LEMMA ShutdownStep ==
  ASSUME ForwardInv, Shutdown
  PROVE  ForwardInv'
<1> USE DEF ForwardInv, TypeOK
<1>0. /\ pf = "live" /\ kubectl' = FALSE /\ pf' = "shut" /\ Closed(table)
      /\ UNCHANGED <<cliVars, up, down, alive, listed, hand, panicked>>
  BY DEF Shutdown
<1>1. UNCHANGED <<nextID, client>>
  BY <1>0 DEF cliVars
<1>2. /\ Advances /\ ConnTypeOK' /\ ConnInv'
      /\ \A d \in Conns : /\ conn'[d].sent = conn[d].sent
                          /\ conn'[d].closed = 0 => conn'[d] = conn[d]
                          /\ d \notin table => conn'[d] = conn[d]
                          /\ conn[d].sock = "none" => conn'[d].sock = "none"
      /\ table' = table \ table
  <2>1. table \subseteq table
    OBVIOUS
  <2> QED
    BY <1>0, <1>1, <2>1, ClosedFacts
<1>3. TypeOK'
  BY <1>0, <1>2, KeepTypes DEF cliVars, AgentTypeOK
<1>4. UpInv'
  <2>1. ASSUME NEW i \in 1..Len(up), up[i].k = "open" PROVE conn'[up[i].c].sock = "none"
    BY <2>1, <1>2, Fields DEF UpInv
  <2> QED
    BY <1>0, <1>2, <2>1, KeepUp
<1>5. HandInv'
  <2>1. hand.k \in {"open", "dialled", "data"} => hand.c \in Conns
    BY Fields DEF HandInv
  <2>2. hand.k \in {"open", "dialled"} =>
           /\ conn'[hand.c].sock = "none"
           /\ \A i \in 1..Len(up') : up'[i].k = "open" => up'[i].c # hand.c
    BY <2>1, <1>0, <1>2 DEF HandInv
  <2>3. hand.k = "data" /\ conn'[hand.c].closed = 0 =>
           conn[hand.c].closed = 0 /\ Taken(conn'[hand.c]) = Taken(conn[hand.c])
    BY <2>1, <1>2
  <2> QED
    BY <2>2, <2>3, <1>0, <1>2, KeepHand
<1>6. DownInv' /\ ClientInv'
  BY <1>0, <1>2, KeepDown, KeepClient DEF cliVars
<1>7. UpFlow'
  <2>1. ASSUME NEW d \in Conns, Flowing(d)'
        PROVE  Flowing(d) /\ Expected(d)' = Expected(d) /\ client'[d].sent = client[d].sent
    <3>1. Flowing(d) /\ d \notin table
      <4>1. Pending(d)
        BY <1>0, <1>2, <2>1 DEF Flowing, Pending
      <4> QED
        BY <4>1, <1>0, <2>1, TableNotPending DEF Flowing
    <3>2. Expected(d)' = Expected(d)
      BY <1>0, <1>2, <3>1 DEF Expected, Taken, IsData
    <3> QED
      BY <3>1, <3>2, <1>1
  <2> QED
    BY <2>1, <1>0, KeepUpFlow DEF NetTypeOK
<1>8. DownFlow'
  BY <1>0, <1>1, <1>2, KeepDownFlow DEF NetTypeOK
<1> QED
  BY <1>2, <1>3, <1>4, <1>5, <1>6, <1>7, <1>8

LEMMA DataSendStep ==
  ASSUME ForwardInv, DataSend
  PROVE  ForwardInv'
<1> USE DEF ForwardInv, TypeOK
<1>c. PICK c : c = hand.c
  OBVIOUS
<1>0. /\ hand.k = "data" /\ hand' = NoFrame /\ UNCHANGED <<cliVars, pf, listed, kubectl>>
  BY DEF DataSend
<1>u. UNCHANGED <<nextID, client>>
  BY <1>0 DEF cliVars
<1>1. /\ c \in 1..nextID /\ c \in Conns /\ hand.n \in 1..MaxChunks /\ conn[c].sock # "none"
      /\ conn[c].closed = 0 => hand.n = Taken(conn[c]) + 1
  BY <1>0, <1>c, Fields DEF HandInv
<1>2. ConnOK(conn[c], c) /\ conn[c] \in AgentConns
  BY <1>1, Fields DEF ConnInv
<1>3. /\ conn[c].closed = 0 => conn[c].sock = "open" /\ c \in table
      /\ conn[c].closed > 0 => conn[c].sock = "closed" /\ c \notin table
  BY <1>1, <1>2 DEF ConnOK, AgentConns
<1>4. /\ \A d : d # c => ~IsData(hand, d)
      /\ \A d : ~IsData(hand', d) /\ hand'.k = "ready"
      /\ IsData(hand, c)
  BY <1>0, <1>c, EmptyHand DEF IsData
<1>5. ~Pending(c)
  BY <1>0, <1>1 DEF Pending, UpInv
<1>6. ASSUME NEW d \in Conns, d # c, conn'[d] = conn[d]
      PROVE  Expected(d)' = Expected(d)
  <2>1. Taken(conn[d])' = Taken(conn[d])
    BY <1>6 DEF Taken
  <2> QED
    BY <2>1, <1>4, <1>6 DEF Expected, IsData
<1>7. CASE conn[c].closed > 0 /\ panicked' = TRUE /\ UNCHANGED <<conn, table, up, down, alive>>
  <2>1. Advances
    BY <1>7, <1>u, NothingMoves
  <2>2. TypeOK'
    BY <1>0, <1>7, EmptyHand, KeepTypes DEF cliVars, AgentTypeOK
  <2>3. UpInv' /\ DownInv' /\ ConnInv' /\ ClientInv' /\ HandInv'
    BY <1>0, <1>7, <2>1, EmptyHand, KeepUp, KeepDown, KeepConn, KeepClient DEF ClientInv, UpInv, cliVars
  <2>4. UpFlow'
    <3>1. ASSUME NEW d \in Conns, Flowing(d)'
          PROVE  Flowing(d) /\ Expected(d)' = Expected(d) /\ client'[d].sent = client[d].sent
      <4>1. Flowing(d)
        BY <1>0, <1>4, <1>7, <3>1 DEF Flowing, Pending
      <4>2. d # c
        BY <1>3, <1>5, <1>7, <4>1 DEF Flowing
      <4> QED
        BY <4>1, <4>2, <1>6, <1>7, <1>u
    <3> QED
      BY <3>1, <1>7, KeepUpFlow DEF NetTypeOK
  <2>5. DownFlow'
    BY <1>7, <1>u, KeepDownFlow DEF NetTypeOK
  <2> QED
    BY <2>2, <2>3, <2>4, <2>5
<1>8. CASE /\ conn[c].closed = 0 /\ Len(conn[c].in) < InBuf
           /\ conn' = [conn EXCEPT ![c].in = Append(@, hand.n)]
           /\ UNCHANGED <<table, panicked, up, down, alive>>
  <2>q. PICK q, p : q = conn[c].in /\ p = Append(q, hand.n)
    OBVIOUS
  <2>r. PICK r : r = [conn[c] EXCEPT !.in = p]
    OBVIOUS
  <2>1. /\ q \in Seq(1..MaxChunks) /\ Len(q) \in Nat /\ InBuf \in Nat /\ Len(q) < InBuf
    BY <1>1, <1>8, <2>q, Fields, PortForwardAssumption
  <2>2. /\ p \in Seq(1..MaxChunks) /\ Len(p) = Len(q) + 1
        /\ \A i \in 1..Len(p) : (i \in 1..Len(q) /\ p[i] = q[i]) \/ (i = Len(q) + 1 /\ p[i] = hand.n)
    BY <2>1, <1>1, <2>q
  <2>3. Len(p) <= InBuf
    BY <2>1, <2>2
  <2>4. /\ r \in AgentConns /\ r.in = p /\ r.got = conn[c].got /\ r.sent = conn[c].sent
        /\ r.sock = "open" /\ r.closed = 0 /\ r.writer = conn[c].writer /\ r.reader = conn[c].reader
    BY <1>2, <1>3, <1>8, <2>2, <2>r DEF AgentConns
  <2>5. conn' = [conn EXCEPT ![c] = r]
    BY <1>8, <2>q, <2>r DEF ConnTypeOK
  <2>6. \A d \in Conns : conn'[d] = IF d = c THEN r ELSE conn[d]
    BY <2>5 DEF ConnTypeOK
  <2>7. \A d \in Conns : /\ conn'[d].sent = conn[d].sent
                         /\ conn[d].sock # "none" => conn'[d].sock # "none"
                         /\ conn[d].sock = "none" => conn'[d].sock = "none"
    BY <1>1, <2>4, <2>6
  <2>8. Advances
    <3>1. \A d \in Conns : conn[d].sent \in Nat
      BY Fields
    <3>2. \A d \in Conns : conn'[d].sent \in Nat /\ conn[d].sent <= conn'[d].sent
      BY <3>1, <2>7
    <3> QED
      BY <3>2, <2>7, <1>u, AgentAdvances
  <2>g. PICK g \in Nat, b \in Nat : g = Len(conn[c].got) /\ b = Len(q)
    BY <2>1, <1>1, Fields
  <2>9. Taken(conn[c]) = g + b /\ Taken(r) = g + b + 1 /\ hand.n = g + b + 1
    <3>1. Taken(conn[c]) = g + b
      BY <2>g, <2>q DEF Taken
    <3>2. Taken(r) = g + (b + 1)
      BY <2>g, <2>2, <2>4 DEF Taken
    <3> QED
      BY <3>1, <3>2, <1>1, <1>8
  <2>10. ConnInv'
    <3>1. \A i \in 1..Len(p) : p[i] = g + i
      <4>1. \A i \in 1..Len(q) : q[i] = g + i
        BY <1>2, <1>3, <1>8, <2>g, <2>q DEF ConnOK
      <4> TAKE i \in 1..Len(p)
      <4>2. CASE i \in 1..Len(q) /\ p[i] = q[i]
        BY <4>1, <4>2
      <4>3. CASE i = b + 1 /\ p[i] = g + b + 1
        BY <4>3
      <4> QED
        BY <4>2, <4>3, <2>2, <2>9, <2>g
    <3>2. ConnOK(r, c)'
      BY <3>1, <1>2, <1>3, <1>8, <1>u, <2>4, <2>g DEF ConnOK
    <3> QED
      BY <3>2, <2>5, <1>1, <1>8, <1>u, MoveConn
  <2>11. TypeOK'
    <3>1. ConnTypeOK'
      <4>1. conn' \in [Conns -> AgentConns]
        BY <2>4, <2>5 DEF ConnTypeOK
      <4>2. \A d \in Conns : Len(conn'[d].in) <= InBuf
        BY <2>3, <2>4, <2>6 DEF ConnTypeOK
      <4> QED
        BY <4>1, <4>2, <1>8 DEF ConnTypeOK
    <3> QED
      BY <3>1, <1>0, <1>8, EmptyHand, KeepTypes DEF cliVars, AgentTypeOK
  <2>12. UpInv'
    <3>1. \A i \in 1..Len(up) : up[i].k = "open" => conn'[up[i].c].sock = "none"
      BY <2>7, Fields DEF UpInv
    <3> QED
      BY <3>1, <2>8, <1>8, KeepUp
  <2>13. DownInv' /\ ClientInv' /\ HandInv'
    BY <1>0, <1>8, <2>8, EmptyHand, KeepDown, KeepClient DEF ClientInv, cliVars
  <2>14. UpFlow'
    <3>1. ASSUME NEW d \in Conns, Flowing(d)'
          PROVE  Flowing(d) /\ Expected(d)' = Expected(d) /\ client'[d].sent = client[d].sent
      <4>1. Flowing(d)
        BY <1>0, <1>4, <1>8, <3>1 DEF Flowing, Pending
      <4>2. CASE d # c
        BY <4>1, <4>2, <1>6, <2>6, <1>u
      <4>3. CASE d = c
        <5>1. Expected(c) = g + b + 1 + 1
          BY <1>4, <2>9 DEF Expected
        <5>2. Taken(conn[c])' = g + b + 1
          <6>1. conn'[c] = r
            BY <2>6, <1>1
          <6> QED
            BY <6>1, <2>9 DEF Taken
        <5>3. Expected(c)' = g + b + 1 + 1 + 0
          BY <5>2, <1>4 DEF Expected, IsData
        <5> QED
          BY <4>1, <4>3, <5>1, <5>3, <1>u
      <4> QED
        BY <4>2, <4>3
    <3> QED
      BY <3>1, <1>8, KeepUpFlow DEF NetTypeOK
  <2>15. DownFlow'
    BY <1>8, <1>u, <2>7, KeepDownFlow DEF NetTypeOK
  <2> QED
    BY <2>10, <2>11, <2>12, <2>13, <2>14, <2>15
<1>9. CASE /\ conn[c].closed = 0 /\ Closed(table \cap {c})
           /\ ToClient(Frame("connerror", c, 0)) /\ UNCHANGED panicked
  <2>s. PICK S, f : S = table \cap {c} /\ f = Frame("connerror", c, 0)
    OBVIOUS
  <2>1. S \subseteq table /\ c \in S /\ Closed(S) /\ ToClient(f) /\ \A d : d # c => d \notin S
    BY <1>3, <1>9, <2>s
  <2>2. f \in Frames /\ f.k = "connerror" /\ f.c = c
    BY <2>s, <1>1, ConnsFacts, FrameFacts DEF Kinds
  <2>3. /\ Advances /\ ConnTypeOK' /\ ConnInv'
        /\ \A d \in Conns : /\ conn'[d].sent = conn[d].sent
                            /\ d \notin S => conn'[d] = conn[d]
                            /\ conn[d].sock = "none" => conn'[d].sock = "none"
        /\ table' = table \ S
    BY <2>1, <1>u, ClosedFacts
  <2>4. /\ NetTypeOK' /\ UpInv' /\ DownInv' /\ DownFlow' /\ ClientInv'
        /\ alive' \in BOOLEAN /\ (alive' => alive)
        /\ up' = up \/ \E g \in Frames : g.k # "data" /\ up' = Append(up, g)
        /\ \A i \in 1..Len(up') : up'[i].k = "open" => \E j \in 1..Len(up) : up[j] = up'[i]
    <3>1. \A i \in 1..Len(up) : up[i].k = "open" => conn'[up[i].c].sock = "none"
      BY <2>3, Fields DEF UpInv
    <3> QED
      BY <3>1, <1>0, <1>1, <2>1, <2>2, <2>3, TellClient
  <2>5. TypeOK'
    BY <1>0, <1>9, <2>3, <2>4, EmptyHand, KeepTypes DEF cliVars, AgentTypeOK
  <2>6. UpFlow'
    <3>1. ASSUME NEW d \in Conns, Flowing(d)'
          PROVE  Flowing(d) /\ Expected(d)' = Expected(d) /\ client'[d].sent = client[d].sent
      <4>1. Pending(d)' => Pending(d)
        BY <1>4, <2>4, PendingStays
      <4>2. Flowing(d) /\ d # c
        BY <4>1, <3>1, <1>0, <1>5, <2>1, <2>3 DEF Flowing
      <4> QED
        BY <4>2, <1>6, <1>u, <2>1, <2>3
    <3> QED
      BY <3>1, <2>4, KeepUpFlow
  <2> QED
    BY <2>3, <2>4, <2>5, <2>6, <1>0, EmptyHand
<1> QED
  BY <1>c, <1>7, <1>8, <1>9 DEF DataSend
(* What the goroutines of connection c do to it: c is never opened or      *)
(* emptied by them.                                                        *)
LEMMA GoroutineSteps ==
  ASSUME ForwardInv, NEW c \in Conns, NEW r \in AgentConns, conn' = [conn EXCEPT ![c] = r],
         conn[c].sock # "none", r.sock # "none", r.sent = conn[c].sent, Len(r.in) <= InBuf,
         r.closed = 0 => conn[c].closed = 0,
         r.sock = "open" \/ r.closed = 0 => Taken(r) = Taken(conn[c]),
         table' \subseteq table, \A d \in Conns : d # c => (d \in table' <=> d \in table),
         ConnOK(r, c)',
         UNCHANGED <<cliVars, pf, listed, kubectl, hand, panicked>>,
         UNCHANGED <<up, down, alive>> \/
           \E f \in Frames : ToClient(f) /\ f.k = "close" /\ f.c = c
  PROVE  ForwardInv'
<1> USE DEF ForwardInv, TypeOK
<1>u. UNCHANGED <<nextID, client>>
  BY DEF cliVars
<1>1. \A d \in Conns : conn'[d] = IF d = c THEN r ELSE conn[d]
  BY DEF ConnTypeOK
<1>2. \A d \in Conns : /\ conn'[d].sent = conn[d].sent
                       /\ conn[d].sock # "none" => conn'[d].sock # "none"
                       /\ conn[d].sock = "none" => conn'[d].sock = "none"
  BY <1>1
<1>3. Advances
  <2>1. \A d \in Conns : conn[d].sent \in Nat
    BY Fields
  <2>2. \A d \in Conns : conn'[d].sent \in Nat /\ conn[d].sent <= conn'[d].sent
    BY <2>1, <1>2
  <2> QED
    BY <2>2, <1>2, <1>u, AgentAdvances
<1>4. c \in 1..nextID
  <2>1. c <= nextID
    BY DEF ConnInv, ConnOK
  <2> QED
    BY <2>1, ConnsFacts, Fields
<1>5. \A i \in 1..Len(up) : up[i].k = "open" => conn'[up[i].c].sock = "none"
  BY <1>2, Fields DEF UpInv
<1>6. /\ NetTypeOK' /\ UpInv' /\ DownInv' /\ DownFlow' /\ ClientInv'
      /\ alive' \in BOOLEAN /\ (alive' => alive)
      /\ up' = up \/ \E g \in Frames : g.k # "data" /\ up' = Append(up, g)
      /\ \A i \in 1..Len(up') : up'[i].k = "open" => \E j \in 1..Len(up) : up[j] = up'[i]
  <2>1. CASE UNCHANGED <<up, down, alive>>
    <3>1. UpInv' /\ DownInv' /\ ClientInv'
      BY <1>3, <1>5, <2>1, KeepUp, KeepDown, KeepClient DEF ClientInv, cliVars
    <3>2. DownFlow'
      BY <1>2, <1>u, <2>1, KeepDownFlow DEF NetTypeOK
    <3> QED
      BY <3>1, <3>2, <2>1, KeepTypes DEF NetTypeOK
  <2>2. CASE \E f \in Frames : ToClient(f) /\ f.k = "close" /\ f.c = c
    <3>1. PICK f \in Frames : ToClient(f) /\ f.k = "close" /\ f.c = c
      BY <2>2
    <3> QED
      BY <3>1, <1>2, <1>3, <1>4, <1>5, TellClient
  <2> QED
    BY <2>1, <2>2
<1>7. TypeOK'
  <2>1. conn' \in [Conns -> AgentConns]
    BY DEF ConnTypeOK
  <2>2. \A d \in Conns : Len(conn'[d].in) <= InBuf
    BY <1>1 DEF ConnTypeOK
  <2>3. ConnTypeOK'
    BY <2>1, <2>2 DEF ConnTypeOK
  <2> QED
    BY <2>3, <1>6, KeepTypes DEF cliVars
<1>8. ConnInv'
  BY <1>u, MoveConn
<1>9. HandInv'
  <2>1. hand.k \in {"open", "dialled", "data"} => hand.c \in Conns
    BY Fields DEF HandInv
  <2>2. hand.k \in {"open", "dialled"} =>
           /\ conn'[hand.c].sock = "none"
           /\ \A i \in 1..Len(up') : up'[i].k = "open" => up'[i].c # hand.c
    BY <2>1, <1>2, <1>6 DEF HandInv
  <2>3. hand.k = "data" /\ conn'[hand.c].closed = 0 =>
           conn[hand.c].closed = 0 /\ Taken(conn'[hand.c]) = Taken(conn[hand.c])
    BY <2>1, <1>1
  <2> QED
    BY <2>2, <2>3, <1>3, KeepHand
<1>10. UpFlow'
  <2>1. ASSUME NEW d \in Conns, Flowing(d)'
        PROVE  Flowing(d) /\ Expected(d)' = Expected(d) /\ client'[d].sent = client[d].sent
    <3>1. Pending(d)' => Pending(d)
      BY <1>6, PendingStays
    <3>2. Flowing(d)
      BY <3>1, <2>1 DEF Flowing
    <3>3. Taken(conn'[d]) = Taken(conn[d])
      <4>1. CASE d # c
        BY <4>1, <1>1
      <4>2. CASE d = c
        <5>1. ~Pending(c)
          BY DEF Pending, UpInv, HandInv
        <5>2. c \in table'
          BY <5>1, <3>1, <2>1, <4>2 DEF Flowing
        <5>3. r.sock = "open"
          BY <5>2 DEF ConnOK
        <5> QED
          BY <5>3, <4>2, <1>1
      <4> QED
        BY <4>1, <4>2
    <3>4. Taken(conn[d])' = Taken(conn[d])
      BY <3>3 DEF Taken
    <3> QED
      BY <3>2, <3>4, <1>u DEF Expected, IsData
  <2> QED
    BY <2>1, <1>6, KeepUpFlow
<1> QED
  BY <1>6, <1>7, <1>8, <1>9, <1>10

(* The writer moves chunks of a connection from its channel to the pod. *)
LEMMA WriterStep ==
  ASSUME ForwardInv, NEW c \in Conns, Writer(c)
  PROVE  ForwardInv'
<1> USE DEF ForwardInv, TypeOK
<1>0. /\ conn[c].writer
      /\ UNCHANGED <<cliVars, up, down, alive, pf, listed, kubectl, table, hand, panicked>>
  BY DEF Writer
<1>q. PICK q, g, h : q = conn[c].in /\ g = conn[c].got /\ h = Head(q)
  OBVIOUS
<1>1. /\ conn[c] \in AgentConns /\ ConnOK(conn[c], c) /\ Len(q) <= InBuf
      /\ q \in Seq(1..MaxChunks) /\ g \in Seq(1..MaxChunks)
  BY <1>q, Fields DEF ConnInv, ConnTypeOK
<1>2. conn[c].sock # "none"
  <2>1. conn[c] # NoConn
    BY <1>0 DEF NoConn
  <2> QED
    BY <2>1, <1>1 DEF ConnOK
<1>3. /\ \A i \in 1..Len(q) : q[i] = Len(g) + i
      /\ \A i \in 1..Len(g) : g[i] = i
  BY <1>0, <1>1, <1>q DEF ConnOK
<1>l. PICK a \in Nat, b \in Nat : a = Len(g) /\ b = Len(q)
  BY <1>1
<1>4. ASSUME q # <<>>
      PROVE  /\ Tail(q) \in Seq(1..MaxChunks) /\ b > 0 /\ Len(Tail(q)) = b - 1 /\ Len(Tail(q)) <= InBuf
             /\ h \in 1..MaxChunks /\ h = a + 1
             /\ \A i \in 1..Len(Tail(q)) : Tail(q)[i] = a + 1 + i
  <2>1. /\ Tail(q) \in Seq(1..MaxChunks) /\ Len(Tail(q)) = b - 1 /\ b > 0
        /\ h \in 1..MaxChunks /\ h = q[1] /\ 1 \in 1..Len(q)
        /\ \A i \in 1..Len(Tail(q)) : i + 1 \in 1..Len(q) /\ Tail(q)[i] = q[i + 1]
    <3>1. q \in Seq(1..MaxChunks) /\ q # <<>> /\ h = Head(q)
      BY <1>1, <1>4, <1>q
    <3>2. /\ Tail(q) \in Seq(1..MaxChunks) /\ Len(Tail(q)) = Len(q) - 1 /\ Len(q) > 0
          /\ h = q[1] /\ 1 \in 1..Len(q)
          /\ \A i \in 1..Len(Tail(q)) : i + 1 \in 1..Len(q) /\ Tail(q)[i] = q[i + 1]
      BY <3>1
    <3>3. q[1] \in 1..MaxChunks
      <4>1. PICK S : S = 1..MaxChunks
        OBVIOUS
      <4>2. q \in Seq(S) /\ 1 \in 1..Len(q)
        BY <3>1, <3>2, <4>1
      <4>3. q[1] \in S
        BY <4>2
      <4> QED
        BY <4>1, <4>3
    <3> QED
      BY <3>2, <3>3, <1>l
  <2>2. h = a + 1
    BY <2>1, <1>3, <1>l
  <2>3. ASSUME NEW i \in 1..Len(Tail(q)) PROVE Tail(q)[i] = a + 1 + i
    <3>1. Tail(q)[i] = a + (i + 1)
      BY <2>1, <1>3, <1>l
    <3>2. i \in Nat
      OBVIOUS
    <3> QED
      BY <3>1, <3>2
  <2>4. b - 1 <= InBuf
    BY <1>1, <1>l, PortForwardAssumption
  <2> QED
    BY <2>1, <2>2, <2>3, <2>4
<1>5. Taken(conn[c]) = a + b
  BY <1>l, <1>q DEF Taken
<1>6. CASE /\ q # <<>> /\ conn[c].sock = "open"
           /\ conn' = [conn EXCEPT ![c] = [conn[c] EXCEPT !.in = Tail(q), !.got = Append(g, h)]]
  <2>r. PICK r : r = [conn[c] EXCEPT !.in = Tail(q), !.got = Append(g, h)]
    OBVIOUS
  <2>1. /\ Append(g, h) \in Seq(1..MaxChunks) /\ Len(Append(g, h)) = a + 1
        /\ \A i \in 1..Len(Append(g, h)) :
             (i \in 1..Len(g) /\ Append(g, h)[i] = g[i]) \/ (i = a + 1 /\ Append(g, h)[i] = h)
    BY <1>1, <1>4, <1>6, <1>l
  <2>2. /\ r \in AgentConns /\ r.in = Tail(q) /\ r.got = Append(g, h) /\ r.sent = conn[c].sent
        /\ r.sock = "open" /\ r.closed = conn[c].closed /\ r.writer = conn[c].writer
    BY <1>1, <1>4, <1>6, <2>1, <2>r DEF AgentConns
  <2>3. Taken(r) = Taken(conn[c])
    <3>1. Taken(r) = (a + 1) + (b - 1)
      BY <2>1, <2>2, <1>4, <1>6 DEF Taken
    <3> QED
      BY <3>1, <1>5
  <2>4. ConnOK(r, c)'
    <3>1. \A i \in 1..Len(r.in) : r.in[i] = Len(r.got) + i
      BY <2>1, <2>2, <1>4, <1>6
    <3>2. \A i \in 1..Len(r.got) : r.got[i] = i
      BY <2>1, <2>2, <1>3, <1>4, <1>6
    <3> QED
      BY <3>1, <3>2, <2>2, <1>0, <1>1, <1>6 DEF ConnOK, cliVars
  <2>5. conn' = [conn EXCEPT ![c] = r]
    BY <1>6, <2>r
  <2>6. Len(r.in) <= InBuf
    BY <2>2, <1>4, <1>6
  <2> QED
    BY <2>2, <2>3, <2>4, <2>5, <2>6, <1>0, <1>2, GoroutineSteps
<1>7. CASE /\ q # <<>> /\ conn[c].sock = "closed"
           /\ conn' = [conn EXCEPT ![c] = [conn[c] EXCEPT !.in = Tail(q), !.writer = FALSE]]
  <2>r. PICK r : r = [conn[c] EXCEPT !.in = Tail(q), !.writer = FALSE]
    OBVIOUS
  <2>2. /\ r \in AgentConns /\ r.in = Tail(q) /\ r.got = g /\ r.sent = conn[c].sent
        /\ r.sock = "closed" /\ r.closed = conn[c].closed /\ ~r.writer
    BY <1>1, <1>4, <1>7, <1>q, <2>r DEF AgentConns
  <2>3. r.closed = 1
    BY <2>2, <1>1, <1>7 DEF ConnOK
  <2>4. ConnOK(r, c)'
    BY <2>2, <2>3, <1>0, <1>1, <1>3, <1>7 DEF ConnOK, cliVars
  <2>5. conn' = [conn EXCEPT ![c] = r]
    BY <1>7, <2>r
  <2>6. Len(r.in) <= InBuf
    BY <2>2, <1>4, <1>7
  <2>7. r.closed # 0 /\ r.sock # "open" /\ r.sock # "none"
    BY <2>2, <2>3
  <2> QED
    BY <2>2, <2>4, <2>5, <2>6, <2>7, <1>0, <1>2, GoroutineSteps
<1>8. CASE q = <<>> /\ conn[c].closed > 0 /\ conn' = [conn EXCEPT ![c].writer = FALSE]
  <2>r. PICK r : r = [conn[c] EXCEPT !.writer = FALSE]
    OBVIOUS
  <2>2. /\ r \in AgentConns /\ r.in = q /\ r.got = g /\ r.sent = conn[c].sent
        /\ r.sock = conn[c].sock /\ r.closed = conn[c].closed /\ ~r.writer
    BY <1>1, <1>q, <2>r DEF AgentConns
  <2>3. r.sock = "closed"
    BY <2>2, <1>1, <1>2, <1>8 DEF ConnOK, AgentConns
  <2>4. ConnOK(r, c)'
    BY <2>2, <2>3, <1>0, <1>1, <1>3, <1>8 DEF ConnOK, cliVars
  <2>5. conn' = [conn EXCEPT ![c] = r]
    BY <1>8, <2>r DEF ConnTypeOK
  <2>6. Len(r.in) <= InBuf /\ Taken(r) = Taken(conn[c])
    BY <2>2, <1>1, <1>q DEF Taken
  <2> QED
    BY <2>2, <2>3, <2>4, <2>5, <2>6, <1>0, <1>2, GoroutineSteps
<1> QED
  BY <1>q, <1>6, <1>7, <1>8 DEF Writer

LEMMA PodReadEndsStep ==
  ASSUME ForwardInv, NEW c \in Conns, PodReadEnds(c)
  PROVE  ForwardInv'
<1> USE DEF ForwardInv, TypeOK
<1>f. PICK f : f = Frame("close", c, 0)
  OBVIOUS
<1>0. conn[c].reader /\ ToClient(f) /\ UNCHANGED <<cliVars, pf, listed, kubectl, hand, panicked>>
  BY <1>f DEF PodReadEnds
<1>1. f \in Frames /\ f.k = "close" /\ f.c = c
  BY <1>f, ConnsFacts, FrameFacts DEF Kinds
<1>2. conn[c] \in AgentConns /\ ConnOK(conn[c], c) /\ Len(conn[c].in) <= InBuf
  BY Fields DEF ConnInv, ConnTypeOK
<1>3. conn[c].sock # "none"
  <2>1. conn[c] # NoConn
    BY <1>0 DEF NoConn
  <2> QED
    BY <2>1, <1>2 DEF ConnOK
<1>4. CASE /\ c \in table /\ table' = table \ {c}
           /\ conn' = [conn EXCEPT ![c] = [@ EXCEPT !.reader = FALSE, !.sock = "closed",
                                                 !.closed = conn[c].closed + 1]]
  <2>0. conn[c].closed = 0 /\ conn[c].closed + 1 = 1
    BY <1>2, <1>4 DEF ConnOK
  <2>r. PICK r : r = [conn[c] EXCEPT !.reader = FALSE, !.sock = "closed", !.closed = 1]
    OBVIOUS
  <2>1. /\ r \in AgentConns /\ r.in = conn[c].in /\ r.got = conn[c].got /\ r.sent = conn[c].sent
        /\ r.sock = "closed" /\ r.closed = 1 /\ r.writer = conn[c].writer
    <3>1. 1 \in 0..2
      OBVIOUS
    <3> QED
      BY <3>1, <1>2, <2>r DEF AgentConns
  <2>2. conn' = [conn EXCEPT ![c] = r]
    BY <1>4, <2>0, <2>r
  <2>3. ConnOK(r, c)'
    BY <2>1, <1>0, <1>2, <1>4 DEF ConnOK, cliVars
  <2>4. r.closed # 0 /\ r.sock # "open" /\ r.sock # "none" /\ Len(r.in) <= InBuf
    BY <2>1, <1>2
  <2>5. table' \subseteq table /\ \A d \in Conns : d # c => (d \in table' <=> d \in table)
    BY <1>4
  <2> QED
    BY <2>1, <2>2, <2>3, <2>4, <2>5, <1>0, <1>1, <1>3, GoroutineSteps
<1>5. CASE c \notin table /\ conn' = [conn EXCEPT ![c].reader = FALSE] /\ UNCHANGED table
  <2>r. PICK r : r = [conn[c] EXCEPT !.reader = FALSE]
    OBVIOUS
  <2>1. /\ r \in AgentConns /\ r.in = conn[c].in /\ r.got = conn[c].got /\ r.sent = conn[c].sent
        /\ r.sock = conn[c].sock /\ r.closed = conn[c].closed /\ r.writer = conn[c].writer
    BY <1>2, <2>r DEF AgentConns
  <2>2. conn' = [conn EXCEPT ![c] = r]
    BY <1>5, <2>r DEF ConnTypeOK
  <2>3. ConnOK(r, c)'
    BY <2>1, <1>0, <1>2, <1>3, <1>5 DEF ConnOK, cliVars
  <2>4. Taken(r) = Taken(conn[c])
    BY <2>1 DEF Taken
  <2> QED
    BY <2>1, <2>2, <2>3, <2>4, <1>0, <1>1, <1>2, <1>3, <1>5, GoroutineSteps
<1> QED
  BY <1>4, <1>5 DEF PodReadEnds
LEMMA PodDataStep ==
  ASSUME ForwardInv, NEW c \in Conns, PodData(c)
  PROVE  ForwardInv'
<1> USE DEF ForwardInv, TypeOK
<1>n. PICK n : n = conn[c].sent
  OBVIOUS
<1>f. PICK f : f = Frame("data", c, n + 1)
  OBVIOUS
<1>r. PICK r : r = [conn[c] EXCEPT !.sent = n + 1]
  OBVIOUS
<1>0. /\ conn[c].sock = "open" /\ n < MaxChunks /\ ToClient(f)
      /\ UNCHANGED <<cliVars, pf, listed, kubectl, table, hand, panicked>>
  BY <1>f, <1>n DEF PodData
<1>u. UNCHANGED <<nextID, client>>
  BY <1>0 DEF cliVars
<1>1. n \in Nat /\ n + 1 \in 0..MaxChunks /\ n + 1 \in Nat /\ n < n + 1 /\ n <= n + 1 /\ n + 1 \in 1..(n + 1)
  <2>1. n \in Nat /\ MaxChunks \in Nat
    BY <1>n, Fields
  <2> QED
    BY <2>1, <1>0
<1>2. f \in Frames /\ f.k = "data" /\ f.c = c /\ f.n = n + 1
  <2>1. n + 1 \in 0..MaxChunks /\ c \in 0..MaxConns
    BY <1>1, ConnsFacts
  <2> QED
    BY <1>f, <2>1, FrameFacts DEF Kinds
<1>3. conn[c] \in AgentConns /\ ConnOK(conn[c], c)
  BY Fields DEF ConnInv
<1>4. /\ r \in AgentConns /\ r.in = conn[c].in /\ r.got = conn[c].got /\ r.sent = n + 1
      /\ r.sock = "open" /\ r.closed = conn[c].closed /\ r.writer = conn[c].writer
  BY <1>0, <1>1, <1>3, <1>r DEF AgentConns
<1>5. conn' = [conn EXCEPT ![c] = r]
  BY <1>n, <1>r DEF PodData, ConnTypeOK
<1>6. \A d \in Conns : conn'[d] = IF d = c THEN r ELSE conn[d]
  BY <1>5 DEF ConnTypeOK
<1>7. \A d \in Conns : /\ Taken(conn'[d]) = Taken(conn[d]) /\ conn'[d].sock = conn[d].sock
                       /\ conn'[d].closed = conn[d].closed /\ conn'[d].in = conn[d].in
  BY <1>0, <1>4, <1>6 DEF Taken
<1>8. Advances
  <2>1. \A d \in Conns : conn[d].sent \in Nat
    BY Fields
  <2>2. \A d \in Conns : conn'[d].sent \in Nat /\ conn[d].sent <= conn'[d].sent
    BY <2>1, <1>1, <1>4, <1>6, <1>n
  <2> QED
    BY <2>2, <1>7, <1>u, AgentAdvances
<1>9. c \in 1..nextID
  <2>1. c <= nextID
    BY <1>0, <1>3 DEF ConnOK
  <2> QED
    BY <2>1, ConnsFacts, Fields
<1>10. /\ UpInv' /\ DownInv'
       /\ \A i \in 1..Len(up') : up'[i].k = "open" => \E j \in 1..Len(up) : up[j] = up'[i]
  <2>1. \A i \in 1..Len(up) : up[i].k = "open" => conn'[up[i].c].sock = "none"
    BY <1>7, Fields DEF UpInv
  <2>2. f.n \in 1..conn'[f.c].sent /\ conn[f.c].sent < f.n
    BY <1>1, <1>2, <1>4, <1>6, <1>n
  <2>3. f.c \in 1..nextID'
    BY <1>2, <1>9, <1>u
  <2> QED
    BY <2>1, <2>2, <2>3, <1>0, <1>2, <1>8, ToClientChannels
<1>11. /\ NetTypeOK' /\ alive' \in BOOLEAN /\ (alive' => alive)
       /\ up' = up \/ up' = Append(up, Frame("cancel", 0, 0))
       /\ down' = down \/ down' = Append(down, f)
       /\ alive' => down' = Append(down, f)
       /\ ~alive' => down' = down
  <2>1. ~alive' => down' = down
    BY <1>0 DEF ToClient
  <2> QED
    BY <2>1, <1>0, <1>2, ToClientFacts
<1>12. TypeOK'
  <2>1. conn' \in [Conns -> AgentConns]
    BY <1>4, <1>5 DEF ConnTypeOK
  <2>2. ConnTypeOK'
    BY <2>1, <1>0, <1>7 DEF ConnTypeOK
  <2> QED
    BY <2>2, <1>0, <1>11, KeepTypes DEF cliVars
<1>13. ConnInv'
  <2>1. ConnOK(r, c)'
    BY <1>0, <1>3, <1>4 DEF ConnOK, cliVars
  <2> QED
    BY <2>1, <1>0, <1>5, <1>u, MoveConn
<1>14. HandInv'
  <2>1. hand.k \in {"open", "dialled", "data"} => hand.c \in Conns
    BY Fields DEF HandInv
  <2>2. hand.k \in {"open", "dialled"} =>
           /\ conn'[hand.c].sock = "none"
           /\ \A i \in 1..Len(up') : up'[i].k = "open" => up'[i].c # hand.c
    BY <2>1, <1>7, <1>10 DEF HandInv
  <2> QED
    BY <2>1, <2>2, <1>0, <1>7, <1>8, KeepHand
<1>15. ClientInv'
  <2>1. pf # "starting"
    BY <1>9, Fields DEF ClientInv
  <2> QED
    BY <2>1, <1>0, KeepClient DEF cliVars
<1>16. UpFlow'
  <2>1. ASSUME NEW d \in Conns, Flowing(d)'
        PROVE  Flowing(d) /\ Expected(d)' = Expected(d) /\ client'[d].sent = client[d].sent
    <3>1. Flowing(d)
      BY <2>1, <1>0, <1>10, PendingStays DEF Flowing
    <3>2. Taken(conn[d])' = Taken(conn[d])
      BY <1>7 DEF Taken
    <3> QED
      BY <3>1, <3>2, <1>0, <1>u DEF Expected, IsData
  <2> QED
    BY <2>1, <1>11, CancelFrame, KeepUpFlow
<1>17. DownFlow'
  <2> SUFFICES ASSUME NEW d \in Conns, client'[d].state = "open"
               PROVE  Carries(down', d, Len(client'[d].got) + 1, conn'[d].sent, alive')
    BY DEF DownFlow
  <2>l. PICK g : g = Len(client[d].got) + 1
    OBVIOUS
  <2>1. g \in Nat /\ Len(client'[d].got) + 1 = g /\ down \in Seq(Frames) /\ alive \in BOOLEAN
    <3>1. Len(client[d].got) \in Nat
      BY Fields
    <3> QED
      BY <3>1, <2>l, <1>u DEF NetTypeOK
  <2>2. Carries(down, d, g, conn[d].sent, alive)
    BY <2>l, <1>u DEF DownFlow
  <2>3. CASE d # c
    <3>1. Carries(down', d, g, conn[d].sent, alive)
      BY <2>1, <2>2, <2>3, <1>2, <1>11, CarriesAppend DEF IsData
    <3>2. Carries(down', d, g, conn[d].sent, alive')
      BY <3>1, <1>11 DEF Carries
    <3> QED
      BY <3>2, <2>1, <2>3, <1>6
  <2>4. CASE d = c /\ alive'
    <3>1. Carries(down, c, g, n, TRUE)
      BY <2>1, <2>2, <2>4, <1>11, <1>n DEF Carries
    <3>2. Carries(down', c, g, n + 1, TRUE)
      BY <3>1, <2>1, <2>4, <1>1, <1>2, <1>11, <1>f, CarriesMore
    <3>3. Carries(down', c, g, n + 1, alive')
      BY <3>2 DEF Carries
    <3> QED
      BY <3>3, <2>1, <2>4, <1>4, <1>6
  <2>5. CASE d = c /\ ~alive'
    <3>1. Carries(down', c, g, n + 1, FALSE)
      BY <2>2, <2>5, <1>11, CarriesLess
    <3>2. Carries(down', c, g, n + 1, alive')
      BY <3>1, <2>5 DEF Carries
    <3> QED
      BY <3>2, <2>1, <2>5, <1>4, <1>6
  <2> QED
    BY <2>3, <2>4, <2>5
<1> QED
  BY <1>10, <1>12, <1>13, <1>14, <1>15, <1>16, <1>17
-------------------------------------------------------------------------------
LEMMA ForwardInitially == Init => ForwardInv
<1> SUFFICES ASSUME Init PROVE ForwardInv
  OBVIOUS
<1>0. MaxConns \in Nat /\ MaxChunks \in Nat /\ InBuf \in Nat /\ DownBuf \in Nat /\ SockBuf \in Nat
  BY PortForwardAssumption
<1>1. NoClient \in Clients /\ NoClient.state = "none" /\ NoClient.got = <<>>
  BY <1>0 DEF NoClient, Clients
<1>2. /\ NoConn \in AgentConns /\ NoConn.sock = "none" /\ NoConn.in = <<>> /\ NoConn.got = <<>>
      /\ ~NoConn.writer /\ NoConn.sent = 0
  BY <1>0 DEF NoConn, AgentConns
<1>3. \A c \in Conns : client[c] = NoClient /\ conn[c] = NoConn
  BY DEF Init
<1>4. NoFrame \in Frames /\ NoFrame.k = "ready"
  BY <1>0 DEF NoFrame, Frame, Frames, Kinds
<1>5. TypeOK
  <2>1. CliTypeOK
    BY <1>0, <1>1 DEF Init, CliTypeOK
  <2>2. NetTypeOK
    BY <1>0 DEF Init, NetTypeOK
  <2>3. ConnTypeOK
    <3>1. Len(<<>>) <= InBuf
      BY <1>0
    <3>2. \A c \in Conns : Len(conn[c].in) <= InBuf
      BY <3>1, <1>2, <1>3
    <3>3. conn \in [Conns -> AgentConns]
      BY <1>2 DEF Init
    <3> QED
      BY <3>2, <3>3 DEF Init, ConnTypeOK
  <2>4. AgentTypeOK
    BY <1>4 DEF Init, AgentTypeOK
  <2> QED
    BY <2>1, <2>2, <2>3, <2>4 DEF TypeOK
<1>6. UpInv /\ DownInv /\ HandInv
  BY <1>4, OrderedEmpty DEF Init, UpInv, DownInv, HandInv
<1>7. ConnInv
  BY <1>2, <1>3 DEF Init, ConnInv, ConnOK
<1>8. ClientInv
  <2>1. \A c \in Conns : c > 0
    BY <1>0 DEF Conns
  <2> QED
    BY <2>1, <1>1, <1>3 DEF Init, ClientInv
<1>9. UpFlow /\ DownFlow
  <2>1. \A c \in Conns : ~Pending(c)
    BY <1>4 DEF Init, Pending
  <2>2. UpFlow
    BY <2>1 DEF Init, UpFlow, Flowing
  <2>3. DownFlow
    BY <1>1, <1>3 DEF DownFlow
  <2> QED
    BY <2>2, <2>3
<1> QED
  BY <1>5, <1>6, <1>7, <1>8, <1>9 DEF ForwardInv

LEMMA ForwardStutters ==
  ASSUME ForwardInv, UNCHANGED vars
  PROVE  ForwardInv'
<1> USE DEF ForwardInv, TypeOK
<1>0. UNCHANGED <<cliVars, conn, table, hand, up, down, alive, pf, listed, kubectl, panicked>>
  BY DEF vars, agentVars
<1>1. AgentTypeOK'
  BY <1>0 DEF AgentTypeOK
<1> QED
  BY <1>0, <1>1, SessionSteps

LEMMA ForwardSteps ==
  ASSUME ForwardInv, Next
  PROVE  ForwardInv'
<1>1. ASSUME NEW c \in Conns,
             \/ HandleConn(c) \/ ClientData(c) \/ ClientReadEnds(c) \/ LocalRead(c)
             \/ Writer(c) \/ PodData(c) \/ PodReadEnds(c)
      PROVE  ForwardInv'
  BY <1>1, HandleConnStep, ClientDataStep, ClientReadEndsStep, LocalReadStep, WriterStep, PodDataStep,
     PodReadEndsStep
<1>2. CASE ReadLoop \/ ReadLoopEnds \/ Interrupt \/ ConnectionBreaks
  BY <1>2, ReadLoopStep, ReadLoopEndsStep, InterruptStep, ConnectionBreaksStep
<1>3. CASE StartFails \/ StartReady \/ KubectlExits \/ AgentEnds
  BY <1>3, StartFailsStep, StartReadyStep, KubectlExitsStep, ShutdownStep, SessionGoneStep DEF AgentEnds
<1>4. CASE AgentStep
  BY <1>4, RecvDroppedStep, RecvTakeStep, RecvCloseStep, RecvCancelStep, OpenFailsStep, DialStep,
     OpenConnStep, DataSendStep DEF AgentStep
<1> QED
  BY <1>1, <1>2, <1>3, <1>4 DEF Next

(* Of every connection the channels in both directions hold, without a     *)
(* gap, a first part of what was sent and not yet received, for as long as *)
(* anyone takes it; the table holds exactly the connections whose socket   *)
(* is open (agent/portforward.go, cli/portforward.go, stream_manager.go).  *)
THEOREM ForwardInvariant == Spec => []ForwardInv
<1>1. Init => ForwardInv
  BY ForwardInitially
<1>2. ForwardInv /\ [Next]_vars => ForwardInv'
  BY ForwardSteps, ForwardStutters
<1> QED
  BY <1>1, <1>2, PTL DEF Spec

(* The type invariant: the bounds of pfConn.in and PfOutput included.      *)
THEOREM ForwardTypes == Spec => []TypeOK
<1>1. ForwardInv => TypeOK
  BY DEF ForwardInv
<1> QED
  BY <1>1, ForwardInvariant, PTL

(* Both ends of a connection receive its bytes in order and without a gap  *)
(* whatever is dropped on the way.                                         *)
THEOREM BytesArriveInOrder == Spec => []BytesInOrder
<1>1. ForwardInv => BytesInOrder
  <2> SUFFICES ASSUME ForwardInv, NEW c \in Conns
               PROVE  /\ \A i \in DOMAIN conn[c].got : conn[c].got[i] = i
                      /\ \A i \in DOMAIN client[c].got : client[c].got[i] = i
    BY DEF BytesInOrder
  <2>1. conn[c].got \in Seq(1..MaxChunks) /\ client[c].got \in Seq(1..MaxChunks)
    BY Fields DEF ForwardInv
  <2>2. DOMAIN conn[c].got = 1..Len(conn[c].got) /\ DOMAIN client[c].got = 1..Len(client[c].got)
    BY <2>1
  <2> QED
    BY <2>2 DEF ForwardInv, ConnInv, ConnOK, ClientInv
<1> QED
  BY <1>1, ForwardInvariant, PTL

(* No channel of a connection is closed twice: whoever closes it has       *)
(* taken it out of the table first.                                        *)
THEOREM ChannelsClosedOnce == Spec => []ClosedOnce
<1>1. ForwardInv => ClosedOnce
  <2> SUFFICES ASSUME ForwardInv, NEW c \in Conns
               PROVE  conn[c].closed <= 1 /\ (c \in table => conn[c].closed = 0)
    BY DEF ClosedOnce
  <2>1. conn[c] \in AgentConns /\ ConnOK(conn[c], c)
    BY Fields DEF ForwardInv, ConnInv
  <2>2. conn[c].sock \in {"none", "open", "closed"}
    BY <2>1 DEF AgentConns
  <2>3. conn[c].closed = 0 \/ conn[c].closed = 1
    BY <2>1, <2>2 DEF ConnOK, NoConn
  <2> QED
    BY <2>1, <2>3 DEF ConnOK
<1> QED
  BY <1>1, ForwardInvariant, PTL
-------------------------------------------------------------------------------
(* How a session comes to rest. *)

Told(q) == \E i \in 1..Len(q) : q[i].k = "cancel"

OpenOf(f, c) == f.k = "open" /\ f.c = c
CloseOf(f, c) == f.k = "close" /\ f.c = c

(* A close frame of connection c is on its way, and no open frame after it. *)
Closing(q, c) ==
  \E i \in 1..Len(q) : /\ CloseOf(q[i], c)
                       /\ \A j \in 1..Len(q) : i < j => ~OpenOf(q[j], c)

CloseSent(q, c) == \E i \in 1..Len(q) : CloseOf(q[i], c)

KubectlEnd == kubectl => pf = "live"

KbEnd ==
  \A c \in Conns : /\ client[c].rd => cli = "ready"
                   /\ client[c].state = "open" => client[c].rd
                   /\ cli = "done" => client[c].state # "open"

(* kb ends before its session at central only if kubectl did not start. *)
ErrorEnd ==
  /\ cli = "done" /\ alive => pf = "ended"
  /\ \A i \in 1..Len(down) : down[i].k = "error" => pf = "ended"

(* A session that central has ended is told to the agent, or was. *)
CancelTold == alive \/ ~listed \/ Told(up)

(* A close by the local program is on its way to the agent, or has arrived *)
(* after the open.                                                         *)
ClientClose ==
  \A c \in Conns : client[c].state = "closed" /\ ~client[c].rd /\ alive /\ listed /\ pf = "live" =>
    Closing(up, c) \/ (conn[c].sock # "open" /\ ~Pending(c))

(* A close by the pod is on its way to kb, or has arrived. *)
PodClose ==
  /\ \A c \in Conns : conn[c].sock = "open" => conn[c].reader
  /\ \A c \in Conns : conn[c].sock = "closed" /\ ~conn[c].reader /\ alive /\ cli # "done" =>
       client[c].state = "closed" \/ CloseSent(down, c)

EndInv == KubectlEnd /\ KbEnd /\ ErrorEnd /\ CancelTold /\ ClientClose /\ PodClose

(* No goroutine of kb, central or the agent has anything left to do but    *)
(* wait for somebody outside: the guards of AgentStep, AgentEnds,          *)
(* StartFails, StartReady, KbRead, WriteEnds, ReaderEnd and ClientEnd are  *)
(* false.  kb's readLoop has no frame to take, or is in a Write to a local *)
(* program that does not read; the agent's writers may be in a Write to    *)
(* the pod.                                                                *)
Quiet ==
  /\ hand = NoFrame /\ up = <<>>
  /\ pf \notin {"starting", "shut"} /\ ~(pf = "live" /\ (~listed \/ ~kubectl))
  /\ cli = "done" \/ (down = <<>> /\ alive) \/ KbWaits
  /\ \A c \in Conns :
       /\ ~(conn[c].writer /\ conn[c].sock = "closed")
       /\ ~(conn[c].reader /\ (conn[c].sock = "closed" \/ ~kubectl))
       /\ ~(cli = "ready" /\ client[c].rd /\ client[c].state = "closed")

(* Nobody waits for somebody who waits: when nothing is left to do, a      *)
(* connection closed by the local program is closed at the pod, one closed *)
(* by the pod is closed at the local program unless kb is in a Write to a  *)
(* program, of this or another connection, that does not read, and a       *)
(* session that has ended has left no goroutine behind                     *)
(* (agent/portforward.go 65-148, cli/portforward.go 212-310,               *)
(* stream_manager.go 299-338).                                             *)
NobodyStuck ==
  Quiet /\ ~panicked =>
    /\ \A c \in Conns : /\ client[c].state = "closed" => conn[c].sock # "open"
                        /\ conn[c].sock = "closed" => client[c].state = "closed" \/ KbWaits
    /\ pf = "ended" => \A c \in Conns : ~conn[c].writer /\ ~conn[c].reader

LEMMA AppendEnd ==
  ASSUME NEW q \in Seq(Frames), NEW f \in Frames, NEW c
  PROVE  /\ Told(q) \/ f.k = "cancel" => Told(Append(q, f))
         /\ Closing(q, c) /\ ~OpenOf(f, c) => Closing(Append(q, f), c)
         /\ CloseOf(f, c) => Closing(Append(q, f), c)
         /\ CloseSent(q, c) \/ CloseOf(f, c) => CloseSent(Append(q, f), c)
<1> DEFINE p == Append(q, f)
<1>1. /\ Len(p) = Len(q) + 1 /\ Len(q) \in Nat
      /\ \A i \in 1..Len(q) : i \in 1..Len(p) /\ p[i] = q[i]
      /\ Len(q) + 1 \in 1..Len(p) /\ p[Len(q) + 1] = f
      /\ \A i \in 1..Len(p) : i \in 1..Len(q) \/ i = Len(q) + 1
  BY AppendFacts
<1> HIDE DEF p
<1>2. Told(q) \/ f.k = "cancel" => Told(p)
  BY <1>1 DEF Told
<1>3. CloseSent(q, c) \/ CloseOf(f, c) => CloseSent(p, c)
  BY <1>1 DEF CloseSent
<1>4. ASSUME Closing(q, c), ~OpenOf(f, c) PROVE Closing(p, c)
  <2>1. PICK i \in 1..Len(q) : /\ CloseOf(q[i], c)
                               /\ \A j \in 1..Len(q) : i < j => ~OpenOf(q[j], c)
    BY <1>4 DEF Closing
  <2>2. \A j \in 1..Len(p) : i < j => ~OpenOf(p[j], c)
    BY <1>1, <1>4, <2>1
  <2> QED
    BY <1>1, <2>1, <2>2 DEF Closing
<1>5. ASSUME CloseOf(f, c) PROVE Closing(p, c)
  <2>1. \A j \in 1..Len(p) : ~(Len(q) + 1 < j)
    BY <1>1
  <2> QED
    BY <1>1, <1>5, <2>1 DEF Closing
<1> QED
  BY <1>2, <1>3, <1>4, <1>5 DEF p

LEMMA TailEnd ==
  ASSUME NEW q \in Seq(Frames), q # <<>>, NEW c
  PROVE  /\ Told(q) /\ Head(q).k # "cancel" => Told(Tail(q))
         /\ Closing(q, c) => \/ Closing(Tail(q), c)
                             \/ /\ CloseOf(Head(q), c)
                                /\ \A i \in 1..Len(Tail(q)) : ~OpenOf(Tail(q)[i], c)
         /\ CloseSent(q, c) /\ ~CloseOf(Head(q), c) => CloseSent(Tail(q), c)
<1> DEFINE p == Tail(q)
<1> DEFINE f == Head(q)
<1>1. /\ Len(p) = Len(q) - 1 /\ Len(q) \in Nat
      /\ 1 \in 1..Len(q) /\ f = q[1]
      /\ \A i \in 1..Len(p) : i + 1 \in 1..Len(q) /\ p[i] = q[i + 1]
      /\ \A i \in 1..Len(q) : i # 1 => i - 1 \in 1..Len(p) /\ p[i - 1] = q[i]
  BY TailFacts
<1> HIDE DEF p, f
<1>2. Told(q) /\ f.k # "cancel" => Told(p)
  BY <1>1 DEF Told
<1>3. CloseSent(q, c) /\ ~CloseOf(f, c) => CloseSent(p, c)
  BY <1>1 DEF CloseSent
<1>4. ASSUME Closing(q, c)
      PROVE  \/ Closing(p, c)
             \/ CloseOf(f, c) /\ \A i \in 1..Len(p) : ~OpenOf(p[i], c)
  <2>1. PICK i \in 1..Len(q) : /\ CloseOf(q[i], c)
                               /\ \A j \in 1..Len(q) : i < j => ~OpenOf(q[j], c)
    BY <1>4 DEF Closing
  <2>2. CASE i = 1
    <3>1. \A j \in 1..Len(p) : 1 < j + 1
      BY <1>1
    <3> QED
      BY <1>1, <2>1, <2>2, <3>1
  <2>3. CASE i # 1
    <3>1. i - 1 \in 1..Len(p) /\ CloseOf(p[i - 1], c)
      BY <1>1, <2>1, <2>3
    <3>2. \A j \in 1..Len(p) : i - 1 < j => i < j + 1
      BY <1>1
    <3>3. \A j \in 1..Len(p) : i - 1 < j => ~OpenOf(p[j], c)
      BY <1>1, <2>1, <3>2
    <3> QED
      BY <3>1, <3>3 DEF Closing
  <2> QED
    BY <2>2, <2>3
<1> QED
  BY <1>2, <1>3, <1>4 DEF p, f

(* Steps that leave part of the state alone, or change it towards the end. *)
LEMMA KeepEnd ==
  ASSUME EndInv
  PROVE  /\ UNCHANGED <<pf, kubectl>> => KubectlEnd'
         /\ UNCHANGED <<cli, client>> => KbEnd'
         /\ UNCHANGED <<cli, down>> /\ (alive' => alive) /\ (pf = "ended" => pf' = "ended") => ErrorEnd'
         /\ UNCHANGED <<up, alive>> /\ (listed' => listed) => CancelTold'
         /\ UNCHANGED <<conn, client, cli, down>> /\ (alive' => alive) => PodClose'
<1>1. UNCHANGED <<pf, kubectl>> => KubectlEnd'
  BY DEF EndInv, KubectlEnd
<1>2. UNCHANGED <<cli, client>> => KbEnd'
  BY DEF EndInv, KbEnd
<1>3. UNCHANGED <<cli, down>> /\ (alive' => alive) /\ (pf = "ended" => pf' = "ended") => ErrorEnd'
  BY DEF EndInv, ErrorEnd
<1>4. UNCHANGED <<up, alive>> /\ (listed' => listed) => CancelTold'
  BY DEF EndInv, CancelTold
<1>5. UNCHANGED <<conn, client, cli, down>> /\ (alive' => alive) => PodClose'
  BY DEF EndInv, PodClose
<1> QED
  BY <1>1, <1>2, <1>3, <1>4, <1>5

(* Connections move on: none is opened but one that was on its way. *)
LEMMA KeepClientClose ==
  ASSUME ClientClose, UNCHANGED client, alive' => alive, listed' => listed, pf' = "live" => pf = "live",
         \A c \in Conns : Closing(up, c) => Closing(up', c),
         \A c \in Conns : Pending(c)' => Pending(c),
         \A c \in Conns : conn'[c].sock = "open" => conn[c].sock = "open" \/ Pending(c)
  PROVE  ClientClose'
BY DEF ClientClose

LEMMA KeepPodClose ==
  ASSUME PodClose, UNCHANGED <<client, cli>>, alive' => alive,
         \A c \in Conns : conn'[c].sock = "open" => conn'[c].reader,
         \A c \in Conns : conn'[c].sock = "closed" /\ ~conn'[c].reader /\ alive' =>
           CloseSent(down', c) \/ (conn[c].sock = "closed" /\ ~conn[c].reader),
         \A c \in Conns : alive' /\ CloseSent(down, c) => CloseSent(down', c)
  PROVE  PodClose'
BY DEF PodClose

(* Steps in which the agent may tell kb something. *)
LEMMA TellEnd ==
  ASSUME TypeOK, EndInv, NEW f \in Frames, ToClient(f), UNCHANGED cli, listed' => listed,
         pf = "ended" => pf' = "ended", f.k = "error" => pf' = "ended"
  PROVE  /\ ErrorEnd' /\ CancelTold' /\ (alive' => alive)
         /\ \A c \in Conns : Closing(up, c) => Closing(up', c)
         /\ \A c \in Conns : alive' /\ CloseSent(down, c) => CloseSent(down', c)
         /\ \A c \in Conns : alive' /\ CloseOf(f, c) => CloseSent(down', c)
         /\ \A i \in 1..Len(up') : up'[i].k = "open" => \E j \in 1..Len(up) : up[j] = up'[i]
<1>1. up \in Seq(Frames) /\ down \in Seq(Frames)
  BY DEF TypeOK, NetTypeOK
<1>g. PICK g : g = Frame("cancel", 0, 0)
  OBVIOUS
<1>2. g \in Frames /\ g.k = "cancel" /\ \A c \in Conns : ~OpenOf(g, c)
  BY <1>g, CancelFrame DEF OpenOf
<1>3. /\ (alive' => alive) /\ (up' = up \/ up' = Append(up, g))
      /\ down' = down \/ down' = Append(down, f)
      /\ alive' => down' = Append(down, f)
  BY <1>g, ToClientFacts
<1>4. alive' \/ (alive /\ up' = Append(up, g)) \/ (~alive /\ up' = up)
  BY <1>g DEF ToClient
<1>5. CancelTold'
  BY <1>1, <1>2, <1>4, AppendEnd DEF EndInv, CancelTold
<1>6. ErrorEnd'
  <2>1. \A i \in 1..Len(Append(down, f)) :
          (\E j \in 1..Len(down) : Append(down, f)[i] = down[j]) \/ Append(down, f)[i] = f
    BY <1>1, AppendFacts
  <2>p. PICK p : p = Append(down, f)
    OBVIOUS
  <2>2. \A i \in 1..Len(p) : (\E j \in 1..Len(down) : p[i] = down[j]) \/ p[i] = f
    BY <2>1, <2>p
  <2>3. down' = down \/ down' = p
    BY <1>3, <2>p
  <2>4. \A i \in 1..Len(down') : down'[i].k = "error" => pf' = "ended"
    BY <2>2, <2>3 DEF EndInv, ErrorEnd
  <2> QED
    BY <1>3, <2>4 DEF EndInv, ErrorEnd
<1>7. \A c \in Conns : Closing(up, c) => Closing(up', c)
  BY <1>1, <1>2, <1>3, AppendEnd
<1>8. \A c \in Conns : alive' /\ (CloseSent(down, c) \/ CloseOf(f, c)) => CloseSent(down', c)
  BY <1>1, <1>3, AppendEnd
<1>9. \A i \in 1..Len(up') : up'[i].k = "open" => \E j \in 1..Len(up) : up[j] = up'[i]
  BY <1>1, <1>2, <1>3, AppendFacts
<1> QED
  BY <1>3, <1>5, <1>6, <1>7, <1>8, <1>9
(* What the channels still promise after a step of the agent. *)
Promised ==
  /\ ErrorEnd' /\ CancelTold' /\ (alive' => alive)
  /\ \A c \in Conns : Closing(up, c) => Closing(up', c)
  /\ \A c \in Conns : alive' /\ CloseSent(down, c) => CloseSent(down', c)
  /\ \A i \in 1..Len(up') : up'[i].k = "open" => \E j \in 1..Len(up) : up[j] = up'[i]

LEMMA SilentEnd ==
  ASSUME EndInv, UNCHANGED <<cli, up, down, alive>>, listed' => listed, pf = "ended" => pf' = "ended"
  PROVE  Promised
BY KeepEnd DEF Promised

(* Steps of the session's and the connections' goroutines. *)
LEMMA AgentEnd ==
  ASSUME ForwardInv, EndInv, UNCHANGED cliVars, Promised, KubectlEnd', listed' => listed,
         pf' = "live" => pf \in {"starting", "live"},
         hand'.k \in {"open", "dialled"} => hand.k \in {"open", "dialled"} /\ hand'.c = hand.c,
         \A c \in Conns : conn'[c].sock = "open" =>
           conn'[c].reader /\ (conn[c].sock = "open" \/ Pending(c)),
         \A c \in Conns : conn'[c].sock = "closed" /\ ~conn'[c].reader /\ alive' =>
           CloseSent(down', c) \/ (conn[c].sock = "closed" /\ ~conn[c].reader)
  PROVE  EndInv'
<1>1. UNCHANGED <<cli, nextID, client>>
  BY DEF cliVars
<1>2. KbEnd'
  BY <1>1, KeepEnd
<1>3. \A c \in Conns : Pending(c)' => Pending(c)
  BY PendingStays DEF Promised
<1>4. ClientClose'
  <2>1. CASE pf = "starting"
    <3>1. nextID = 0
      BY <2>1 DEF ForwardInv, ClientInv
    <3>2. \A c \in Conns : client[c].state = "none"
      BY <3>1, ConnsFacts DEF ForwardInv, ClientInv
    <3> QED
      BY <3>2, <1>1 DEF ClientClose
  <2>2. CASE pf # "starting"
    BY <1>1, <1>3, <2>2, KeepClientClose DEF EndInv, Promised
  <2> QED
    BY <2>1, <2>2
<1>5. PodClose'
  BY <1>1, KeepPodClose DEF EndInv, Promised
<1> QED
  BY <1>2, <1>4, <1>5 DEF EndInv, Promised

(* The receive loop takes a frame. *)
LEMMA ConsumeEnd ==
  ASSUME ForwardInv, EndInv, up # <<>>, up' = Tail(up), hand = NoFrame,
         UNCHANGED <<cliVars, down, alive, pf, kubectl>>, listed' => listed,
         Head(up).k = "cancel" => ~listed',
         hand' = NoFrame \/ hand' = Head(up),
         \A c \in Conns : conn'[c].sock = "open" => conn[c].sock = "open",
         \A c \in Conns : conn'[c].reader = conn[c].reader,
         \A c \in Conns : conn'[c].sock = "closed" => conn[c].sock \in {"open", "closed"},
         \A c \in Conns : CloseOf(Head(up), c) /\ PfFor => conn'[c].sock # "open"
  PROVE  EndInv'
<1>u. UNCHANGED <<cli, nextID, client>>
  BY DEF cliVars
<1>1. up \in Seq(Frames)
  BY DEF ForwardInv, TypeOK, NetTypeOK
<1>2. KubectlEnd' /\ KbEnd' /\ ErrorEnd'
  BY <1>u, KeepEnd
<1>3. CancelTold'
  BY <1>1, TailEnd DEF EndInv, CancelTold
<1>4. PodClose'
  BY <1>u DEF EndInv, PodClose
<1>5. ASSUME NEW c \in Conns,
             client[c].state = "closed", ~client[c].rd, alive, listed', pf = "live"
      PROVE  Closing(up', c) \/ (conn'[c].sock # "open" /\ ~Pending(c)')
  <2>0. NoFrame.k = "ready"
    BY DEF NoFrame, Frame
  <2>1. CASE conn[c].sock # "open" /\ ~Pending(c)
    <3>1. /\ \A i \in 1..Len(up) : ~OpenOf(up[i], c)
          /\ 1 \in 1..Len(up) /\ Head(up) = up[1]
          /\ \A i \in 1..Len(up') : \E j \in 1..Len(up) : up'[i] = up[j]
      BY <2>1, <1>1, TailFacts DEF Pending, OpenOf
    <3>2. Head(up).k # "dialled"
      BY <3>1 DEF ForwardInv, UpInv
    <3>3. ~Pending(c)'
      BY <2>0, <3>1, <3>2 DEF Pending, OpenOf
    <3> QED
      BY <3>3, <2>1
  <2>2. CASE Closing(up, c)
    <3>1. CASE CloseOf(Head(up), c) /\ \A i \in 1..Len(up') : ~OpenOf(up'[i], c)
      <4>1. PfFor
        BY <1>5 DEF PfFor
      <4>2. ~Pending(c)'
        BY <2>0, <3>1 DEF Pending, OpenOf, CloseOf
      <4> QED
        BY <3>1, <4>1, <4>2
    <3> QED
      BY <3>1, <2>2, <1>1, TailEnd
  <2> QED
    BY <2>1, <2>2, <1>5 DEF EndInv, ClientClose
<1>6. ClientClose'
  BY <1>5, <1>u DEF ClientClose
<1> QED
  BY <1>2, <1>3, <1>4, <1>6 DEF EndInv
(* Steps that change the session and no connection. *)
LEMMA SessionEnd ==
  ASSUME ForwardInv, EndInv,
         StartFails \/ StartReady \/ KubectlExits \/ SessionGone \/ OpenFails \/ Dial
  PROVE  EndInv'
<1> USE DEF ForwardInv
<1>1. UNCHANGED <<cliVars, conn>>
  BY DEF StartFails, StartReady, KubectlExits, SessionGone, OpenFails, Dial
<1>u. UNCHANGED cli
  BY <1>1 DEF cliVars
<1>2. \A k \in Kinds : Frame(k, 0, 0) \in Frames /\ Frame(k, 0, 0).k = k
  BY FrameFacts, PortForwardAssumption
<1>3. CASE StartFails
  <2>1. /\ pf = "starting" /\ pf' = "ended" /\ ~listed' /\ UNCHANGED <<kubectl, hand>>
        /\ ToClient(Frame("error", 0, 0))
    BY <1>3 DEF StartFails
  <2>2. Promised
    BY <1>2, <1>u, <2>1, TellEnd DEF Promised, Kinds
  <2>3. KubectlEnd'
    BY <2>1 DEF EndInv, KubectlEnd
  <2> QED
    BY <1>1, <2>1, <2>2, <2>3, AgentEnd DEF EndInv, PodClose
<1>4. CASE StartReady
  <2>1. /\ pf = "starting" /\ pf' = "live" /\ UNCHANGED <<listed, hand>>
        /\ ToClient(Frame("ready", 0, 0))
    BY <1>4 DEF StartReady
  <2>2. Promised
    BY <1>2, <1>u, <2>1, TellEnd DEF Promised, Kinds
  <2>3. KubectlEnd'
    BY <2>1 DEF KubectlEnd
  <2> QED
    BY <1>1, <2>1, <2>2, <2>3, AgentEnd DEF EndInv, PodClose
<1>5. CASE KubectlExits \/ SessionGone
  <2>1. /\ UNCHANGED <<up, down, alive, hand>> /\ (listed' => listed)
        /\ (pf = "shut" /\ pf' = "ended" /\ UNCHANGED kubectl) \/ (~kubectl' /\ UNCHANGED pf)
    BY <1>5 DEF KubectlExits, SessionGone
  <2>2. Promised
    BY <1>u, <2>1, SilentEnd
  <2>3. KubectlEnd'
    <3>1. CASE ~kubectl'
      BY <3>1 DEF KubectlEnd
    <3>2. CASE pf = "shut" /\ kubectl' = kubectl
      BY <3>2, Zenon DEF EndInv, KubectlEnd
    <3> QED
      BY <3>1, <3>2, <2>1
  <2> QED
    BY <1>1, <2>1, <2>2, <2>3, AgentEnd DEF EndInv, PodClose
<1>6. CASE OpenFails
  <2>1. /\ hand.k = "open" /\ hand' = NoFrame /\ UNCHANGED <<pf, listed, kubectl>>
        /\ ToClient(Frame("connerror", hand.c, 0))
    BY <1>6 DEF OpenFails
  <2>2. Frame("connerror", hand.c, 0) \in Frames /\ Frame("connerror", hand.c, 0).k = "connerror"
    BY FrameFacts, PortForwardAssumption DEF Kinds, TypeOK, AgentTypeOK, Frames
  <2>3. Promised
    BY <1>u, <2>1, <2>2, TellEnd DEF Promised
  <2>4. KubectlEnd'
    BY <2>1, KeepEnd
  <2> QED
    BY <1>1, <2>1, <2>3, <2>4, EmptyHand, AgentEnd DEF EndInv, PodClose
<1>7. CASE Dial
  <2>1. /\ hand.k = "open" /\ hand' = [hand EXCEPT !.k = "dialled"]
        /\ UNCHANGED <<up, down, alive, pf, listed, kubectl>>
    BY <1>7 DEF Dial
  <2>2. hand'.k = "dialled" /\ hand'.c = hand.c
    BY <2>1 DEF TypeOK, AgentTypeOK, Frames
  <2>3. Promised /\ KubectlEnd'
    BY <1>u, <2>1, SilentEnd, KeepEnd
  <2> QED
    BY <1>1, <2>1, <2>2, <2>3, AgentEnd DEF EndInv, PodClose
<1> QED
  BY <1>3, <1>4, <1>5, <1>6, <1>7

LEMMA OpenConnEnd ==
  ASSUME ForwardInv, EndInv, OpenConn
  PROVE  EndInv'
<1> USE DEF ForwardInv
<1>c. PICK c : c = hand.c
  OBVIOUS
<1>r. PICK r : r = [conn[c] EXCEPT !.sock = "open", !.writer = TRUE, !.reader = TRUE]
  OBVIOUS
<1>0. /\ hand.k = "dialled" /\ hand' = NoFrame /\ conn' = [conn EXCEPT ![c] = r]
      /\ UNCHANGED <<cliVars, up, down, alive, pf, listed, kubectl>>
  BY <1>c, <1>r DEF OpenConn
<1>1. c \in Conns /\ Pending(c)
  BY <1>0, <1>c, Fields DEF HandInv, Pending
<1>2. r.sock = "open" /\ r.reader
  <2>1. conn[c] \in AgentConns
    BY <1>1, Fields
  <2> QED
    BY <2>1, <1>r DEF AgentConns
<1>3. \A d \in Conns : conn'[d] = IF d = c THEN r ELSE conn[d]
  BY <1>0 DEF TypeOK, ConnTypeOK
<1>4. Promised /\ KubectlEnd'
  BY <1>0, SilentEnd, KeepEnd DEF cliVars
<1> QED
  BY <1>0, <1>1, <1>2, <1>3, <1>4, EmptyHand, AgentEnd DEF EndInv, PodClose

(* closeConn and shutdown: every connection they close still has a reader. *)
LEMMA ClosedEnd ==
  ASSUME ForwardInv, EndInv, NEW S, S \subseteq table, Closed(S)
  PROVE  \A c \in Conns :
           /\ c \notin S => conn'[c] = conn[c]
           /\ c \in S => conn[c].sock = "open" /\ conn'[c].sock = "closed"
           /\ conn'[c].reader = conn[c].reader
           /\ conn'[c].sock = "open" => conn'[c].reader /\ conn[c].sock = "open"
           /\ conn'[c].sock = "closed" /\ ~conn'[c].reader =>
                conn[c].sock = "closed" /\ ~conn[c].reader
           /\ conn'[c].sock = "closed" => conn[c].sock \in {"open", "closed"}
<1> SUFFICES ASSUME NEW c \in Conns
             PROVE  /\ c \notin S => conn'[c] = conn[c]
                    /\ c \in S => conn[c].sock = "open" /\ conn'[c].sock = "closed"
                    /\ conn'[c].reader = conn[c].reader
                    /\ conn'[c].sock = "open" => conn'[c].reader /\ conn[c].sock = "open"
                    /\ conn'[c].sock = "closed" /\ ~conn'[c].reader =>
                         conn[c].sock = "closed" /\ ~conn[c].reader
                    /\ conn'[c].sock = "closed" => conn[c].sock \in {"open", "closed"}
  OBVIOUS
<1>1. conn[c] \in AgentConns /\ (conn[c].sock = "open" => conn[c].reader)
  BY Fields DEF ForwardInv, EndInv, PodClose
<1>n. PICK n : n = conn[c].closed + 1
  OBVIOUS
<1>2. conn'[c] = IF c \in S THEN [conn[c] EXCEPT !.closed = n, !.sock = "closed"] ELSE conn[c]
  <2>1. conn'[c] = IF c \in S THEN [conn[c] EXCEPT !.closed = conn[c].closed + 1, !.sock = "closed"]
                   ELSE conn[c]
    BY Zenon DEF Closed
  <2> QED
    BY <1>n, <2>1, Zenon
<1>3. CASE c \in S
  <2>1. conn[c].sock = "open"
    BY <1>3 DEF ForwardInv, ConnInv, ConnOK
  <2>2. conn'[c].sock = "closed" /\ conn'[c].reader = conn[c].reader
    BY <1>1, <1>2, <1>3 DEF AgentConns
  <2> QED
    BY <1>1, <1>3, <2>1, <2>2
<1>4. CASE c \notin S
  BY <1>1, <1>2, <1>4
<1> QED
  BY <1>3, <1>4

LEMMA ShutdownEnd ==
  ASSUME ForwardInv, EndInv, Shutdown
  PROVE  EndInv'
<1>1. /\ Closed(table) /\ ~kubectl' /\ pf = "live" /\ pf' = "shut"
      /\ UNCHANGED <<cliVars, up, down, alive, listed, hand>>
  BY DEF Shutdown
<1>2. Promised
  BY <1>1, SilentEnd DEF cliVars
<1>3. KubectlEnd'
  BY <1>1 DEF KubectlEnd
<1> QED
  BY <1>1, <1>2, <1>3, ClosedEnd, AgentEnd

LEMMA DataSendEnd ==
  ASSUME ForwardInv, EndInv, DataSend
  PROVE  EndInv'
<1> USE DEF ForwardInv
<1>c. PICK c : c = hand.c
  OBVIOUS
<1>0. hand.k = "data" /\ hand' = NoFrame /\ UNCHANGED <<cliVars, pf, listed, kubectl>>
  BY DEF DataSend
<1>u. UNCHANGED cli
  BY <1>0 DEF cliVars
<1>1. c \in Conns /\ conn[c] \in AgentConns
  BY <1>0, <1>c, Fields DEF HandInv
<1>2. KubectlEnd'
  BY <1>0, KeepEnd
<1>3. CASE UNCHANGED <<conn, up, down, alive>>
  BY <1>0, <1>2, <1>3, <1>u, SilentEnd, EmptyHand, AgentEnd DEF EndInv, PodClose
<1>4. CASE /\ conn' = [conn EXCEPT ![c].in = Append(@, hand.n)]
           /\ UNCHANGED <<table, panicked, up, down, alive>>
  <2>p. PICK p : p = Append(conn[c].in, hand.n)
    OBVIOUS
  <2>r. PICK r : r = [conn[c] EXCEPT !.in = p]
    OBVIOUS
  <2>1. r.sock = conn[c].sock /\ r.reader = conn[c].reader
    BY <1>1, <2>r DEF AgentConns
  <2>2. conn' = [conn EXCEPT ![c] = r]
    BY <1>4, <2>p, <2>r DEF TypeOK, ConnTypeOK
  <2>3. \A d \in Conns : conn'[d] = IF d = c THEN r ELSE conn[d]
    BY <2>2 DEF TypeOK, ConnTypeOK
  <2>4. \A d \in Conns : conn'[d].sock = conn[d].sock /\ conn'[d].reader = conn[d].reader
    BY <2>1, <2>3
  <2>5. Promised
    BY <1>0, <1>4, <1>u, SilentEnd
  <2> QED
    BY <1>0, <1>2, <2>4, <2>5, EmptyHand, AgentEnd DEF EndInv, PodClose
<1>5. CASE Closed(table \cap {c}) /\ ToClient(Frame("connerror", c, 0))
  <2>1. Frame("connerror", c, 0) \in Frames /\ Frame("connerror", c, 0).k = "connerror"
    BY <1>1, ConnsFacts, FrameFacts DEF Kinds
  <2>2. Promised
    BY <1>0, <1>5, <1>u, <2>1, TellEnd DEF Promised
  <2>3. table \cap {c} \subseteq table
    OBVIOUS
  <2> QED
    BY <1>0, <1>2, <1>5, <2>2, <2>3, ClosedEnd, EmptyHand, AgentEnd
<1> QED
  BY <1>c, <1>3, <1>4, <1>5 DEF DataSend
LEMMA WriterEnd ==
  ASSUME ForwardInv, EndInv, NEW c \in Conns, Writer(c)
  PROVE  EndInv'
<1> USE DEF ForwardInv
<1>1. UNCHANGED <<cliVars, up, down, alive, pf, listed, kubectl, hand>>
  BY DEF Writer
<1>2. conn[c] \in AgentConns
  BY Fields
<1>t. PICK t, g : t = Tail(conn[c].in) /\ g = Append(conn[c].got, Head(conn[c].in))
  OBVIOUS
<1>3. ASSUME NEW r, r.sock = conn[c].sock, r.reader = conn[c].reader, conn' = [conn EXCEPT ![c] = r]
      PROVE  EndInv'
  <2>1. \A d \in Conns : conn'[d] = IF d = c THEN r ELSE conn[d]
    BY <1>3 DEF TypeOK, ConnTypeOK
  <2>2. \A d \in Conns : conn'[d].sock = conn[d].sock /\ conn'[d].reader = conn[d].reader
    BY <1>3, <2>1
  <2>3. Promised /\ KubectlEnd'
    BY <1>1, SilentEnd, KeepEnd DEF cliVars
  <2> QED
    BY <1>1, <2>2, <2>3, AgentEnd DEF EndInv, PodClose
<1>4. CASE conn' = [conn EXCEPT ![c] = [@ EXCEPT !.in = Tail(conn[c].in),
                                              !.got = Append(conn[c].got, Head(conn[c].in))]]
  <2>r. PICK r : r = [conn[c] EXCEPT !.in = t, !.got = g]
    OBVIOUS
  <2>1. r.sock = conn[c].sock /\ r.reader = conn[c].reader
    BY <1>2, <2>r DEF AgentConns
  <2>2. conn' = [conn EXCEPT ![c] = r]
    BY <1>4, <1>t, <2>r
  <2> QED
    BY <1>3, <2>1, <2>2
<1>5. CASE conn' = [conn EXCEPT ![c] = [@ EXCEPT !.in = Tail(conn[c].in), !.writer = FALSE]]
  <2>r. PICK r : r = [conn[c] EXCEPT !.in = t, !.writer = FALSE]
    OBVIOUS
  <2>1. r.sock = conn[c].sock /\ r.reader = conn[c].reader
    BY <1>2, <2>r DEF AgentConns
  <2>2. conn' = [conn EXCEPT ![c] = r]
    BY <1>5, <1>t, <2>r
  <2> QED
    BY <1>3, <2>1, <2>2
<1>6. CASE conn' = [conn EXCEPT ![c].writer = FALSE]
  <2>r. PICK r : r = [conn[c] EXCEPT !.writer = FALSE]
    OBVIOUS
  <2>1. r.sock = conn[c].sock /\ r.reader = conn[c].reader
    BY <1>2, <2>r DEF AgentConns
  <2>2. conn' = [conn EXCEPT ![c] = r]
    BY <1>6, <2>r DEF TypeOK, ConnTypeOK
  <2> QED
    BY <1>3, <2>1, <2>2
<1> QED
  BY <1>4, <1>5, <1>6 DEF Writer

LEMMA PodDataEnd ==
  ASSUME ForwardInv, EndInv, NEW c \in Conns, PodData(c)
  PROVE  EndInv'
<1> USE DEF ForwardInv
<1>f. PICK f, n : n = conn[c].sent + 1 /\ f = Frame("data", c, n)
  OBVIOUS
<1>r. PICK r : r = [conn[c] EXCEPT !.sent = n]
  OBVIOUS
<1>0. /\ conn[c].sent < MaxChunks /\ conn' = [conn EXCEPT ![c].sent = @ + 1] /\ ToClient(f)
      /\ UNCHANGED <<cliVars, pf, listed, kubectl, hand>>
  BY <1>f DEF PodData
<1>1. conn[c] \in AgentConns /\ n \in 0..MaxChunks
  <2>1. PICK s \in Nat, m \in Nat : s = conn[c].sent /\ m = MaxChunks
    BY Fields
  <2>2. n \in 0..m
    BY <2>1, <1>0, <1>f
  <2> QED
    BY <2>1, <2>2, Fields
<1>2. f \in Frames /\ f.k = "data"
  BY <1>1, <1>f, ConnsFacts, FrameFacts DEF Kinds
<1>3. r.sock = conn[c].sock /\ r.reader = conn[c].reader
  BY <1>1, <1>r DEF AgentConns
<1>4. conn' = [conn EXCEPT ![c] = r]
  BY <1>0, <1>f, <1>r DEF TypeOK, ConnTypeOK
<1>5. \A d \in Conns : conn'[d] = IF d = c THEN r ELSE conn[d]
  BY <1>4 DEF TypeOK, ConnTypeOK
<1>6. \A d \in Conns : conn'[d].sock = conn[d].sock /\ conn'[d].reader = conn[d].reader
  BY <1>3, <1>5
<1>7. Promised /\ KubectlEnd'
  BY <1>0, <1>2, TellEnd, KeepEnd DEF Promised, cliVars
<1> QED
  BY <1>0, <1>6, <1>7, AgentEnd DEF EndInv, PodClose

(* The read goroutine says that it ends. *)
LEMMA PodReadEndsEnd ==
  ASSUME ForwardInv, EndInv, NEW c \in Conns, PodReadEnds(c)
  PROVE  EndInv'
<1> USE DEF ForwardInv
<1>f. PICK f : f = Frame("close", c, 0)
  OBVIOUS
<1>0. conn[c].reader /\ ToClient(f) /\ UNCHANGED <<cliVars, pf, listed, kubectl, hand>>
  BY <1>f DEF PodReadEnds
<1>1. f \in Frames /\ f.k = "close" /\ CloseOf(f, c)
  BY <1>f, ConnsFacts, FrameFacts DEF Kinds, CloseOf
<1>2. Promised /\ KubectlEnd' /\ (alive' => CloseSent(down', c))
  BY <1>0, <1>1, TellEnd, KeepEnd DEF Promised, cliVars
<1>3. conn[c] \in AgentConns /\ ConnOK(conn[c], c)
  BY Fields DEF ConnInv
<1>4. ASSUME NEW r, r.sock # "open", conn' = [conn EXCEPT ![c] = r]
      PROVE  EndInv'
  <2>1. \A d \in Conns : conn'[d] = IF d = c THEN r ELSE conn[d]
    BY <1>4 DEF TypeOK, ConnTypeOK
  <2>2. \A d \in Conns : conn'[d].sock = "open" => conn'[d].reader /\ conn[d].sock = "open"
    BY <1>4, <2>1 DEF EndInv, PodClose
  <2>3. \A d \in Conns : conn'[d].sock = "closed" /\ ~conn'[d].reader /\ alive' =>
          CloseSent(down', d) \/ (conn[d].sock = "closed" /\ ~conn[d].reader)
    BY <1>2, <2>1
  <2> QED
    BY <1>0, <1>2, <2>2, <2>3, AgentEnd
<1>5. CASE conn' = [conn EXCEPT ![c] = [@ EXCEPT !.reader = FALSE, !.sock = "closed",
                                                 !.closed = conn[c].closed + 1]]
  <2>n. PICK n : n = conn[c].closed + 1
    OBVIOUS
  <2>r. PICK r : r = [conn[c] EXCEPT !.reader = FALSE, !.sock = "closed", !.closed = n]
    OBVIOUS
  <2>1. r.sock = "closed"
    BY <1>3, <2>r DEF AgentConns
  <2>2. conn' = [conn EXCEPT ![c] = r]
    BY <1>5, <2>n, <2>r
  <2> QED
    BY <1>4, <2>1, <2>2
<1>6. CASE c \notin table /\ conn' = [conn EXCEPT ![c].reader = FALSE]
  <2>r. PICK r : r = [conn[c] EXCEPT !.reader = FALSE]
    OBVIOUS
  <2>1. r.sock # "open"
    BY <1>3, <1>6, <2>r DEF AgentConns, ConnOK
  <2>2. conn' = [conn EXCEPT ![c] = r]
    BY <1>6, <2>r DEF TypeOK, ConnTypeOK
  <2> QED
    BY <1>4, <2>1, <2>2
<1> QED
  BY <1>5, <1>6 DEF PodReadEnds

LEMMA RecvEnd ==
  ASSUME ForwardInv, EndInv, RecvDropped \/ RecvTake \/ RecvClose \/ RecvCancel
  PROVE  EndInv'
<1>1. /\ up # <<>> /\ up' = Tail(up) /\ hand = NoFrame
      /\ UNCHANGED <<cliVars, down, alive, pf, kubectl>>
  BY DEF RecvDropped, RecvTake, RecvClose, RecvCancel, Recv, agentVars
<1>2. CASE RecvDropped
  <2>1. UNCHANGED <<conn, listed, hand>>
    BY <1>2 DEF RecvDropped, agentVars
  <2>2. /\ Head(up).k = "cancel" => ~listed
        /\ Head(up).k = "close" /\ PfFor => Head(up).c \notin table
    BY <1>2 DEF RecvDropped, Recv
  <2>3. \A c \in Conns : CloseOf(Head(up), c) /\ PfFor => conn[c].sock # "open"
    BY <2>2 DEF ForwardInv, ConnInv, ConnOK, CloseOf
  <2> QED
    BY <1>1, <2>1, <2>2, <2>3, ConsumeEnd DEF EndInv, PodClose
<1>3. CASE RecvTake
  <2>1. UNCHANGED <<conn, listed>> /\ hand' = Head(up) /\ Head(up).k \in {"open", "data"}
    BY <1>3 DEF RecvTake, Recv
  <2> QED
    BY <1>1, <2>1, ConsumeEnd DEF CloseOf
<1>4. CASE RecvClose
  <2>c. PICK c : c = Head(up).c
    OBVIOUS
  <2>1. UNCHANGED <<hand, listed>> /\ Head(up).k = "close" /\ {c} \subseteq table /\ Closed({c})
    BY <1>4, <2>c DEF RecvClose, Recv
  <2>2. \A d \in Conns : CloseOf(Head(up), d) => conn'[d].sock # "open"
    BY <2>1, <2>c, ClosedEnd DEF CloseOf
  <2>3. \A d \in Conns :
          /\ conn'[d].reader = conn[d].reader
          /\ conn'[d].sock = "open" => conn[d].sock = "open"
          /\ conn'[d].sock = "closed" => conn[d].sock \in {"open", "closed"}
    BY <2>1, ClosedEnd
  <2> QED
    BY <1>1, <2>1, <2>2, <2>3, ConsumeEnd
<1>5. CASE RecvCancel
  <2>1. UNCHANGED <<conn, hand>> /\ ~listed' /\ Head(up).k = "cancel"
    BY <1>5 DEF RecvCancel, Recv
  <2> QED
    BY <1>1, <2>1, ConsumeEnd DEF CloseOf
<1> QED
  BY <1>2, <1>3, <1>4, <1>5
(* kb sends a frame of connection c. *)
LEMMA SendEnd ==
  ASSUME ForwardInv, EndInv, NEW c \in Conns, NEW r, client' = [client EXCEPT ![c] = r],
         NEW f \in Frames, ToAgent(f), f.k \in {"open", "data", "close"}, f.c = c,
         cli = "ready", UNCHANGED <<cli, down, alive, agentVars>>,
         client[c].state = "closed" => r.state = "closed",
         r.state = "open" => r.rd,
         r.state = "closed" /\ ~r.rd => f.k = "close"
  PROVE  EndInv'
<1>u. UNCHANGED <<pf, listed, kubectl, conn, hand>>
  BY DEF agentVars
<1>1. /\ up \in Seq(Frames) /\ (up' = up \/ up' = Append(up, f))
      /\ alive => up' = Append(up, f)
  BY ToAgentFacts DEF ForwardInv, TypeOK, NetTypeOK
<1>2. \A d \in Conns : client'[d] = IF d = c THEN r ELSE client[d]
  BY DEF ForwardInv, TypeOK, CliTypeOK
<1>3. KubectlEnd' /\ ErrorEnd'
  BY <1>u, KeepEnd
<1>4. KbEnd'
  BY <1>2 DEF EndInv, KbEnd
<1>5. CancelTold'
  BY <1>1, <1>u, AppendEnd DEF EndInv, CancelTold
<1>6. PodClose'
  BY <1>2, <1>u DEF EndInv, PodClose
<1>7. ASSUME NEW d \in Conns,
             client'[d].state = "closed", ~client'[d].rd, alive, listed, pf = "live"
      PROVE  Closing(up', d) \/ (conn[d].sock # "open" /\ ~Pending(d)')
  <2>1. CASE d = c
    <3>1. CloseOf(f, c) /\ up' = Append(up, f)
      BY <2>1, <1>1, <1>2, <1>7 DEF CloseOf
    <3>2. Closing(Append(up, f), c)
      BY <3>1, <1>1, AppendEnd
    <3> QED
      BY <2>1, <3>1, <3>2
  <2>2. CASE d # c
    <3>1. ~OpenOf(f, d)
      BY <2>2 DEF OpenOf
    <3>2. Closing(up, d) => Closing(up', d)
      BY <3>1, <1>1, AppendEnd
    <3>3. \A i \in 1..Len(up') : OpenOf(up'[i], d) => \E j \in 1..Len(up) : up[j] = up'[i]
      BY <3>1, <1>1, AppendFacts
    <3>4. ~Pending(d) => ~Pending(d)'
      BY <3>3, <1>u DEF Pending, OpenOf
    <3> QED
      BY <3>2, <3>4, <1>2, <1>7, <2>2 DEF EndInv, ClientClose
  <2> QED
    BY <2>1, <2>2
<1>8. ClientClose'
  BY <1>7, <1>u DEF ClientClose
<1> QED
  BY <1>3, <1>4, <1>5, <1>6, <1>8 DEF EndInv

LEMMA KbSendsEnd ==
  ASSUME ForwardInv, EndInv, NEW c \in Conns, HandleConn(c) \/ ClientData(c) \/ ClientReadEnds(c)
  PROVE  EndInv'
<1> USE DEF ForwardInv
<1>1. cli = "ready" /\ UNCHANGED <<cli, down, alive, agentVars>>
  BY DEF HandleConn, ClientData, ClientReadEnds
<1>2. client[c] \in Clients
  BY Fields
<1>3. CASE HandleConn(c)
  <2>r. PICK r : r = [client[c] EXCEPT !.state = "open", !.rd = TRUE]
    OBVIOUS
  <2>f. PICK f : f = Frame("open", c, 0)
    OBVIOUS
  <2>1. client' = [client EXCEPT ![c] = r] /\ ToAgent(f) /\ c = nextID + 1
    BY <1>3, <2>r, <2>f DEF HandleConn
  <2>2. r.state = "open" /\ r.rd
    BY <1>2, <2>r DEF Clients
  <2>3. f \in Frames /\ f.k = "open" /\ f.c = c
    BY <2>f, ConnsFacts, FrameFacts DEF Kinds
  <2>4. client[c].state = "none"
    <3>1. c > nextID
      BY <2>1, Fields
    <3> QED
      BY <3>1 DEF ClientInv
  <2> QED
    BY <1>1, <2>1, <2>2, <2>3, <2>4, SendEnd
<1>4. CASE ClientData(c)
  <2>n. PICK n : n = client[c].sent + 1
    OBVIOUS
  <2>r. PICK r : r = [client[c] EXCEPT !.sent = n]
    OBVIOUS
  <2>f. PICK f : f = Frame("data", c, n)
    OBVIOUS
  <2>1. /\ client' = [client EXCEPT ![c].sent = @ + 1] /\ ToAgent(f) /\ client[c].sent < MaxChunks
        /\ client[c].state = "open" /\ client[c].rd
    BY <1>4, <2>n, <2>f DEF ClientData
  <2>2. client' = [client EXCEPT ![c] = r]
    BY <2>1, <2>n, <2>r DEF TypeOK, CliTypeOK
  <2>3. r.state = "open" /\ r.rd
    BY <1>2, <2>1, <2>r DEF Clients
  <2>4. n \in 0..MaxChunks
    <3>1. PICK s \in Nat, m \in Nat : s = client[c].sent /\ m = MaxChunks
      BY Fields
    <3>2. n \in 0..m
      BY <3>1, <2>1, <2>n
    <3> QED
      BY <3>1, <3>2
  <2>5. f \in Frames /\ f.k = "data" /\ f.c = c
    BY <2>4, <2>f, ConnsFacts, FrameFacts DEF Kinds
  <2> QED
    BY <1>1, <2>1, <2>2, <2>3, <2>5, SendEnd
<1>5. CASE ClientReadEnds(c)
  <2>r. PICK r : r = [client[c] EXCEPT !.state = "closed", !.rd = FALSE]
    OBVIOUS
  <2>f. PICK f : f = Frame("close", c, 0)
    OBVIOUS
  <2>1. client' = [client EXCEPT ![c] = r] /\ ToAgent(f)
    BY <1>5, <2>r, <2>f DEF ClientReadEnds
  <2>2. r.state = "closed"
    BY <1>2, <2>r DEF Clients
  <2>3. f \in Frames /\ f.k = "close" /\ f.c = c
    BY <2>f, ConnsFacts, FrameFacts DEF Kinds
  <2> QED
    BY <1>1, <2>1, <2>2, <2>3, SendEnd
<1> QED
  BY <1>3, <1>4, <1>5

LEMMA CliDoneEnd ==
  ASSUME ForwardInv, CliDone
  PROVE  cli' = "done" /\ KbEnd'
<1>1. ASSUME NEW c \in Conns PROVE ~client'[c].rd /\ client'[c].state # "open"
  <2>1. client[c] \in Clients /\ (client[c].state = "none" => client[c] = NoClient)
    BY Fields DEF ForwardInv, ClientInv
  <2>2. client'[c] = IF client[c].state = "none" THEN client[c]
                     ELSE [client[c] EXCEPT !.state = "closed", !.rd = FALSE]
    BY Zenon DEF CliDone
  <2>3. CASE client[c].state = "none"
    BY <2>1, <2>2, <2>3 DEF NoClient
  <2>4. CASE client[c].state # "none"
    BY <2>1, <2>2, <2>4 DEF Clients
  <2> QED
    BY <2>3, <2>4
<1>2. KbEnd'
  BY <1>1 DEF KbEnd
<1>3. cli' = "done"
  BY Zenon DEF CliDone
<1> QED
  BY <1>2, <1>3

LEMMA CancelEnd ==
  ASSUME ForwardInv, EndInv, BridgeCancels, UNCHANGED listed
  PROVE  CancelTold'
<1>1. up \in Seq(Frames)
  BY DEF ForwardInv, TypeOK, NetTypeOK
<1>g. PICK g : g = Frame("cancel", 0, 0)
  OBVIOUS
<1>2. (alive /\ up' = Append(up, g)) \/ (~alive /\ up' = up)
  BY <1>g DEF BridgeCancels
<1>3. g \in Frames /\ g.k = "cancel"
  BY <1>g, CancelFrame
<1> QED
  BY <1>1, <1>2, <1>3, AppendEnd DEF EndInv, CancelTold

LEMMA ConnectionBreaksEnd ==
  ASSUME ForwardInv, EndInv, ConnectionBreaks
  PROVE  EndInv'
<1>1. BridgeCancels /\ ~alive' /\ UNCHANGED <<cliVars, down, agentVars>>
  BY DEF ConnectionBreaks, BridgeCancels
<1>2. CancelTold' /\ KubectlEnd' /\ KbEnd'
  BY <1>1, CancelEnd, KeepEnd DEF cliVars, agentVars
<1>3. ErrorEnd'
  BY <1>1 DEF EndInv, ErrorEnd, cliVars, agentVars
<1>4. ClientClose' /\ PodClose'
  BY <1>1 DEF EndInv, ClientClose, PodClose, agentVars
<1> QED
  BY <1>2, <1>3, <1>4 DEF EndInv

LEMMA LocalReadEnd ==
  ASSUME EndInv, NEW c \in Conns, LocalRead(c)
  PROVE  EndInv'
<1>1. UNCHANGED <<cli, nextID, client, up, down, alive, pf, listed, kubectl, conn, hand>>
  BY DEF LocalRead, agentVars
<1>2. KubectlEnd' /\ KbEnd' /\ ErrorEnd' /\ CancelTold' /\ PodClose'
  BY <1>1, KeepEnd
<1>3. ClientClose'
  BY <1>1 DEF EndInv, ClientClose, Pending
<1> QED
  BY <1>2, <1>3 DEF EndInv

LEMMA KbEndsEnd ==
  ASSUME ForwardInv, EndInv, ReadLoopEnds \/ Interrupt
  PROVE  EndInv'
<1>1. CliDone /\ UNCHANGED agentVars
  BY DEF ReadLoopEnds, Interrupt
<1>2. cli' = "done" /\ KbEnd' /\ KubectlEnd'
  BY <1>1, CliDoneEnd, KeepEnd DEF agentVars
<1>3. ~alive' /\ down' = <<>>
  BY DEF ReadLoopEnds, Interrupt, BridgeCancels
<1>4. CancelTold'
  <2>1. CASE ReadLoopEnds
    BY <1>1, <2>1 DEF ReadLoopEnds, EndInv, CancelTold, agentVars
  <2>2. CASE Interrupt
    BY <1>1, <2>2, CancelEnd DEF Interrupt, agentVars
  <2> QED
    BY <2>1, <2>2
<1>5. ErrorEnd'
  BY <1>3 DEF ErrorEnd
<1>6. ClientClose' /\ PodClose'
  BY <1>1, <1>3 DEF EndInv, ClientClose, PodClose, agentVars
<1> QED
  BY <1>2, <1>4, <1>5, <1>6 DEF EndInv

(* kb takes a frame: a close of the pod arrives, or an error ends it. *)
LEMMA ReadLoopEnd ==
  ASSUME ForwardInv, EndInv, ReadLoop
  PROVE  EndInv'
<1> USE DEF ForwardInv
<1>f. PICK f : f = Head(down)
  OBVIOUS
<1>0. /\ cli # "done" /\ down # <<>> /\ down' = Tail(down)
      /\ UNCHANGED <<up, alive, pf, listed, kubectl, conn, hand>>
  BY DEF ReadLoop, agentVars
<1>1. /\ down \in Seq(Frames) /\ f = down[1] /\ 1 \in 1..Len(down) /\ f \in Frames
      /\ \A i \in 1..Len(down') : \E j \in 1..Len(down) : down'[i] = down[j]
  BY <1>0, <1>f, TailFacts DEF TypeOK, NetTypeOK
<1>2. KubectlEnd' /\ CancelTold'
  BY <1>0, KeepEnd
<1>3. \A c \in Conns : CloseSent(down, c) => CloseOf(f, c) \/ CloseSent(down', c)
  BY <1>0, <1>1, <1>f, TailEnd
<1>4. ASSUME cli' # "done", cli = "ready" => cli' = "ready",
             \A c \in Conns : /\ client'[c].rd = client[c].rd
                              /\ \/ client'[c].state = client[c].state
                                 \/ client[c].state # "none" /\ client'[c].state = "closed"
                              /\ CloseOf(f, c) => client'[c].state = "closed"
      PROVE  EndInv'
  <2>1. KbEnd'
    BY <1>4 DEF EndInv, KbEnd
  <2>2. ErrorEnd'
    BY <1>0, <1>1, <1>4 DEF EndInv, ErrorEnd
  <2>3. PodClose'
    BY <1>0, <1>3, <1>4 DEF EndInv, PodClose
  <2>4. ASSUME NEW c \in Conns, client'[c].state = "closed", ~client'[c].rd
        PROVE  client[c].state = "closed" /\ ~client[c].rd
    <3>1. client[c].state \in {"none", "open", "closed"}
      BY Fields DEF Clients
    <3> QED
      BY <2>4, <3>1, <1>4 DEF EndInv, KbEnd
  <2>5. \A c \in Conns : Pending(c)' <=> Pending(c)
    BY <1>0 DEF Pending
  <2>6. ClientClose'
    BY <1>0, <2>4, <2>5 DEF EndInv, ClientClose
  <2> QED
    BY <1>2, <2>1, <2>2, <2>3, <2>6 DEF EndInv
<1>5. CASE f.k = "ready" /\ cli' = "ready" /\ UNCHANGED client
  BY <1>4, <1>5 DEF CloseOf
<1>6. CASE f.k = "data" /\ UNCHANGED cli /\ client' = [client EXCEPT ![f.c].got = Append(@, f.n)]
  <2>c. PICK c, g : c = f.c /\ g = Append(client[c].got, f.n)
    OBVIOUS
  <2>r. PICK r : r = [client[c] EXCEPT !.got = g]
    OBVIOUS
  <2>1. c \in Conns /\ client[c] \in Clients
    BY <1>1, <1>6, <2>c, Fields DEF DownInv
  <2>2. r.state = client[c].state /\ r.rd = client[c].rd
    BY <2>1, <2>r DEF Clients
  <2>3. client' = [client EXCEPT ![c] = r]
    BY <1>6, <2>c, <2>r DEF TypeOK, CliTypeOK
  <2>4. \A d \in Conns : client'[d] = IF d = c THEN r ELSE client[d]
    BY <2>3 DEF TypeOK, CliTypeOK
  <2> QED
    BY <1>0, <1>4, <1>6, <2>2, <2>4 DEF CloseOf
<1>9. CASE f.k = "data" /\ UNCHANGED <<cli, client>>
  BY <1>0, <1>4, <1>9 DEF CloseOf
<1>7. CASE /\ f.k \in {"close", "connerror"} /\ UNCHANGED cli
           /\ client' = [client EXCEPT ![f.c].state = "closed"]
  <2>c. PICK c : c = f.c
    OBVIOUS
  <2>r. PICK r : r = [client[c] EXCEPT !.state = "closed"]
    OBVIOUS
  <2>1. c \in Conns /\ client[c] \in Clients /\ c \in 1..nextID
    BY <1>1, <1>7, <2>c, Fields DEF DownInv
  <2>2. r.state = "closed" /\ r.rd = client[c].rd
    BY <2>1, <2>r DEF Clients
  <2>3. client' = [client EXCEPT ![c] = r]
    BY <1>7, <2>c, <2>r DEF TypeOK, CliTypeOK
  <2>4. \A d \in Conns : client'[d] = IF d = c THEN r ELSE client[d]
    BY <2>3 DEF TypeOK, CliTypeOK
  <2>5. client[c].state # "none"
    <3>1. ~(c > nextID)
      BY <2>1, Fields
    <3> QED
      BY <2>1, <3>1 DEF ClientInv
  <2> QED
    BY <1>0, <1>4, <1>7, <2>c, <2>2, <2>4, <2>5 DEF CloseOf
<1>8. CASE f.k = "error" /\ CliDone
  <2>1. cli' = "done" /\ KbEnd'
    BY <1>8, CliDoneEnd
  <2>2. pf = "ended" /\ pf' = "ended"
    BY <1>0, <1>1, <1>8 DEF EndInv, ErrorEnd
  <2>3. ErrorEnd' /\ ClientClose'
    BY <2>2 DEF ErrorEnd, ClientClose
  <2>4. PodClose'
    BY <1>0, <2>1 DEF EndInv, PodClose
  <2> QED
    BY <1>2, <2>1, <2>3, <2>4 DEF EndInv
<1> QED
  BY <1>f, <1>5, <1>6, <1>7, <1>8, <1>9 DEF ReadLoop

LEMMA EndSteps ==
  ASSUME ForwardInv, EndInv, Next
  PROVE  EndInv'
<1>1. ASSUME NEW c \in Conns,
             \/ HandleConn(c) \/ ClientData(c) \/ ClientReadEnds(c) \/ LocalRead(c)
             \/ Writer(c) \/ PodData(c) \/ PodReadEnds(c)
      PROVE  EndInv'
  BY <1>1, KbSendsEnd, LocalReadEnd, WriterEnd, PodDataEnd, PodReadEndsEnd
<1>2. CASE ReadLoop \/ ReadLoopEnds \/ Interrupt \/ ConnectionBreaks
  BY <1>2, ReadLoopEnd, KbEndsEnd, ConnectionBreaksEnd
<1>3. CASE StartFails \/ StartReady \/ KubectlExits \/ AgentEnds
  BY <1>3, SessionEnd, ShutdownEnd DEF AgentEnds
<1>4. CASE AgentStep
  BY <1>4, RecvEnd, SessionEnd, OpenConnEnd, DataSendEnd DEF AgentStep
<1> QED
  BY <1>1, <1>2, <1>3, <1>4 DEF Next

LEMMA EndInitially == Init => EndInv
<1> SUFFICES ASSUME Init PROVE EndInv
  OBVIOUS
<1>1. \A c \in Conns : client[c] = NoClient /\ conn[c] = NoConn
  BY DEF Init
<1>2. NoClient.state = "none" /\ ~NoClient.rd /\ NoConn.sock = "none"
  BY DEF NoClient, NoConn
<1>3. KubectlEnd /\ ErrorEnd /\ CancelTold
  BY DEF Init, KubectlEnd, ErrorEnd, CancelTold
<1>4. KbEnd /\ ClientClose /\ PodClose
  BY <1>1, <1>2 DEF KbEnd, ClientClose, PodClose
<1> QED
  BY <1>3, <1>4 DEF EndInv

LEMMA QuietIsEnded ==
  ASSUME ForwardInv, EndInv
  PROVE  NobodyStuck
<1> USE DEF ForwardInv
<1> SUFFICES ASSUME Quiet, NEW c \in Conns
             PROVE  /\ client[c].state = "closed" => conn[c].sock # "open"
                    /\ conn[c].sock = "closed" => client[c].state = "closed" \/ KbWaits
                    /\ pf = "ended" => ~conn[c].writer /\ ~conn[c].reader
  BY DEF NobodyStuck
<1>1. /\ conn[c].sock \in {"none", "open", "closed"} /\ ConnOK(conn[c], c)
      /\ client[c].state \in {"none", "open", "closed"}
  BY Fields DEF ConnInv, AgentConns, Clients
<1>2. conn[c].reader => kubectl /\ pf = "live" /\ listed /\ conn[c].sock # "closed"
  BY DEF Quiet, EndInv, KubectlEnd
<1>3. conn[c].sock = "none" => ~conn[c].writer /\ ~conn[c].reader
  BY <1>1 DEF ConnOK, NoConn
<1>4. conn[c].sock = "open" => kubectl /\ pf = "live" /\ listed
  BY <1>2 DEF EndInv, PodClose
<1>5. ASSUME pf = "ended" PROVE ~conn[c].writer /\ ~conn[c].reader
  <2>1. ~conn[c].reader
    BY <1>2, <1>5
  <2> QED
    BY <1>1, <1>3, <1>4, <1>5, <2>1 DEF Quiet
<1>6. ASSUME client[c].state = "closed", conn[c].sock = "open" PROVE FALSE
  <2>1. up = <<>> /\ pf = "live" /\ listed
    BY <1>4, <1>6 DEF Quiet
  <2>2. alive
    BY <2>1 DEF EndInv, CancelTold, Told
  <2>3. ~client[c].rd
    BY <1>6 DEF Quiet, EndInv, KbEnd
  <2>4. ~Closing(up, c)
    BY <2>1 DEF Closing
  <2> QED
    BY <1>6, <2>1, <2>2, <2>3, <2>4 DEF EndInv, ClientClose
<1>7. ASSUME conn[c].sock = "closed", ~KbWaits PROVE client[c].state = "closed"
  <2>1. client[c].state # "none"
    <3>1. c <= nextID
      BY <1>1, <1>7 DEF ConnOK
    <3>2. ~(c > nextID)
      BY <3>1, ConnsFacts, Fields
    <3> QED
      BY <3>2 DEF ClientInv
  <2>2. CASE cli = "done"
    BY <1>1, <2>1, <2>2 DEF EndInv, KbEnd
  <2>3. CASE cli # "done"
    <3>1. down = <<>> /\ alive /\ ~conn[c].reader
      BY <2>3, <1>2, <1>7 DEF Quiet
    <3>2. ~CloseSent(down, c)
      BY <3>1 DEF CloseSent
    <3> QED
      BY <1>7, <2>3, <3>1, <3>2 DEF EndInv, PodClose
  <2> QED
    BY <2>2, <2>3
<1> QED
  BY <1>5, <1>6, <1>7

(* When nothing is left to do, a connection closed by the local program is *)
(* closed at the pod, one closed by the pod is closed at the local program *)
(* or kb is held up in a Write to a local program that does not read, and  *)
(* an ended session has left no goroutine: the safety half of              *)
(* ClientCloseReachesPod, PodCloseReachesClient and SessionReleases        *)
(* (agent/portforward.go 65-148, cli/portforward.go, stream_manager.go).   *)
THEOREM ForwardNeverSticks == Spec => []NobodyStuck
<1>1. Init => EndInv
  BY EndInitially
<1>2. ForwardInv /\ EndInv /\ [Next]_vars => EndInv'
  <2>1. ASSUME ForwardInv, EndInv, UNCHANGED vars PROVE EndInv'
    <3>1. UNCHANGED <<cliVars, up, down, alive, pf, listed, kubectl, conn, hand>>
      BY <2>1 DEF vars, agentVars
    <3>2. Promised /\ KubectlEnd'
      BY <3>1, <2>1, SilentEnd, KeepEnd DEF cliVars
    <3> QED
      BY <2>1, <3>1, <3>2, AgentEnd DEF EndInv, PodClose
  <2> QED
    BY <2>1, EndSteps
<1>3. ForwardInv /\ EndInv => NobodyStuck
  BY QuietIsEnded
<1> QED
  BY <1>1, <1>2, <1>3, ForwardInvariant, PTL DEF Spec
===============================================================================
