---------------------------- MODULE InteractiveProofs --------------------------
(***************************************************************************)
(* Proofs about an interactive session, with or without a terminal, for    *)
(* any amount of input, output and window changes and any channel sizes.   *)
(***************************************************************************)
EXTENDS Interactive, TLAPS

(* Chunks arrive in order; garbled ones come after all others. *)
Before(a, b) == b # Garbled => a < b
AllBefore(S, T) == \A a \in S : \A b \in T : Before(a, b)
Sorted(q) == \A i, j \in 1..Len(q) : i < j => Before(q[i], q[j])
SortedInput(q) ==
  \A i, j \in 1..Len(q) : i < j /\ q[i].k = "stdin" /\ q[j].k = "stdin" => Before(q[i].n, q[j].n)

(* The input on each of its hops: read by the process, in the hands of the *)
(* stdin goroutine, in the session's channel, on its way to the agent.     *)
Elements(q) == {q[i] : i \in 1..Len(q)}
Held == {hand} \ {0}
Coming(q) == {q[i].n : i \in {j \in 1..Len(q) : q[j].k = "stdin"}}
AtAgent == Elements(proc.read) \cup Held \cup Elements(stdin)

OrderInv ==
  /\ Sorted(proc.read) /\ Sorted(stdin) /\ SortedInput(up)
  /\ AllBefore(Elements(proc.read), Held \cup Elements(stdin) \cup Coming(up))
  /\ AllBefore(Held, Elements(stdin) \cup Coming(up))
  /\ AllBefore(Elements(stdin), Coming(up))
  /\ \A x \in AtAgent \cup Coming(up) : x \in 1..kb.sent \/ (x = Garbled /\ kb.torn)

(* The process still reads, or will. *)
Alive == proc.st \in {"none", "running"}

(* Nothing is missing before a chunk that can still be read but what the   *)
(* agent dropped.                                                          *)
GapInv ==
  /\ Alive => \A x \in AtAgent : x # Garbled => 1..x \subseteq AtAgent \cup dropped
  /\ Alive /\ listed => \A x \in Coming(up) : x # Garbled => 1..x \subseteq AtAgent \cup dropped \cup Coming(up)
  /\ Alive /\ listed /\ sess = "open" /\ ~kb.torn => 1..kb.sent \subseteq AtAgent \cup dropped \cup Coming(up)

(* The executor's goroutines: a reader ends when its pipe has no writer    *)
(* and is empty, and the result is reported after the readers have ended.  *)
PumpInv ==
  /\ exec = "start" => proc.st = "none"
  /\ exec = "run" => proc.st # "none"
  /\ exec \in {"report", "gone"} => ~Live /\ pump \cap Outs = {}
  /\ proc.st = "none" => hand = 0 /\ pump = {} /\ \A o \in Outs : proc.wrote[o] = 0
  /\ hand # 0 => "stdin" \in pump
  /\ \A o \in Outs : o \notin pump => proc.pipe[o] = <<>> /\ (Live => o \notin Readers)
  /\ sess = "exited" => proc.st = "exited" /\ \A o \in Outs : proc.pipe[o] = <<>>

(* The pipe of o holds the last chunks written to it. *)
PipeInv ==
  \A o \in Outs :
    /\ Len(proc.pipe[o]) <= proc.wrote[o]
    /\ \A i \in 1..Len(proc.pipe[o]) : proc.pipe[o][i] + Len(proc.pipe[o]) = proc.wrote[o] + i

(* kb got g of output o and channel d holds the rest of the first s chunks. *)
Delivers(o, g, d, s) ==
  /\ Len(g) <= s
  /\ \A i \in 1..Len(g) : g[i] = i
  /\ \A i, j \in 1..Len(d) : i < j /\ d[i].o = o /\ d[j].o = o => d[i].n < d[j].n
  /\ \A i \in 1..Len(d) : d[i].o = o => Len(g) < d[i].n /\ d[i].n <= s
  /\ \A n \in Len(g) + 1..s : \E i \in 1..Len(d) : d[i].o = o /\ d[i].n = n

(* As long as nobody gives the session up, kb has or will get every chunk  *)
(* that has left its pipe.                                                 *)
OutputInv ==
  sess \in {"open", "exited"} /\ kb.pc # "lost" =>
    \A o \in Outs : Delivers(o, kb.got[o], down, proc.wrote[o] - Len(proc.pipe[o]))

(* kb ends with an exit code once the session's channel is closed and drained. *)
ExitInv == kb.pc = "exit" => down = <<>> /\ sess # "open"

TerminalInv ==
  TypeOK /\ OrderInv /\ GapInv /\ InputInOrder /\ PumpInv /\ PipeInv /\ OutputInv /\ ExitInv
-------------------------------------------------------------------------------
(* Types. *)

LEMMA Constants ==
  /\ MaxIn \in Nat /\ MaxOut \in Nat /\ MaxResizes \in Nat
  /\ StdinBuf \in Nat /\ ResizeBuf \in Nat /\ DownBuf \in Nat /\ StdinBuf > 0 /\ ResizeBuf > 0 /\ DownBuf > 0
  /\ Garbled \in Nat /\ Garbled = MaxIn + 1 /\ Garbled \in 1..Garbled /\ 1..MaxIn \subseteq 1..Garbled
  /\ Ttys \subseteq BOOLEAN
<1>1. /\ MaxIn \in Nat /\ MaxOut \in Nat /\ MaxResizes \in Nat
      /\ StdinBuf \in Nat /\ ResizeBuf \in Nat /\ DownBuf \in Nat /\ StdinBuf > 0 /\ ResizeBuf > 0 /\ DownBuf > 0
      /\ Ttys \subseteq BOOLEAN
  BY InteractiveAssumption
<1>2. Garbled \in Nat /\ Garbled = MaxIn + 1 /\ Garbled \in 1..Garbled /\ 1..MaxIn \subseteq 1..Garbled
  BY <1>1 DEF Garbled
<1> QED
  BY <1>1, <1>2

LEMMA KbFields ==
  ASSUME NEW k \in Kbs
  PROVE  /\ k.pc \in {"on", "exit", "lost"} /\ k.eof \in BOOLEAN /\ k.torn \in BOOLEAN
         /\ k.sent \in 0..MaxIn /\ k.sent \in Nat /\ k.size \in 0..MaxResizes /\ k.size \in Nat
         /\ k.got \in [Outs -> Seq(1..MaxOut)]
         /\ \A o \in Outs : k.got[o] \in Seq(1..MaxOut) /\ Len(k.got[o]) \in Nat
<1>1. /\ k.pc \in {"on", "exit", "lost"} /\ k.eof \in BOOLEAN /\ k.torn \in BOOLEAN
      /\ k.sent \in 0..MaxIn /\ k.size \in 0..MaxResizes /\ k.got \in [Outs -> Seq(1..MaxOut)]
  BY DEF Kbs
<1>2. k.sent \in Nat /\ k.size \in Nat
  BY <1>1, Constants
<1>3. \A o \in Outs : k.got[o] \in Seq(1..MaxOut) /\ Len(k.got[o]) \in Nat
  BY <1>1
<1> QED
  BY <1>1, <1>2, <1>3

LEMMA ProcFields ==
  ASSUME NEW p \in Processes
  PROVE  /\ p.st \in {"none", "running", "exited", "killed"} /\ p.heir \in BOOLEAN /\ p.in \in {"open", "eof"}
         /\ p.read \in Seq(1..Garbled) /\ p.size \in 0..MaxResizes
         /\ p.wrote \in [Outs -> 0..MaxOut] /\ p.pipe \in [Outs -> Seq(1..MaxOut)]
         /\ \A o \in Outs : /\ p.wrote[o] \in 0..MaxOut /\ p.wrote[o] \in Nat
                            /\ p.pipe[o] \in Seq(1..MaxOut) /\ Len(p.pipe[o]) \in Nat
<1>1. /\ p.st \in {"none", "running", "exited", "killed"} /\ p.heir \in BOOLEAN /\ p.in \in {"open", "eof"}
      /\ p.read \in Seq(1..Garbled) /\ p.size \in 0..MaxResizes
      /\ p.wrote \in [Outs -> 0..MaxOut] /\ p.pipe \in [Outs -> Seq(1..MaxOut)]
  BY DEF Processes
<1>2. \A o \in Outs : /\ p.wrote[o] \in 0..MaxOut /\ p.pipe[o] \in Seq(1..MaxOut)
  BY <1>1
<1>3. \A o \in Outs : p.wrote[o] \in Nat /\ Len(p.pipe[o]) \in Nat
  BY <1>2, Constants
<1> QED
  BY <1>1, <1>2, <1>3

LEMMA MessageFacts ==
  /\ \A n \in 1..Garbled : [k |-> "stdin", n |-> n] \in Messages
  /\ \A n \in 0..MaxResizes : [k |-> "resize", n |-> n] \in Messages
  /\ [k |-> "cancel", n |-> 0] \in Messages
  /\ \A m \in Messages : m.k = "stdin" => m.n \in 1..Garbled
  /\ \A m \in Messages : m.k = "resize" => m.n \in 0..MaxResizes
BY DEF Messages

-------------------------------------------------------------------------------
(* Channels. *)

LEMMA AppendFacts ==
  ASSUME NEW S, NEW q \in Seq(S), NEW x \in S
  PROVE  /\ Append(q, x) \in Seq(S) /\ Len(Append(q, x)) = Len(q) + 1 /\ Len(q) \in Nat
         /\ \A i \in 1..Len(q) : i \in 1..Len(Append(q, x)) /\ Append(q, x)[i] = q[i]
         /\ Len(q) + 1 \in 1..Len(Append(q, x)) /\ Append(q, x)[Len(q) + 1] = x
         /\ \A i \in 1..Len(Append(q, x)) : i \in 1..Len(q) \/ i = Len(q) + 1
OBVIOUS

LEMMA TailFacts ==
  ASSUME NEW S, NEW q \in Seq(S), q # <<>>
  PROVE  /\ Tail(q) \in Seq(S) /\ Head(q) \in S
         /\ Len(Tail(q)) = Len(q) - 1 /\ Len(q) \in Nat
         /\ 1 \in 1..Len(q) /\ Head(q) = q[1]
         /\ \A i \in 1..Len(Tail(q)) : i + 1 \in 1..Len(q) /\ 1 < i + 1 /\ Tail(q)[i] = q[i + 1]
         /\ \A i \in 1..Len(q) : i # 1 => i - 1 \in 1..Len(Tail(q)) /\ Tail(q)[i - 1] = q[i]
OBVIOUS

LEMMA ElementsAppend ==
  ASSUME NEW S, NEW q \in Seq(S), NEW x \in S
  PROVE  Elements(Append(q, x)) = Elements(q) \cup {x}
<1>1. PICK r : r = Append(q, x)
  OBVIOUS
<1>2. /\ \A i \in 1..Len(q) : i \in 1..Len(r) /\ r[i] = q[i]
      /\ Len(q) + 1 \in 1..Len(r) /\ r[Len(q) + 1] = x
      /\ \A i \in 1..Len(r) : i \in 1..Len(q) \/ i = Len(q) + 1
  BY <1>1, AppendFacts
<1>3. \A y : y \in Elements(r) <=> y \in Elements(q) \cup {x}
  BY <1>2 DEF Elements
<1> QED
  BY <1>1, <1>3

LEMMA ElementsTail ==
  ASSUME NEW S, NEW q \in Seq(S), q # <<>>
  PROVE  Elements(q) = {Head(q)} \cup Elements(Tail(q))
<1>1. PICK r : r = Tail(q)
  OBVIOUS
<1>2. /\ 1 \in 1..Len(q) /\ Head(q) = q[1]
      /\ \A i \in 1..Len(r) : i + 1 \in 1..Len(q) /\ r[i] = q[i + 1]
      /\ \A i \in 1..Len(q) : i # 1 => i - 1 \in 1..Len(r) /\ r[i - 1] = q[i]
  BY <1>1, TailFacts
<1>3. ASSUME NEW y, y \in Elements(q) PROVE y \in {Head(q)} \cup Elements(r)
  BY <1>2, <1>3 DEF Elements
<1>4. ASSUME NEW y, y \in {Head(q)} \cup Elements(r) PROVE y \in Elements(q)
  <2>1. CASE y = Head(q)
    BY <2>1, <1>2 DEF Elements
  <2>2. CASE y \in Elements(r)
    <3>1. PICK i \in 1..Len(r) : y = r[i]
      BY <2>2 DEF Elements
    <3>2. i + 1 \in 1..Len(q) /\ y = q[i + 1]
      BY <3>1, <1>2
    <3> QED
      BY <3>2 DEF Elements
  <2> QED
    BY <2>1, <2>2, <1>4
<1> QED
  BY <1>1, <1>3, <1>4

LEMMA SortedAppend ==
  ASSUME NEW S, NEW q \in Seq(S), NEW x \in S, Sorted(q), AllBefore(Elements(q), {x})
  PROVE  Sorted(Append(q, x))
<1>1. PICK r : r = Append(q, x)
  OBVIOUS
<1>2. /\ Len(q) \in Nat
      /\ \A i \in 1..Len(q) : r[i] = q[i]
      /\ r[Len(q) + 1] = x
      /\ \A i \in 1..Len(r) : i \in 1..Len(q) \/ i = Len(q) + 1
  BY <1>1, AppendFacts
<1> SUFFICES ASSUME NEW i \in 1..Len(r), NEW j \in 1..Len(r), i < j
             PROVE  Before(r[i], r[j])
  BY <1>1 DEF Sorted
<1>3. i \in 1..Len(q)
  BY <1>2
<1>4. CASE j \in 1..Len(q)
  BY <1>2, <1>3, <1>4 DEF Sorted
<1>5. CASE j = Len(q) + 1
  <2>1. q[i] \in Elements(q)
    BY <1>3 DEF Elements
  <2> QED
    BY <2>1, <1>2, <1>3, <1>5 DEF AllBefore
<1> QED
  BY <1>2, <1>4, <1>5

LEMMA SortedTail ==
  ASSUME NEW S, NEW q \in Seq(S), q # <<>>, Sorted(q)
  PROVE  Sorted(Tail(q)) /\ AllBefore({Head(q)}, Elements(Tail(q)))
<1>1. PICK r : r = Tail(q)
  OBVIOUS
<1>2. /\ 1 \in 1..Len(q) /\ Head(q) = q[1] /\ Len(r) \in Nat
      /\ \A i \in 1..Len(r) : i + 1 \in 1..Len(q) /\ 1 < i + 1 /\ r[i] = q[i + 1]
  BY <1>1, TailFacts
<1>3. Sorted(r)
  <2> SUFFICES ASSUME NEW i \in 1..Len(r), NEW j \in 1..Len(r), i < j
               PROVE  Before(r[i], r[j])
    BY DEF Sorted
  <2>1. i + 1 < j + 1
    OBVIOUS
  <2> QED
    BY <2>1, <1>2 DEF Sorted
<1>4. AllBefore({Head(q)}, Elements(r))
  BY <1>2 DEF AllBefore, Elements, Sorted
<1> QED
  BY <1>1, <1>3, <1>4

LEMMA ComingElement ==
  ASSUME NEW q, NEW i \in 1..Len(q), q[i].k = "stdin"
  PROVE  q[i].n \in Coming(q)
BY DEF Coming

(* Appending a message to up. *)
LEMMA ComingAppend ==
  ASSUME NEW q \in Seq(Messages), NEW m \in Messages, SortedInput(q),
         m.k = "stdin" => AllBefore(Coming(q), {m.n})
  PROVE  /\ SortedInput(Append(q, m))
         /\ Coming(Append(q, m)) = Coming(q) \cup (IF m.k = "stdin" THEN {m.n} ELSE {})
<1>1. PICK r : r = Append(q, m)
  OBVIOUS
<1>2. /\ Len(q) \in Nat
      /\ \A i \in 1..Len(q) : i \in 1..Len(r) /\ r[i] = q[i]
      /\ Len(q) + 1 \in 1..Len(r) /\ r[Len(q) + 1] = m
      /\ \A i \in 1..Len(r) : i \in 1..Len(q) \/ i = Len(q) + 1
  BY <1>1, AppendFacts
<1>3. SortedInput(r)
  <2> SUFFICES ASSUME NEW i \in 1..Len(r), NEW j \in 1..Len(r), i < j,
                      r[i].k = "stdin", r[j].k = "stdin"
               PROVE  Before(r[i].n, r[j].n)
    BY DEF SortedInput
  <2>1. i \in 1..Len(q)
    BY <1>2
  <2>2. CASE j \in 1..Len(q)
    BY <1>2, <2>1, <2>2 DEF SortedInput
  <2>3. CASE j = Len(q) + 1
    <3>1. q[i].n \in Coming(q)
      BY <1>2, <2>1, ComingElement
    <3> QED
      BY <3>1, <2>1, <2>3, <1>2 DEF AllBefore
  <2> QED
    BY <1>2, <2>2, <2>3
<1>4. ASSUME NEW y, y \in Coming(r) PROVE y \in Coming(q) \/ (m.k = "stdin" /\ y = m.n)
  BY <1>2, <1>4 DEF Coming
<1>5. ASSUME NEW y, y \in Coming(q) \/ (m.k = "stdin" /\ y = m.n) PROVE y \in Coming(r)
  BY <1>2, <1>5 DEF Coming
<1> QED
  BY <1>1, <1>3, <1>4, <1>5

(* Taking the first message from up. *)
LEMMA ComingTail ==
  ASSUME NEW q \in Seq(Messages), q # <<>>, SortedInput(q)
  PROVE  /\ SortedInput(Tail(q))
         /\ Coming(q) = Coming(Tail(q)) \cup (IF Head(q).k = "stdin" THEN {Head(q).n} ELSE {})
         /\ Head(q).k = "stdin" => AllBefore({Head(q).n}, Coming(Tail(q)))
<1>1. PICK r : r = Tail(q)
  OBVIOUS
<1>2. /\ 1 \in 1..Len(q) /\ Head(q) = q[1] /\ Len(r) \in Nat
      /\ \A i \in 1..Len(r) : i + 1 \in 1..Len(q) /\ 1 < i + 1 /\ r[i] = q[i + 1]
      /\ \A i \in 1..Len(q) : i # 1 => i - 1 \in 1..Len(r) /\ r[i - 1] = q[i]
  BY <1>1, TailFacts
<1>3. SortedInput(r)
  <2> SUFFICES ASSUME NEW i \in 1..Len(r), NEW j \in 1..Len(r), i < j,
                      r[i].k = "stdin", r[j].k = "stdin"
               PROVE  Before(r[i].n, r[j].n)
    BY DEF SortedInput
  <2>1. i + 1 < j + 1
    OBVIOUS
  <2>2. /\ i + 1 \in 1..Len(q) /\ r[i] = q[i + 1]
        /\ j + 1 \in 1..Len(q) /\ r[j] = q[j + 1]
    BY <1>2
  <2> QED
    BY <2>1, <2>2 DEF SortedInput
<1>4. ASSUME NEW y, y \in Coming(q) PROVE y \in Coming(r) \/ (Head(q).k = "stdin" /\ y = Head(q).n)
  <2>1. PICK i \in 1..Len(q) : q[i].k = "stdin" /\ y = q[i].n
    BY <1>4 DEF Coming
  <2>2. CASE i = 1
    BY <1>2, <2>1, <2>2
  <2>3. CASE i # 1
    BY <1>2, <2>1, <2>3, ComingElement
  <2> QED
    BY <2>2, <2>3
<1>5. ASSUME NEW y, y \in Coming(r) \/ (Head(q).k = "stdin" /\ y = Head(q).n) PROVE y \in Coming(q)
  BY <1>2, <1>5 DEF Coming
<1>6. ASSUME Head(q).k = "stdin", NEW y \in Coming(r) PROVE Before(Head(q).n, y)
  <2>1. PICK i \in 1..Len(r) : r[i].k = "stdin" /\ y = r[i].n
    BY DEF Coming
  <2> QED
    BY <1>2, <1>6, <2>1 DEF SortedInput
<1> QED
  BY <1>1, <1>3, <1>4, <1>5, <1>6 DEF AllBefore
-------------------------------------------------------------------------------
(* What a step that changes part of the state leaves alone. *)

LEMMA InputKept ==
  ASSUME OrderInv, GapInv, InputInOrder, UNCHANGED <<stdin, hand, dropped>>, proc'.read = proc.read,
         Coming(up') = Coming(up), SortedInput(up'), kb'.sent = kb.sent, kb'.torn = kb.torn,
         Alive' => Alive, listed' => listed, sess' = "open" => sess = "open"
  PROVE  OrderInv' /\ GapInv' /\ InputInOrder'
<1>1. AtAgent' = AtAgent /\ Held' = Held /\ Elements(proc'.read) = Elements(proc.read)
  BY DEF AtAgent, Held, Elements
<1>2. OrderInv'
  BY <1>1 DEF OrderInv
<1>3. GapInv'
  BY <1>1 DEF GapInv
<1>4. InputInOrder'
  BY DEF InputInOrder
<1> QED
  BY <1>2, <1>3, <1>4

LEMMA OutputKept ==
  ASSUME PumpInv, PipeInv, OutputInv, ExitInv, UNCHANGED <<tty, down, exec, hand, pump, proc>>,
         kb'.got = kb.got, kb'.pc = kb.pc, sess' = sess \/ sess' = "canceled"
  PROVE  PumpInv' /\ PipeInv' /\ OutputInv' /\ ExitInv'
<1>1. PumpInv'
  BY DEF PumpInv, Live, Readers
<1>2. PipeInv'
  BY DEF PipeInv
<1>3. OutputInv'
  BY DEF OutputInv
<1>4. ExitInv'
  BY DEF ExitInv
<1> QED
  BY <1>1, <1>2, <1>3, <1>4

LEMMA UpKept ==
  ASSUME TypeOK, OrderInv, NEW m \in Messages, m.k # "stdin", up' = up \/ up' = Append(up, m)
  PROVE  up' \in Seq(Messages) /\ Coming(up') = Coming(up) /\ SortedInput(up')
<1>1. up \in Seq(Messages) /\ SortedInput(up)
  BY DEF TypeOK, NetTypeOK, OrderInv
<1>2. /\ Append(up, m) \in Seq(Messages) /\ SortedInput(Append(up, m))
      /\ Coming(Append(up, m)) = Coming(up) \cup (IF m.k = "stdin" THEN {m.n} ELSE {})
  BY <1>1, AppendFacts, ComingAppend
<1> QED
  BY <1>1, <1>2

-------------------------------------------------------------------------------
(* kb exec. *)

(* Steps in which kb sends m, or nothing. *)
LEMMA KbSends ==
  ASSUME TerminalInv, NEW k \in Kbs, kb' = k, k.got = kb.got, k.pc = kb.pc,
         k.sent = kb.sent \/ k.sent = kb.sent + 1, kb.torn => k.torn,
         NEW m \in Messages, up' = up \/ (sess = "open" /\ up' = Append(up, m)),
         m.k = "stdin" => (m.n = Garbled /\ k.torn) \/ (m.n = kb.sent + 1 /\ k.sent = kb.sent + 1 /\ ~kb.torn),
         ~k.torn /\ k.sent # kb.sent /\ sess = "open" => m.k = "stdin" /\ m.n = k.sent /\ up' = Append(up, m),
         UNCHANGED <<tty, down, sess, listed, stdin, resize, procVars, exec, dropped>>
  PROVE  TerminalInv'
<1> USE DEF TerminalInv
<1>0. UNCHANGED <<proc, pump, hand>>
  BY DEF procVars
<1>1. /\ kb \in Kbs /\ kb.sent \in Nat /\ k.sent \in Nat /\ kb.sent <= MaxIn
      /\ kb.torn \in BOOLEAN /\ k.torn \in BOOLEAN /\ up \in Seq(Messages) /\ kb.sent <= k.sent
  <2>1. kb \in Kbs
    BY DEF TypeOK
  <2>2. kb.sent \in 0..MaxIn /\ kb.sent \in Nat /\ k.sent \in Nat /\ kb.torn \in BOOLEAN /\ k.torn \in BOOLEAN
    BY <2>1, KbFields
  <2> QED
    BY <2>1, <2>2, Constants DEF TypeOK, NetTypeOK
<1>n. PICK N : N = IF up' = up \/ m.k # "stdin" THEN {} ELSE {m.n}
  OBVIOUS
<1>2. \A x \in N : x = m.n /\ m.k = "stdin" /\ up' # up
  BY <1>n
<1>3. ASSUME m.k = "stdin", NEW a \in AtAgent \cup Coming(up) PROVE Before(a, m.n)
  <2>1. a \in 1..kb.sent \/ (a = Garbled /\ kb.torn)
    BY DEF OrderInv
  <2>2. CASE m.n = Garbled
    BY <2>2 DEF Before
  <2>3. CASE m.n = kb.sent + 1 /\ ~kb.torn
    <3>1. a < kb.sent + 1
      BY <2>1, <2>3, <1>1
    <3> QED
      BY <3>1, <2>3 DEF Before
  <2> QED
    BY <2>2, <2>3, <1>3
<1>4. up' \in Seq(Messages) /\ SortedInput(up') /\ Coming(up') = Coming(up) \cup N
  <2>1. SortedInput(up)
    BY DEF OrderInv
  <2>2. CASE up' = up
    BY <2>1, <2>2, <1>1, <1>n
  <2>3. CASE up' = Append(up, m) /\ up' # up
    <3>1. m.k = "stdin" => AllBefore(Coming(up), {m.n})
      BY <1>3 DEF AllBefore
    <3> QED
      BY <3>1, <2>1, <2>3, <1>1, <1>n, ComingAppend, AppendFacts
  <2> QED
    BY <2>2, <2>3
<1>5. AtAgent' = AtAgent /\ Held' = Held /\ Elements(proc.read)' = Elements(proc.read) /\ Elements(stdin)' = Elements(stdin)
  BY <1>0 DEF AtAgent, Held, Elements
<1>6. TypeOK'
  BY <1>0, <1>1, <1>4 DEF TypeOK, NetTypeOK, ChannelTypeOK, ExecTypeOK
<1>7. OrderInv'
  <2>1. \A a \in AtAgent : \A b \in N : Before(a, b)
    BY <1>2, <1>3
  <2>2. Elements(proc.read) \subseteq AtAgent /\ Held \subseteq AtAgent /\ Elements(stdin) \subseteq AtAgent
    BY DEF AtAgent
  <2>3. /\ AllBefore(Elements(proc.read), Held \cup Elements(stdin) \cup Coming(up'))
        /\ AllBefore(Held, Elements(stdin) \cup Coming(up'))
        /\ AllBefore(Elements(stdin), Coming(up'))
    BY <2>1, <2>2, <1>4 DEF OrderInv, AllBefore
  <2>4. ASSUME NEW x \in AtAgent \cup Coming(up') PROVE x \in 1..k.sent \/ (x = Garbled /\ k.torn)
    <3>1. CASE x \in AtAgent \cup Coming(up)
      <4>1. x \in 1..kb.sent \/ (x = Garbled /\ kb.torn)
        BY <3>1 DEF OrderInv
      <4> QED
        BY <4>1, <1>1
    <3>2. CASE x \in N
      <4>1. x = m.n /\ m.k = "stdin"
        BY <3>2, <1>2
      <4> QED
        BY <4>1, <1>1
    <3> QED
      BY <3>1, <3>2, <1>4
  <2>5. Sorted(proc.read)' /\ Sorted(stdin)'
    BY <1>0 DEF OrderInv
  <2> QED
    BY <2>3, <2>4, <2>5, <1>4, <1>5 DEF OrderInv
<1>8. GapInv'
  <2>1. Alive' = Alive
    BY <1>0 DEF Alive
  <2>2. ASSUME Alive, listed, sess = "open", ~k.torn
        PROVE  1..k.sent \subseteq AtAgent \cup dropped \cup Coming(up')
    <3>1. 1..kb.sent \subseteq AtAgent \cup dropped \cup Coming(up)
      BY <2>2, <1>1 DEF GapInv
    <3>2. CASE k.sent = kb.sent
      BY <3>1, <3>2, <1>4
    <3>3. CASE k.sent # kb.sent
      <4>1. m.k = "stdin" /\ m.n = k.sent /\ up' = Append(up, m) /\ k.sent = kb.sent + 1
        BY <2>2, <3>3
      <4>2. up' # up
        BY <4>1, <1>1, AppendFacts
      <4>3. k.sent \in Coming(up')
        BY <4>1, <4>2, <1>4, <1>n
      <4>4. \A x \in 1..k.sent : x \in 1..kb.sent \/ x = k.sent
        BY <4>1, <1>1
      <4> QED
        BY <4>3, <4>4, <3>1, <1>4
    <3> QED
      BY <3>2, <3>3
  <2>3. ASSUME Alive, listed, NEW x \in Coming(up'), x # Garbled
        PROVE  1..x \subseteq AtAgent \cup dropped \cup Coming(up')
    <3>1. CASE x \in Coming(up)
      BY <3>1, <2>3, <1>4 DEF GapInv
    <3>2. CASE x \in N
      <4>1. /\ x = kb.sent + 1 /\ k.sent = kb.sent + 1 /\ ~kb.torn /\ sess = "open" /\ x \in Coming(up')
        BY <3>2, <2>3, <1>2, <1>4
      <4>2. 1..kb.sent \subseteq AtAgent \cup dropped \cup Coming(up)
        BY <4>1, <2>3 DEF GapInv
      <4>3. \A y \in 1..x : y \in 1..kb.sent \/ y = x
        BY <4>1, <1>1
      <4> QED
        BY <4>1, <4>2, <4>3, <1>4
    <3> QED
      BY <3>1, <3>2, <1>4
  <2>4. Alive => \A x \in AtAgent : x # Garbled => 1..x \subseteq AtAgent \cup dropped
    BY DEF GapInv
  <2> QED
    BY <2>1, <2>2, <2>3, <2>4, <1>5 DEF GapInv
<1>9. InputInOrder'
  BY <1>0, <1>1 DEF InputInOrder
<1>10. PumpInv' /\ PipeInv' /\ OutputInv' /\ ExitInv'
  BY <1>0, OutputKept
<1> QED
  BY <1>6, <1>7, <1>8, <1>9, <1>10

(* ToAgent and KbGarbage. *)
LEMMA SendFacts ==
  ASSUME NEW m, ToAgent(m)
  PROVE  (up' = up \/ (sess = "open" /\ up' = Append(up, m))) /\ (sess = "open" => up' = Append(up, m))
BY DEF ToAgent

LEMMA GarbageFacts ==
  ASSUME KbGarbage
  PROVE  \E m \in Messages : /\ up' = up \/ (sess = "open" /\ up' = Append(up, m))
                             /\ m.k = "stdin" => m.n = Garbled
<1>1. CASE UNCHANGED up
  BY <1>1, MessageFacts
<1>2. CASE ToAgent([k |-> "stdin", n |-> Garbled])
  BY <1>2, SendFacts, MessageFacts, Constants
<1>3. CASE ToAgent([k |-> "resize", n |-> 0])
  <2>1. 0 \in 0..MaxResizes
    BY Constants
  <2> QED
    BY <2>1, <1>3, SendFacts, MessageFacts
<1> QED
  BY <1>1, <1>2, <1>3 DEF KbGarbage

LEMMA KbInputStep ==
  ASSUME TerminalInv, KbInput
  PROVE  TerminalInv'
<1>1. kb \in Kbs /\ kb.sent \in Nat /\ kb.sent < MaxIn /\ kb.torn \in BOOLEAN
  BY KbFields DEF TerminalInv, TypeOK, KbInput
<1>2. kb.sent + 1 \in 0..MaxIn /\ kb.sent + 1 \in 1..Garbled
  BY <1>1, Constants
<1>k. PICK k : k = [kb EXCEPT !.sent = kb.sent + 1]
  OBVIOUS
<1>3. /\ k \in Kbs /\ k.sent = kb.sent + 1 /\ k.got = kb.got /\ k.pc = kb.pc /\ k.torn = kb.torn
      /\ kb' = k
  BY <1>1, <1>2, <1>k DEF Kbs, KbInput
<1>u. UNCHANGED <<tty, down, sess, listed, stdin, resize, procVars, exec, dropped>>
  BY DEF KbInput
<1>4. CASE kb.torn
  <2>1. KbGarbage
    BY <1>4 DEF KbInput, KbEncode
  <2>2. PICK m \in Messages : /\ up' = up \/ (sess = "open" /\ up' = Append(up, m))
                              /\ m.k = "stdin" => m.n = Garbled
    BY <2>1, GarbageFacts
  <2> QED
    BY <2>2, <1>3, <1>4, <1>u, KbSends
<1>5. CASE ~kb.torn
  <2>m. PICK m : m = [k |-> "stdin", n |-> kb.sent + 1]
    OBVIOUS
  <2>1. m \in Messages /\ m.k = "stdin" /\ m.n = kb.sent + 1
    BY <2>m, <1>2, MessageFacts
  <2>2. ToAgent(m)
    BY <1>5, <2>m DEF KbInput, KbEncode
  <2> QED
    BY <2>1, <2>2, <1>3, <1>5, <1>u, SendFacts, KbSends
<1> QED
  BY <1>4, <1>5

LEMMA KbEOFStep ==
  ASSUME TerminalInv, KbEOF
  PROVE  TerminalInv'
<1>1. kb \in Kbs
  BY DEF TerminalInv, TypeOK
<1>k. PICK k : k = [kb EXCEPT !.eof = TRUE]
  OBVIOUS
<1>2. k \in Kbs /\ k.sent = kb.sent /\ k.got = kb.got /\ k.pc = kb.pc /\ k.torn = kb.torn /\ kb' = k
  BY <1>1, <1>k DEF Kbs, KbEOF
<1>m. PICK m : m = [k |-> "cancel", n |-> 0]
  OBVIOUS
<1>3. m \in Messages /\ m.k # "stdin"
  BY <1>m, MessageFacts
<1> QED
  BY <1>2, <1>3, KbSends DEF KbEOF

LEMMA KbResizeStep ==
  ASSUME TerminalInv, KbResize
  PROVE  TerminalInv'
<1>1. kb \in Kbs /\ kb.size \in Nat /\ kb.size < MaxResizes /\ kb.torn \in BOOLEAN
  BY KbFields DEF TerminalInv, TypeOK, KbResize
<1>2. kb.size + 1 \in 0..MaxResizes
  BY <1>1, Constants
<1>k. PICK k : k = [kb EXCEPT !.size = kb.size + 1]
  OBVIOUS
<1>3. /\ k \in Kbs /\ k.sent = kb.sent /\ k.got = kb.got /\ k.pc = kb.pc /\ k.torn = kb.torn
      /\ kb' = k
  BY <1>1, <1>2, <1>k DEF Kbs, KbResize
<1>u. UNCHANGED <<tty, down, sess, listed, stdin, resize, procVars, exec, dropped>>
  BY DEF KbResize
<1>m. PICK m : m = [k |-> "resize", n |-> kb.size + 1]
  OBVIOUS
<1>4. m \in Messages /\ m.k = "resize"
  BY <1>m, <1>2, MessageFacts
<1>5. CASE up' = up \/ ToAgent(m)
  BY <1>3, <1>4, <1>5, <1>u, SendFacts, KbSends
<1>6. CASE kb.torn /\ KbGarbage
  <2>2. PICK n \in Messages : /\ up' = up \/ (sess = "open" /\ up' = Append(up, n))
                              /\ n.k = "stdin" => n.n = Garbled
    BY <1>6, GarbageFacts
  <2> QED
    BY <2>2, <1>3, <1>6, <1>u, KbSends
<1> QED
  BY <1>m, <1>5, <1>6 DEF KbResize, KbEncode

LEMMA KbTearStep ==
  ASSUME TerminalInv, KbTear
  PROVE  TerminalInv'
<1>1. kb \in Kbs /\ kb.size \in Nat /\ kb.size < MaxResizes /\ kb.sent \in Nat /\ kb.sent < MaxIn
  BY KbFields DEF TerminalInv, TypeOK, KbTear
<1>2. kb.size + 1 \in 0..MaxResizes /\ kb.sent + 1 \in 0..MaxIn
  BY <1>1, Constants
<1>k. PICK k : k = [kb EXCEPT !.sent = kb.sent + 1, !.size = kb.size + 1, !.torn = TRUE]
  OBVIOUS
<1>3. /\ k \in Kbs /\ k.sent = kb.sent + 1 /\ k.got = kb.got /\ k.pc = kb.pc /\ k.torn
      /\ kb' = k
  BY <1>1, <1>2, <1>k DEF Kbs, KbTear
<1>u. UNCHANGED <<tty, down, sess, listed, stdin, resize, procVars, exec, dropped>>
  BY DEF KbTear
<1>4. PICK m \in Messages : /\ up' = up \/ (sess = "open" /\ up' = Append(up, m))
                            /\ m.k = "stdin" => m.n = Garbled
  BY GarbageFacts DEF KbTear
<1> QED
  BY <1>3, <1>4, <1>u, KbSends
-------------------------------------------------------------------------------
(* The output on its way from the pipes to kb. *)

(* kb receives a chunk of o. *)
LEMMA DeliversHead ==
  ASSUME NEW d \in Seq(Chunks), d # <<>>, NEW g \in Seq(1..MaxOut), NEW s \in Nat,
         NEW o, o = Head(d).o, Delivers(o, g, d, s)
  PROVE  Delivers(o, Append(g, Head(d).n), Tail(d), s) /\ Head(d).n = Len(g) + 1
<1>0. PICK h \in Nat : h = Len(g)
  OBVIOUS
<1>c. PICK c \in Chunks : c = Head(d)
  BY TailFacts
<1>n. c.n \in 1..MaxOut /\ c.n \in Nat
  BY Constants DEF Chunks
<1>r. PICK r : r = Tail(d)
  OBVIOUS
<1>1. /\ 1 \in 1..Len(d) /\ c = d[1] /\ Len(r) \in Nat
      /\ \A i \in 1..Len(r) : i + 1 \in 1..Len(d) /\ 1 < i + 1 /\ r[i] = d[i + 1]
      /\ \A i \in 1..Len(d) : i # 1 => i - 1 \in 1..Len(r) /\ r[i - 1] = d[i]
  BY <1>r, <1>c, TailFacts
<1>2. /\ h <= s
      /\ \A i \in 1..h : g[i] = i
      /\ \A i, j \in 1..Len(d) : i < j /\ d[i].o = o /\ d[j].o = o => d[i].n < d[j].n
      /\ \A i \in 1..Len(d) : d[i].o = o => h < d[i].n /\ d[i].n <= s
      /\ \A n \in h + 1..s : \E i \in 1..Len(d) : d[i].o = o /\ d[i].n = n
  BY <1>0 DEF Delivers
<1>3. h < c.n /\ c.n <= s /\ c.o = o
  BY <1>1, <1>2, <1>c
<1>d. \A i \in 1..Len(d) : d[i].n \in Nat
  <2>1. \A i \in 1..Len(d) : d[i] \in Chunks
    OBVIOUS
  <2>2. \A b \in Chunks : b.n \in Nat
    BY Constants DEF Chunks
  <2> QED
    BY <2>1, <2>2
<1>4. c.n = h + 1
  <2>1. h + 1 \in h + 1..s
    BY <1>3, <1>n
  <2>2. PICK i \in 1..Len(d) : d[i].o = o /\ d[i].n = h + 1
    BY <2>1, <1>2
  <2>3. CASE i = 1
    BY <2>2, <2>3, <1>1
  <2>4. CASE i # 1
    <3>1. 1 < i
      BY <2>4
    <3>2. c.n < h + 1
      BY <3>1, <2>2, <1>1, <1>2, <1>3
    <3> QED
      BY <3>2, <1>3, <1>n
  <2> QED
    BY <2>3, <2>4
<1>g. PICK e : e = Append(g, c.n)
  OBVIOUS
<1>5. /\ Len(e) = h + 1 /\ e[h + 1] = h + 1
      /\ \A i \in 1..h : e[i] = g[i]
  BY <1>g, <1>0, <1>n, <1>4, AppendFacts
<1>6. \A i \in 1..Len(e) : e[i] = i
  <2>1. \A i \in 1..h + 1 : i \in 1..h \/ i = h + 1
    OBVIOUS
  <2> QED
    BY <2>1, <1>5, <1>2
<1>7. \A i, j \in 1..Len(r) : i < j /\ r[i].o = o /\ r[j].o = o => r[i].n < r[j].n
  <2> SUFFICES ASSUME NEW i \in 1..Len(r), NEW j \in 1..Len(r), i < j, r[i].o = o, r[j].o = o
               PROVE  r[i].n < r[j].n
    OBVIOUS
  <2>1. i + 1 < j + 1
    OBVIOUS
  <2>2. /\ i + 1 \in 1..Len(d) /\ r[i] = d[i + 1]
        /\ j + 1 \in 1..Len(d) /\ r[j] = d[j + 1]
    BY <1>1
  <2> QED
    BY <2>1, <2>2, <1>2
<1>8. \A i \in 1..Len(r) : r[i].o = o => Len(e) < r[i].n /\ r[i].n <= s
  BY <1>1, <1>2, <1>3, <1>4, <1>5, SMTT(20)
<1>9. \A n \in Len(e) + 1..s : \E i \in 1..Len(r) : r[i].o = o /\ r[i].n = n
  <2> SUFFICES ASSUME NEW n \in h + 1 + 1..s
               PROVE  \E i \in 1..Len(r) : r[i].o = o /\ r[i].n = n
    BY <1>5
  <2>0. n \in h + 1..s /\ n # h + 1
    OBVIOUS
  <2>1. PICK i \in 1..Len(d) : d[i].o = o /\ d[i].n = n
    BY <2>0, <1>2
  <2>2. i # 1
    BY <2>0, <2>1, <1>1, <1>4
  <2> QED
    BY <2>1, <2>2, <1>1
<1>10. Len(e) <= s
  BY <1>3, <1>4, <1>5
<1>11. Delivers(o, e, r, s)
  BY <1>6, <1>7, <1>8, <1>9, <1>10 DEF Delivers
<1> QED
  BY <1>11, <1>4, <1>0, <1>c, <1>g, <1>r

(* kb receives a chunk of the other output. *)
LEMMA DeliversOther ==
  ASSUME NEW d \in Seq(Chunks), d # <<>>, NEW g, NEW s,
         NEW o, o # Head(d).o, Delivers(o, g, d, s)
  PROVE  Delivers(o, g, Tail(d), s)
<1>r. PICK r : r = Tail(d)
  OBVIOUS
<1>1. /\ 1 \in 1..Len(d) /\ d[1].o # o /\ Len(r) \in Nat
      /\ \A i \in 1..Len(r) : i + 1 \in 1..Len(d) /\ r[i] = d[i + 1]
      /\ \A i \in 1..Len(d) : i # 1 => i - 1 \in 1..Len(r) /\ r[i - 1] = d[i]
  BY <1>r, TailFacts
<1>2. /\ Len(g) <= s
      /\ \A i \in 1..Len(g) : g[i] = i
      /\ \A i, j \in 1..Len(d) : i < j /\ d[i].o = o /\ d[j].o = o => d[i].n < d[j].n
      /\ \A i \in 1..Len(d) : d[i].o = o => Len(g) < d[i].n /\ d[i].n <= s
      /\ \A n \in Len(g) + 1..s : \E i \in 1..Len(d) : d[i].o = o /\ d[i].n = n
  BY DEF Delivers
<1>3. \A i, j \in 1..Len(r) : i < j /\ r[i].o = o /\ r[j].o = o => r[i].n < r[j].n
  <2> SUFFICES ASSUME NEW i \in 1..Len(r), NEW j \in 1..Len(r), i < j, r[i].o = o, r[j].o = o
               PROVE  r[i].n < r[j].n
    OBVIOUS
  <2>1. i + 1 < j + 1
    OBVIOUS
  <2>2. /\ i + 1 \in 1..Len(d) /\ r[i] = d[i + 1]
        /\ j + 1 \in 1..Len(d) /\ r[j] = d[j + 1]
    BY <1>1
  <2> QED
    BY <2>1, <2>2, <1>2
<1>4. \A i \in 1..Len(r) : r[i].o = o => Len(g) < r[i].n /\ r[i].n <= s
  BY <1>1, <1>2
<1>5. \A n \in Len(g) + 1..s : \E i \in 1..Len(r) : r[i].o = o /\ r[i].n = n
  <2> SUFFICES ASSUME NEW n \in Len(g) + 1..s
               PROVE  \E i \in 1..Len(r) : r[i].o = o /\ r[i].n = n
    OBVIOUS
  <2>1. PICK i \in 1..Len(d) : d[i].o = o /\ d[i].n = n
    BY <1>2
  <2>2. i # 1
    BY <2>1, <1>1
  <2> QED
    BY <2>1, <2>2, <1>1
<1>6. Delivers(o, g, r, s)
  BY <1>2, <1>3, <1>4, <1>5 DEF Delivers
<1> QED
  BY <1>6, <1>r

(* Central receives a chunk c, the next one of output c.o. *)
LEMMA DeliversAppend ==
  ASSUME NEW d \in Seq(Chunks), NEW c \in Chunks, NEW g, Len(g) \in Nat, NEW s \in Nat, NEW t \in Nat,
         NEW o, Delivers(o, g, d, s), IF c.o = o THEN t = s + 1 /\ c.n = t ELSE t = s
  PROVE  Delivers(o, g, Append(d, c), t)
<1>r. PICK r : r = Append(d, c)
  OBVIOUS
<1>0. PICK h \in Nat : h = Len(g)
  OBVIOUS
<1>1. /\ \A i \in 1..Len(d) : i \in 1..Len(r) /\ r[i] = d[i]
      /\ Len(d) + 1 \in 1..Len(r) /\ r[Len(d) + 1] = c /\ Len(d) \in Nat
      /\ \A i \in 1..Len(r) : i \in 1..Len(d) \/ i = Len(d) + 1
  BY <1>r, AppendFacts
<1>2. /\ h <= s
      /\ \A i \in 1..h : g[i] = i
      /\ \A i, j \in 1..Len(d) : i < j /\ d[i].o = o /\ d[j].o = o => d[i].n < d[j].n
      /\ \A i \in 1..Len(d) : d[i].o = o => h < d[i].n /\ d[i].n <= s
      /\ \A n \in h + 1..s : \E i \in 1..Len(d) : d[i].o = o /\ d[i].n = n
  BY <1>0 DEF Delivers
<1>d. \A i \in 1..Len(d) : d[i].n \in Nat
  <2>1. \A i \in 1..Len(d) : d[i] \in Chunks
    OBVIOUS
  <2>2. \A b \in Chunks : b.n \in Nat
    BY Constants DEF Chunks
  <2> QED
    BY <2>1, <2>2
<1>3. h <= t /\ s <= t
  BY <1>2
<1>4. \A i, j \in 1..Len(r) : i < j /\ r[i].o = o /\ r[j].o = o => r[i].n < r[j].n
  <2> SUFFICES ASSUME NEW i \in 1..Len(r), NEW j \in 1..Len(r), i < j, r[i].o = o, r[j].o = o
               PROVE  r[i].n < r[j].n
    OBVIOUS
  <2>1. i \in 1..Len(d)
    BY <1>1
  <2>2. CASE j \in 1..Len(d)
    BY <2>1, <2>2, <1>1, <1>2
  <2>3. CASE j = Len(d) + 1
    <3>1. r[j] = c /\ c.n = s + 1 /\ d[i].n <= s /\ r[i] = d[i]
      BY <2>1, <2>3, <1>1, <1>2
    <3> QED
      BY <3>1, <2>1, <1>d
  <2> QED
    BY <2>2, <2>3, <1>1
<1>5. \A i \in 1..Len(r) : r[i].o = o => h < r[i].n /\ r[i].n <= t
  <2> SUFFICES ASSUME NEW i \in 1..Len(r), r[i].o = o
               PROVE  h < r[i].n /\ r[i].n <= t
    OBVIOUS
  <2>1. CASE i \in 1..Len(d)
    <3>1. r[i] = d[i] /\ h < d[i].n /\ d[i].n <= s /\ d[i].n \in Nat
      BY <2>1, <1>1, <1>2, <1>d
    <3> QED
      BY <3>1, <1>3
  <2>2. CASE i = Len(d) + 1
    BY <2>2, <1>1, <1>2
  <2> QED
    BY <2>1, <2>2, <1>1
<1>6. \A n \in h + 1..t : \E i \in 1..Len(r) : r[i].o = o /\ r[i].n = n
  <2> SUFFICES ASSUME NEW n \in h + 1..t
               PROVE  \E i \in 1..Len(r) : r[i].o = o /\ r[i].n = n
    OBVIOUS
  <2>1. CASE n \in h + 1..s
    <3>1. PICK i \in 1..Len(d) : d[i].o = o /\ d[i].n = n
      BY <2>1, <1>2
    <3> QED
      BY <3>1, <1>1
  <2>2. CASE n \notin h + 1..s
    <3>1. t = s + 1 /\ n = t /\ c.o = o /\ c.n = t
      BY <2>2, <1>2
    <3> QED
      BY <3>1, <1>1
  <2> QED
    BY <2>1, <2>2
<1>7. Delivers(o, g, r, t)
  BY <1>0, <1>2, <1>3, <1>4, <1>5, <1>6 DEF Delivers
<1> QED
  BY <1>7, <1>r
LEMMA KbOutputStep ==
  ASSUME TerminalInv, KbOutput
  PROVE  TerminalInv'
<1> USE DEF TerminalInv
<1>0. /\ kb.pc = "on" /\ down # <<>> /\ down' = Tail(down)
      /\ UNCHANGED <<tty, up, sess, listed, stdin, resize, proc, pump, hand, exec, dropped>>
  BY DEF KbOutput, procVars
<1>1. kb \in Kbs /\ proc \in Processes /\ down \in Seq(Chunks) /\ kb.got \in [Outs -> Seq(1..MaxOut)]
  BY KbFields DEF TypeOK, NetTypeOK
<1>c. PICK c \in Chunks : c = Head(down)
  BY <1>0, <1>1, TailFacts
<1>2. c.o \in Outs /\ c.n \in 1..MaxOut
  BY DEF Chunks
<1>g. PICK g : g = Append(kb.got[c.o], c.n)
  OBVIOUS
<1>3. g \in Seq(1..MaxOut)
  BY <1>g, <1>1, <1>2
<1>k. PICK k : k = [kb EXCEPT !.got = [kb.got EXCEPT ![c.o] = g]]
  OBVIOUS
<1>4. /\ kb' = k /\ k \in Kbs /\ k.pc = "on" /\ k.sent = kb.sent /\ k.torn = kb.torn
      /\ k.got = [kb.got EXCEPT ![c.o] = g]
  BY <1>0, <1>1, <1>3, <1>c, <1>g, <1>k DEF KbOutput, Kbs
<1>5. \A o \in Outs : k.got[o] = IF o = c.o THEN g ELSE kb.got[o]
  BY <1>1, <1>4
<1>6. TypeOK'
  <2>1. down' \in Seq(Chunks) /\ Len(down') = Len(down) - 1 /\ Len(down) \in Nat
    BY <1>0, <1>1, TailFacts
  <2>2. Len(down') <= DownBuf
    BY <2>1, Constants DEF TypeOK, NetTypeOK
  <2> QED
    BY <2>1, <2>2, <1>0, <1>4 DEF TypeOK, NetTypeOK, ChannelTypeOK, ExecTypeOK
<1>7. OrderInv' /\ GapInv' /\ InputInOrder'
  <2>1. SortedInput(up') /\ Coming(up') = Coming(up)
    BY <1>0 DEF OrderInv
  <2>2. Alive' = Alive
    BY <1>0 DEF Alive
  <2> QED
    BY <2>1, <2>2, <1>0, <1>4, InputKept
<1>8. PumpInv' /\ PipeInv'
  BY <1>0 DEF PumpInv, PipeInv, Live, Readers
<1>9. ExitInv'
  BY <1>4 DEF ExitInv
<1>10. OutputInv'
  <2> SUFFICES ASSUME sess \in {"open", "exited"}, NEW o \in Outs
               PROVE  Delivers(o, k.got[o], Tail(down), proc.wrote[o] - Len(proc.pipe[o]))
    BY <1>0, <1>4 DEF OutputInv
  <2>s. PICK s : s = proc.wrote[o] - Len(proc.pipe[o])
    OBVIOUS
  <2>1. Delivers(o, kb.got[o], down, s)
    BY <2>s, <1>0 DEF OutputInv
  <2>2. s \in Nat
    BY <2>s, <1>1, ProcFields DEF PipeInv
  <2>3. CASE o = c.o
    <3>e. PICK e \in Seq(1..MaxOut) : e = kb.got[o]
      BY <1>1
    <3>1. Delivers(o, e, down, s) /\ o = Head(down).o
      BY <3>e, <2>1, <2>3, <1>c
    <3>2. Delivers(o, Append(e, Head(down).n), Tail(down), s)
      BY <3>1, <2>2, <1>0, <1>1, DeliversHead
    <3>3. k.got[o] = Append(e, Head(down).n)
      BY <3>e, <2>3, <1>5, <1>c, <1>g
    <3> QED
      BY <3>2, <3>3, <2>s
  <2>4. CASE o # c.o
    BY <2>1, <2>4, <2>s, <1>0, <1>1, <1>5, <1>c, DeliversOther
  <2> QED
    BY <2>3, <2>4
<1> QED
  BY <1>6, <1>7, <1>8, <1>9, <1>10

LEMMA KbExitStep ==
  ASSUME TerminalInv, KbExit
  PROVE  TerminalInv'
<1> USE DEF TerminalInv
<1>0. /\ kb.pc = "on" /\ down = <<>> /\ sess # "open"
      /\ UNCHANGED <<tty, up, down, sess, listed, stdin, resize, proc, pump, hand, exec, dropped>>
  BY DEF KbExit, procVars
<1>k. PICK k : k = [kb EXCEPT !.pc = "exit"]
  OBVIOUS
<1>1. /\ kb' = k /\ k \in Kbs /\ k.pc = "exit" /\ k.sent = kb.sent /\ k.torn = kb.torn /\ k.got = kb.got
  BY <1>0, <1>k DEF KbExit, Kbs, TypeOK
<1>2. TypeOK'
  BY <1>0, <1>1 DEF TypeOK, NetTypeOK, ChannelTypeOK, ExecTypeOK
<1>3. OrderInv' /\ GapInv' /\ InputInOrder'
  <2>1. SortedInput(up') /\ Coming(up') = Coming(up)
    BY <1>0 DEF OrderInv
  <2>2. Alive' = Alive
    BY <1>0 DEF Alive
  <2> QED
    BY <2>1, <2>2, <1>0, <1>1, InputKept
<1>4. PumpInv' /\ PipeInv'
  BY <1>0 DEF PumpInv, PipeInv, Live, Readers
<1>5. OutputInv' /\ ExitInv'
  BY <1>0, <1>1 DEF OutputInv, ExitInv
<1> QED
  BY <1>2, <1>3, <1>4, <1>5

(* Cancel sends a message that is not input. *)
LEMMA CancelFacts ==
  ASSUME TypeOK, OrderInv, Cancel
  PROVE  /\ up' \in Seq(Messages) /\ Coming(up') = Coming(up) /\ SortedInput(up')
         /\ sess' # "open" /\ sess' \in {sess, "canceled"}
<1>m. PICK m : m = [k |-> "cancel", n |-> 0]
  OBVIOUS
<1>1. m \in Messages /\ m.k # "stdin"
  BY <1>m, MessageFacts
<1>2. up' = up \/ up' = Append(up, m)
  BY <1>m, SendFacts DEF Cancel
<1>3. sess' # "open" /\ sess' \in {sess, "canceled"}
  BY DEF Cancel
<1> QED
  BY <1>1, <1>2, <1>3, UpKept

LEMMA KbLostStep ==
  ASSUME TerminalInv, KbLost
  PROVE  TerminalInv'
<1> USE DEF TerminalInv
<1>0. /\ kb.pc = "on" /\ down' = <<>> /\ Cancel
      /\ UNCHANGED <<tty, listed, stdin, resize, proc, pump, hand, exec, dropped>>
  BY DEF KbLost, procVars
<1>k. PICK k : k = [kb EXCEPT !.pc = "lost"]
  OBVIOUS
<1>1. /\ kb' = k /\ k \in Kbs /\ k.pc = "lost" /\ k.sent = kb.sent /\ k.torn = kb.torn
  BY <1>0, <1>k DEF KbLost, Kbs, TypeOK
<1>c. /\ up' \in Seq(Messages) /\ Coming(up') = Coming(up) /\ SortedInput(up')
      /\ sess' # "open" /\ sess' \in {sess, "canceled"}
  BY <1>0, CancelFacts
<1>2. TypeOK'
  <2>1. down' \in Seq(Chunks) /\ Len(down') = 0 /\ 0 <= DownBuf
    BY <1>0, Constants
  <2>2. sess' \in {"open", "exited", "failed", "canceled"}
    BY <1>c DEF TypeOK, NetTypeOK
  <2> QED
    BY <2>1, <2>2, <1>0, <1>1, <1>c DEF TypeOK, NetTypeOK, ChannelTypeOK, ExecTypeOK
<1>3. OrderInv' /\ GapInv' /\ InputInOrder'
  <2>1. Alive' = Alive
    BY <1>0 DEF Alive
  <2> QED
    BY <2>1, <1>0, <1>1, <1>c, InputKept
<1>4. PumpInv' /\ PipeInv'
  BY <1>0, <1>c DEF PumpInv, PipeInv, Live, Readers
<1>5. OutputInv' /\ ExitInv'
  BY <1>0, <1>1 DEF OutputInv, ExitInv
<1> QED
  BY <1>2, <1>3, <1>4, <1>5
-------------------------------------------------------------------------------
(* The agent's receive loop. *)

LEMMA StdinToStep ==
  ASSUME TerminalInv, StdinTo
  PROVE  TerminalInv'
<1> USE DEF TerminalInv
<1>0. /\ up # <<>> /\ Head(up).k = "stdin" /\ up' = Tail(up)
      /\ UNCHANGED <<tty, kb, down, sess, listed, resize, proc, pump, hand, exec>>
  BY DEF StdinTo, Recv, kbVars, procVars
<1>1. /\ up \in Seq(Messages) /\ SortedInput(up) /\ stdin \in Seq(1..Garbled) /\ Len(stdin) \in Nat
      /\ Len(stdin) <= StdinBuf /\ kb.sent \in Nat /\ kb.sent <= MaxIn
  <2>1. kb.sent \in 0..MaxIn /\ kb.sent \in Nat
    BY KbFields DEF TypeOK
  <2> QED
    BY <2>1, Constants DEF TypeOK, NetTypeOK, ChannelTypeOK, OrderInv
<1>h. PICK h : h = Head(up).n
  OBVIOUS
<1>2. /\ h \in 1..Garbled /\ up' \in Seq(Messages) /\ SortedInput(up')
      /\ Coming(up) = Coming(up') \cup {h} /\ AllBefore({h}, Coming(up'))
  BY <1>0, <1>1, <1>h, TailFacts, ComingTail, MessageFacts
<1>3. \/ ~listed /\ UNCHANGED <<stdin, dropped>>
      \/ listed /\ stdin' = Append(stdin, h) /\ Len(stdin) < StdinBuf /\ UNCHANGED dropped
      \/ listed /\ UNCHANGED stdin /\ dropped' = dropped \cup {h}
  BY <1>1, <1>h, Constants DEF StdinTo
<1>N. PICK N : N = IF stdin' = stdin THEN {} ELSE {h}
  OBVIOUS
<1>4. /\ stdin' \in Seq(1..Garbled) /\ Len(stdin') <= StdinBuf /\ Elements(stdin') = Elements(stdin) \cup N
      /\ Sorted(stdin') /\ dropped' \subseteq 1..Garbled
  <2>0. Sorted(stdin) /\ dropped \subseteq 1..Garbled
    BY DEF OrderInv, TypeOK, ChannelTypeOK
  <2>1. CASE UNCHANGED stdin
    BY <2>0, <2>1, <1>1, <1>2, <1>3, <1>N
  <2>2. CASE stdin' = Append(stdin, h) /\ Len(stdin) < StdinBuf /\ UNCHANGED dropped
    <3>1. AllBefore(Elements(stdin), {h})
      BY <1>2 DEF OrderInv, AllBefore
    <3>S. PICK S : S = 1..Garbled /\ stdin \in Seq(S) /\ h \in S
      BY <1>1, <1>2
    <3>a. /\ Append(stdin, h) \in Seq(S) /\ Len(Append(stdin, h)) = Len(stdin) + 1
          /\ Elements(Append(stdin, h)) = Elements(stdin) \cup {h}
      <4>1. Append(stdin, h) \in Seq(S) /\ Len(Append(stdin, h)) = Len(stdin) + 1
        BY <3>S, AppendFacts
      <4>2. Elements(Append(stdin, h)) = Elements(stdin) \cup {h}
        <5>1. PICK T : stdin \in Seq(T) /\ h \in T
          BY <3>S
        <5> QED
          BY <5>1, ElementsAppend
      <4> QED
        BY <4>1, <4>2
    <3>b. Sorted(Append(stdin, h))
      BY <3>S, <3>1, <2>0, SortedAppend
    <3>2. /\ stdin' \in Seq(1..Garbled) /\ Len(stdin') = Len(stdin) + 1 /\ Sorted(stdin')
          /\ Elements(stdin') = Elements(stdin) \cup {h}
      BY <3>S, <3>a, <3>b, <2>2
    <3>3. Len(stdin') <= StdinBuf /\ stdin' # stdin
      BY <3>2, <2>2, <1>1, Constants
    <3> QED
      BY <3>2, <3>3, <2>0, <2>2, <1>N
  <2> QED
    BY <2>1, <2>2, <1>3
<1>5. AtAgent' = AtAgent \cup N /\ Held' = Held /\ Elements(proc'.read) = Elements(proc.read)
  BY <1>0, <1>4 DEF AtAgent, Held
<1>6. N \subseteq {h} /\ N \subseteq Coming(up) /\ Coming(up') \subseteq Coming(up)
  BY <1>N, <1>2
<1>7. OrderInv'
  <2>1. /\ AllBefore(Elements(proc.read), Held \cup (Elements(stdin) \cup N) \cup Coming(up'))
        /\ AllBefore(Held, Elements(stdin) \cup N \cup Coming(up'))
        /\ AllBefore(Elements(stdin) \cup N, Coming(up'))
    BY <1>2, <1>6 DEF OrderInv, AllBefore
  <2>2. \A x \in AtAgent \cup N \cup Coming(up') : x \in 1..kb.sent \/ (x = Garbled /\ kb.torn)
    BY <1>6 DEF OrderInv
  <2>3. Sorted(proc.read)
    BY DEF OrderInv
  <2> QED
    BY <2>1, <2>2, <2>3, <1>0, <1>2, <1>4, <1>5 DEF OrderInv
<1>8. GapInv'
  <2>1. Alive' = Alive
    BY <1>0 DEF Alive
  <2>2. listed => AtAgent \cup dropped \cup Coming(up) \subseteq AtAgent' \cup dropped' \cup Coming(up')
    <3>1. listed => h \in AtAgent' \cup dropped'
      <4>1. CASE stdin' = stdin
        BY <4>1, <1>3, <1>1, <1>2, AppendFacts
      <4>2. CASE stdin' # stdin
        BY <4>2, <1>5, <1>N
      <4> QED
        BY <4>1, <4>2
    <3> QED
      BY <3>1, <1>2, <1>3, <1>5
  <2>3. AtAgent \cup dropped \subseteq AtAgent' \cup dropped'
    BY <1>3, <1>5
  <2>4. ASSUME Alive, NEW x \in AtAgent', x # Garbled PROVE 1..x \subseteq AtAgent' \cup dropped'
    <3>1. CASE x \in AtAgent
      BY <3>1, <2>3, <2>4 DEF GapInv
    <3>2. CASE x \in N
      <4>1. x = h /\ x \in Coming(up) /\ listed
        BY <3>2, <1>3, <1>6, <1>N
      <4>2. 1..x \subseteq AtAgent' \cup dropped' \cup Coming(up')
        BY <4>1, <2>2, <2>4 DEF GapInv
      <4>3. x < Garbled /\ x \in Nat
        BY <2>4, <4>1, <1>2, Constants
      <4>4. ASSUME NEW y \in 1..x PROVE y \notin Coming(up')
        <5>1. y # Garbled /\ ~(h < y)
          BY <4>1, <4>3, Constants
        <5> QED
          BY <5>1, <1>2 DEF AllBefore, Before
      <4> QED
        BY <4>2, <4>4
    <3> QED
      BY <3>1, <3>2, <1>5
  <2>5. ASSUME Alive, listed, NEW x \in Coming(up'), x # Garbled
        PROVE  1..x \subseteq AtAgent' \cup dropped' \cup Coming(up')
    BY <2>2, <2>5, <1>6 DEF GapInv
  <2>6. ASSUME Alive, listed, sess = "open", ~kb.torn
        PROVE  1..kb.sent \subseteq AtAgent' \cup dropped' \cup Coming(up')
    BY <2>2, <2>6 DEF GapInv
  <2> QED
    BY <2>1, <2>4, <2>5, <2>6, <1>0 DEF GapInv
<1>9. InputInOrder'
  <2>1. dropped \subseteq dropped'
    BY <1>3
  <2> QED
    BY <2>1, <1>0 DEF InputInOrder
<1>10. TypeOK'
  BY <1>0, <1>2, <1>4 DEF TypeOK, NetTypeOK, ChannelTypeOK, ExecTypeOK
<1>11. PumpInv' /\ PipeInv' /\ OutputInv' /\ ExitInv'
  BY <1>0, OutputKept
<1> QED
  BY <1>7, <1>8, <1>9, <1>10, <1>11

(* A message that is not input has arrived. *)
LEMMA OtherArrived ==
  ASSUME TypeOK, OrderInv, up # <<>>, Head(up).k # "stdin", up' = Tail(up)
  PROVE  up' \in Seq(Messages) /\ Coming(up') = Coming(up) /\ SortedInput(up') /\ Head(up) \in Messages
<1>1. up \in Seq(Messages) /\ SortedInput(up)
  BY DEF TypeOK, NetTypeOK, OrderInv
<1>2. Tail(up) \in Seq(Messages) /\ Head(up) \in Messages
  BY <1>1, TailFacts
<1>3. SortedInput(Tail(up)) /\ Coming(up) = Coming(Tail(up)) \cup (IF Head(up).k = "stdin" THEN {Head(up).n} ELSE {})
  BY <1>1, ComingTail
<1> QED
  BY <1>2, <1>3

LEMMA ResizeToStep ==
  ASSUME TerminalInv, ResizeTo
  PROVE  TerminalInv'
<1> USE DEF TerminalInv
<1>0. /\ up # <<>> /\ Head(up).k = "resize" /\ up' = Tail(up)
      /\ UNCHANGED <<tty, kb, down, sess, listed, stdin, proc, pump, hand, exec, dropped>>
  BY DEF ResizeTo, Recv, kbVars, procVars
<1>1. up' \in Seq(Messages) /\ Coming(up') = Coming(up) /\ SortedInput(up') /\ Head(up) \in Messages
  BY <1>0, OtherArrived
<1>h. PICK h : h = Head(up).n
  OBVIOUS
<1>2. resize' \in Seq(0..MaxResizes) /\ Len(resize') <= ResizeBuf
  <2>1. h \in 0..MaxResizes
    BY <1>0, <1>1, <1>h, MessageFacts
  <2>2. resize \in Seq(0..MaxResizes) /\ Len(resize) \in Nat /\ Len(resize) <= ResizeBuf
    BY DEF TypeOK, ChannelTypeOK
  <2>3. resize' = resize \/ (resize' = Append(resize, h) /\ Len(resize) < ResizeBuf)
    BY <1>h DEF ResizeTo
  <2>4. Append(resize, h) \in Seq(0..MaxResizes) /\ Len(Append(resize, h)) = Len(resize) + 1
    BY <2>1, <2>2, AppendFacts
  <2> QED
    BY <2>2, <2>3, <2>4, Constants
<1>3. TypeOK'
  BY <1>0, <1>1, <1>2 DEF TypeOK, NetTypeOK, ChannelTypeOK, ExecTypeOK
<1>4. OrderInv' /\ GapInv' /\ InputInOrder'
  <2>1. Alive' = Alive
    BY <1>0 DEF Alive
  <2> QED
    BY <2>1, <1>0, <1>1, InputKept
<1>5. PumpInv' /\ PipeInv' /\ OutputInv' /\ ExitInv'
  BY <1>0, OutputKept
<1> QED
  BY <1>3, <1>4, <1>5

LEMMA RecvCancelStep ==
  ASSUME TerminalInv, RecvCancel
  PROVE  TerminalInv'
<1> USE DEF TerminalInv
<1>0. /\ up # <<>> /\ Head(up).k = "cancel" /\ up' = Tail(up) /\ listed' = FALSE
      /\ UNCHANGED <<tty, kb, down, sess, stdin, resize, proc, pump, hand, exec, dropped>>
  BY DEF RecvCancel, Recv, kbVars, procVars
<1>1. up' \in Seq(Messages) /\ Coming(up') = Coming(up) /\ SortedInput(up')
  BY <1>0, OtherArrived
<1>3. TypeOK'
  BY <1>0, <1>1 DEF TypeOK, NetTypeOK, ChannelTypeOK, ExecTypeOK
<1>4. OrderInv' /\ GapInv' /\ InputInOrder'
  <2>1. Alive' = Alive
    BY <1>0 DEF Alive
  <2> QED
    BY <2>1, <1>0, <1>1, InputKept
<1>5. PumpInv' /\ PipeInv' /\ OutputInv' /\ ExitInv'
  BY <1>0, OutputKept
<1> QED
  BY <1>3, <1>4, <1>5
-------------------------------------------------------------------------------
(* The executor. *)

LEMMA StartProcessStep ==
  ASSUME TerminalInv, StartProcess
  PROVE  TerminalInv'
<1> USE DEF TerminalInv
<1>0. /\ exec = "start" /\ UNCHANGED <<tty, kb, up, down, sess, listed, stdin, resize, hand, dropped>>
  BY DEF StartProcess, kbVars
<1>1. proc \in Processes /\ proc.st = "none" /\ hand = 0 /\ pump = {} /\ sess # "exited"
  BY <1>0 DEF TypeOK, PumpInv
<1>p. PICK p : p = [proc EXCEPT !.st = "running"]
  OBVIOUS
<1>2. /\ p \in Processes /\ p.st = "running" /\ p.read = proc.read /\ p.wrote = proc.wrote /\ p.pipe = proc.pipe
  BY <1>1, <1>p DEF Processes
<1>3. \/ exec' = "run" /\ proc' = p /\ pump' = Readers \cup {"stdin"} \cup (IF tty THEN {"resize"} ELSE {})
      \/ exec' = "report" /\ UNCHANGED <<proc, pump>>
  BY <1>p DEF StartProcess
<1>4. proc' \in Processes /\ proc'.read = proc.read /\ proc'.wrote = proc.wrote /\ proc'.pipe = proc.pipe
  BY <1>1, <1>2, <1>3
<1>5. TypeOK'
  <2>1. ExecTypeOK'
    BY <1>0, <1>3 DEF TypeOK, ExecTypeOK, Readers, Outs
  <2> QED
    BY <2>1, <1>0, <1>4 DEF TypeOK, NetTypeOK, ChannelTypeOK
<1>6. OrderInv' /\ GapInv' /\ InputInOrder'
  <2>1. SortedInput(up') /\ Coming(up') = Coming(up)
    BY <1>0 DEF OrderInv
  <2>2. Alive
    BY <1>1 DEF Alive
  <2> QED
    BY <2>1, <2>2, <1>0, <1>4, InputKept
<1>7. PumpInv'
  BY <1>0, <1>1, <1>2, <1>3 DEF PumpInv, Live, Readers, Outs
<1>8. PipeInv' /\ OutputInv' /\ ExitInv'
  BY <1>0, <1>4 DEF PipeInv, OutputInv, ExitInv
<1> QED
  BY <1>5, <1>6, <1>7, <1>8

LEMMA StdinTakeStep ==
  ASSUME TerminalInv, StdinTake
  PROVE  TerminalInv'
<1> USE DEF TerminalInv
<1>0. /\ "stdin" \in pump /\ hand = 0 /\ stdin # <<>> /\ hand' = Head(stdin) /\ stdin' = Tail(stdin)
      /\ UNCHANGED <<tty, kb, up, down, sess, listed, resize, proc, pump, exec, dropped>>
  BY DEF StdinTake, kbVars
<1>1. stdin \in Seq(1..Garbled) /\ Sorted(stdin) /\ Len(stdin) <= StdinBuf
  BY DEF TypeOK, ChannelTypeOK, OrderInv
<1>S. PICK S : S = 1..Garbled /\ stdin \in Seq(S)
  BY <1>1
<1>2. Tail(stdin) \in Seq(S) /\ Head(stdin) \in S /\ Len(Tail(stdin)) = Len(stdin) - 1 /\ Len(stdin) \in Nat
  BY <1>S, <1>0, TailFacts
<1>3. Elements(stdin) = {Head(stdin)} \cup Elements(Tail(stdin))
  <2>1. PICK T : stdin \in Seq(T)
    BY <1>S
  <2> QED
    BY <2>1, <1>0, ElementsTail
<1>4. Sorted(Tail(stdin)) /\ AllBefore({Head(stdin)}, Elements(Tail(stdin)))
  <2>1. PICK T : stdin \in Seq(T)
    BY <1>S
  <2> QED
    BY <2>1, <1>0, <1>1, SortedTail
<1>h. PICK h \in 1..Garbled : h = Head(stdin)
  BY <1>2, <1>S
<1>5. /\ hand' = h /\ h # 0 /\ Elements(stdin) = {h} \cup Elements(stdin') /\ Sorted(stdin')
      /\ AllBefore({h}, Elements(stdin')) /\ Held = {} /\ Held' = {h}
  <2>1. h # 0
    BY Constants
  <2> QED
    BY <2>1, <1>0, <1>3, <1>4, <1>h DEF Held
<1>6. TypeOK'
  <2>1. stdin' \in Seq(1..Garbled) /\ Len(stdin') <= StdinBuf
    BY <1>0, <1>1, <1>2, <1>S, Constants
  <2>2. hand' \in 0..Garbled
    BY <1>5, Constants
  <2> QED
    BY <2>1, <2>2, <1>0 DEF TypeOK, NetTypeOK, ChannelTypeOK, ExecTypeOK
<1>7. AtAgent' = AtAgent
  BY <1>0, <1>5 DEF AtAgent
<1>8. OrderInv'
  <2>1. /\ AllBefore(Elements(proc.read), {h} \cup Elements(stdin') \cup Coming(up))
        /\ AllBefore({h}, Elements(stdin') \cup Coming(up))
        /\ AllBefore(Elements(stdin'), Coming(up))
    BY <1>5 DEF OrderInv, AllBefore
  <2>2. Sorted(proc.read) /\ SortedInput(up)
    BY DEF OrderInv
  <2>3. \A x \in AtAgent \cup Coming(up) : x \in 1..kb.sent \/ (x = Garbled /\ kb.torn)
    BY DEF OrderInv
  <2> QED
    BY <2>1, <2>2, <2>3, <1>0, <1>5, <1>7 DEF OrderInv
<1>9. GapInv'
  BY <1>0, <1>7 DEF GapInv, Alive
<1>10. InputInOrder'
  BY <1>0 DEF InputInOrder
<1>11. PumpInv'
  BY <1>0 DEF PumpInv, Live, Readers
<1>12. PipeInv' /\ OutputInv' /\ ExitInv'
  BY <1>0 DEF PipeInv, OutputInv, ExitInv
<1> QED
  BY <1>6, <1>8, <1>9, <1>10, <1>11, <1>12

LEMMA StdinEndsStep ==
  ASSUME TerminalInv, StdinEnds
  PROVE  TerminalInv'
<1> USE DEF TerminalInv
<1>0. /\ "stdin" \in pump /\ UNCHANGED <<tty, kb, up, down, sess, listed, stdin, resize, exec, dropped>>
      /\ \/ hand' = hand /\ hand = 0 /\ pump' = pump \ {"stdin"}
         \/ hand' = 0 /\ hand # 0 /\ ~Live /\ (pump' = pump \/ pump' = pump \ {"stdin"})
  BY DEF StdinEnds, kbVars
<1>p. PICK p : p = [proc EXCEPT !.in = IF tty \/ "stdin" \in pump' THEN proc.in ELSE "eof"]
  OBVIOUS
<1>1. /\ proc' = p /\ p \in Processes /\ p.read = proc.read /\ p.wrote = proc.wrote
      /\ p.pipe = proc.pipe /\ p.st = proc.st
  BY <1>p DEF StdinEnds, Processes, TypeOK
<1>2. proc.st # "none"
  BY <1>0 DEF PumpInv
<1>3. TypeOK'
  <2>1. 0 \in 0..Garbled
    BY Constants
  <2> QED
    BY <2>1, <1>0, <1>1 DEF TypeOK, NetTypeOK, ChannelTypeOK, ExecTypeOK
<1>4. OrderInv' /\ GapInv' /\ InputInOrder'
  <2>1. CASE hand' = hand
    <3>1. SortedInput(up') /\ Coming(up') = Coming(up)
      BY <1>0 DEF OrderInv
    <3>2. Alive' = Alive
      BY <1>1 DEF Alive
    <3> QED
      BY <2>1, <3>1, <3>2, <1>0, <1>1, InputKept
  <2>2. CASE hand' = 0 /\ ~Live
    <3>1. ~Alive'
      BY <2>2, <1>1, <1>2 DEF Live, Alive
    <3>2. Held' = {} /\ AtAgent' \subseteq AtAgent
      BY <2>2, <1>0, <1>1 DEF Held, AtAgent
    <3>3. OrderInv'
      BY <3>2, <1>0, <1>1 DEF OrderInv, AllBefore
    <3>4. GapInv' /\ InputInOrder'
      BY <3>1, <1>0, <1>1 DEF GapInv, InputInOrder
    <3> QED
      BY <3>3, <3>4
  <2> QED
    BY <2>1, <2>2, <1>0
<1>5. PumpInv'
  BY <1>0, <1>1, <1>2 DEF PumpInv, Live, Readers, Outs
<1>6. PipeInv' /\ OutputInv' /\ ExitInv'
  BY <1>0, <1>1 DEF PipeInv, OutputInv, ExitInv
<1> QED
  BY <1>3, <1>4, <1>5, <1>6

LEMMA ResizePumpStep ==
  ASSUME TerminalInv, ResizePump
  PROVE  TerminalInv'
<1> USE DEF TerminalInv
<1>0. /\ "resize" \in pump /\ UNCHANGED <<tty, kb, up, down, sess, listed, stdin, hand, exec, dropped>>
      /\ \/ resize # <<>> /\ proc' = [proc EXCEPT !.size = Head(resize)] /\ resize' = Tail(resize) /\ UNCHANGED pump
         \/ pump' = pump \ {"resize"} /\ UNCHANGED <<proc, resize>>
  BY DEF ResizePump, kbVars
<1>1. resize \in Seq(0..MaxResizes) /\ Len(resize) <= ResizeBuf /\ proc \in Processes
  BY DEF TypeOK, ChannelTypeOK
<1>S. PICK S : S = 0..MaxResizes /\ resize \in Seq(S)
  BY <1>1
<1>2. resize # <<>> => Tail(resize) \in Seq(S) /\ Head(resize) \in S /\ Len(Tail(resize)) = Len(resize) - 1 /\ Len(resize) \in Nat
  BY <1>S, TailFacts
<1>3. resize' \in Seq(0..MaxResizes) /\ Len(resize') <= ResizeBuf
  <2>1. CASE UNCHANGED resize
    BY <2>1, <1>1
  <2>2. CASE resize # <<>> /\ resize' = Tail(resize)
    <3>1. Tail(resize) \in Seq(0..MaxResizes)
      BY <2>2, <1>2, <1>S
    <3>2. Len(Tail(resize)) <= ResizeBuf
      BY <2>2, <1>1, <1>2, Constants
    <3> QED
      BY <3>1, <3>2, <2>2
  <2> QED
    BY <2>1, <2>2, <1>0
<1>4. /\ proc' \in Processes /\ proc'.read = proc.read /\ proc'.wrote = proc.wrote
      /\ proc'.pipe = proc.pipe /\ proc'.st = proc.st
  <2>1. CASE UNCHANGED proc
    BY <2>1, <1>1
  <2>2. CASE resize # <<>> /\ proc' = [proc EXCEPT !.size = Head(resize)]
    <3>h. PICK h \in 0..MaxResizes : h = Head(resize)
      BY <2>2, <1>2, <1>S
    <3>p. PICK p : p = [proc EXCEPT !.size = h]
      OBVIOUS
    <3>1. /\ p \in Processes /\ p.read = proc.read /\ p.wrote = proc.wrote
          /\ p.pipe = proc.pipe /\ p.st = proc.st
      BY <3>p, <1>1 DEF Processes
    <3> QED
      BY <3>1, <3>h, <3>p, <2>2
  <2> QED
    BY <2>1, <2>2, <1>0
<1>5. pump' = pump \/ pump' = pump \ {"resize"}
  BY <1>0
<1>6. TypeOK'
  BY <1>0, <1>3, <1>4, <1>5 DEF TypeOK, NetTypeOK, ChannelTypeOK, ExecTypeOK
<1>7. OrderInv' /\ GapInv' /\ InputInOrder'
  <2>1. SortedInput(up') /\ Coming(up') = Coming(up)
    BY <1>0 DEF OrderInv
  <2>2. Alive' = Alive
    BY <1>4 DEF Alive
  <2> QED
    BY <2>1, <2>2, <1>0, <1>4, InputKept
<1>8. PumpInv'
  BY <1>0, <1>4, <1>5 DEF PumpInv, Live, Readers, Outs
<1>9. PipeInv' /\ OutputInv' /\ ExitInv'
  BY <1>0, <1>4 DEF PipeInv, OutputInv, ExitInv
<1> QED
  BY <1>6, <1>7, <1>8, <1>9
(* RouteOutput: what a chunk does to the session. *)
LEMMA RouteOutputFacts ==
  ASSUME TypeOK, OrderInv, NEW c \in Chunks, RouteOutput(c)
  PROVE  /\ up' \in Seq(Messages) /\ Coming(up') = Coming(up) /\ SortedInput(up')
         /\ down' \in Seq(Chunks) /\ Len(down') <= DownBuf
         /\ \/ sess # "open" /\ sess' = sess /\ down' = down
            \/ sess = "open" /\ sess' = "open" /\ down' = Append(down, c)
            \/ sess = "open" /\ sess' = "canceled" /\ down' = down
<1>0. /\ up \in Seq(Messages) /\ SortedInput(up) /\ down \in Seq(Chunks)
      /\ Len(down) \in Nat /\ Len(down) <= DownBuf /\ DownBuf \in Nat
  BY Constants DEF TypeOK, NetTypeOK, OrderInv
<1>1. CASE sess # "open" /\ UNCHANGED <<up, down, sess>>
  BY <1>0, <1>1
<1>2. CASE sess = "open" /\ Len(down) < DownBuf /\ down' = Append(down, c) /\ UNCHANGED <<up, sess>>
  <2>1. Append(down, c) \in Seq(Chunks) /\ Len(Append(down, c)) = Len(down) + 1
    BY <1>0, AppendFacts
  <2>2. Len(Append(down, c)) <= DownBuf
    BY <2>1, <1>0, <1>2
  <2> QED
    BY <2>1, <2>2, <1>0, <1>2
<1>3. CASE sess = "open" /\ Cancel /\ UNCHANGED down
  <2>1. sess' = "canceled"
    BY <1>3 DEF Cancel
  <2> QED
    BY <2>1, <1>0, <1>3, CancelFacts
<1> QED
  BY <1>1, <1>2, <1>3 DEF RouteOutput

LEMMA PumpChunkStep ==
  ASSUME TerminalInv, NEW o \in Outs, PumpChunk(o)
  PROVE  TerminalInv'
<1> USE DEF TerminalInv
<1>0. /\ o \in pump /\ proc.pipe[o] # <<>> /\ RouteOutput([o |-> o, n |-> Head(proc.pipe[o])])
      /\ UNCHANGED <<tty, kb, listed, stdin, resize, pump, hand, exec, dropped>>
  BY DEF PumpChunk, kbVars
<1>1. proc \in Processes /\ proc.pipe[o] \in Seq(1..MaxOut) /\ proc.pipe \in [Outs -> Seq(1..MaxOut)]
  BY ProcFields DEF TypeOK
<1>q. PICK q : q = Tail(proc.pipe[o])
  OBVIOUS
<1>S. PICK S : S = 1..MaxOut /\ proc.pipe[o] \in Seq(S)
  BY <1>1
<1>2. /\ q \in Seq(S) /\ Head(proc.pipe[o]) \in S /\ Len(q) = Len(proc.pipe[o]) - 1
      /\ 1 \in 1..Len(proc.pipe[o]) /\ Head(proc.pipe[o]) = proc.pipe[o][1]
      /\ Len(proc.pipe[o]) \in Nat /\ Len(q) \in Nat
      /\ \A i \in 1..Len(q) : i + 1 \in 1..Len(proc.pipe[o]) /\ q[i] = proc.pipe[o][i + 1]
  <2>u. PICK u : u = proc.pipe[o] /\ u \in Seq(S) /\ u # <<>>
    BY <1>0, <1>S
  <2>t. PICK t : t = Tail(u)
    OBVIOUS
  <2>1. /\ t \in Seq(S) /\ Head(u) \in S /\ Len(t) = Len(u) - 1 /\ Len(u) \in Nat /\ Len(t) \in Nat
        /\ 1 \in 1..Len(u) /\ Head(u) = u[1]
        /\ \A i \in 1..Len(t) : i + 1 \in 1..Len(u) /\ t[i] = u[i + 1]
    <3>1. PICK T : T = S /\ u \in Seq(T)
      BY <2>u
    <3> QED
      BY <3>1, <2>u, <2>t, TailFacts
  <2> QED
    BY <2>1, <2>u, <2>t, <1>q
<1>p. PICK p : p = [proc EXCEPT !.pipe = [proc.pipe EXCEPT ![o] = q]]
  OBVIOUS
<1>3. /\ proc' = p /\ p \in Processes /\ p.read = proc.read /\ p.wrote = proc.wrote /\ p.st = proc.st
      /\ p.pipe = [proc.pipe EXCEPT ![o] = q]
  <2>1. q \in Seq(1..MaxOut)
    BY <1>2, <1>S
  <2> QED
    BY <2>1, <1>1, <1>p, <1>q DEF PumpChunk, Processes
<1>4. \A x \in Outs : p.pipe[x] = IF x = o THEN q ELSE proc.pipe[x]
  BY <1>1, <1>3
<1>c. PICK c : c = [o |-> o, n |-> Head(proc.pipe[o])]
  OBVIOUS
<1>5. c \in Chunks /\ c.o = o /\ c.n = proc.pipe[o][1] /\ RouteOutput(c)
  BY <1>0, <1>2, <1>S, <1>c DEF Chunks
<1>r. /\ up' \in Seq(Messages) /\ Coming(up') = Coming(up) /\ SortedInput(up')
      /\ down' \in Seq(Chunks) /\ Len(down') <= DownBuf
      /\ \/ sess # "open" /\ sess' = sess /\ down' = down
         \/ sess = "open" /\ sess' = "open" /\ down' = Append(down, c)
         \/ sess = "open" /\ sess' = "canceled" /\ down' = down
  BY <1>5, RouteOutputFacts
<1>6. TypeOK'
  <2>1. sess' \in {"open", "exited", "failed", "canceled"}
    BY <1>r DEF TypeOK, NetTypeOK
  <2> QED
    BY <2>1, <1>0, <1>3, <1>r DEF TypeOK, NetTypeOK, ChannelTypeOK, ExecTypeOK
<1>7. OrderInv' /\ GapInv' /\ InputInOrder'
  <2>1. Alive' = Alive
    BY <1>3 DEF Alive
  <2>2. sess' = "open" => sess = "open"
    BY <1>r
  <2> QED
    BY <2>1, <2>2, <1>0, <1>3, <1>r, InputKept
<1>8. sess # "exited"
  BY <1>0 DEF PumpInv
<1>9. PumpInv'
  <2>1. sess' # "exited"
    BY <1>8, <1>r
  <2>2. \A x \in Outs : x \notin pump => p.pipe[x] = proc.pipe[x]
    BY <1>0, <1>4
  <2> QED
    BY <2>1, <2>2, <1>0, <1>3 DEF PumpInv, Live, Readers
<1>n. PICK l \in Nat, w \in Nat : l = Len(q) /\ w = proc.wrote[o]
  BY <1>1, <1>2, ProcFields
<1>10. Len(proc.pipe[o]) = l + 1 /\ l + 1 <= w /\ c.n + (l + 1) = w + 1
  <2>1. Len(proc.pipe[o]) = l + 1
    BY <1>2, <1>n
  <2> QED
    BY <2>1, <1>2, <1>5, <1>n DEF PipeInv
<1>11. PipeInv'
  <2> SUFFICES ASSUME NEW x \in Outs
               PROVE  /\ Len(p.pipe[x]) <= proc.wrote[x]
                      /\ \A i \in 1..Len(p.pipe[x]) : p.pipe[x][i] + Len(p.pipe[x]) = proc.wrote[x] + i
    BY <1>3 DEF PipeInv
  <2>1. CASE x # o
    BY <2>1, <1>4 DEF PipeInv
  <2>2. CASE x = o
    <3>1. l <= w
      BY <1>10
    <3>2. ASSUME NEW i \in 1..l PROVE q[i] + l = w + i
      <4>1. i + 1 \in 1..l + 1 /\ q[i] = proc.pipe[o][i + 1]
        BY <1>2, <1>n, <1>10
      <4>2. q[i] + (l + 1) = w + (i + 1)
        BY <4>1, <1>10, <1>n DEF PipeInv
      <4>3. q[i] \in Nat
        <5>1. q[i] \in S
          BY <1>2, <1>n
        <5> QED
          BY <5>1, <1>S, Constants
      <4> QED
        BY <4>2, <4>3
    <3> QED
      BY <3>1, <3>2, <2>2, <1>4, <1>n
  <2> QED
    BY <2>1, <2>2
<1>12. OutputInv'
  <2> SUFFICES ASSUME sess' \in {"open", "exited"}, kb.pc # "lost", NEW x \in Outs
               PROVE  Delivers(x, kb.got[x], down', proc.wrote[x] - Len(p.pipe[x]))
    BY <1>0, <1>3 DEF OutputInv
  <2>1. sess = "open" /\ down' = Append(down, c) /\ down \in Seq(Chunks)
    BY <1>8, <1>r DEF TypeOK, NetTypeOK
  <2>2. Delivers(x, kb.got[x], down, proc.wrote[x] - Len(proc.pipe[x]))
    BY <2>1 DEF OutputInv
  <2>3. Len(kb.got[x]) \in Nat
    BY KbFields DEF TypeOK
  <2>s. PICK s \in Nat : s = proc.wrote[x] - Len(proc.pipe[x])
    BY <1>1, ProcFields DEF PipeInv
  <2>t. PICK t \in Nat : t = proc.wrote[x] - Len(p.pipe[x]) /\ (IF c.o = x THEN t = s + 1 /\ c.n = t ELSE t = s)
    <3>1. CASE x = o
      <4>1. w - l \in Nat /\ w - l = w - (l + 1) + 1 /\ c.n = w - l
        <5>1. c.n \in Nat
          BY <1>5, Constants DEF Chunks
        <5> QED
          BY <5>1, <1>10
      <4> QED
        BY <4>1, <3>1, <2>s, <1>4, <1>5, <1>10, <1>n
    <3>2. CASE x # o
      BY <3>2, <2>s, <1>4, <1>5
    <3> QED
      BY <3>1, <3>2
  <2> QED
    BY <2>1, <2>2, <2>3, <2>s, <2>t, <1>5, DeliversAppend
<1>13. ExitInv'
  BY <1>0, <1>r DEF ExitInv
<1> QED
  BY <1>6, <1>7, <1>9, <1>11, <1>12, <1>13

LEMMA PumpEndsStep ==
  ASSUME TerminalInv, NEW o \in Outs, PumpEnds(o)
  PROVE  TerminalInv'
<1> USE DEF TerminalInv
<1>0. /\ o \in pump /\ proc.pipe[o] = <<>> /\ ~Live /\ pump' = pump \ {o}
      /\ UNCHANGED <<tty, kb, up, down, sess, listed, stdin, resize, proc, hand, exec, dropped>>
  BY DEF PumpEnds, kbVars
<1>1. TypeOK'
  BY <1>0 DEF TypeOK, NetTypeOK, ChannelTypeOK, ExecTypeOK
<1>2. OrderInv' /\ GapInv' /\ InputInOrder'
  <2>1. SortedInput(up') /\ Coming(up') = Coming(up)
    BY <1>0 DEF OrderInv
  <2>2. Alive' = Alive
    BY <1>0 DEF Alive
  <2> QED
    BY <2>1, <2>2, <1>0, InputKept
<1>3. PumpInv'
  <2>1. o # "stdin"
    BY DEF Outs
  <2> QED
    BY <2>1, <1>0 DEF PumpInv, Live, Readers
<1>4. PipeInv' /\ OutputInv' /\ ExitInv'
  BY <1>0 DEF PipeInv, OutputInv, ExitInv
<1> QED
  BY <1>1, <1>2, <1>3, <1>4

(* Wait and Report: the session's goroutine. *)
LEMMA ReportStep ==
  ASSUME TerminalInv, Wait \/ Report
  PROVE  TerminalInv'
<1> USE DEF TerminalInv
<1>0. /\ UNCHANGED <<tty, kb, up, down, stdin, resize, proc, pump, hand, dropped>>
      /\ listed' \in {listed, FALSE} /\ exec' \in {"report", "gone"} /\ ~Live /\ pump \cap Outs = {}
      /\ \/ sess' = sess
         \/ sess = "open" /\ sess' \in {"exited", "failed"} /\ (sess' = "exited" => proc.st = "exited")
  BY DEF Wait, Report, RouteExit, kbVars, procVars, PumpInv
<1>1. TypeOK'
  BY <1>0 DEF TypeOK, NetTypeOK, ChannelTypeOK, ExecTypeOK
<1>2. OrderInv' /\ GapInv' /\ InputInOrder'
  <2>1. SortedInput(up') /\ Coming(up') = Coming(up)
    BY <1>0 DEF OrderInv
  <2>2. (Alive' => Alive) /\ (sess' = "open" => sess = "open")
    BY <1>0 DEF Alive
  <2>3. listed' => listed
    BY <1>0 DEF TypeOK, ExecTypeOK
  <2> QED
    BY <2>1, <2>2, <2>3, <1>0, InputKept
<1>3. PumpInv'
  BY <1>0 DEF PumpInv, Live, Readers
<1>4. PipeInv' /\ OutputInv' /\ ExitInv'
  BY <1>0 DEF PipeInv, OutputInv, ExitInv
<1> QED
  BY <1>1, <1>2, <1>3, <1>4
-------------------------------------------------------------------------------
(* The process. *)

LEMMA ProcReadsStep ==
  ASSUME TerminalInv, ProcReads
  PROVE  TerminalInv'
<1> USE DEF TerminalInv
<1>0. /\ Live /\ hand # 0 /\ hand' = 0
      /\ UNCHANGED <<tty, kb, up, down, sess, listed, stdin, resize, pump, exec, dropped>>
  BY DEF ProcReads, kbVars
<1>1. proc \in Processes /\ proc.read \in Seq(1..Garbled) /\ hand \in 1..Garbled /\ Len(proc.read) \in Nat
  <2>1. hand \in 0..Garbled /\ proc \in Processes
    BY DEF TypeOK, ExecTypeOK
  <2>2. hand \in 1..Garbled
    BY <2>1, <1>0, Constants
  <2> QED
    BY <2>1, <2>2, ProcFields
<1>r. PICK r : r = Append(proc.read, hand)
  OBVIOUS
<1>2. /\ r \in Seq(1..Garbled) /\ Len(r) = Len(proc.read) + 1
      /\ r[Len(proc.read) + 1] = hand /\ \A i \in 1..Len(proc.read) : r[i] = proc.read[i]
      /\ Elements(r) = Elements(proc.read) \cup {hand} /\ Sorted(r)
  <2>1. PICK S : S = 1..Garbled /\ proc.read \in Seq(S) /\ hand \in S
    BY <1>1
  <2>2. /\ r \in Seq(S) /\ Len(r) = Len(proc.read) + 1
        /\ r[Len(proc.read) + 1] = hand /\ \A i \in 1..Len(proc.read) : r[i] = proc.read[i]
    <3>1. PICK T : T = S /\ proc.read \in Seq(T) /\ hand \in T
      BY <2>1
    <3> QED
      BY <3>1, <1>r, AppendFacts
  <2>3. Elements(r) = Elements(proc.read) \cup {hand}
    <3>1. PICK T : proc.read \in Seq(T) /\ hand \in T
      BY <2>1
    <3> QED
      BY <3>1, <1>r, ElementsAppend
  <2>4. Sorted(r)
    <3>1. PICK T : proc.read \in Seq(T) /\ hand \in T
      BY <2>1
    <3>2. Sorted(proc.read) /\ AllBefore(Elements(proc.read), {hand})
      BY <1>0 DEF OrderInv, AllBefore, Held
    <3> QED
      BY <3>1, <3>2, <1>r, SortedAppend
  <2> QED
    BY <2>1, <2>2, <2>3, <2>4
<1>p. PICK p : p = [proc EXCEPT !.read = r]
  OBVIOUS
<1>3. /\ proc' = p /\ p \in Processes /\ p.read = r /\ p.wrote = proc.wrote /\ p.st = proc.st /\ p.pipe = proc.pipe
  BY <1>1, <1>2, <1>r, <1>p DEF ProcReads, Processes
<1>4. TypeOK'
  <2>1. 0 \in 0..Garbled
    BY Constants
  <2> QED
    BY <2>1, <1>0, <1>3 DEF TypeOK, NetTypeOK, ChannelTypeOK, ExecTypeOK
<1>5. Held = {hand} /\ Held' = {} /\ AtAgent' = AtAgent
  BY <1>0, <1>2, <1>3 DEF Held, AtAgent
<1>6. OrderInv'
  <2>1. /\ AllBefore(Elements(r), {} \cup Elements(stdin) \cup Coming(up))
        /\ AllBefore({}, Elements(stdin) \cup Coming(up))
        /\ AllBefore(Elements(stdin), Coming(up))
    BY <1>2, <1>5 DEF OrderInv, AllBefore
  <2>2. Sorted(stdin) /\ SortedInput(up)
    BY DEF OrderInv
  <2>3. \A x \in AtAgent \cup Coming(up) : x \in 1..kb.sent \/ (x = Garbled /\ kb.torn)
    BY DEF OrderInv
  <2> QED
    BY <2>1, <2>2, <2>3, <1>0, <1>2, <1>3, <1>5 DEF OrderInv
<1>7. GapInv'
  BY <1>0, <1>3, <1>5 DEF GapInv, Alive
<1>8. InputInOrder'
  <2>l. PICK l \in Nat : l = Len(proc.read)
    BY <1>1
  <2> SUFFICES ASSUME NEW i \in 1..l + 1
               PROVE  IF r[i] = Garbled THEN kb.torn
                      ELSE /\ i > 1 => r[i - 1] < r[i]
                           /\ 1..r[i] \subseteq {r[j] : j \in 1..i} \cup dropped
    <3>1. DOMAIN r = 1..l + 1
      BY <1>2, <2>l
    <3> QED
      BY <3>1, <1>0, <1>3 DEF InputInOrder
  <2>1. CASE i \in 1..l
    <3>1. DOMAIN proc.read = 1..l
      BY <1>1, <2>l
    <3>2. IF proc.read[i] = Garbled THEN kb.torn
          ELSE /\ i > 1 => proc.read[i - 1] < proc.read[i]
               /\ 1..proc.read[i] \subseteq {proc.read[j] : j \in 1..i} \cup dropped
      BY <3>1, <2>1 DEF InputInOrder
    <3>3. r[i] = proc.read[i] /\ (i > 1 => r[i - 1] = proc.read[i - 1])
      <4>1. i > 1 => i - 1 \in 1..l
        BY <2>1
      <4> QED
        BY <4>1, <2>1, <2>l, <1>2
    <3>4. {proc.read[j] : j \in 1..i} = {r[j] : j \in 1..i}
      <4>1. \A j \in 1..i : j \in 1..l
        BY <2>1
      <4> QED
        BY <4>1, <2>l, <1>2
    <3> QED
      BY <3>2, <3>3, <3>4
  <2>2. CASE i = l + 1
    <3>1. r[i] = hand /\ hand \in AtAgent /\ Alive
      BY <2>2, <2>l, <1>0, <1>2, <1>5 DEF AtAgent, Live, Alive
    <3>2. hand = Garbled => kb.torn
      <4>1. hand \in 1..kb.sent \/ (hand = Garbled /\ kb.torn)
        BY <3>1 DEF OrderInv
      <4>2. kb.sent \in 0..MaxIn
        BY KbFields DEF TypeOK
      <4> QED
        BY <4>1, <4>2, Constants
    <3>3. ASSUME hand # Garbled, i > 1 PROVE r[i - 1] < hand
      <4>1. i - 1 \in 1..Len(proc.read) /\ r[i - 1] = proc.read[i - 1]
        BY <3>3, <2>2, <2>l, <1>2
      <4>2. proc.read[i - 1] \in Elements(proc.read)
        BY <4>1 DEF Elements
      <4> QED
        BY <4>1, <4>2, <3>3, <1>5 DEF OrderInv, AllBefore, Before
    <3>4. ASSUME hand # Garbled PROVE 1..hand \subseteq {r[j] : j \in 1..i} \cup dropped
      <4>1. 1..hand \subseteq AtAgent \cup dropped
        BY <3>1, <3>4 DEF GapInv
      <4>2. Elements(r) = {r[j] : j \in 1..i}
        BY <2>2, <2>l, <1>2 DEF Elements
      <4>3. ASSUME NEW y \in 1..hand PROVE y \notin Elements(stdin)
        <5>1. y # Garbled /\ ~(hand < y)
          BY <3>4, <1>1, Constants
        <5> QED
          BY <5>1, <1>5 DEF OrderInv, AllBefore, Before
      <4>4. AtAgent = Elements(r) \cup Elements(stdin)
        BY <1>2, <1>5 DEF AtAgent
      <4> QED
        BY <4>1, <4>2, <4>3, <4>4
    <3> QED
      BY <3>1, <3>2, <3>3, <3>4
  <2> QED
    BY <2>1, <2>2
<1>9. PumpInv'
  BY <1>0, <1>3 DEF PumpInv, Live, Readers
<1>10. PipeInv' /\ OutputInv' /\ ExitInv'
  BY <1>0, <1>3 DEF PipeInv, OutputInv, ExitInv
<1> QED
  BY <1>4, <1>6, <1>7, <1>8, <1>9, <1>10

LEMMA ProcWritesStep ==
  ASSUME TerminalInv, NEW o \in Outs, ProcWrites(o)
  PROVE  TerminalInv'
<1> USE DEF TerminalInv
<1>0. /\ Live /\ o \in Readers /\ proc.wrote[o] < MaxOut
      /\ UNCHANGED <<tty, kb, up, down, sess, listed, stdin, resize, pump, hand, exec, dropped>>
  BY DEF ProcWrites, kbVars
<1>1. /\ proc \in Processes /\ proc.pipe \in [Outs -> Seq(1..MaxOut)] /\ proc.wrote \in [Outs -> 0..MaxOut]
      /\ \A x \in Outs : proc.pipe[x] \in Seq(1..MaxOut) /\ Len(proc.pipe[x]) \in Nat /\ proc.wrote[x] \in Nat
  BY ProcFields DEF TypeOK
<1>w. PICK w \in Nat, l \in Nat : w = proc.wrote[o] /\ l = Len(proc.pipe[o])
  BY <1>1
<1>2. w + 1 \in 1..MaxOut /\ w + 1 \in 0..MaxOut
  BY <1>0, <1>w, Constants
<1>q. PICK q : q = Append(proc.pipe[o], w + 1)
  OBVIOUS
<1>3. /\ q \in Seq(1..MaxOut) /\ Len(q) = l + 1 /\ q[l + 1] = w + 1
      /\ \A i \in 1..l : q[i] = proc.pipe[o][i]
  BY <1>1, <1>2, <1>q, <1>w
<1>p. PICK p : p = [proc EXCEPT !.wrote = [proc.wrote EXCEPT ![o] = w + 1], !.pipe = [proc.pipe EXCEPT ![o] = q]]
  OBVIOUS
<1>4. /\ proc' = p /\ p \in Processes /\ p.read = proc.read /\ p.st = proc.st
      /\ p.wrote = [proc.wrote EXCEPT ![o] = w + 1] /\ p.pipe = [proc.pipe EXCEPT ![o] = q]
  BY <1>1, <1>2, <1>3, <1>p, <1>q, <1>w DEF ProcWrites, Processes
<1>5. \A x \in Outs : /\ p.pipe[x] = IF x = o THEN q ELSE proc.pipe[x]
                      /\ p.wrote[x] = IF x = o THEN w + 1 ELSE proc.wrote[x]
  BY <1>1, <1>4
<1>6. TypeOK'
  BY <1>0, <1>4 DEF TypeOK, NetTypeOK, ChannelTypeOK, ExecTypeOK
<1>7. OrderInv' /\ GapInv' /\ InputInOrder'
  <2>1. SortedInput(up') /\ Coming(up') = Coming(up)
    BY <1>0 DEF OrderInv
  <2>2. Alive' = Alive
    BY <1>4 DEF Alive
  <2> QED
    BY <2>1, <2>2, <1>0, <1>4, InputKept
<1>8. PumpInv'
  <2>1. o \in pump /\ sess # "exited" /\ proc.st # "none"
    BY <1>0 DEF PumpInv, Live
  <2>2. \A x \in Outs : x \notin pump => p.pipe[x] = proc.pipe[x]
    BY <2>1, <1>5
  <2> QED
    BY <2>1, <2>2, <1>0, <1>4 DEF PumpInv, Live, Readers
<1>9. PipeInv'
  <2> SUFFICES ASSUME NEW x \in Outs
               PROVE  /\ Len(p.pipe[x]) <= p.wrote[x]
                      /\ \A i \in 1..Len(p.pipe[x]) : p.pipe[x][i] + Len(p.pipe[x]) = p.wrote[x] + i
    BY <1>4 DEF PipeInv
  <2>1. CASE x # o
    BY <2>1, <1>5 DEF PipeInv
  <2>2. CASE x = o
    <3>1. l <= w
      BY <1>w DEF PipeInv
    <3>2. ASSUME NEW i \in 1..l + 1 PROVE q[i] + (l + 1) = (w + 1) + i
      <4>1. CASE i \in 1..l
        <5>1. q[i] = proc.pipe[o][i] /\ q[i] + l = w + i
          BY <4>1, <1>3, <1>w DEF PipeInv
        <5>2. q[i] \in Nat
          <6>1. i \in 1..Len(q)
            BY <4>1, <1>3
          <6>2. \A y \in 1..MaxOut : y \in Nat
            BY Constants
          <6>3. PICK S : q \in Seq(S) /\ \A y \in S : y \in Nat
            BY <6>2, <1>3
          <6> QED
            BY <6>1, <6>3
        <5> QED
          BY <5>1, <5>2
      <4>2. CASE i = l + 1
        BY <4>2, <1>3
      <4> QED
        BY <4>1, <4>2
    <3> QED
      BY <3>1, <3>2, <2>2, <1>3, <1>5
  <2> QED
    BY <2>1, <2>2
<1>10. OutputInv'
  <2>1. \A x \in Outs : p.wrote[x] - Len(p.pipe[x]) = proc.wrote[x] - Len(proc.pipe[x])
    <3> SUFFICES ASSUME NEW x \in Outs
                 PROVE  p.wrote[x] - Len(p.pipe[x]) = proc.wrote[x] - Len(proc.pipe[x])
      OBVIOUS
    <3>1. CASE x = o
      <4>1. (w + 1) - (l + 1) = w - l
        OBVIOUS
      <4> QED
        BY <4>1, <3>1, <1>3, <1>5, <1>w
    <3>2. CASE x # o
      BY <3>2, <1>5
    <3> QED
      BY <3>1, <3>2
  <2> QED
    BY <2>1, <1>0, <1>4 DEF OutputInv
<1>11. ExitInv'
  BY <1>0 DEF ExitInv
<1> QED
  BY <1>6, <1>7, <1>8, <1>9, <1>10, <1>11

LEMMA EndsStep ==
  ASSUME TerminalInv, NEW st \in {"exited", "killed"}, Ends(st)
  PROVE  TerminalInv'
<1> USE DEF TerminalInv
<1>0. Live /\ UNCHANGED <<tty, kb, up, down, sess, listed, stdin, resize, pump, hand, exec, dropped>>
  BY DEF Ends, kbVars
<1>h. PICK h \in BOOLEAN : proc' = [proc EXCEPT !.st = st, !.heir = h]
  BY DEF Ends
<1>p. PICK p : p = [proc EXCEPT !.st = st, !.heir = h]
  OBVIOUS
<1>1. /\ proc' = p /\ p \in Processes /\ p.read = proc.read /\ p.wrote = proc.wrote /\ p.pipe = proc.pipe /\ p.st = st
  BY <1>h, <1>p DEF TypeOK, Processes
<1>2. TypeOK'
  BY <1>0, <1>1 DEF TypeOK, NetTypeOK, ChannelTypeOK, ExecTypeOK
<1>3. OrderInv' /\ GapInv' /\ InputInOrder'
  <2>1. SortedInput(up') /\ Coming(up') = Coming(up)
    BY <1>0 DEF OrderInv
  <2>2. Alive' => Alive
    BY <1>0 DEF Alive, Live
  <2> QED
    BY <2>1, <2>2, <1>0, <1>1, InputKept
<1>4. PumpInv'
  BY <1>0, <1>1 DEF PumpInv, Live, Readers
<1>5. PipeInv' /\ OutputInv' /\ ExitInv'
  BY <1>0, <1>1 DEF PipeInv, OutputInv, ExitInv
<1> QED
  BY <1>2, <1>3, <1>4, <1>5

LEMMA HeirEndsStep ==
  ASSUME TerminalInv, HeirEnds
  PROVE  TerminalInv'
<1> USE DEF TerminalInv
<1>0. UNCHANGED <<tty, kb, up, down, sess, listed, stdin, resize, pump, hand, exec, dropped>>
  BY DEF HeirEnds, kbVars
<1>p. PICK p : p = [proc EXCEPT !.heir = FALSE]
  OBVIOUS
<1>1. /\ proc' = p /\ p \in Processes /\ p.read = proc.read /\ p.wrote = proc.wrote /\ p.pipe = proc.pipe /\ p.st = proc.st
  BY <1>p DEF HeirEnds, TypeOK, Processes
<1>2. TypeOK'
  BY <1>0, <1>1 DEF TypeOK, NetTypeOK, ChannelTypeOK, ExecTypeOK
<1>3. OrderInv' /\ GapInv' /\ InputInOrder'
  <2>1. SortedInput(up') /\ Coming(up') = Coming(up)
    BY <1>0 DEF OrderInv
  <2>2. Alive' = Alive
    BY <1>1 DEF Alive
  <2> QED
    BY <2>1, <2>2, <1>0, <1>1, InputKept
<1>4. PumpInv'
  BY <1>0, <1>1 DEF PumpInv, Live, Readers
<1>5. PipeInv' /\ OutputInv' /\ ExitInv'
  BY <1>0, <1>1 DEF PipeInv, OutputInv, ExitInv
<1> QED
  BY <1>2, <1>3, <1>4, <1>5
-------------------------------------------------------------------------------
(* The specification. *)

LEMMA TerminalInit ==
  ASSUME Init
  PROVE  TerminalInv
<1>1. /\ tty \in Ttys /\ up = <<>> /\ down = <<>> /\ sess = "open" /\ listed = TRUE /\ stdin = <<>> /\ resize = <<>>
      /\ pump = {} /\ hand = 0 /\ exec = "start" /\ dropped = {}
  BY DEF Init
<1>g. PICK g : g = [o \in Outs |-> <<>>]
  OBVIOUS
<1>2. g \in [Outs -> Seq(1..MaxOut)] /\ \A o \in Outs : g[o] = <<>> /\ Len(g[o]) = 0
  BY <1>g
<1>w. PICK w : w = [o \in Outs |-> 0]
  OBVIOUS
<1>3. w \in [Outs -> 0..MaxOut] /\ \A o \in Outs : w[o] = 0
  <2>1. 0 \in 0..MaxOut
    BY Constants
  <2> QED
    BY <2>1, <1>w
<1>z. 0 \in 0..MaxIn /\ 0 \in 0..MaxResizes /\ 0 \in 0..Garbled
  BY Constants
<1>4. kb \in Kbs /\ kb.pc = "on" /\ kb.sent = 0 /\ kb.torn = FALSE /\ kb.got = g
  BY <1>2, <1>g, <1>z DEF Init, Kbs
<1>5. proc \in Processes /\ proc.st = "none" /\ proc.read = <<>> /\ proc.wrote = w /\ proc.pipe = g
  <2>1. <<>> \in Seq(1..Garbled)
    OBVIOUS
  <2> QED
    BY <2>1, <1>2, <1>3, <1>g, <1>w, <1>z DEF Init, Processes
<1>6. TypeOK
  <2>1. NetTypeOK
    BY <1>1, Constants DEF NetTypeOK
  <2>2. ChannelTypeOK
    BY <1>1, Constants DEF ChannelTypeOK
  <2>3. ExecTypeOK
    BY <1>1, <1>z DEF ExecTypeOK
  <2> QED
    BY <2>1, <2>2, <2>3, <1>1, <1>4, <1>5, Constants DEF TypeOK
<1>7. OrderInv /\ GapInv /\ InputInOrder
  <2>1. Elements(proc.read) = {} /\ Elements(stdin) = {} /\ Held = {} /\ Coming(up) = {} /\ AtAgent = {}
    BY <1>1, <1>5 DEF Elements, Held, Coming, AtAgent
  <2>2. Sorted(proc.read) /\ Sorted(stdin) /\ SortedInput(up)
    BY <1>1, <1>5 DEF Sorted, SortedInput
  <2>3. 1..kb.sent = {}
    BY <1>4
  <2>4. InputInOrder
    BY <1>5 DEF InputInOrder
  <2> QED
    BY <2>1, <2>2, <2>3, <2>4 DEF OrderInv, GapInv, AllBefore
<1>8. PumpInv
  BY <1>1, <1>2, <1>3, <1>5 DEF PumpInv, Live
<1>9. PipeInv
  BY <1>2, <1>3, <1>5 DEF PipeInv
<1>10. OutputInv /\ ExitInv
  <2>1. \A o \in Outs : proc.wrote[o] - Len(proc.pipe[o]) = 0
    BY <1>2, <1>3, <1>5
  <2>2. \A o \in Outs : Delivers(o, kb.got[o], down, 0)
    <3> SUFFICES ASSUME NEW o \in Outs PROVE Delivers(o, kb.got[o], <<>>, 0)
      BY <1>1
    <3>1. Len(kb.got[o]) = 0
      BY <1>2, <1>4
    <3> QED
      BY <3>1 DEF Delivers
  <2> QED
    BY <2>1, <2>2, <1>4 DEF OutputInv, ExitInv
<1> QED
  BY <1>6, <1>7, <1>8, <1>9, <1>10 DEF TerminalInv

LEMMA TerminalNext ==
  ASSUME TerminalInv, [Next]_vars
  PROVE  TerminalInv'
<1>1. CASE UNCHANGED vars
  <2>0. UNCHANGED <<tty, kb, up, down, sess, listed, stdin, resize, proc, pump, hand, exec, dropped>>
    BY <1>1 DEF vars, kbVars, procVars
  <2>1. TypeOK'
    BY <2>0 DEF TerminalInv, TypeOK, NetTypeOK, ChannelTypeOK, ExecTypeOK
  <2>2. OrderInv' /\ GapInv' /\ InputInOrder'
    <3>1. SortedInput(up') /\ Coming(up') = Coming(up) /\ Alive' = Alive
      BY <2>0 DEF TerminalInv, OrderInv, Alive
    <3> QED
      BY <3>1, <2>0, InputKept DEF TerminalInv
  <2>3. PumpInv' /\ PipeInv' /\ OutputInv' /\ ExitInv'
    BY <2>0, OutputKept DEF TerminalInv
  <2> QED
    BY <2>1, <2>2, <2>3 DEF TerminalInv
<1>2. CASE KbInput \/ KbEOF \/ KbResize \/ KbTear \/ KbLoop \/ KbLost
  BY <1>2, KbInputStep, KbEOFStep, KbResizeStep, KbTearStep, KbOutputStep, KbExitStep, KbLostStep DEF KbLoop
<1>3. CASE RecvLoop
  BY <1>3, StdinToStep, ResizeToStep, RecvCancelStep DEF RecvLoop
<1>4. CASE ExecStep
  BY <1>4, StartProcessStep, ReportStep DEF ExecStep
<1>5. CASE StdinTake \/ StdinEnds \/ ResizePump
  BY <1>5, StdinTakeStep, StdinEndsStep, ResizePumpStep
<1>6. CASE \E o \in Outs : PumpChunk(o) \/ PumpEnds(o) \/ ProcWrites(o)
  BY <1>6, PumpChunkStep, PumpEndsStep, ProcWritesStep
<1>7. CASE ProcReads \/ ProcExits \/ Kill \/ HeirEnds
  BY <1>7, ProcReadsStep, EndsStep, HeirEndsStep DEF ProcExits, Kill
<1> QED
  BY <1>1, <1>2, <1>3, <1>4, <1>5, <1>6, <1>7 DEF Next

(* The inductive invariant: the hops of the input hold its chunks in order *)
(* and without gaps but the agent's drops, and the pipes, the session's    *)
(* channel and kb hold the output of the process.                          *)
THEOREM TerminalInvariant == Spec => []TerminalInv
<1>1. Init => TerminalInv
  BY TerminalInit
<1>2. TerminalInv /\ [Next]_vars => TerminalInv'
  BY TerminalNext
<1> QED
  BY <1>1, <1>2, PTL DEF Spec

(* Every variable of a session keeps its type; in particular the channels  *)
(* stdin, resize and Output never hold more than their capacity.           *)
THEOREM TerminalTypes == Spec => []TypeOK
<1>1. TerminalInv => TypeOK
  BY DEF TerminalInv
<1> QED
  BY <1>1, TerminalInvariant, PTL

(* The process reads what the user typed in order, with no chunk missing   *)
(* but the ones the agent dropped after its second of waiting              *)
(* (agent/stream.go 189-199), however cancels, resizes, torn frames and    *)
(* the end of the process fall between its hops.                           *)
THEOREM InputArrivesInOrder == Spec => []InputInOrder
<1>1. TerminalInv => InputInOrder
  BY DEF TerminalInv
<1> QED
  BY <1>1, TerminalInvariant, PTL

(* A kb that ends with the exit code of the process has shown all the      *)
(* process wrote to stdout and to stderr: the result follows the last      *)
(* chunk of both pipes through executor, session channel and HTTP body.    *)
THEOREM OutputIsComplete == Spec => []OutputComplete
<1>1. TerminalInv => OutputComplete
  <2> SUFFICES ASSUME TerminalInv, kb.pc = "exit", sess = "exited", NEW o \in Outs
               PROVE  kb.got[o] = [i \in 1..proc.wrote[o] |-> i]
    BY DEF OutputComplete
  <2>1. down = <<>> /\ proc.pipe[o] = <<>>
    BY DEF TerminalInv, ExitInv, PumpInv
  <2>g. PICK g : g = kb.got[o]
    OBVIOUS
  <2>w. PICK w \in Nat : w = proc.wrote[o]
    BY ProcFields DEF TerminalInv, TypeOK
  <2>2. g \in Seq(1..MaxOut) /\ Len(g) \in Nat
    BY <2>g, KbFields DEF TerminalInv, TypeOK
  <2>3. Delivers(o, g, <<>>, w)
    <3>1. Delivers(o, g, <<>>, w - Len(proc.pipe[o]))
      BY <2>1, <2>g, <2>w DEF TerminalInv, OutputInv
    <3>2. w - Len(proc.pipe[o]) = w
      BY <2>1
    <3> QED
      BY <3>1, <3>2
  <2>4. Len(g) <= w /\ \A i \in 1..Len(g) : g[i] = i
    BY <2>3 DEF Delivers
  <2>5. ~(Len(g) < w)
    <3> SUFFICES ASSUME Len(g) < w PROVE FALSE
      OBVIOUS
    <3>1. Len(g) + 1 \in Len(g) + 1..w
      BY <2>2
    <3>2. \E i \in 1..Len(<<>>) : TRUE
      BY <3>1, <2>3 DEF Delivers
    <3> QED
      BY <3>2
  <2>6. Len(g) = w
    BY <2>2, <2>4, <2>5
  <2>7. g = [i \in 1..w |-> i]
    <3>1. DOMAIN g = 1..w /\ g = [i \in DOMAIN g |-> g[i]]
      BY <2>2, <2>6
    <3> QED
      BY <3>1, <2>4, <2>6
  <2> QED
    BY <2>7, <2>g, <2>w
<1> QED
  BY <1>1, TerminalInvariant, PTL
-------------------------------------------------------------------------------
(* The end of a session. *)

(* A cancel is on its way to the agent. *)
Told(q) == \E i \in 1..Len(q) : q[i].k = "cancel"

(* The executor leaves only after its result closed the session at         *)
(* central; a session closed otherwise has told the agent, or will; and kb *)
(* does not end before its session.                                        *)
EndInv ==
  /\ exec = "gone" => sess # "open" /\ ~listed
  /\ sess \in {"exited", "failed"} => exec = "gone"
  /\ sess = "canceled" => ~listed \/ Told(up)
  /\ kb.pc # "on" => sess # "open"

(* No goroutine of kb, central or the agent has anything left to do: the   *)
(* guards of KbLoop, RecvLoop, ExecStep, Kill, StdinTake, StdinEnds,       *)
(* ResizePump, PumpChunk and PumpEnds are false.                           *)
Quiet ==
  /\ ~(kb.pc = "on" /\ (down # <<>> \/ sess # "open"))
  /\ up = <<>>
  /\ exec \notin {"start", "report"} /\ ~(exec = "run" /\ pump \cap Outs = {} /\ ~Live)
  /\ ~(Live /\ Done)
  /\ "stdin" \in pump => /\ hand = 0 => stdin = <<>> /\ ~Done
                         /\ hand # 0 => Live
  /\ "resize" \in pump => resize = <<>> /\ ~Done
  /\ \A o \in Outs \cap pump : proc.pipe[o] = <<>> /\ (Live \/ proc.heir)

(* Nobody waits for somebody who waits: when nothing is left to do, a kb   *)
(* whose process has exited has ended, and one that ended has left no      *)
(* process and no goroutine behind, unless a descendant of kubectl holds   *)
(* its output (executor.go 289-333, exec_http.go 42-63).                   *)
NobodyStuck ==
  Quiet /\ ~proc.heir => /\ proc.st = "exited" => kb.pc # "on"
                         /\ kb.pc # "on" => ~Live /\ pump = {} /\ exec = "gone"

LEMMA ToldAppend ==
  ASSUME NEW q \in Seq(Messages), NEW m \in Messages
  PROVE  /\ Told(q) => Told(Append(q, m))
         /\ m.k = "cancel" => Told(Append(q, m))
<1>1. PICK r : r = Append(q, m)
  OBVIOUS
<1>2. Len(q) \in Nat /\ Len(r) = Len(q) + 1 /\ \A i \in 1..Len(q) : i \in 1..Len(r) /\ r[i] = q[i]
  BY <1>1, AppendFacts
<1>3. r[Len(q) + 1] = m /\ Len(q) + 1 \in 1..Len(r)
  BY <1>1, <1>2
<1> QED
  BY <1>1, <1>2, <1>3 DEF Told

LEMMA ToldTail ==
  ASSUME NEW q \in Seq(Messages), q # <<>>, Head(q).k # "cancel", Told(q)
  PROVE  Told(Tail(q))
<1>1. PICK i \in 1..Len(q) : q[i].k = "cancel"
  BY DEF Told
<1>2. PICK r : r = Tail(q)
  OBVIOUS
<1>3. Len(q) \in Nat /\ Head(q) = q[1] /\ Len(r) = Len(q) - 1 /\ \A k \in 1..Len(r) : r[k] = q[k + 1]
  BY <1>2
<1>4. i # 1
  BY <1>1, <1>3
<1>5. PICK j : j = i - 1
  OBVIOUS
<1>6. j \in 1..Len(r) /\ j + 1 = i
  BY <1>3, <1>4, <1>5
<1>7. r[j].k = "cancel"
  BY <1>1, <1>3, <1>6
<1> QED
  BY <1>2, <1>6, <1>7 DEF Told

LEMMA ToldSend ==
  ASSUME up \in Seq(Messages), NEW m \in Messages, ToAgent(m), Told(up)
  PROVE  Told(up')
<1>1. CASE up' = up
  BY <1>1
<1>2. CASE up' = Append(up, m)
  BY <1>2, ToldAppend
<1> QED
  BY <1>1, <1>2 DEF ToAgent

LEMMA EndKept ==
  ASSUME EndInv, UNCHANGED <<sess, listed>>, kb'.pc = kb.pc,
         exec = "gone" <=> exec' = "gone", Told(up) => Told(up')
  PROVE  EndInv'
  BY DEF EndInv

LEMMA CancelEnds ==
  ASSUME up \in Seq(Messages), sess \in {"open", "exited", "failed", "canceled"},
         EndInv, Cancel, UNCHANGED <<listed, exec>>
  PROVE  EndInv'
<1>1. [k |-> "cancel", n |-> 0] \in Messages
  BY MessageFacts
<1>2. CASE sess = "open"
  <2>1. sess' = "canceled" /\ up' = Append(up, [k |-> "cancel", n |-> 0])
    BY <1>2 DEF Cancel, ToAgent
  <2>2. Told(up')
    BY <1>1, <2>1, ToldAppend
  <2> QED
    BY <1>2, <2>1, <2>2 DEF EndInv
<1>3. CASE sess # "open"
  <2>1. sess' = sess /\ up' = up
    BY <1>3 DEF Cancel, ToAgent
  <2> QED
    BY <1>3, <2>1 DEF EndInv
<1> QED
  BY <1>2, <1>3

LEMMA GarbageTells ==
  ASSUME up \in Seq(Messages), KbGarbage, Told(up)
  PROVE  Told(up')
<1>1. [k |-> "stdin", n |-> Garbled] \in Messages /\ [k |-> "resize", n |-> 0] \in Messages
  BY MessageFacts, Constants
<1> QED
  BY <1>1, ToldSend DEF KbGarbage

LEMMA EndStep == TypeOK /\ EndInv /\ [Next]_vars => EndInv'
<1> SUFFICES ASSUME TypeOK, EndInv, [Next]_vars PROVE EndInv'
  OBVIOUS
<1>t. /\ up \in Seq(Messages) /\ sess \in {"open", "exited", "failed", "canceled"}
      /\ kb \in Kbs /\ kb.sent \in Nat /\ kb.size \in Nat
  BY KbFields DEF TypeOK, NetTypeOK
<1>1. CASE KbInput
  <2>1. kb'.pc = kb.pc
    BY <1>1, <1>t DEF KbInput, Kbs
  <2>2. [k |-> "stdin", n |-> kb.sent + 1] \in Messages
    <3>1. kb.sent + 1 \in 1..Garbled
      BY <1>1, <1>t, Constants DEF KbInput
    <3> QED
      BY <3>1, MessageFacts
  <2>3. Told(up) => Told(up')
    BY <1>1, <1>t, <2>2, ToldSend, GarbageTells DEF KbInput, KbEncode
  <2> QED
    BY <1>1, <2>1, <2>3, EndKept DEF KbInput
<1>2. CASE KbEOF
  <2>1. kb'.pc = kb.pc
    BY <1>2, <1>t DEF KbEOF, Kbs
  <2> QED
    BY <1>2, <2>1, EndKept DEF KbEOF
<1>3. CASE KbResize
  <2>1. kb'.pc = kb.pc
    BY <1>3, <1>t DEF KbResize, Kbs
  <2>2. [k |-> "resize", n |-> kb.size + 1] \in Messages
    <3>1. kb.size + 1 \in 0..MaxResizes
      <4>1. kb.size < MaxResizes
        BY <1>3 DEF KbResize
      <4> QED
        BY <1>t, <4>1, Constants
    <3> QED
      BY <3>1, MessageFacts
  <2>3. Told(up) => Told(up')
    BY <1>3, <1>t, <2>2, ToldSend, GarbageTells DEF KbResize, KbEncode
  <2> QED
    BY <1>3, <2>1, <2>3, EndKept DEF KbResize
<1>4. CASE KbTear
  <2>1. kb'.pc = kb.pc
    BY <1>4, <1>t DEF KbTear, Kbs
  <2>2. Told(up) => Told(up')
    BY <1>4, <1>t, GarbageTells DEF KbTear
  <2> QED
    BY <1>4, <2>1, <2>2, EndKept DEF KbTear
<1>5. CASE KbOutput
  <2>1. kb'.pc = kb.pc
    BY <1>5, <1>t DEF KbOutput, Kbs
  <2> QED
    BY <1>5, <2>1, EndKept DEF KbOutput
<1>6. CASE KbExit
  BY <1>6 DEF KbExit, EndInv
<1>7. CASE KbLost
  BY <1>7, <1>t, CancelEnds DEF KbLost
<1>8. CASE StdinTo
  <2>1. Told(up) => Told(up')
    BY <1>8, <1>t, ToldTail DEF StdinTo, Recv
  <2> QED
    BY <1>8, <2>1, EndKept DEF StdinTo, kbVars
<1>9. CASE ResizeTo
  <2>1. Told(up) => Told(up')
    BY <1>9, <1>t, ToldTail DEF ResizeTo, Recv
  <2> QED
    BY <1>9, <2>1, EndKept DEF ResizeTo, kbVars
<1>10. CASE RecvCancel
  BY <1>10 DEF RecvCancel, EndInv, kbVars
<1>11. CASE StartProcess
  BY <1>11, EndKept DEF StartProcess, kbVars
<1>12. CASE Wait
  BY <1>12, EndKept DEF Wait, kbVars
<1>13. CASE Report
  BY <1>13, <1>t DEF Report, RouteExit, EndInv, kbVars
<1>14. ASSUME NEW o \in Outs, PumpChunk(o) PROVE EndInv'
  <2>1. RouteOutput([o |-> o, n |-> Head(proc.pipe[o])]) /\ UNCHANGED <<kb, listed, exec>>
    BY <1>14 DEF PumpChunk, kbVars
  <2>2. CASE UNCHANGED <<up, sess>>
    BY <2>1, <2>2, EndKept
  <2>3. CASE Cancel
    BY <1>t, <2>1, <2>3, CancelEnds
  <2> QED
    BY <2>1, <2>2, <2>3 DEF RouteOutput
<1>15. CASE UNCHANGED <<kb, up, sess, listed, exec>>
  BY <1>15, EndKept
<1>16. CASE StdinTake \/ StdinEnds \/ ResizePump
  BY <1>15, <1>16 DEF StdinTake, StdinEnds, ResizePump, kbVars
<1>17. ASSUME NEW o \in Outs, PumpEnds(o) \/ ProcWrites(o) PROVE EndInv'
  BY <1>15, <1>17 DEF PumpEnds, ProcWrites, kbVars
<1>18. CASE ProcReads \/ ProcExits \/ Kill \/ HeirEnds
  <2>1. UNCHANGED <<kb, up, sess, listed, exec>>
    BY <1>18, Zenon DEF ProcReads, ProcExits, Kill, Ends, HeirEnds, kbVars
  <2> QED
    BY <1>15, <2>1
<1>19. CASE UNCHANGED vars
  BY <1>15, <1>19 DEF vars, kbVars
<1> QED
  BY <1>1, <1>2, <1>3, <1>4, <1>5, <1>6, <1>7, <1>8, <1>9, <1>10, <1>11, <1>12, <1>13, <1>14,
     <1>16, <1>17, <1>18, <1>19 DEF Next, KbLoop, RecvLoop, ExecStep

(* NobodyStuck holds in every reachable state: the safety half of          *)
(* ExitReachesUser and LeavesNothing.                                      *)
THEOREM SessionsNeverStick == Spec => []NobodyStuck
<1>1. Init => EndInv
  BY DEF Init, EndInv
<1>2. TypeOK /\ EndInv /\ [Next]_vars => EndInv'
  BY EndStep
<1>3. TerminalInv /\ EndInv => NobodyStuck
  <2> SUFFICES ASSUME TerminalInv, EndInv, Quiet, ~proc.heir PROVE NobodyStuck!2
    BY DEF NobodyStuck
  <2>1. pump \subseteq Outs \cup {"stdin", "resize"} /\ exec \in {"start", "run", "report", "gone"}
    BY DEF TerminalInv, TypeOK, ExecTypeOK
  <2>2. ~Live => pump \cap Outs = {} /\ exec = "gone"
    BY <2>1 DEF Quiet
  <2>3. ASSUME proc.st = "exited" PROVE kb.pc # "on"
    <3>1. exec = "gone"
      BY <2>2, <2>3 DEF Live
    <3> QED
      BY <3>1 DEF Quiet, EndInv
  <2>4. ASSUME kb.pc # "on" PROVE ~Live /\ pump = {} /\ exec = "gone"
    <3>1. ~Told(up)
      BY DEF Quiet, Told
    <3>2. ~listed
      BY <2>4, <3>1 DEF EndInv, TerminalInv, TypeOK, NetTypeOK
    <3>3. Done /\ ~Live
      BY <3>2 DEF Done, Quiet
    <3>4. "stdin" \notin pump /\ "resize" \notin pump
      BY <3>3 DEF Quiet
    <3> QED
      BY <2>1, <2>2, <3>3, <3>4
  <2> QED
    BY <2>3, <2>4
<1>4. TerminalInv => TypeOK
  BY DEF TerminalInv
<1> QED
  BY <1>1, <1>2, <1>3, <1>4, TerminalInvariant, PTL DEF Spec
===============================================================================
