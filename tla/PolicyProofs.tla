----------------------------- MODULE PolicyProofs -----------------------------
(***************************************************************************)
(* Proofs about Policy and PolicyEngine, for every document, pattern,      *)
(* value and command: matchPattern decides the documented meaning of "*",  *)
(* decisions are the documented ones, and the policy in force is always a  *)
(* valid one.                                                              *)
(*                                                                         *)
(* The algorithms are recursive functions.  Induction is over a set of     *)
(* numbers (NatSetInduction), and a recursive definition with truth values *)
(* has a solution because its body is monotone (LeastFixpoint).            *)
(***************************************************************************)
EXTENDS MCPolicyEngine, Integers, WellFoundedInduction, TLAPS

-------------------------------------------------------------------------------
(* Induction and recursion *)

(* A set of natural numbers that is not empty has a least member. *)
LEMMA LeastNumber ==
  ASSUME NEW T, T \subseteq Nat, T # {}
  PROVE  \E n \in T : \A m \in T : n <= m
<1> DEFINE R == {ss \in Nat \X Nat : ss[1] < ss[2]}
<1>1. IsWellFoundedOn(R, Nat)
  BY NatLessThanWellFounded DEF OpToRel
<1>2. \E n \in T : \A m \in T : ~ (<<m, n>> \in R)
  <2> HIDE DEF R
  <2> QED BY <1>1, WFMin, Zenon
<1>3. PICK n \in T : \A m \in T : ~ (<<m, n>> \in R)
  BY <1>2
<1>4. \A m \in T : n <= m
  <2> TAKE m \in T
  <2>1. <<m, n>> \in Nat \X Nat
    OBVIOUS
  <2>2. ~(m < n)
    BY <2>1, <1>3
  <2> QED
    BY <2>2
<1> QED
  BY <1>4

(* A set with 0 and with every successor of a member has every number. *)
LEMMA NatSetInduction ==
  ASSUME NEW S, 0 \in S, \A n \in Nat : n \in S => n + 1 \in S
  PROVE  \A n \in Nat : n \in S
<1>1. SUFFICES ASSUME Nat \ S # {} PROVE FALSE
  OBVIOUS
<1>2. PICK n \in Nat \ S : \A m \in Nat \ S : n <= m
  <2> PICK T : T = Nat \ S
    OBVIOUS
  <2>1. T \subseteq Nat /\ T # {}
    BY <1>1
  <2> QED
    BY <2>1, LeastNumber
<1>3. n # 0 /\ n - 1 \in Nat
  OBVIOUS
<1>4. n - 1 \in S
  BY <1>2, <1>3
<1> QED
  BY <1>3, <1>4

(* The order of three measures: the first, then the second, then the third. *)
Measured(T, a, b, c) == \A s \in T : a[s] \in Nat /\ b[s] \in Nat /\ c[s] \in Nat
LexLeast(T, a, b, c, s) ==
  \A t \in T : /\ a[s] <= a[t]
               /\ a[s] = a[t] => b[s] <= b[t]
               /\ a[s] = a[t] /\ b[s] = b[t] => c[s] <= c[t]

(* A set with three natural measures has a least member in their order. *)
LEMMA LexicographicLeast ==
  ASSUME NEW T, T # {}, NEW a, NEW b, NEW c, Measured(T, a, b, c)
  PROVE  \E s \in T : LexLeast(T, a, b, c, s)
<1> USE DEF Measured
<1>1. PICK A : A = {a[s] : s \in T}
  OBVIOUS
<1>2. A \subseteq Nat /\ A # {}
  BY <1>1
<1>3. PICK x \in A : \A y \in A : x <= y
  BY <1>2, LeastNumber
<1>4. PICK B : B = {b[s] : s \in {t \in T : a[t] = x}}
  OBVIOUS
<1>5. B \subseteq Nat /\ B # {}
  BY <1>1, <1>4
<1>6. PICK y \in B : \A z \in B : y <= z
  BY <1>5, LeastNumber
<1>7. PICK C : C = {c[s] : s \in {t \in T : a[t] = x /\ b[t] = y}}
  OBVIOUS
<1>8. C \subseteq Nat /\ C # {}
  BY <1>4, <1>7
<1>9. PICK z \in C : \A w \in C : z <= w
  BY <1>8, LeastNumber
<1>10. PICK s \in T : a[s] = x /\ b[s] = y /\ c[s] = z
  BY <1>7
<1>11. ASSUME NEW t \in T
       PROVE  /\ a[s] <= a[t]
              /\ a[s] = a[t] => b[s] <= b[t]
              /\ a[s] = a[t] /\ b[s] = b[t] => c[s] <= c[t]
  <2>1. a[s] <= a[t]
    BY <1>1, <1>3, <1>10
  <2>2. a[s] = a[t] => b[s] <= b[t]
    BY <1>4, <1>6, <1>10
  <2>3. a[s] = a[t] /\ b[s] = b[t] => c[s] <= c[t]
    BY <1>7, <1>9, <1>10
  <2> QED
    BY <2>1, <2>2, <2>3
<1> QED
  BY <1>11 DEF LexLeast

(* A monotone function on the subsets of a set has a fixpoint. *)
LEMMA LeastFixpoint ==
  ASSUME NEW D, NEW F \in [SUBSET D -> SUBSET D],
         \A X, Y \in SUBSET D : X \subseteq Y => F[X] \subseteq F[Y]
  PROVE  \E X \in SUBSET D : F[X] = X
<1> DEFINE C == {X \in SUBSET D : F[X] \subseteq X}
           A == {s \in D : \A X \in C : s \in X}
<1>1. A \in SUBSET D
  OBVIOUS
<1>2. \A X \in C : A \subseteq X
  OBVIOUS
<1>3. F[A] \subseteq A
  <2> SUFFICES ASSUME NEW s \in F[A] PROVE s \in A
    OBVIOUS
  <2>1. s \in D
    BY <1>1
  <2>2. ASSUME NEW X \in C PROVE s \in X
    <3>1. F[A] \subseteq F[X]
      BY <1>1, <1>2
    <3> QED
      BY <3>1
  <2> QED
    BY <2>1, <2>2
<1>4. F[A] \in C
  <2>1. F[A] \in SUBSET D
    BY <1>1
  <2>2. F[F[A]] \subseteq F[A]
    BY <1>1, <2>1, <1>3
  <2> QED
    BY <2>1, <2>2
<1>5. A \subseteq F[A]
  BY <1>4, <1>2
<1> HIDE DEF A
<1> QED
  BY <1>1, <1>3, <1>5

(* Every set has a characteristic function. *)
LEMMA CharacteristicFunction ==
  ASSUME NEW D, NEW X
  PROVE  \E f : /\ f = [t \in D |-> f[t]]
                /\ \A t \in D : f[t] \in BOOLEAN /\ (f[t] <=> t \in X)
<1>1. PICK f : f = [t \in D |-> IF t \in X THEN TRUE ELSE FALSE]
  OBVIOUS
<1>2. ASSUME NEW t \in D PROVE f[t] \in BOOLEAN /\ (f[t] <=> t \in X)
  <2>1. f[t] = IF t \in X THEN TRUE ELSE FALSE
    BY <1>1
  <2>2. CASE t \in X
    BY <2>1, <2>2
  <2>3. CASE t \notin X
    BY <2>1, <2>3
  <2> QED
    BY <2>2, <2>3
<1>3. f = [t \in D |-> f[t]]
  BY <1>1
<1> QED
  BY <1>2, <1>3, Zenon

(* A value and a step function define a sequence of values. *)
Follows(f, base, N, step) == f[0] = base /\ \A i \in 1..N : f[i] = step[<<i, f[i - 1]>>]

LEMMA PrimitiveRecursion ==
  ASSUME NEW S, NEW base \in S, NEW N \in Nat, NEW step \in [(1..N) \X S -> S]
  PROVE  \E f \in [0..N -> S] : Follows(f, base, N, step)
<1> DEFINE Defines(f, n) == f[0] = base /\ \A i \in 1..n : f[i] = step[<<i, f[i - 1]>>]
           Q == {n \in Nat : n <= N => \E f \in [0..n -> S] : Defines(f, n)}
<1>1. 0 \in Q
  <2> DEFINE f == [i \in 0..0 |-> base]
  <2>1. f \in [0..0 -> S] /\ Defines(f, 0)
    OBVIOUS
  <2> QED
    BY <2>1
<1>2. ASSUME NEW n \in Nat, n \in Q PROVE n + 1 \in Q
  <2>1. SUFFICES ASSUME n + 1 <= N PROVE \E f \in [0..n+1 -> S] : Defines(f, n + 1)
    OBVIOUS
  <2>2. PICK f \in [0..n -> S] : Defines(f, n)
    BY <2>1, <1>2
  <2> DEFINE g == [i \in 0..n+1 |-> IF i <= n THEN f[i] ELSE step[<<n + 1, f[n]>>]]
  <2>3. step[<<n + 1, f[n]>>] \in S
    <3>1. f[n] \in S /\ n + 1 \in 1..N
      BY <2>1, <2>2
    <3> QED
      BY <3>1
  <2>4. g \in [0..n+1 -> S]
    BY <2>2, <2>3
  <2>5. g[0] = base
    BY <2>2
  <2>6. ASSUME NEW i \in 1..n+1 PROVE g[i] = step[<<i, g[i - 1]>>]
    <3>1. CASE i <= n
      BY <2>2, <3>1
    <3>2. CASE i = n + 1
      <4>1. g[n] = f[n] /\ g[n + 1] = step[<<n + 1, f[n]>>]
        OBVIOUS
      <4>2. i - 1 = n
        BY <3>2
      <4> QED
        BY <3>2, <4>1, <4>2
    <3> QED
      BY <3>1, <3>2
  <2> HIDE DEF g
  <2> QED
    BY <2>4, <2>5, <2>6
<1> HIDE DEF Q
<1>3. \A n \in Nat : n \in Q
  BY <1>1, <1>2, NatSetInduction
<1>4. N \in Q
  BY <1>3
<1> QED
  BY <1>4 DEF Q, Follows
-------------------------------------------------------------------------------
(* The recursive functions of matchPattern and of its reference *)

(* The body of matchLoop's loop, with f for the recursive calls. *)
LoopBody(pattern, value, f, s) ==
  IF s[2] > Len(value) THEN \A i \in s[1]..Len(pattern) : pattern[i] = Star
  ELSE IF s[1] <= Len(pattern) /\ pattern[s[1]] = value[s[2]] THEN f[<<s[1] + 1, s[2] + 1, s[3], s[4]>>]
  ELSE IF s[1] <= Len(pattern) /\ pattern[s[1]] = Star THEN f[<<s[1] + 1, s[2], s[1], s[2]>>]
  ELSE s[3] # 0 /\ f[<<s[3] + 1, s[4] + 1, s[3], s[4] + 1>>]

(* The body of GlobFrom's function. *)
GlobBody(pattern, value, f, s) ==
  IF s[1] > Len(pattern) THEN s[2] > Len(value)
  ELSE IF pattern[s[1]] = Star THEN \E k \in s[2]..Len(value)+1 : f[<<s[1] + 1, k>>]
  ELSE s[2] <= Len(value) /\ pattern[s[1]] = value[s[2]] /\ f[<<s[1] + 1, s[2] + 1>>]

(* The loop goes from a position to a position. *)
LEMMA PositionsClosed ==
  ASSUME NEW L \in Nat, NEW N \in Nat, NEW s \in Positions(L, N), s[2] <= N
  PROVE  /\ s[1] <= L => <<s[1] + 1, s[2] + 1, s[3], s[4]>> \in Positions(L, N)
         /\ s[1] <= L => <<s[1] + 1, s[2], s[1], s[2]>> \in Positions(L, N)
         /\ <<s[3] + 1, s[4] + 1, s[3], s[4] + 1>> \in Positions(L, N)
<1>1. PICK p \in 1..L+1, v \in 1..N+1, t \in 0..L, m \in 1..N+1 : s = <<p, v, t, m>> /\ t < p /\ m <= v
  BY DEF Positions
<1>2. v <= N
  BY <1>1
<1>3. p <= L => <<p + 1, v + 1, t, m>> \in Positions(L, N)
  BY <1>1, <1>2 DEF Positions
<1>4. p <= L => <<p + 1, v, p, v>> \in Positions(L, N)
  BY <1>1, <1>2 DEF Positions
<1>5. <<t + 1, m + 1, t, m + 1>> \in Positions(L, N)
  BY <1>1, <1>2 DEF Positions
<1> QED
  BY <1>1, <1>3, <1>4, <1>5

(* matchLoop is what its recursive definition says. *)
LEMMA LoopEquation ==
  ASSUME NEW Char, NEW pattern \in Seq(Char), NEW value \in Seq(Char)
  PROVE  \A s \in Positions(Len(pattern), Len(value)) :
           matchLoop(pattern, value)[s] = LoopBody(pattern, value, matchLoop(pattern, value), s)
<1> DEFINE D == Positions(Len(pattern), Len(value))
           Test(X, s) ==
             \/ s[2] > Len(value) /\ \A i \in s[1]..Len(pattern) : pattern[i] = Star
             \/ /\ ~(s[2] > Len(value)) /\ s[1] <= Len(pattern) /\ pattern[s[1]] = value[s[2]]
                /\ <<s[1] + 1, s[2] + 1, s[3], s[4]>> \in X
             \/ /\ ~(s[2] > Len(value)) /\ ~(s[1] <= Len(pattern) /\ pattern[s[1]] = value[s[2]])
                /\ s[1] <= Len(pattern) /\ pattern[s[1]] = Star
                /\ <<s[1] + 1, s[2], s[1], s[2]>> \in X
             \/ /\ ~(s[2] > Len(value)) /\ ~(s[1] <= Len(pattern) /\ pattern[s[1]] = value[s[2]])
                /\ ~(s[1] <= Len(pattern) /\ pattern[s[1]] = Star)
                /\ s[3] # 0 /\ <<s[3] + 1, s[4] + 1, s[3], s[4] + 1>> \in X
           F == [X \in SUBSET D |-> {s \in D : Test(X, s)}]
<1>1. \E X \in SUBSET D : F[X] = X
  <2>1. F \in [SUBSET D -> SUBSET D]
    <3> HIDE DEF Test
    <3> QED
      OBVIOUS
  <2>2. ASSUME NEW X \in SUBSET D, NEW Y \in SUBSET D, X \subseteq Y
        PROVE  F[X] \subseteq F[Y]
    <3>1. \A s \in D : Test(X, s) => Test(Y, s)
      BY <2>2, Zenon
    <3> HIDE DEF Test
    <3> QED
      BY <3>1
  <2> HIDE DEF F, D
  <2> QED
    BY <2>1, <2>2, LeastFixpoint
<1>2. PICK X \in SUBSET D : F[X] = X
  BY <1>1
<1>3. \A s \in D : s \in X <=> Test(X, s)
  <2> HIDE DEF Test, D
  <2> QED
    BY <1>2
<1>4. PICK f : /\ f = [t \in D |-> f[t]]
               /\ \A t \in D : f[t] \in BOOLEAN /\ (f[t] <=> t \in X)
  BY CharacteristicFunction
<1>5. f = [s \in D |-> LoopBody(pattern, value, f, s)]
  <2>1. ASSUME NEW s \in D PROVE f[s] = LoopBody(pattern, value, f, s)
    <3>1. s[2] > Len(value) \/ s[2] <= Len(value)
      <4>1. s[2] \in 1..Len(value)+1 /\ Len(value) \in Nat
        BY DEF Positions
      <4> QED
        BY <4>1
    <3>2. ~(s[2] > Len(value)) =>
            /\ s[1] <= Len(pattern) => <<s[1] + 1, s[2] + 1, s[3], s[4]>> \in D
            /\ s[1] <= Len(pattern) => <<s[1] + 1, s[2], s[1], s[2]>> \in D
            /\ <<s[3] + 1, s[4] + 1, s[3], s[4] + 1>> \in D
      BY <3>1, PositionsClosed
    <3> HIDE DEF D
    <3>3. Test(X, s) <=> LoopBody(pattern, value, f, s)
      BY <3>2, <1>4, Zenon DEF LoopBody
    <3>4. LoopBody(pattern, value, f, s) \in BOOLEAN
      <4>1. CASE s[2] > Len(value)
        <5>1. LoopBody(pattern, value, f, s) = \A i \in s[1]..Len(pattern) : pattern[i] = Star
          BY <4>1, Zenon DEF LoopBody
        <5> QED
          BY <5>1, SMT
      <4>2. CASE ~(s[2] > Len(value)) /\ s[1] <= Len(pattern) /\ pattern[s[1]] = value[s[2]]
        BY <1>4, <4>2, <3>2, Zenon DEF LoopBody
      <4>3. CASE /\ ~(s[2] > Len(value)) /\ ~(s[1] <= Len(pattern) /\ pattern[s[1]] = value[s[2]])
                 /\ s[1] <= Len(pattern) /\ pattern[s[1]] = Star
        BY <1>4, <4>3, <3>2, Zenon DEF LoopBody
      <4>4. CASE /\ ~(s[2] > Len(value)) /\ ~(s[1] <= Len(pattern) /\ pattern[s[1]] = value[s[2]])
                 /\ ~(s[1] <= Len(pattern) /\ pattern[s[1]] = Star)
        <5>1. LoopBody(pattern, value, f, s)
                = (s[3] # 0 /\ f[<<s[3] + 1, s[4] + 1, s[3], s[4] + 1>>])
          BY <4>4, Zenon DEF LoopBody
        <5>2. f[<<s[3] + 1, s[4] + 1, s[3], s[4] + 1>>] \in BOOLEAN
          BY <1>4, <4>4, <3>2, Zenon
        <5> QED
          BY <5>1, <5>2, SMT
      <4> QED
        BY <4>1, <4>2, <4>3, <4>4, Zenon
    <3>5. f[s] \in BOOLEAN /\ (f[s] <=> LoopBody(pattern, value, f, s))
      BY <3>3, <1>3, <1>4, Zenon
    <3> QED
      BY <3>4, <3>5, SMT
  <2> HIDE DEF D
  <2> QED
    BY <1>4, <2>1, Zenon
<1>6. matchLoop(pattern, value) = CHOOSE h : h = [s \in D |-> LoopBody(pattern, value, h, s)]
  BY Zenon DEF matchLoop, LoopBody
<1>7. PICK m : m = matchLoop(pattern, value)
  OBVIOUS
<1> HIDE DEF D
<1>8. m = [s \in D |-> LoopBody(pattern, value, m, s)]
  BY <1>5, <1>6, <1>7, Zenon
<1> QED
  BY <1>8, <1>7, Zenon DEF D
(* GlobFrom is what its recursive definition says. *)
LEMMA GlobEquation ==
  ASSUME NEW Char, NEW pattern \in Seq(Char), NEW value \in Seq(Char)
  PROVE  \A s \in (1..Len(pattern)+1) \X (1..Len(value)+1) :
           GlobFrom(pattern, value)[s] = GlobBody(pattern, value, GlobFrom(pattern, value), s)
<1> DEFINE D == (1..Len(pattern)+1) \X (1..Len(value)+1)
           Test(X, s) ==
             \/ s[1] > Len(pattern) /\ s[2] > Len(value)
             \/ /\ ~(s[1] > Len(pattern)) /\ pattern[s[1]] = Star
                /\ \E k \in s[2]..Len(value)+1 : <<s[1] + 1, k>> \in X
             \/ /\ ~(s[1] > Len(pattern)) /\ pattern[s[1]] # Star
                /\ s[2] <= Len(value) /\ pattern[s[1]] = value[s[2]] /\ <<s[1] + 1, s[2] + 1>> \in X
           F == [X \in SUBSET D |-> {s \in D : Test(X, s)}]
<1>1. \E X \in SUBSET D : F[X] = X
  <2>1. F \in [SUBSET D -> SUBSET D]
    <3> HIDE DEF Test
    <3> QED
      OBVIOUS
  <2>2. ASSUME NEW X \in SUBSET D, NEW Y \in SUBSET D, X \subseteq Y
        PROVE  F[X] \subseteq F[Y]
    <3>1. \A s \in D : Test(X, s) => Test(Y, s)
      BY <2>2, Zenon
    <3> HIDE DEF Test
    <3> QED
      BY <3>1
  <2> HIDE DEF F, D
  <2> QED
    BY <2>1, <2>2, LeastFixpoint
<1>2. PICK X \in SUBSET D : F[X] = X
  BY <1>1
<1>3. \A s \in D : s \in X <=> Test(X, s)
  <2> HIDE DEF Test, D
  <2> QED
    BY <1>2
<1>4. PICK f : /\ f = [t \in D |-> f[t]]
               /\ \A t \in D : f[t] \in BOOLEAN /\ (f[t] <=> t \in X)
  <2> HIDE DEF D
  <2> QED
    BY CharacteristicFunction, ZenonT(60)
<1>5. f = [s \in D |-> GlobBody(pattern, value, f, s)]
  <2>1. ASSUME NEW s \in D PROVE f[s] = GlobBody(pattern, value, f, s)
    <3>1. PICK p \in 1..Len(pattern)+1, v \in 1..Len(value)+1 : s = <<p, v>>
      OBVIOUS
    <3>2. Len(pattern) \in Nat /\ Len(value) \in Nat
      OBVIOUS
    <3>3. ~(p > Len(pattern)) => \A k \in v..Len(value)+1 : <<p + 1, k>> \in D
      BY <3>2
    <3>4. ~(p > Len(pattern)) /\ v <= Len(value) => <<p + 1, v + 1>> \in D
      BY <3>2
    <3>5. s[1] = p /\ s[2] = v
      BY <3>1
    <3> HIDE DEF D
    <3>6. Test(X, s) <=> GlobBody(pattern, value, f, s)
      BY <3>3, <3>4, <3>5, <1>4, Zenon DEF GlobBody
    <3>7. GlobBody(pattern, value, f, s) \in BOOLEAN
      <4>1. CASE p > Len(pattern)
        <5>1. GlobBody(pattern, value, f, s) = (v > Len(value))
          BY <3>5, <4>1, Zenon DEF GlobBody
        <5> QED
          BY <5>1, SMT
      <4>2. CASE ~(p > Len(pattern)) /\ pattern[p] = Star
        <5>1. GlobBody(pattern, value, f, s) = \E k \in v..Len(value)+1 : f[<<p + 1, k>>]
          BY <3>5, <4>2, Zenon DEF GlobBody
        <5> QED
          BY <5>1, SMT
      <4>3. CASE ~(p > Len(pattern)) /\ pattern[p] # Star
        <5>1. GlobBody(pattern, value, f, s)
                = (v <= Len(value) /\ pattern[p] = value[v] /\ f[<<p + 1, v + 1>>])
          BY <3>5, <4>3, Zenon DEF GlobBody
        <5> QED
          BY <5>1, SMT
      <4> QED
        BY <4>1, <4>2, <4>3, Zenon
    <3>8. f[s] \in BOOLEAN /\ (f[s] <=> GlobBody(pattern, value, f, s))
      BY <3>6, <1>3, <1>4, Zenon
    <3> QED
      BY <3>7, <3>8, SMT
  <2> HIDE DEF D
  <2> QED
    BY <1>4, <2>1, Zenon
<1>6. GlobFrom(pattern, value) = CHOOSE h : h = [s \in D |-> GlobBody(pattern, value, h, s)]
  BY Zenon DEF GlobFrom, GlobBody
<1>7. PICK m : m = GlobFrom(pattern, value)
  OBVIOUS
<1> HIDE DEF D
<1>8. m = [s \in D |-> GlobBody(pattern, value, m, s)]
  BY <1>5, <1>6, <1>7, Zenon
<1> QED
  BY <1>8, <1>7, Zenon DEF D

-------------------------------------------------------------------------------
(* matchPattern decides Glob *)

(* A is a set of positions from which a loop over a pattern of length L    *)
(* and a value of length N answers TRUE.                                   *)
IsLoop(pattern, value, L, N, A) ==
  \A p \in 1..L+1, v \in 1..N+1, star \in 0..L, mark \in 1..N+1 :
    star < p /\ mark <= v =>
      /\ v > N => (<<p, v, star, mark>> \in A <=> \A i \in p..L : pattern[i] = Star)
      /\ v <= N /\ p <= L /\ pattern[p] = value[v] =>
           (<<p, v, star, mark>> \in A <=> <<p + 1, v + 1, star, mark>> \in A)
      /\ v <= N /\ p <= L /\ pattern[p] # value[v] /\ pattern[p] = Star =>
           (<<p, v, star, mark>> \in A <=> <<p + 1, v, p, v>> \in A)
      /\ v <= N /\ (p > L \/ (pattern[p] # value[v] /\ pattern[p] # Star)) =>
           (<<p, v, star, mark>> \in A <=> star # 0 /\ <<star + 1, mark + 1, star, mark + 1>> \in A)

(* M is the set of positions from which the pattern matches the value. *)
IsGlob(pattern, value, L, N, M) ==
  \A p \in 1..L+1, v \in 1..N+1 :
    /\ p > L => (<<p, v>> \in M <=> v > N)
    /\ p <= L /\ pattern[p] = Star => (<<p, v>> \in M <=> \E k \in v..N+1 : <<p + 1, k>> \in M)
    /\ p <= L /\ pattern[p] # Star =>
         (<<p, v>> \in M <=> v <= N /\ pattern[p] = value[v] /\ <<p + 1, v + 1>> \in M)

LoopSet(pattern, value) == {s \in Positions(Len(pattern), Len(value)) : matchLoop(pattern, value)[s]}
GlobSet(pattern, value) ==
  {s \in (1..Len(pattern)+1) \X (1..Len(value)+1) : GlobFrom(pattern, value)[s]}

LEMMA LoopSetIsLoop ==
  ASSUME NEW Char, NEW pattern \in Seq(Char), NEW value \in Seq(Char)
  PROVE  IsLoop(pattern, value, Len(pattern), Len(value), LoopSet(pattern, value))
<1> DEFINE L == Len(pattern)
           N == Len(value)
           m == matchLoop(pattern, value)
           A == LoopSet(pattern, value)
<1> SUFFICES ASSUME NEW p \in 1..L+1, NEW v \in 1..N+1, NEW star \in 0..L, NEW mark \in 1..N+1,
                    star < p, mark <= v
             PROVE  /\ v > N => (<<p, v, star, mark>> \in A <=> \A i \in p..L : pattern[i] = Star)
                    /\ v <= N /\ p <= L /\ pattern[p] = value[v] =>
                         (<<p, v, star, mark>> \in A <=> <<p + 1, v + 1, star, mark>> \in A)
                    /\ v <= N /\ p <= L /\ pattern[p] # value[v] /\ pattern[p] = Star =>
                         (<<p, v, star, mark>> \in A <=> <<p + 1, v, p, v>> \in A)
                    /\ v <= N /\ (p > L \/ (pattern[p] # value[v] /\ pattern[p] # Star)) =>
                         (<<p, v, star, mark>> \in A
                            <=> star # 0 /\ <<star + 1, mark + 1, star, mark + 1>> \in A)
  BY DEF IsLoop
<1>1. L \in Nat /\ N \in Nat
  OBVIOUS
<1>2. PICK s : s = <<p, v, star, mark>>
  OBVIOUS
<1>3. s \in Positions(L, N) /\ s[1] = p /\ s[2] = v /\ s[3] = star /\ s[4] = mark
  BY <1>2, <1>1 DEF Positions
<1>4. s \in A <=> LoopBody(pattern, value, m, s)
  BY <1>3, LoopEquation, Zenon DEF LoopSet
<1>5. v > N \/ v <= N
  BY <1>1
<1>6. v <= N => ~(v > N)
  BY <1>1
<1>7. p > L => ~(p <= L)
  BY <1>1
<1>8. v <= N => /\ p <= L => <<p + 1, v + 1, star, mark>> \in Positions(L, N)
                /\ p <= L => <<p + 1, v, p, v>> \in Positions(L, N)
                /\ <<star + 1, mark + 1, star, mark + 1>> \in Positions(L, N)
  BY <1>1, <1>3, PositionsClosed
<1> HIDE DEF L, N, m
<1>9. \A t \in Positions(L, N) : t \in A <=> m[t]
  BY Zenon DEF LoopSet, L, N, m
<1> HIDE DEF A
<1>10. LoopBody(pattern, value, m, s) <=>
         IF v > N THEN \A i \in p..L : pattern[i] = Star
         ELSE IF p <= L /\ pattern[p] = value[v] THEN m[<<p + 1, v + 1, star, mark>>]
         ELSE IF p <= L /\ pattern[p] = Star THEN m[<<p + 1, v, p, v>>]
         ELSE star # 0 /\ m[<<star + 1, mark + 1, star, mark + 1>>]
  BY <1>3, Zenon DEF LoopBody, L, N
<1>11. v > N => (s \in A <=> \A i \in p..L : pattern[i] = Star)
  BY <1>4, <1>10, Zenon
<1>12. v <= N /\ p <= L /\ pattern[p] = value[v] => (s \in A <=> <<p + 1, v + 1, star, mark>> \in A)
  BY <1>4, <1>6, <1>8, <1>9, <1>10, Zenon
<1>13. v <= N /\ p <= L /\ pattern[p] # value[v] /\ pattern[p] = Star =>
         (s \in A <=> <<p + 1, v, p, v>> \in A)
  BY <1>4, <1>6, <1>8, <1>9, <1>10, Zenon
<1>14. v <= N /\ (p > L \/ (pattern[p] # value[v] /\ pattern[p] # Star)) =>
         (s \in A <=> star # 0 /\ <<star + 1, mark + 1, star, mark + 1>> \in A)
  BY <1>4, <1>6, <1>7, <1>8, <1>9, <1>10, Zenon
<1> QED
  BY <1>2, <1>11, <1>12, <1>13, <1>14, Zenon

LEMMA GlobSetIsGlob ==
  ASSUME NEW Char, NEW pattern \in Seq(Char), NEW value \in Seq(Char)
  PROVE  IsGlob(pattern, value, Len(pattern), Len(value), GlobSet(pattern, value))
<1> DEFINE L == Len(pattern)
           N == Len(value)
           g == GlobFrom(pattern, value)
           M == GlobSet(pattern, value)
<1> SUFFICES ASSUME NEW p \in 1..L+1, NEW v \in 1..N+1
             PROVE  /\ p > L => (<<p, v>> \in M <=> v > N)
                    /\ p <= L /\ pattern[p] = Star =>
                         (<<p, v>> \in M <=> \E k \in v..N+1 : <<p + 1, k>> \in M)
                    /\ p <= L /\ pattern[p] # Star =>
                         (<<p, v>> \in M <=> v <= N /\ pattern[p] = value[v] /\ <<p + 1, v + 1>> \in M)
  BY Zenon DEF IsGlob
<1>1. L \in Nat /\ N \in Nat
  OBVIOUS
<1>2. PICK s : s = <<p, v>>
  OBVIOUS
<1>3. s \in (1..L+1) \X (1..N+1) /\ s[1] = p /\ s[2] = v
  BY <1>2
<1>4. s \in M <=> GlobBody(pattern, value, g, s)
  <2>1. s \in M <=> g[s]
    BY <1>3 DEF GlobSet
  <2>2. g[s] = GlobBody(pattern, value, g, s)
    BY <1>3, GlobEquation
  <2> QED
    BY <2>1, <2>2, Zenon
<1>5. p <= L => ~(p > L)
  BY <1>1
<1>6. p <= L => \A k \in v..N+1 : <<p + 1, k>> \in (1..L+1) \X (1..N+1)
  BY <1>1
<1>7. p <= L /\ v <= N => <<p + 1, v + 1>> \in (1..L+1) \X (1..N+1)
  BY <1>1
<1> HIDE DEF L, N, g
<1>8. \A t \in (1..L+1) \X (1..N+1) : t \in M <=> g[t]
  BY Zenon DEF GlobSet, L, N, g
<1> HIDE DEF M
<1>9. GlobBody(pattern, value, g, s) <=>
        IF p > L THEN v > N
        ELSE IF pattern[p] = Star THEN \E k \in v..N+1 : g[<<p + 1, k>>]
        ELSE v <= N /\ pattern[p] = value[v] /\ g[<<p + 1, v + 1>>]
  BY <1>3, Zenon DEF GlobBody, L, N
<1>10. p > L => (s \in M <=> v > N)
  BY <1>4, <1>9, Zenon
<1>11. p <= L /\ pattern[p] = Star => (s \in M <=> \E k \in v..N+1 : <<p + 1, k>> \in M)
  BY <1>4, <1>5, <1>6, <1>8, <1>9, Zenon
<1>12. p <= L /\ pattern[p] # Star =>
         (s \in M <=> v <= N /\ pattern[p] = value[v] /\ <<p + 1, v + 1>> \in M)
  BY <1>4, <1>5, <1>7, <1>8, <1>9, Zenon
<1> QED
  BY <1>2, <1>10, <1>11, <1>12, Zenon
(* What is left of the pattern matches the empty rest of the value when    *)
(* it has only stars: the last loop of matchPattern.                       *)
LEMMA GlobAtEnd ==
  ASSUME NEW pattern, NEW value, NEW L \in Nat, NEW N \in Nat, NEW M, IsGlob(pattern, value, L, N, M)
  PROVE  \A p \in 1..L+1 : <<p, N + 1>> \in M <=> \A i \in p..L : pattern[i] = Star
<1> DEFINE Q == {n \in Nat : n <= L => (<<L + 1 - n, N + 1>> \in M <=>
                                         \A i \in L+1-n..L : pattern[i] = Star)}
<1>1. 0 \in Q
  <2>1. L + 1 \in 1..L+1 /\ N + 1 \in 1..N+1 /\ L + 1 > L /\ N + 1 > N
    OBVIOUS
  <2>2. <<L + 1, N + 1>> \in M
    BY <2>1 DEF IsGlob
  <2> QED
    BY <2>2
<1>2. ASSUME NEW n \in Nat, n \in Q PROVE n + 1 \in Q
  <2>1. SUFFICES ASSUME n + 1 <= L
                 PROVE  <<L - n, N + 1>> \in M <=> \A i \in L-n..L : pattern[i] = Star
    OBVIOUS
  <2> DEFINE p == L - n
  <2>2. p \in 1..L /\ p + 1 = L + 1 - n /\ p \in 1..L+1 /\ N + 1 \in 1..N+1 /\ p <= L
    BY <2>1
  <2>3. <<p + 1, N + 1>> \in M <=> \A i \in p+1..L : pattern[i] = Star
    BY <2>2, <1>2
  <2>4. (\A i \in p..L : pattern[i] = Star) <=> pattern[p] = Star /\ \A i \in p+1..L : pattern[i] = Star
    BY <2>2
  <2> HIDE DEF p
  <2>5. CASE pattern[p] = Star
    <3>1. <<p, N + 1>> \in M <=> \E k \in N+1..N+1 : <<p + 1, k>> \in M
      BY <2>2, <2>5 DEF IsGlob
    <3>2. <<p, N + 1>> \in M <=> <<p + 1, N + 1>> \in M
      BY <3>1
    <3> QED
      BY <3>2, <2>3, <2>4, <2>5 DEF p
  <2>6. CASE pattern[p] # Star
    <3>1. PICK v \in 1..N+1 : v = N + 1 /\ ~(v <= N)
      OBVIOUS
    <3>2. <<p, v>> \notin M
      BY <2>2, <2>6, <3>1 DEF IsGlob
    <3> QED
      BY <3>1, <3>2, <2>4, <2>6 DEF p
  <2> QED
    BY <2>5, <2>6
<1> HIDE DEF Q
<1>3. \A n \in Nat : n \in Q
  BY <1>1, <1>2, NatSetInduction
<1>4. ASSUME NEW p \in 1..L+1
      PROVE  <<p, N + 1>> \in M <=> \A i \in p..L : pattern[i] = Star
  <2> DEFINE n == L + 1 - p
  <2>1. n \in Nat /\ n <= L /\ L + 1 - n = p
    OBVIOUS
  <2>2. n \in Q
    BY <1>3, <2>1
  <2> HIDE DEF n
  <2> QED
    BY <2>1, <2>2 DEF Q
<1> QED
  BY <1>4

(* Characters that are no stars each match one character of the value. *)
LEMMA GlobLiterals ==
  ASSUME NEW pattern, NEW value, NEW L \in Nat, NEW N \in Nat, NEW M, IsGlob(pattern, value, L, N, M),
         NEW p \in 1..L+1, NEW q \in p..L+1, NEW v \in 1..N+1,
         \A i \in p..q-1 : pattern[i] # Star, <<p, v>> \in M
  PROVE  v + (q - p) <= N + 1 /\ <<q, v + (q - p)>> \in M
<1> DEFINE Q == {n \in Nat : p + n <= q => v + n <= N + 1 /\ <<p + n, v + n>> \in M}
<1>1. 0 \in Q
  OBVIOUS
<1>2. ASSUME NEW n \in Nat, n \in Q PROVE n + 1 \in Q
  <2>1. SUFFICES ASSUME p + (n + 1) <= q
                 PROVE  v + (n + 1) <= N + 1 /\ <<p + (n + 1), v + (n + 1)>> \in M
    OBVIOUS
  <2>2. v + n <= N + 1 /\ <<p + n, v + n>> \in M
    BY <1>2, <2>1
  <2>3. PICK i \in 1..L+1, k \in 1..N+1 : i = p + n /\ k = v + n
    BY <2>1, <2>2
  <2>4. i <= L /\ pattern[i] # Star /\ <<i, k>> \in M
    BY <2>1, <2>2, <2>3
  <2>5. k <= N /\ <<i + 1, k + 1>> \in M
    BY <2>4 DEF IsGlob
  <2>6. i + 1 = p + (n + 1) /\ k + 1 = v + (n + 1)
    BY <2>3
  <2> QED
    BY <2>5, <2>6
<1> HIDE DEF Q
<1>3. \A n \in Nat : n \in Q
  BY <1>1, <1>2, NatSetInduction
<1>4. PICK n \in Nat : n = q - p
  OBVIOUS
<1>5. n \in Q /\ p + n = q
  BY <1>3, <1>4
<1> QED
  BY <1>4, <1>5 DEF Q

(* What is known of a position in the loop: after the last star there are  *)
(* only characters that match those after its mark.                        *)
LoopInv(pattern, value, p, v, star, mark) ==
  star # 0 => /\ pattern[star] = Star
              /\ p - star = v - mark + 1
              /\ \A i \in star+1..p-1 : pattern[i] # Star

(* What the loop still has to find out there: the rest matches, or the     *)
(* rest after the last star matches further on.                            *)
ToFind(N, M, p, v, star, mark) ==
  <<p, v>> \in M \/ (star # 0 /\ \E k \in mark+1..N+1 : <<star + 1, k>> \in M)

(* In a position where the loop's case applies it answers ToFind when it   *)
(* does so in the next position.                                           *)
LEMMA LoopStep ==
  ASSUME NEW pattern, NEW value, NEW L \in Nat, NEW N \in Nat, NEW M, NEW A,
         IsGlob(pattern, value, L, N, M), IsLoop(pattern, value, L, N, A),
         \A i \in 1..N : value[i] # Star,
         NEW p \in 1..L+1, NEW v \in 1..N+1, NEW star \in 0..L, NEW mark \in 1..N+1,
         star < p, mark <= v, LoopInv(pattern, value, p, v, star, mark),
         \A p2 \in 1..L+1, v2 \in 1..N+1, star2 \in 0..L, mark2 \in 1..N+1 :
           /\ star2 < p2 /\ mark2 <= v2 /\ LoopInv(pattern, value, p2, v2, star2, mark2)
           /\ star2 > star \/ (star2 = star /\ (mark2 > mark \/ (mark2 = mark /\ v2 > v)))
           => (<<p2, v2, star2, mark2>> \in A <=> ToFind(N, M, p2, v2, star2, mark2))
  PROVE  <<p, v, star, mark>> \in A <=> ToFind(N, M, p, v, star, mark)
<1>1. \* after the last star, what matches further on
      ASSUME star # 0, NEW k \in mark+1..N+1, <<star + 1, k>> \in M
      PROVE  k + (v - mark) <= N + 1 /\ <<p, k + (v - mark)>> \in M
  <2>1. PICK q \in 1..L+1 : q = star + 1
    OBVIOUS
  <2>2. p \in q..L+1 /\ \A i \in q..p-1 : pattern[i] # Star
    BY <1>1, <2>1 DEF LoopInv
  <2>3. k \in 1..N+1 /\ p - q = v - mark
    BY <1>1, <2>1 DEF LoopInv
  <2>4. k + (p - q) <= N + 1 /\ <<p, k + (p - q)>> \in M
    BY <1>1, <2>1, <2>2, <2>3, GlobLiterals
  <2> QED
    BY <2>3, <2>4
<1>2. CASE v > N
  <2>1. v = N + 1
    BY <1>2
  <2>2. <<p, v, star, mark>> \in A <=> \A i \in p..L : pattern[i] = Star
    BY <1>2 DEF IsLoop
  <2>3. <<p, v>> \in M <=> \A i \in p..L : pattern[i] = Star
    <3>1. <<p, N + 1>> \in M <=> \A i \in p..L : pattern[i] = Star
      BY GlobAtEnd, Zenon
    <3> QED
      BY <2>1, <3>1
  <2>4. ~(star # 0 /\ \E k \in mark+1..N+1 : <<star + 1, k>> \in M)
    <3> SUFFICES ASSUME star # 0, NEW k \in mark+1..N+1, <<star + 1, k>> \in M
                 PROVE  FALSE
      OBVIOUS
    <3>1. k + (v - mark) <= N + 1
      BY <1>1
    <3> QED
      BY <2>1, <3>1
  <2> QED
    BY <2>2, <2>3, <2>4 DEF ToFind
<1>3. CASE v <= N /\ p <= L /\ pattern[p] = value[v]
  <2>1. <<p, v, star, mark>> \in A <=> <<p + 1, v + 1, star, mark>> \in A
    BY <1>3 DEF IsLoop
  <2>2. PICK p2 \in 1..L+1, v2 \in 1..N+1 : p2 = p + 1 /\ v2 = v + 1
    BY <1>3
  <2>3. pattern[p] # Star
    BY <1>3
  <2>4. LoopInv(pattern, value, p2, v2, star, mark)
    BY <2>2, <2>3 DEF LoopInv
  <2>5. <<p2, v2, star, mark>> \in A <=> ToFind(N, M, p2, v2, star, mark)
    BY <2>2, <2>4
  <2>6. <<p, v>> \in M <=> <<p2, v2>> \in M
    BY <1>3, <2>2, <2>3 DEF IsGlob
  <2> QED
    BY <2>1, <2>2, <2>5, <2>6 DEF ToFind
<1>4. CASE v <= N /\ p <= L /\ pattern[p] # value[v] /\ pattern[p] = Star
  <2>1. <<p, v, star, mark>> \in A <=> <<p + 1, v, p, v>> \in A
    BY <1>4 DEF IsLoop
  <2>2. PICK p2 \in 1..L+1, star2 \in 0..L : p2 = p + 1 /\ star2 = p
    BY <1>4
  <2>3. LoopInv(pattern, value, p2, v, star2, v)
    BY <2>2, <1>4 DEF LoopInv
  <2>4. <<p2, v, star2, v>> \in A <=> ToFind(N, M, p2, v, star2, v)
    BY <2>2, <2>3
  <2>5. <<p, v>> \in M <=> \E k \in v..N+1 : <<p2, k>> \in M
    BY <1>4, <2>2 DEF IsGlob
  <2>6. ToFind(N, M, p2, v, star2, v) <=> <<p, v>> \in M
    <3>1. ToFind(N, M, p2, v, star2, v)
            <=> (<<p2, v>> \in M \/ \E k \in v+1..N+1 : <<p2, k>> \in M)
      BY <2>2 DEF ToFind
    <3>2. \A k : k \in v..N+1 <=> (k = v \/ k \in v+1..N+1)
      OBVIOUS
    <3> QED
      BY <2>5, <3>1, <3>2, Zenon
  <2>7. ASSUME star # 0, NEW k \in mark+1..N+1, <<star + 1, k>> \in M
        PROVE  <<p, v>> \in M
    <3>1. PICK w \in v..N+1 : <<p, w>> \in M
      BY <1>1, <2>7
    <3>2. w \in 1..N+1
      OBVIOUS
    <3>3. PICK j \in w..N+1 : <<p2, j>> \in M
      BY <1>4, <2>2, <3>1, <3>2 DEF IsGlob
    <3>4. j \in v..N+1
      OBVIOUS
    <3> QED
      BY <2>5, <3>3, <3>4, Zenon
  <2> QED
    BY <2>1, <2>2, <2>4, <2>6, <2>7 DEF ToFind
<1>5. CASE v <= N /\ (p > L \/ (pattern[p] # value[v] /\ pattern[p] # Star))
  <2>1. <<p, v, star, mark>> \in A <=> star # 0 /\ <<star + 1, mark + 1, star, mark + 1>> \in A
    BY <1>5 DEF IsLoop
  <2>2. <<p, v>> \notin M
    <3>1. CASE p > L
      <4>1. <<p, v>> \in M <=> v > N
        BY <3>1, Zenon DEF IsGlob
      <4> QED
        BY <1>5, <4>1
    <3>2. CASE p <= L /\ pattern[p] # value[v] /\ pattern[p] # Star
      BY <3>2 DEF IsGlob
    <3> QED
      BY <1>5, <3>1, <3>2
  <2>3. CASE star = 0
    BY <2>1, <2>2, <2>3 DEF ToFind
  <2>4. CASE star # 0
    <3>1. PICK p2 \in 1..L+1, m2 \in 1..N+1 : p2 = star + 1 /\ m2 = mark + 1
      BY <1>5
    <3>2. LoopInv(pattern, value, p2, m2, star, m2)
      BY <3>1, <2>4 DEF LoopInv
    <3>3. <<p2, m2, star, m2>> \in A <=> ToFind(N, M, p2, m2, star, m2)
      BY <3>1, <3>2
    <3>4. ToFind(N, M, p2, m2, star, m2) <=> \E k \in mark+1..N+1 : <<star + 1, k>> \in M
      <4>1. ToFind(N, M, p2, m2, star, m2)
              <=> (<<p2, m2>> \in M \/ \E k \in m2+1..N+1 : <<p2, k>> \in M)
        BY <3>1, <2>4 DEF ToFind
      <4>2. \A k : k \in m2..N+1 <=> (k = m2 \/ k \in m2+1..N+1)
        OBVIOUS
      <4>3. ToFind(N, M, p2, m2, star, m2) <=> \E k \in m2..N+1 : <<p2, k>> \in M
        BY <4>1, <4>2, Zenon
      <4> QED
        BY <3>1, <4>3
    <3> QED
      BY <2>1, <2>2, <2>4, <3>1, <3>3, <3>4 DEF ToFind
  <2> QED
    BY <2>3, <2>4
<1> QED
  BY <1>2, <1>3, <1>4, <1>5
(* From every position it can be at the loop answers ToFind, by induction  *)
(* on the last star, its mark and the position in the value, which grow in *)
(* this order: the loop ends.                                              *)
LEMMA LoopCorrect ==
  ASSUME NEW pattern, NEW value, NEW L \in Nat, NEW N \in Nat, NEW M, NEW A,
         IsGlob(pattern, value, L, N, M), IsLoop(pattern, value, L, N, A),
         \A i \in 1..N : value[i] # Star
  PROVE  \A p \in 1..L+1, v \in 1..N+1, star \in 0..L, mark \in 1..N+1 :
           star < p /\ mark <= v /\ LoopInv(pattern, value, p, v, star, mark) =>
             (<<p, v, star, mark>> \in A <=> ToFind(N, M, p, v, star, mark))
<1> DEFINE Good(p, v, star, mark) ==
             star < p /\ mark <= v /\ LoopInv(pattern, value, p, v, star, mark) =>
               (<<p, v, star, mark>> \in A <=> ToFind(N, M, p, v, star, mark))
           T == {s \in (1..L+1) \X (1..N+1) \X (0..L) \X (1..N+1) : ~Good(s[1], s[2], s[3], s[4])}
<1>1. \A s \in T : /\ s \in (1..L+1) \X (1..N+1) \X (0..L) \X (1..N+1)
                   /\ ~Good(s[1], s[2], s[3], s[4])
  <2> HIDE DEF Good
  <2> QED
    OBVIOUS
<1>2. \A p \in 1..L+1, v \in 1..N+1, star \in 0..L, mark \in 1..N+1 :
        Good(p, v, star, mark) \/ <<p, v, star, mark>> \in T
  <2> HIDE DEF Good
  <2> QED
    OBVIOUS
<1> HIDE DEF T, Good
<1>3. SUFFICES ASSUME T # {} PROVE FALSE
  BY <1>2, Zenon DEF Good
<1>a. PICK a : a = [s \in T |-> L - s[3]]
  OBVIOUS
<1>b. PICK b : b = [s \in T |-> N + 1 - s[4]]
  OBVIOUS
<1>c. PICK c : c = [s \in T |-> N + 1 - s[2]]
  OBVIOUS
<1>4. \A s \in T : /\ a[s] = L - s[3] /\ b[s] = N + 1 - s[4] /\ c[s] = N + 1 - s[2]
                   /\ a[s] \in Nat /\ b[s] \in Nat /\ c[s] \in Nat
  <2> SUFFICES ASSUME NEW s \in T
               PROVE  /\ a[s] = L - s[3] /\ b[s] = N + 1 - s[4] /\ c[s] = N + 1 - s[2]
                      /\ a[s] \in Nat /\ b[s] \in Nat /\ c[s] \in Nat
    OBVIOUS
  <2>1. s[2] \in 1..N+1 /\ s[3] \in 0..L /\ s[4] \in 1..N+1
    BY <1>1
  <2>2. a[s] = L - s[3] /\ b[s] = N + 1 - s[4] /\ c[s] = N + 1 - s[2]
    BY <1>a, <1>b, <1>c
  <2> QED
    BY <2>1, <2>2
<1>5. PICK s \in T : LexLeast(T, a, b, c, s)
  <2>1. Measured(T, a, b, c)
    BY <1>4 DEF Measured
  <2> QED
    BY <1>3, <2>1, LexicographicLeast, Zenon
<1>d. \A t \in T : /\ a[s] <= a[t]
                   /\ a[s] = a[t] => b[s] <= b[t]
                   /\ a[s] = a[t] /\ b[s] = b[t] => c[s] <= c[t]
  BY <1>5 DEF LexLeast
<1>6. PICK p \in 1..L+1, v \in 1..N+1, star \in 0..L, mark \in 1..N+1 : s = <<p, v, star, mark>>
  BY <1>1
<1>7. ~Good(p, v, star, mark)
  BY <1>1, <1>6
<1>8. a[s] = L - star /\ b[s] = N + 1 - mark /\ c[s] = N + 1 - v
  BY <1>4, <1>6
<1>9. ASSUME NEW p2 \in 1..L+1, NEW v2 \in 1..N+1, NEW star2 \in 0..L, NEW mark2 \in 1..N+1,
             star2 > star \/ (star2 = star /\ (mark2 > mark \/ (mark2 = mark /\ v2 > v)))
      PROVE  Good(p2, v2, star2, mark2)
  <2> SUFFICES ASSUME ~Good(p2, v2, star2, mark2) PROVE FALSE
    OBVIOUS
  <2>1. PICK t \in T : t = <<p2, v2, star2, mark2>>
    BY <1>2
  <2>2. a[t] = L - star2 /\ b[t] = N + 1 - mark2 /\ c[t] = N + 1 - v2
    BY <1>4, <2>1
  <2>3. /\ L - star <= L - star2
        /\ L - star = L - star2 => N + 1 - mark <= N + 1 - mark2
        /\ L - star = L - star2 /\ N + 1 - mark = N + 1 - mark2 => N + 1 - v <= N + 1 - v2
    <3>1. /\ a[s] <= a[t]
          /\ a[s] = a[t] => b[s] <= b[t]
          /\ a[s] = a[t] /\ b[s] = b[t] => c[s] <= c[t]
      BY <1>d, <2>1
    <3> QED
      BY <3>1, <1>8, <2>2
  <2> QED
    BY <1>9, <2>3
<1>10. star < p /\ mark <= v /\ LoopInv(pattern, value, p, v, star, mark)
  BY <1>7 DEF Good
<1>11. <<p, v, star, mark>> \in A <=> ToFind(N, M, p, v, star, mark)
  BY <1>9, <1>10, LoopStep DEF Good
<1> QED
  BY <1>7, <1>11 DEF Good

(* The value "*", the namespace of --all-namespaces, matches what is left  *)
(* of a pattern only when that has nothing but stars.                      *)
LEMMA GlobOfStar ==
  ASSUME NEW pattern, NEW value, NEW L \in Nat, NEW N \in Nat, NEW M,
         IsGlob(pattern, value, L, N, M)
  PROVE  N = 1 /\ value[1] = Star =>
           \A p \in 1..L+1 : <<p, 1>> \in M => \A i \in p..L : pattern[i] = Star
<1>0. \A p \in 1..L+1 : <<p, N + 1>> \in M <=> \A i \in p..L : pattern[i] = Star
  BY GlobAtEnd, Zenon
<1>a. \A p \in 1..L+1, v \in 1..N+1 :
        p <= L /\ pattern[p] = Star /\ <<p, v>> \in M => \E k \in v..N+1 : <<p + 1, k>> \in M
  BY Zenon DEF IsGlob
<1> SUFFICES ASSUME N = 1, value[1] = Star
             PROVE  \A p \in 1..L+1 : <<p, 1>> \in M => \A i \in p..L : pattern[i] = Star
  OBVIOUS
<1> DEFINE Q == {n \in Nat : n <= L /\ <<L + 1 - n, 1>> \in M => \A i \in L+1-n..L : pattern[i] = Star}
<1>1. 0 \in Q
  OBVIOUS
<1>2. ASSUME NEW n \in Nat, n \in Q PROVE n + 1 \in Q
  <2>1. SUFFICES ASSUME n + 1 <= L, <<L - n, 1>> \in M
                 PROVE  \A i \in L-n..L : pattern[i] = Star
    OBVIOUS
  <2>2. PICK p \in 1..L+1 : p = L - n /\ p <= L /\ p + 1 = L + 1 - n /\ p + 1 \in 1..L+1
    BY <2>1
  <2>3. <<p + 1, 1>> \in M => \A i \in p+1..L : pattern[i] = Star
    BY <1>2, <2>2
  <2>4. <<p + 1, 2>> \in M => \A i \in p+1..L : pattern[i] = Star
    <3>1. <<p + 1, N + 1>> \in M <=> \A i \in p+1..L : pattern[i] = Star
      BY <2>2, <1>0, Zenon
    <3> QED
      BY <3>1
  <2>5. pattern[p] = Star
    <3>1. 1 \in 1..N+1
      OBVIOUS
    <3> QED
      BY <2>1, <2>2, <3>1 DEF IsGlob
  <2>6. <<p + 1, 1>> \in M \/ <<p + 1, 2>> \in M
    <3>1. 1 \in 1..N+1
      OBVIOUS
    <3>2. <<p, 1>> \in M
      BY <2>1, <2>2
    <3>3. \E k \in 1..N+1 : <<p + 1, k>> \in M
      BY <2>2, <2>5, <3>1, <3>2, <1>a
    <3> QED
      BY <3>3
  <2>7. \A i \in p+1..L : pattern[i] = Star
    BY <2>3, <2>4, <2>6
  <2> QED
    BY <2>2, <2>5, <2>7
<1> HIDE DEF Q
<1>3. \A n \in Nat : n \in Q
  BY <1>1, <1>2, NatSetInduction
<1>4. ASSUME NEW p \in 1..L+1, <<p, 1>> \in M
      PROVE  \A i \in p..L : pattern[i] = Star
  <2>1. PICK n \in Nat : n <= L /\ L + 1 - n = p
    <3>1. L + 1 - p \in Nat /\ L + 1 - (L + 1 - p) = p
      OBVIOUS
    <3> QED
      BY <3>1
  <2>2. n \in Q
    BY <1>3
  <2> QED
    BY <1>4, <2>1, <2>2 DEF Q
<1> QED
  BY <1>4

LEMMA LoopOfStar ==
  ASSUME NEW pattern, NEW value, NEW L \in Nat, NEW N \in Nat, NEW M, NEW A,
         IsGlob(pattern, value, L, N, M), IsLoop(pattern, value, L, N, A)
  PROVE  N = 1 /\ value[1] = Star => (<<1, 1, 0, 1>> \in A <=> <<1, 1>> \in M)
<1>0. \A p \in 1..L+1 : <<p, N + 1>> \in M <=> \A i \in p..L : pattern[i] = Star
  BY GlobAtEnd, Zenon
<1> SUFFICES ASSUME N = 1, value[1] = Star PROVE <<1, 1, 0, 1>> \in A <=> <<1, 1>> \in M
  OBVIOUS
<1>1. PICK one \in 1..L+1 : one = 1 /\ one \in 1..N+1 /\ one <= N /\ ~(one > N) /\ one <= one
  OBVIOUS
<1>2. PICK zero \in 0..L : zero = 0 /\ zero < one /\ ~(zero # 0)
  BY <1>1
<1>3. CASE L = 0
  <2>1. one > L
    BY <1>1, <1>3
  <2>2. <<one, one, zero, one>> \notin A
    BY <1>1, <1>2, <2>1, Zenon DEF IsLoop
  <2>3. <<one, one>> \notin M
    BY <1>1, <2>1, Zenon DEF IsGlob
  <2> QED
    BY <1>1, <1>2, <2>2, <2>3
<1>4. CASE L # 0 /\ pattern[1] = Star
  <2>1. PICK two \in 1..L+1 : two = 2 /\ two \in 1..N+1 /\ two > N /\ one + 1 = two /\ zero < two /\ one <= two
    BY <1>1, <1>2, <1>4
  <2>2. one <= L /\ pattern[one] = value[one] /\ pattern[one] = Star
    BY <1>1, <1>4
  <2>3. <<one, one, zero, one>> \in A <=> <<one + 1, one + 1, zero, one>> \in A
    BY <1>1, <1>2, <2>2, Zenon DEF IsLoop
  <2>4. <<two, two, zero, one>> \in A <=> \A i \in two..L : pattern[i] = Star
    BY <1>1, <1>2, <2>1, Zenon DEF IsLoop
  <2>5. <<one, one>> \in M <=> <<two, one>> \in M \/ <<two, two>> \in M
    <3>1. <<one, one>> \in M <=> \E k \in one..N+1 : <<one + 1, k>> \in M
      BY <1>1, <2>2, Zenon DEF IsGlob
    <3>2. \A k : k \in one..N+1 <=> (k = one \/ k = two)
      BY <1>1, <2>1
    <3> QED
      BY <3>1, <3>2, <2>1, Zenon
  <2>6. <<two, two>> \in M <=> \A i \in two..L : pattern[i] = Star
    <3>1. <<two, N + 1>> \in M <=> \A i \in two..L : pattern[i] = Star
      BY <1>0
    <3> QED
      BY <3>1, <2>1
  <2>7. <<two, one>> \in M => \A i \in two..L : pattern[i] = Star
    BY <1>1, GlobOfStar
  <2> QED
    BY <1>1, <1>2, <2>1, <2>3, <2>4, <2>5, <2>6, <2>7
<1>5. CASE L # 0 /\ pattern[1] # Star
  <2>1. one <= L /\ pattern[one] # value[one] /\ pattern[one] # Star
    BY <1>1, <1>5
  <2>2. <<one, one, zero, one>> \notin A
    BY <1>1, <1>2, <2>1, Zenon DEF IsLoop
  <2>3. <<one, one>> \notin M
    BY <1>1, <2>1, Zenon DEF IsGlob
  <2> QED
    BY <1>1, <1>2, <2>2, <2>3
<1> QED
  BY <1>3, <1>4, <1>5

(* A value without stars, as names and types are, or the namespace "*". *)
PlainValue(value) == (\A i \in 1..Len(value) : value[i] # Star) \/ value = <<Star>>

(* matchPattern (rbac.go 18-42) answers whether the value is one the       *)
(* pattern stands for, for every pattern and every value without a star,   *)
(* and for the value "*": returning to the last star only is enough.       *)
THEOREM MatchPatternIsGlob ==
  ASSUME NEW Char, NEW pattern \in Seq(Char), NEW value \in Seq(Char), PlainValue(value)
  PROVE  matchPattern(pattern, value) <=> Glob(pattern, value)
<1> DEFINE L == Len(pattern)
           N == Len(value)
           A == LoopSet(pattern, value)
           M == GlobSet(pattern, value)
<1>1. L \in Nat /\ N \in Nat
  OBVIOUS
<1>2. IsLoop(pattern, value, L, N, A) /\ IsGlob(pattern, value, L, N, M)
  BY LoopSetIsLoop, GlobSetIsGlob
<1>3. matchPattern(pattern, value) <=> <<1, 1, 0, 1>> \in A
  <2>1. <<1, 1, 0, 1>> \in Positions(L, N)
    BY <1>1 DEF Positions
  <2> QED
    BY <2>1, Zenon DEF matchPattern, LoopSet
<1>4. Glob(pattern, value) <=> <<1, 1>> \in M
  <2>1. <<1, 1>> \in (1..L+1) \X (1..N+1)
    BY <1>1
  <2> QED
    BY <2>1, Zenon DEF Glob, GlobSet
<1>5. CASE \A i \in 1..Len(value) : value[i] # Star
  <2> HIDE DEF L, N, A, M
  <2>1. LoopInv(pattern, value, 1, 1, 0, 1)
    BY DEF LoopInv
  <2>2. ToFind(N, M, 1, 1, 0, 1) <=> <<1, 1>> \in M
    BY DEF ToFind
  <2>3. 1 \in 1..L+1 /\ 1 \in 1..N+1 /\ 0 \in 0..L /\ 0 < 1 /\ 1 <= 1
    BY <1>1
  <2>4. \A i \in 1..N : value[i] # Star
    BY <1>5 DEF N
  <2>5. <<1, 1, 0, 1>> \in A <=> ToFind(N, M, 1, 1, 0, 1)
    BY <1>1, <1>2, <2>1, <2>3, <2>4, LoopCorrect
  <2> QED
    BY <1>3, <1>4, <2>2, <2>5, Zenon
<1>6. CASE value = <<Star>>
  <2>1. N = 1 /\ value[1] = Star
    BY <1>6
  <2> HIDE DEF L, N, A, M
  <2>2. <<1, 1, 0, 1>> \in A <=> <<1, 1>> \in M
    BY <1>1, <1>2, <2>1, LoopOfStar
  <2> QED
    BY <1>3, <1>4, <2>2, Zenon
<1> QED
  BY <1>5, <1>6, Zenon DEF PlainValue
-------------------------------------------------------------------------------
(* A command's request is the documented one *)

(* A set of numbers up to N that is not empty has a greatest member. *)
LEMMA GreatestNumber ==
  ASSUME NEW N \in Nat, NEW T, T \subseteq 1..N, T # {}
  PROVE  \E n \in T : \A m \in T : m <= n
<1>1. PICK D : D = {N - n : n \in T}
  OBVIOUS
<1>2. D \subseteq Nat /\ D # {}
  <2>1. ASSUME NEW n \in T PROVE N - n \in Nat
    <3>1. n \in 1..N
      OBVIOUS
    <3> QED
      BY <3>1
  <2> QED
    BY <1>1, <2>1
<1>3. PICK d \in D : \A e \in D : d <= e
  BY <1>2, LeastNumber
<1>4. PICK n \in T : d = N - n
  BY <1>1
<1>5. ASSUME NEW m \in T PROVE m <= n
  <2>1. N - m \in D
    BY <1>1
  <2>2. N - n <= N - m
    BY <1>3, <1>4, <2>1
  <2> QED
    BY <2>2
<1> QED
  BY <1>5

(* The body of namespaceAfter's function. *)
NamespaceBody(args, fallback, f, i) ==
  IF i = 0 THEN [namespace |-> fallback, due |-> FALSE]
  ELSE IF f[i - 1].due THEN [namespace |-> args[i].text, due |-> FALSE]
  ELSE IF args[i].flag = "all" THEN [namespace |-> <<Star>>, due |-> FALSE]
  ELSE IF args[i].flag = "n=" THEN [namespace |-> args[i].text, due |-> FALSE]
  ELSE [namespace |-> f[i - 1].namespace, due |-> args[i].flag = "n"]

(* namespaceAfter is what its recursive definition says. *)
LEMMA NamespaceEquation ==
  ASSUME NEW args \in Seq(Word), NEW fallback \in Text
  PROVE  \A i \in 0..Len(args) : namespaceAfter(args, fallback)[i]
                                   = NamespaceBody(args, fallback, namespaceAfter(args, fallback), i)
<1> DEFINE N == Len(args)
           S == [namespace : Text, due : BOOLEAN]
           After(i, r) == IF r.due THEN [namespace |-> args[i].text, due |-> FALSE]
                          ELSE IF args[i].flag = "all" THEN [namespace |-> <<Star>>, due |-> FALSE]
                          ELSE IF args[i].flag = "n=" THEN [namespace |-> args[i].text, due |-> FALSE]
                          ELSE [namespace |-> r.namespace, due |-> args[i].flag = "n"]
           step == [x \in (1..N) \X S |-> After(x[1], x[2])]
           base == [namespace |-> fallback, due |-> FALSE]
<1>1. N \in Nat /\ base \in S
  OBVIOUS
<1>2. \A i \in 1..N, r \in S : After(i, r) \in S
  <2> SUFFICES ASSUME NEW i \in 1..N, NEW r \in S PROVE After(i, r) \in S
    OBVIOUS
  <2>1. args[i].text \in Text /\ <<Star>> \in Text /\ r.namespace \in Text
    <3>1. args[i] \in Word
      OBVIOUS
    <3>2. <<Star>> \in Seq(Chars)
      <4>1. Star \in Chars
        BY CharAssumption
      <4> QED
        BY <4>1
    <3> QED
      BY <3>1, <3>2 DEF Word, Text
  <2>2. (args[i].flag = "n") \in BOOLEAN
    BY SMT
  <2>3. [namespace |-> args[i].text, due |-> FALSE] \in S /\ [namespace |-> <<Star>>, due |-> FALSE] \in S
    BY <2>1
  <2>4. [namespace |-> r.namespace, due |-> args[i].flag = "n"] \in S
    BY <2>1, <2>2
  <2> HIDE DEF S
  <2> QED
    BY <2>3, <2>4, Zenon
<1>3. step \in [(1..N) \X S -> S]
  <2> HIDE DEF After, S, N
  <2> QED
    BY <1>2
<1>4. \A i \in 1..N, r \in S : step[<<i, r>>] = After(i, r)
  <2> HIDE DEF After, S, N
  <2> QED
    OBVIOUS
<1> HIDE DEF step, N, base, S
<1>5. PICK f \in [0..N -> S] : f[0] = base /\ \A i \in 1..N : f[i] = step[<<i, f[i - 1]>>]
  <2>1. PICK f \in [0..N -> S] : Follows(f, base, N, step)
    BY <1>1, <1>3, PrimitiveRecursion, Zenon
  <2> QED
    BY <2>1, Zenon DEF Follows
<1>6. ASSUME NEW i \in 0..N PROVE f[i] = NamespaceBody(args, fallback, f, i)
  <2>1. CASE i = 0
    BY <1>5, <2>1 DEF NamespaceBody, base
  <2>2. CASE i # 0
    <3>1. i \in 1..N /\ i - 1 \in 0..N
      BY <1>1, <2>2
    <3>2. f[i - 1] \in S
      BY <1>5, <3>1
    <3>3. f[i] = After(i, f[i - 1])
      BY <1>4, <1>5, <3>1, <3>2
    <3> QED
      BY <3>3, <2>2, Zenon DEF NamespaceBody
  <2> QED
    BY <2>1, <2>2
<1>7. f = [i \in 0..N |-> NamespaceBody(args, fallback, f, i)]
  BY <1>5, <1>6, Zenon
<1>8. namespaceAfter(args, fallback) = CHOOSE h : h = [i \in 0..N |-> NamespaceBody(args, fallback, h, i)]
  BY Zenon DEF namespaceAfter, NamespaceBody, N
<1>9. PICK m : m = namespaceAfter(args, fallback)
  OBVIOUS
<1>10. m = [i \in 0..N |-> NamespaceBody(args, fallback, m, i)]
  BY <1>7, <1>8, <1>9, Zenon
<1> QED
  BY <1>9, <1>10, Zenon DEF N

(* What the words up to i say about the namespace: the last flag that      *)
(* names one, unless that is a -n at i, whose value is due.                *)
NamespaceInv(args, fallback, r, i) ==
  /\ r.due <=> i > 0 /\ args[i].flag = "n"
  /\ (\A l \in 1..i : l \notin NamespaceFlags(args)) => r.namespace = fallback
  /\ \A j \in 1..i : /\ j \in NamespaceFlags(args) /\ \A l \in j+1..i : l \notin NamespaceFlags(args)
                     /\ args[j].flag = "n" => j < i
                     => r.namespace = Named(args, j)

LEMMA NamespaceStep ==
  ASSUME NEW args \in Seq(Word), NEW fallback, Ordinary(args), NEW m, NEW i \in 1..Len(args),
         NamespaceInv(args, fallback, m[i - 1], i - 1),
         m[i] = NamespaceBody(args, fallback, m, i)
  PROVE  NamespaceInv(args, fallback, m[i], i)
<1>1. i - 1 \in 0..Len(args) /\ i # 0 /\ i > 0 /\ Len(args) \in Nat
  OBVIOUS
<1>2. NamespaceFlags(args) = {j \in 1..Len(args) : args[j].flag \in {"all", "n", "n="}}
  BY DEF NamespaceFlags
<1>3. CASE m[i - 1].due
  <2>1. i - 1 > 0 /\ args[i - 1].flag = "n"
    BY <1>3, Zenon DEF NamespaceInv
  <2>2. i - 1 \in DOMAIN args /\ (i - 1) + 1 = i
    BY <2>1
  <2>3. args[i].flag = "no"
    BY <2>1, <2>2 DEF Ordinary
  <2>4. m[i] = [namespace |-> args[i].text, due |-> FALSE]
    BY <1>1, <1>3, Zenon DEF NamespaceBody
  <2>5. i \notin NamespaceFlags(args) /\ i - 1 \in NamespaceFlags(args) /\ i - 1 \in 1..i
    BY <1>2, <2>1, <2>3
  <2>6. Named(args, i - 1) = args[i].text
    BY <2>1, <2>2 DEF Named
  <2>7. ASSUME NEW j \in 1..i, j \in NamespaceFlags(args), \A l \in j+1..i : l \notin NamespaceFlags(args)
        PROVE  j = i - 1
    BY <2>5, <2>7
  <2> QED
    BY <2>3, <2>4, <2>5, <2>6, <2>7 DEF NamespaceInv
<1>4. CASE ~m[i - 1].due /\ args[i].flag \in {"all", "n="}
  <2>1. m[i] = [namespace |-> Named(args, i), due |-> FALSE]
    <3>1. CASE args[i].flag = "all"
      BY <1>1, <1>4, <3>1, Zenon DEF NamespaceBody, Named
    <3>2. CASE args[i].flag = "n="
      <4>1. args[i].flag # "all" /\ args[i].flag # "n"
        BY <3>2
      <4>2. Named(args, i) = args[i].text
        BY <3>2 DEF Named
      <4> QED
        BY <1>1, <1>4, <3>2, <4>1, <4>2, Zenon DEF NamespaceBody
    <3> QED
      BY <1>4, <3>1, <3>2
  <2>2. i \in NamespaceFlags(args) /\ args[i].flag # "n"
    BY <1>2, <1>4
  <2>3. ASSUME NEW j \in 1..i, \A l \in j+1..i : l \notin NamespaceFlags(args)
        PROVE  j = i
    BY <2>2, <2>3
  <2> QED
    BY <2>1, <2>2, <2>3 DEF NamespaceInv
<1>5. CASE ~m[i - 1].due /\ args[i].flag \notin {"all", "n="}
  <2>1. m[i] = [namespace |-> m[i - 1].namespace, due |-> args[i].flag = "n"]
    BY <1>1, <1>5, Zenon DEF NamespaceBody
  <2>2. m[i].namespace = m[i - 1].namespace /\ (m[i].due <=> args[i].flag = "n")
    <3>1. m[i].namespace = m[i - 1].namespace
      BY <2>1
    <3>2. CASE args[i].flag = "n"
      <4>1. (args[i].flag = "n") = TRUE
        BY <3>2, SMT
      <4>2. m[i] = [namespace |-> m[i - 1].namespace, due |-> TRUE]
        BY <2>1, <4>1, Zenon
      <4> QED
        BY <3>1, <3>2, <4>2
    <3>3. CASE args[i].flag # "n"
      <4>1. (args[i].flag = "n") = FALSE
        BY <3>3, SMT
      <4>2. m[i] = [namespace |-> m[i - 1].namespace, due |-> FALSE]
        BY <2>1, <4>1, Zenon
      <4> QED
        BY <3>1, <3>3, <4>2
    <3> QED
      BY <3>2, <3>3
  <2>3. ~(i - 1 > 0 /\ args[i - 1].flag = "n")
    BY <1>5, Zenon DEF NamespaceInv
  <2>4. m[i].due <=> i > 0 /\ args[i].flag = "n"
    BY <1>1, <2>2, Zenon
  <2>5. i \in NamespaceFlags(args) <=> args[i].flag = "n"
    BY <1>2, <1>5
  <2>6. ASSUME \A l \in 1..i : l \notin NamespaceFlags(args)
        PROVE  m[i].namespace = fallback
    <3>1. \A l \in 1..i-1 : l \notin NamespaceFlags(args)
      BY <2>6
    <3> QED
      BY <2>2, <3>1 DEF NamespaceInv
  <2>7. ASSUME NEW j \in 1..i, j \in NamespaceFlags(args), \A l \in j+1..i : l \notin NamespaceFlags(args),
               args[j].flag = "n" => j < i
        PROVE  m[i].namespace = Named(args, j)
    <3>1. j # i
      BY <2>5, <2>7
    <3>2. j \in 1..i-1 /\ \A l \in j+1..i-1 : l \notin NamespaceFlags(args)
      BY <2>7, <3>1
    <3>3. args[j].flag = "n" => j < i - 1
      BY <2>3, <3>1, <3>2
    <3> QED
      BY <2>2, <2>7, <3>2, <3>3 DEF NamespaceInv
  <2> QED
    BY <2>4, <2>6, <2>7 DEF NamespaceInv
<1> QED
  BY <1>3, <1>4, <1>5

(* The namespace of an ordinary command is the documented one (rbac.go     *)
(* 77-93): the loop that skips the value of -n finds the last flag.        *)
LEMMA NamespaceAgrees ==
  ASSUME NEW args \in Seq(Word), NEW fallback \in Text, Ordinary(args)
  PROVE  namespaceOf(args, fallback) = RefNamespace(args, fallback)
<1> DEFINE N == Len(args)
           m == namespaceAfter(args, fallback)
           Q == {i \in Nat : i <= N => NamespaceInv(args, fallback, m[i], i)}
<1>1. N \in Nat
  OBVIOUS
<1>2. \A i \in 0..N : m[i] = NamespaceBody(args, fallback, m, i)
  BY NamespaceEquation
<1> HIDE DEF m
<1>3. 0 \in Q
  <2>1. m[0] = [namespace |-> fallback, due |-> FALSE]
    <3>1. 0 \in 0..N
      BY <1>1
    <3> QED
      BY <1>2, <3>1, Zenon DEF NamespaceBody
  <2> QED
    BY <2>1 DEF NamespaceInv
<1>4. ASSUME NEW n \in Nat, n \in Q PROVE n + 1 \in Q
  <2>1. SUFFICES ASSUME n + 1 <= N PROVE NamespaceInv(args, fallback, m[n + 1], n + 1)
    OBVIOUS
  <2>2. PICK i \in 1..N : i = n + 1 /\ i - 1 = n
    BY <2>1
  <2>3. NamespaceInv(args, fallback, m[i - 1], i - 1)
    BY <1>4, <2>1, <2>2
  <2>4. m[i] = NamespaceBody(args, fallback, m, i)
    BY <1>2, <2>2
  <2>5. NamespaceInv(args, fallback, m[i], i)
    BY <2>2, <2>3, <2>4, NamespaceStep
  <2> QED
    BY <2>2, <2>5
<1> HIDE DEF Q
<1>5. \A n \in Nat : n \in Q
  BY <1>3, <1>4, NatSetInduction
<1>6. NamespaceInv(args, fallback, m[N], N)
  BY <1>1, <1>5 DEF Q
<1>7. namespaceOf(args, fallback) = m[N].namespace
  BY DEF namespaceOf, m
<1>8. NamespaceFlags(args) \subseteq 1..N
  BY DEF NamespaceFlags
<1> HIDE DEF N
<1>9. CASE NamespaceFlags(args) = {}
  BY <1>6, <1>7, <1>9 DEF NamespaceInv, RefNamespace
<1>10. CASE NamespaceFlags(args) # {}
  <2>1. PICK F : F = NamespaceFlags(args)
    OBVIOUS
  <2>2. \E j \in F : \A l \in F : l <= j
    BY <1>1, <1>8, <1>10, <2>1, GreatestNumber
  <2>3. PICK j : j = CHOOSE x \in F : \A l \in F : l <= x
    OBVIOUS
  <2>4. j \in F /\ \A l \in F : l <= j
    BY <2>2, <2>3
  <2>5. j \in 1..N /\ \A l \in j+1..N : l \notin F
    BY <1>1, <1>8, <2>1, <2>4
  <2>6. args[j].flag = "n" => j < N
    <3>1. j \in DOMAIN args /\ N = Len(args)
      BY <2>1, <2>4 DEF NamespaceFlags, N
    <3> QED
      BY <3>1 DEF Ordinary
  <2>7. m[N].namespace = Named(args, j)
    BY <1>6, <2>1, <2>4, <2>5, <2>6 DEF NamespaceInv
  <2>8. RefNamespace(args, fallback) = Named(args, j)
    BY <1>10, <2>1, <2>3 DEF RefNamespace
  <2> QED
    BY <1>7, <2>7, <2>8
<1> QED
  BY <1>9, <1>10
(* The least member of a set of numbers, as SelectInSeq takes it. *)
LEMMA MinIsLeast ==
  ASSUME NEW T, T \subseteq Nat, T # {}
  PROVE  Min(T) \in T /\ \A m \in T : Min(T) <= m
<1>1. \E n \in T : \A m \in T : n <= m
  BY LeastNumber
<1> QED
  BY <1>1 DEF Min

(* stripName leaves the longest prefix without a slash. *)
LEMMA StripNameAgrees ==
  ASSUME NEW text \in Text
  PROVE  stripName(text) = SubSeq(text, 1, CHOOSE n \in 0..Len(text) :
                                             /\ \A k \in 1..n : text[k] # Slash
                                             /\ n < Len(text) => text[n + 1] = Slash)
<1> DEFINE N == Len(text)
           I == {k \in 1..N : text[k] = Slash}
           Cut(n) == /\ \A k \in 1..n : text[k] # Slash
                     /\ n < N => text[n + 1] = Slash
<1>1. N \in Nat /\ I \subseteq Nat
  BY DEF Text
<1>2. ASSUME NEW n \in 0..N, Cut(n), NEW c, c = CHOOSE x \in 0..N : Cut(x)
      PROVE  c = n
  <2>1. c \in 0..N /\ Cut(c)
    BY <1>2
  <2>2. ~(c < n) /\ ~(n < c)
    <3>1. ASSUME c < n PROVE FALSE
      <4>1. c + 1 \in 1..n /\ c < N
        BY <3>1, <2>1, <1>1
      <4> QED
        BY <4>1, <1>2, <2>1
    <3>2. ASSUME n < c PROVE FALSE
      <4>1. n + 1 \in 1..c /\ n < N
        BY <3>2, <2>1, <1>1
      <4> QED
        BY <4>1, <1>2, <2>1
    <3> QED
      BY <3>1, <3>2
  <2> QED
    BY <1>1, <2>1, <2>2
<1>3. PICK c : c = CHOOSE x \in 0..N : Cut(x)
  OBVIOUS
<1>4. CASE I = {}
  <2>1. stripName(text) = text
    <3>1. SelectInSeq(text, LAMBDA ch : ch = Slash) = 0
      BY <1>4, Zenon DEF SelectInSeq
    <3> QED
      BY <3>1, Zenon DEF stripName
  <2>2. N \in 0..N /\ Cut(N)
    BY <1>1, <1>4
  <2>3. c = N
    BY <1>2, <1>3, <2>2
  <2>4. SubSeq(text, 1, Len(text)) = text
    <3> PICK C : text \in Seq(C)
      BY DEF Text
    <3> QED
      OBVIOUS
  <2> QED
    BY <1>3, <2>1, <2>3, <2>4
<1>5. CASE I # {}
  <2>1. PICK i : i = Min(I)
    OBVIOUS
  <2>2. i \in I /\ \A k \in I : i <= k
    BY <1>1, <1>5, <2>1, MinIsLeast
  <2>3. i \in 1..N /\ text[i] = Slash /\ i # 0
    BY <2>2
  <2>4. stripName(text) = SubSeq(text, 1, i - 1)
    <3>1. SelectInSeq(text, LAMBDA ch : ch = Slash) = i
      BY <1>5, <2>1, Zenon DEF SelectInSeq
    <3> QED
      BY <3>1, <2>3, Zenon DEF stripName
  <2>5. i - 1 \in 0..N /\ Cut(i - 1)
    BY <1>1, <2>2, <2>3
  <2>6. c = i - 1
    BY <1>2, <1>3, <2>5
  <2> QED
    BY <1>3, <2>4, <2>6
<1> QED
  BY <1>4, <1>5

(* The resource of an ordinary command is the documented one (rbac.go      *)
(* 95-107): the first word that is no flag is not the value of one.        *)
LEMMA ResourceAgrees ==
  ASSUME NEW args \in Seq(Word), NEW verb, Ordinary(args)
  PROVE  resourceOf(verb, args) = RefResource(verb, args)
<1> DEFINE N == Len(args)
           I == {k \in 1..N : args[k].flag = "no"}
           P == Positional(args)
<1>1. N \in Nat /\ I \subseteq Nat /\ DOMAIN args = 1..N
  OBVIOUS
<1>2. P \subseteq I
  BY <1>1 DEF Positional
<1>3. CASE verb \in podScopedVerbs
  BY <1>3, Zenon DEF resourceOf, RefResource
<1>4. CASE verb \notin podScopedVerbs /\ I = {}
  <2>1. SelectInSeq(args, LAMBDA a : a.flag = "no") = 0
    BY <1>4, Zenon DEF SelectInSeq
  <2>2. resourceOf(verb, args) = <<>>
    BY <1>4, <2>1, Zenon DEF resourceOf
  <2>3. P = {}
    BY <1>2, <1>4
  <2> QED
    BY <1>4, <2>2, <2>3, Zenon DEF RefResource
<1>5. CASE verb \notin podScopedVerbs /\ I # {}
  <2>1. PICK i : i = Min(I)
    OBVIOUS
  <2>2. i \in I /\ \A k \in I : i <= k
    BY <1>1, <1>5, <2>1, MinIsLeast
  <2>3. i \in 1..N /\ args[i].flag = "no" /\ i # 0
    BY <2>2
  <2>4. i \in P
    <3>1. SUFFICES ASSUME i > 1, args[i - 1].flag = "n" PROVE FALSE
      BY <1>1, <2>3 DEF Positional
    <3>2. i - 1 \in 1..N
      BY <1>1, <2>3, <3>1
    <3>3. PICK j \in Positional(args) : j < i - 1
      BY <1>1, <3>1, <3>2 DEF Ordinary
    <3>4. j \in I
      BY <1>2, <3>3
    <3> QED
      BY <1>1, <2>2, <2>3, <3>3, <3>4
  <2>5. \A l \in P : i <= l
    BY <1>2, <2>2
  <2>6. PICK c : c = CHOOSE j \in P : \A l \in P : j <= l
    OBVIOUS
  <2>7. c \in P /\ \A l \in P : c <= l
    BY <2>4, <2>5, <2>6
  <2>8. c = i
    <3>1. c <= i /\ i <= c /\ c \in Nat /\ i \in Nat
      BY <1>1, <1>2, <2>2, <2>4, <2>5, <2>7
    <3> QED
      BY <3>1
  <2>9. resourceOf(verb, args) = stripName(args[i].text)
    <3>1. SelectInSeq(args, LAMBDA a : a.flag = "no") = i
      BY <1>5, <2>1, Zenon DEF SelectInSeq
    <3> QED
      BY <1>5, <3>1, <2>3, Zenon DEF resourceOf
  <2>10. PICK text \in Text : text = args[i].text
    <3>1. args[i] \in Word
      BY <2>3
    <3> QED
      BY <3>1 DEF Word
  <2>11. P # {}
    BY <2>4
  <2>12. RefResource(verb, args) = SubSeq(text, 1, CHOOSE n \in 0..Len(text) :
                                             /\ \A k \in 1..n : text[k] # Slash
                                             /\ n < Len(text) => text[n + 1] = Slash)
    BY <1>5, <2>6, <2>8, <2>10, <2>11, Zenon DEF RefResource
  <2> QED
    BY <2>9, <2>10, <2>12, StripNameAgrees, Zenon
<1> QED
  BY <1>3, <1>4, <1>5

(* The request derived from an ordinary command is the documented one      *)
(* (parseAccessRequest, rbac.go 67-109), whatever its words.               *)
THEOREM RequestIsDocumented ==
  ASSUME NEW args \in Seq(Word), NEW fallback \in Text, NEW cluster, NEW verb, Ordinary(args)
  PROVE  parseAccessRequest(cluster, verb, args, fallback)
           = [cluster |-> cluster, verb |-> verb, resource |-> RefResource(verb, args),
              namespace |-> RefNamespace(args, fallback)]
  BY NamespaceAgrees, ResourceAgrees DEF parseAccessRequest
-------------------------------------------------------------------------------
(* Decisions *)

Value == {value \in Text : PlainValue(value)}

LEMMA SeqElements ==
  ASSUME NEW C, NEW q \in Seq(C)
  PROVE  \A i \in DOMAIN q : q[i] \in C
  OBVIOUS

LEMMA AnyMatchAgrees ==
  ASSUME NEW patterns \in Seq(Text), NEW value \in Value
  PROVE  anyMatch(patterns, value) <=> \E x \in ToSet(patterns) : Glob(x, value)
<1>1. \A i \in DOMAIN patterns : patterns[i] \in Text
  OBVIOUS
<1>2. value \in Text /\ PlainValue(value)
  BY DEF Value
<1>3. \A x \in Text : matchPattern(x, value) <=> Glob(x, value)
  BY <1>2, MatchPatternIsGlob, Zenon DEF Text
<1> QED
  BY <1>1, <1>3, Zenon DEF anyMatch, ToSet

LEMMA AnyVerbAgrees ==
  ASSUME NEW verbs, NEW verb
  PROVE  anyVerb(verbs, verb) <=> ToSet(verbs) \cap {Star, verb} # {}
  BY DEF anyVerb, ToSet

(* A request whose parts are plain values. *)
PlainRequest(req) == req.cluster \in Value /\ req.namespace \in Value /\ req.resource \in Value

LEMMA RuleAgrees ==
  ASSUME NEW rule \in PolicyRule, NEW req, PlainRequest(req)
  PROVE  ruleAllows(rule, req) <=> /\ \E x \in ToSet(rule.clusters) : Glob(x, req.cluster)
                                   /\ \E x \in ToSet(rule.namespaces) : Glob(x, req.namespace)
                                   /\ \E x \in ToSet(rule.resources) : Glob(x, req.resource)
                                   /\ ToSet(rule.verbs) \cap {Star, req.verb} # {}
<1>1. rule.clusters \in Seq(Text) /\ rule.namespaces \in Seq(Text) /\ rule.resources \in Seq(Text)
  BY DEF PolicyRule
<1>2. anyMatch(rule.clusters, req.cluster) <=> \E x \in ToSet(rule.clusters) : Glob(x, req.cluster)
  BY <1>1, AnyMatchAgrees, Zenon DEF PlainRequest
<1>3. anyMatch(rule.namespaces, req.namespace) <=> \E x \in ToSet(rule.namespaces) : Glob(x, req.namespace)
  BY <1>1, AnyMatchAgrees, Zenon DEF PlainRequest
<1>4. anyMatch(rule.resources, req.resource) <=> \E x \in ToSet(rule.resources) : Glob(x, req.resource)
  BY <1>1, AnyMatchAgrees, Zenon DEF PlainRequest
<1>5. anyVerb(rule.verbs, req.verb) <=> ToSet(rule.verbs) \cap {Star, req.verb} # {}
  BY AnyVerbAgrees, Zenon
<1> QED
  BY <1>2, <1>3, <1>4, <1>5, Zenon DEF ruleAllows

LEMMA RolesAgree ==
  ASSUME NEW policy \in PolicyDocument, NEW subject \in Value, NEW name, name # ""
  PROVE  name \in rolesFor(policy, subject) <=>
           \/ name = policy.default
           \/ \E b \in ToSet(policy.bindings) : Glob(b.subject, subject) /\ name \in ToSet(b.roles)
<1>1. \A b \in ToSet(policy.bindings) : b.subject \in Text
  <2>1. PICK bs \in Seq(PolicyBinding) : bs = policy.bindings
    BY DEF PolicyDocument
  <2>2. \A i \in DOMAIN bs : bs[i] \in PolicyBinding
    BY SeqElements, Zenon
  <2>3. \A b \in ToSet(bs) : b \in PolicyBinding
    BY <2>2, Zenon DEF ToSet
  <2>4. \A b \in PolicyBinding : b.subject \in Text
    BY DEF PolicyBinding
  <2> QED
    BY <2>1, <2>3, <2>4, Zenon
<1>2. \A x \in Text : matchPattern(x, subject) <=> Glob(x, subject)
  BY MatchPatternIsGlob, Zenon DEF Text, Value
<1>3. name \in rolesFor(policy, subject) <=>
        \/ \E b \in ToSet(policy.bindings) : matchPattern(b.subject, subject) /\ name \in ToSet(b.roles)
        \/ name \in {policy.default} \ {""}
  <2> DEFINE B == {c \in ToSet(policy.bindings) : matchPattern(c.subject, subject)}
             U == UNION {ToSet(b.roles) : b \in B}
  <2>1. \A b : b \in B <=> b \in ToSet(policy.bindings) /\ matchPattern(b.subject, subject)
    BY Zenon
  <2>2. name \in U <=> \E b \in B : name \in ToSet(b.roles)
    <3> HIDE DEF B
    <3> QED
      BY Zenon
  <2>3. rolesFor(policy, subject) = U \cup ({policy.default} \ {""})
    BY Zenon DEF rolesFor
  <2>4. name \in rolesFor(policy, subject) <=> name \in U \/ name \in {policy.default} \ {""}
    <3> HIDE DEF U
    <3> QED
      BY <2>3, Zenon
  <2> HIDE DEF B, U
  <2> QED
    BY <2>1, <2>2, <2>4, Zenon
<1> QED
  BY <1>1, <1>2, <1>3, Zenon

(* Under a valid policy document the code allows what the documentation    *)
(* says, and the default role to bound users, too (Policy.allows,          *)
(* policy.go 46-86), for every request of plain values; that validate      *)
(* refuses roles without a name is needed, since such a role would be      *)
(* everybody's when there is no default role.                              *)
LEMMA AllowsAgrees ==
  ASSUME NEW policy \in PolicyDocument, validate(policy), NEW subject \in Value, NEW req, PlainRequest(req)
  PROVE  allows(policy, subject, req) <=>
           RefAllows(policy, subject, req) \/ DefaultDespiteBinding(policy, subject, req)
<1>1. ASSUME NEW i \in DOMAIN policy.roles
      PROVE  /\ policy.roles[i].name # ""
             /\ \A k \in DOMAIN policy.roles[i].rules : policy.roles[i].rules[k] \in PolicyRule
  <2>1. policy.roles[i].name # ""
    BY Zenon DEF validate
  <2>2. policy.roles[i].rules \in Seq(PolicyRule)
    <3>1. policy.roles \in Seq(PolicyRole)
      BY DEF PolicyDocument
    <3>2. policy.roles[i] \in PolicyRole
      BY <3>1
    <3> QED
      BY <3>2 DEF PolicyRole
  <2>3. PICK rules \in Seq(PolicyRule) : rules = policy.roles[i].rules
    BY <2>2
  <2>4. \A k \in DOMAIN rules : rules[k] \in PolicyRule
    OBVIOUS
  <2> QED
    BY <2>1, <2>3, <2>4, Zenon
<1> DEFINE Applies(rule) == /\ \E x \in ToSet(rule.clusters) : Glob(x, req.cluster)
                            /\ \E x \in ToSet(rule.namespaces) : Glob(x, req.namespace)
                            /\ \E x \in ToSet(rule.resources) : Glob(x, req.resource)
                            /\ ToSet(rule.verbs) \cap {Star, req.verb} # {}
           Has(name) == \/ name = policy.default
                        \/ \E b \in ToSet(policy.bindings) : Glob(b.subject, subject) /\ name \in ToSet(b.roles)
<1>2. \A i \in DOMAIN policy.roles : policy.roles[i].name \in rolesFor(policy, subject) <=> Has(policy.roles[i].name)
  <2> SUFFICES ASSUME NEW i \in DOMAIN policy.roles
               PROVE  policy.roles[i].name \in rolesFor(policy, subject) <=> Has(policy.roles[i].name)
    OBVIOUS
  <2>1. policy.roles[i].name # ""
    BY <1>1
  <2> QED
    BY <2>1, RolesAgree, Zenon
<1>3. \A i \in DOMAIN policy.roles : \A k \in DOMAIN policy.roles[i].rules :
        ruleAllows(policy.roles[i].rules[k], req) <=> Applies(policy.roles[i].rules[k])
  <2> SUFFICES ASSUME NEW i \in DOMAIN policy.roles, NEW k \in DOMAIN policy.roles[i].rules
               PROVE  ruleAllows(policy.roles[i].rules[k], req) <=> Applies(policy.roles[i].rules[k])
    OBVIOUS
  <2>1. PICK rule \in PolicyRule : rule = policy.roles[i].rules[k]
    BY <1>1
  <2>2. ruleAllows(rule, req) <=> Applies(rule)
    BY RuleAgrees, Zenon
  <2> QED
    BY <2>1, <2>2, Zenon
<1>4. allows(policy, subject, req) <=>
        \E i \in DOMAIN policy.roles :
          Has(policy.roles[i].name) /\ \E k \in DOMAIN policy.roles[i].rules : Applies(policy.roles[i].rules[k])
  <2> HIDE DEF Has, Applies
  <2> QED
    BY <1>2, <1>3, Zenon DEF allows
<1>5. \A role : RefGrants(role, req) <=> \E rule \in ToSet(role.rules) : Applies(rule)
  BY Zenon DEF RefGrants
<1>6. ASSUME NEW name
      PROVE  Has(name) <=> \/ RefHasRole(policy, subject, name)
                           \/ IsBound(policy, subject) /\ name = policy.default
  <2> DEFINE Via == \E b \in ToSet(policy.bindings) : Glob(b.subject, subject) /\ name \in ToSet(b.roles)
  <2>1. Via => IsBound(policy, subject)
    BY Zenon DEF IsBound
  <2>2. IsBound(policy, subject) => (RefHasRole(policy, subject, name) <=> Via)
    BY Zenon DEF RefHasRole
  <2>3. ~IsBound(policy, subject) => (RefHasRole(policy, subject, name) <=> name = policy.default)
    BY Zenon DEF RefHasRole
  <2>4. Has(name) <=> name = policy.default \/ Via
    BY Zenon
  <2> HIDE DEF Via, Has
  <2> QED
    BY <2>1, <2>2, <2>3, <2>4, Zenon
<1>7. RefAllows(policy, subject, req) \/ DefaultDespiteBinding(policy, subject, req) <=>
        \E role \in ToSet(policy.roles) : Has(role.name) /\ RefGrants(role, req)
  <2> HIDE DEF Has, Applies
  <2>1. RefAllows(policy, subject, req) <=>
          \E role \in ToSet(policy.roles) : RefHasRole(policy, subject, role.name) /\ RefGrants(role, req)
    BY Zenon DEF RefAllows
  <2>2. DefaultDespiteBinding(policy, subject, req) <=>
          \E role \in ToSet(policy.roles) :
            (IsBound(policy, subject) /\ role.name = policy.default) /\ RefGrants(role, req)
    BY Zenon DEF DefaultDespiteBinding
  <2>3. \A role \in ToSet(policy.roles) :
          Has(role.name) <=> \/ RefHasRole(policy, subject, role.name)
                             \/ IsBound(policy, subject) /\ role.name = policy.default
    BY <1>6, Zenon
  <2> QED
    BY <2>1, <2>2, <2>3, Zenon
<1> HIDE DEF Has, Applies
<1>8. RefAllows(policy, subject, req) \/ DefaultDespiteBinding(policy, subject, req) <=>
        \E role \in ToSet(policy.roles) : Has(role.name) /\ \E rule \in ToSet(role.rules) : Applies(rule)
  BY <1>5, <1>7, Zenon
<1> QED
  BY <1>4, <1>8, Zenon DEF ToSet

(* The exception is empty where the documentation gives no default role,   *)
(* or gives it to the subject.                                             *)
LEMMA NoException ==
  ASSUME NEW policy \in PolicyDocument, validate(policy), NEW subject, NEW req,
         policy.default = "" \/ ~IsBound(policy, subject)
  PROVE  ~DefaultDespiteBinding(policy, subject, req)
<1>1. \A role \in ToSet(policy.roles) : role.name # ""
  BY Zenon DEF validate, ToSet
<1> QED
  BY <1>1, Zenon DEF DefaultDespiteBinding

(* A word of plain text. *)
PlainWord == {w \in Word : w.text \in Value}

LEMMA StripNamePlain ==
  ASSUME NEW text \in Value
  PROVE  stripName(text) \in Value
<1> DEFINE N == Len(text)
           I == {k \in 1..N : text[k] = Slash}
<1>1. text \in Text /\ PlainValue(text) /\ text \in Seq(Chars)
  BY DEF Value, Text
<1>2. N \in Nat /\ I \subseteq Nat
  BY <1>1
<1>3. CASE I = {}
  <2>1. SelectInSeq(text, LAMBDA ch : ch = Slash) = 0
    BY <1>3, Zenon DEF SelectInSeq
  <2> QED
    BY <2>1, Zenon DEF stripName
<1>4. CASE I # {}
  <2>1. PICK i : i = Min(I)
    OBVIOUS
  <2>2. i \in 1..N /\ text[i] = Slash
    BY <1>2, <1>4, <2>1, MinIsLeast
  <2>3. SelectInSeq(text, LAMBDA ch : ch = Slash) = i
    BY <1>4, <2>1, Zenon DEF SelectInSeq
  <2>4. i # 0
    BY <2>2
  <2>5. stripName(text) = SubSeq(text, 1, i - 1)
    BY <2>3, <2>4, Zenon DEF stripName
  <2>6. \A k \in 1..N : text[k] # Star
    <3>1. text # <<Star>>
      BY <2>2 DEF Star, Slash
    <3> QED
      BY <1>1, <3>1 DEF PlainValue
  <2>7. PICK s : s = SubSeq(text, 1, i - 1)
    OBVIOUS
  <2>8. s \in Seq(Chars) /\ Len(s) = i - 1 /\ \A k \in 1..i-1 : s[k] = text[k]
    BY <1>1, <1>2, <2>2, <2>7
  <2>9. PlainValue(s)
    BY <1>2, <2>2, <2>6, <2>8 DEF PlainValue
  <2> QED
    BY <2>5, <2>7, <2>8, <2>9 DEF Value, Text
<1> QED
  BY <1>3, <1>4

LEMMA ConstantsPlain ==
  <<>> \in Value /\ <<"p">> \in Value /\ <<Star>> \in Value
<1>1. <<>> \in Value
  BY DEF Value, Text, PlainValue
<1>2. <<"p">> \in Value
  BY CharAssumption DEF Value, Text, PlainValue, Star
<1>3. <<Star>> \in Value
  BY CharAssumption DEF Value, Text, PlainValue
<1> QED
  BY <1>1, <1>2, <1>3

LEMMA ResourcePlain ==
  ASSUME NEW args \in Seq(PlainWord), NEW verb
  PROVE  resourceOf(verb, args) \in Value
<1> DEFINE N == Len(args)
           I == {k \in 1..N : args[k].flag = "no"}
<1>1. N \in Nat /\ I \subseteq Nat /\ DOMAIN args = 1..N
  OBVIOUS
<1>2. CASE verb \in podScopedVerbs
  BY <1>2, ConstantsPlain, Zenon DEF resourceOf
<1>3. CASE verb \notin podScopedVerbs /\ I = {}
  <2>1. SelectInSeq(args, LAMBDA a : a.flag = "no") = 0
    BY <1>3, Zenon DEF SelectInSeq
  <2> QED
    BY <1>3, <2>1, ConstantsPlain, Zenon DEF resourceOf
<1>4. CASE verb \notin podScopedVerbs /\ I # {}
  <2>1. PICK i : i = Min(I)
    OBVIOUS
  <2>2. i \in 1..N
    BY <1>1, <1>4, <2>1, MinIsLeast
  <2>3. SelectInSeq(args, LAMBDA a : a.flag = "no") = i
    BY <1>4, <2>1, Zenon DEF SelectInSeq
  <2>4. i # 0
    BY <2>2
  <2>5. args[i] \in PlainWord
    BY <1>1, <2>2, SeqElements, Zenon
  <2>6. args[i].text \in Value
    BY <2>5, Zenon DEF PlainWord
  <2>7. stripName(args[i].text) \in Value
    BY <2>6, StripNamePlain, Zenon
  <2> QED
    BY <1>4, <2>3, <2>4, <2>7, Zenon DEF resourceOf
<1> QED
  BY <1>2, <1>3, <1>4

LEMMA NamespacePlain ==
  ASSUME NEW args \in Seq(PlainWord), NEW fallback \in Value, Ordinary(args)
  PROVE  RefNamespace(args, fallback) \in Value
<1> DEFINE F == NamespaceFlags(args)
           N == Len(args)
<1>1. N \in Nat /\ F \subseteq 1..N /\ DOMAIN args = 1..N
  BY DEF NamespaceFlags
<1>2. \A i \in DOMAIN args : args[i].text \in Value
  <2>1. \A i \in DOMAIN args : args[i] \in PlainWord
    BY SeqElements, Zenon
  <2> QED
    BY <2>1, Zenon DEF PlainWord
<1>3. ASSUME NEW j \in F PROVE Named(args, j) \in Value
  <2>1. j \in DOMAIN args /\ args[j].flag \in {"all", "n", "n="}
    BY <1>3 DEF NamespaceFlags
  <2>2. CASE args[j].flag = "all"
    BY <2>2, ConstantsPlain DEF Named
  <2>3. CASE args[j].flag = "n"
    <3>1. j + 1 \in DOMAIN args
      BY <1>1, <2>1, <2>3 DEF Ordinary
    <3>2. Named(args, j) = args[j + 1].text
      BY <2>3 DEF Named
    <3> QED
      BY <1>2, <3>1, <3>2, Zenon
  <2>4. CASE args[j].flag = "n="
    <3>1. Named(args, j) = args[j].text
      BY <2>4 DEF Named
    <3> QED
      BY <1>2, <2>1, <3>1, Zenon
  <2> QED
    BY <2>1, <2>2, <2>3, <2>4
<1>4. CASE F = {}
  BY <1>4, Zenon DEF RefNamespace
<1>5. CASE F # {}
  <2>1. PICK j : j = CHOOSE x \in F : \A l \in F : l <= x
    OBVIOUS
  <2>2. \E x \in F : \A l \in F : l <= x
    BY <1>1, <1>5, GreatestNumber
  <2>3. j \in F
    BY <2>1, <2>2
  <2>4. RefNamespace(args, fallback) = Named(args, j)
    BY <1>5, <2>1 DEF RefNamespace
  <2> QED
    BY <1>3, <2>3, <2>4
<1> QED
  BY <1>4, <1>5

(* A decision under a valid policy document is the one docs/rbac.md        *)
(* describes or, for a subject with a matching binding, one that the       *)
(* default role allows (http.go 286-306, rbac.go 67-109, policy.go 46-86), *)
(* for every document, subject and ordinary command, of whatever length.   *)
THEOREM DecisionsOfTheCode ==
  ASSUME NEW policy \in PolicyDocument, validate(policy),
         NEW subject \in Value, NEW cluster \in Value, NEW verb,
         NEW args \in Seq(PlainWord), Ordinary(args), NEW fallback \in Value,
         NEW req, req = [cluster |-> cluster, verb |-> verb, resource |-> RefResource(verb, args),
                         namespace |-> RefNamespace(args, fallback)]
  PROVE  allows(policy, subject, parseAccessRequest(cluster, verb, args, fallback))
           <=> RefAllows(policy, subject, req) \/ DefaultDespiteBinding(policy, subject, req)
<1>1. args \in Seq(Word) /\ fallback \in Text
  BY DEF PlainWord, Value
<1>2. parseAccessRequest(cluster, verb, args, fallback) = req
  BY <1>1, RequestIsDocumented, Zenon
<1>3. RefResource(verb, args) \in Value
  BY <1>1, ResourceAgrees, ResourcePlain, Zenon
<1>4. RefNamespace(args, fallback) \in Value
  BY NamespacePlain, Zenon
<1>5. PlainRequest(req)
  BY <1>3, <1>4 DEF PlainRequest
<1> QED
  BY <1>2, <1>5, AllowsAgrees, Zenon

(* Where the document has no default role, and for every user without a    *)
(* matching binding, a decision is exactly the one docs/rbac.md describes. *)
THEOREM DecisionIsDocumented ==
  ASSUME NEW policy \in PolicyDocument, validate(policy),
         NEW subject \in Value, NEW cluster \in Value, NEW verb,
         NEW args \in Seq(PlainWord), Ordinary(args), NEW fallback \in Value,
         policy.default = "" \/ ~IsBound(policy, subject)
  PROVE  allows(policy, subject, parseAccessRequest(cluster, verb, args, fallback))
           <=> RefAllows(policy, subject,
                         [cluster |-> cluster, verb |-> verb, resource |-> RefResource(verb, args),
                          namespace |-> RefNamespace(args, fallback)])
<1>1. PICK req : req = [cluster |-> cluster, verb |-> verb, resource |-> RefResource(verb, args),
                        namespace |-> RefNamespace(args, fallback)]
  OBVIOUS
<1>2. ~DefaultDespiteBinding(policy, subject, req)
  BY NoException, Zenon
<1>3. allows(policy, subject, parseAccessRequest(cluster, verb, args, fallback))
        <=> RefAllows(policy, subject, req) \/ DefaultDespiteBinding(policy, subject, req)
  BY <1>1, DecisionsOfTheCode, Zenon
<1> QED
  BY <1>1, <1>2, <1>3, Zenon
-------------------------------------------------------------------------------
(* The engine *)

(* TypeOK is inductive with a bound on the events that wait: each stands   *)
(* for a change of its own, and the channel of SIGHUPs holds one.          *)
EngineInv ==
  /\ TypeOK
  /\ wakes["watch"] <= edits /\ wakes["hup"] <= 1
  /\ validate(current)

(* Nothing is known of the file's contents once reloads overlapped.  Until *)
(* then one reload at most is in progress; what it has read is the file,   *)
(* or the change that made it stale has an event waiting; and a policy     *)
(* that is not the file's has an event or a reload on its way.             *)
OneReload == \A l, k \in Loops : reload[l] # Idle /\ reload[k] # Idle => l = k
UnwatchedFile == ~watching => current = file /\ \A l \in Loops : wakes[l] = 0 /\ reload[l] = Idle
StaleReload == \A l \in Loops : reload[l] \notin {Idle, file} => wakes["watch"] > 0
StalePolicy ==
  \/ current = file
  \/ ~(file \in Documents /\ validate(file))
  \/ wakes["watch"] > 0
  \/ \E l \in Loops : reload[l] = file
ReloadInv == ~raced => OneReload /\ UnwatchedFile /\ StaleReload /\ StalePolicy

(* No change of the file is lost: once every event is handled and no       *)
(* reload is in progress the policy in force is the one in the file, if    *)
(* that is valid, unless reloads overlapped or the file changed before     *)
(* Watch (policy.go 175-228).                                              *)
NoChangeLost ==
  /\ ~raced
  /\ wakes["watch"] = 0 /\ \A l \in Loops : reload[l] = Idle
  /\ file \in Documents /\ validate(file)
  => current = file

LEMMA InitEngine == Init => EngineInv /\ ReloadInv
<1> SUFFICES ASSUME Init PROVE EngineInv /\ ReloadInv
  OBVIOUS
<1>1. file \in Documents /\ validate(file) /\ current = file
  BY DEF Init
<1>2. TypeOK /\ wakes["watch"] <= edits /\ wakes["hup"] <= 1
  <2>1. MaxEdits \in Nat
    BY DocumentAssumption
  <2>2. wakes["watch"] = 0 /\ wakes["hup"] = 0 /\ edits = 0
    BY DEF Init, Loops
  <2>3. watching \in BOOLEAN /\ raced \in BOOLEAN
    BY DEF Init
  <2>4. wakes \in [Loops -> 0..MaxEdits + 1] /\ reload \in [Loops -> Documents \cup {Broken, Idle}]
    BY <2>1 DEF Init
  <2> QED
    BY <1>1, <2>1, <2>2, <2>3, <2>4 DEF TypeOK
<1>3. validate(current)
  BY <1>1, Zenon
<1>4. OneReload /\ UnwatchedFile /\ StaleReload /\ StalePolicy
  BY <1>1 DEF Init, OneReload, UnwatchedFile, StaleReload, StalePolicy, Loops
<1> QED
  BY <1>2, <1>3, <1>4 DEF EngineInv, ReloadInv

LEMMA StepType ==
  TypeOK /\ wakes["watch"] <= edits /\ wakes["hup"] <= 1 /\ [Next]_vars
    => TypeOK' /\ wakes'["watch"] <= edits' /\ wakes'["hup"] <= 1
<1> SUFFICES ASSUME TypeOK, wakes["watch"] <= edits, wakes["hup"] <= 1, [Next]_vars
             PROVE  TypeOK' /\ wakes'["watch"] <= edits' /\ wakes'["hup"] <= 1
  OBVIOUS
<1> USE DocumentAssumption DEF TypeOK, Loops
<1>1. CASE Watch
  BY <1>1 DEF Watch
<1>2. CASE Hup
  BY <1>2 DEF Hup
<1>3. ASSUME NEW d \in Documents \cup {Broken}, Edit(d)
      PROVE  TypeOK' /\ wakes'["watch"] <= edits' /\ wakes'["hup"] <= 1
  BY <1>3 DEF Edit
<1>4. ASSUME NEW l \in Loops, LoadPolicyFile(l)
      PROVE  TypeOK' /\ wakes'["watch"] <= edits' /\ wakes'["hup"] <= 1
  BY <1>4 DEF LoadPolicyFile
<1>5. ASSUME NEW l \in Loops, Store(l)
      PROVE  TypeOK' /\ wakes'["watch"] <= edits' /\ wakes'["hup"] <= 1
  BY <1>5 DEF Store
<1>6. CASE UNCHANGED vars
  BY <1>6 DEF vars
<1> QED
  BY <1>1, <1>2, <1>3, <1>4, <1>5, <1>6 DEF Next

(* Only Store changes the policy in force, to one that passed validate. *)
LEMMA StepValid == TypeOK /\ validate(current) /\ [Next]_vars => validate(current)'
<1> SUFFICES ASSUME TypeOK, validate(current), [Next]_vars PROVE validate(current')
  BY DEF validate
<1>1. CASE current' = current
  BY <1>1, Zenon
<1>2. ASSUME NEW l \in Loops, Store(l) PROVE validate(current')
  <2>1. CASE reload[l] \in Documents /\ validate(reload[l])
    BY <1>2, <2>1, Zenon DEF Store
  <2>2. CASE ~(reload[l] \in Documents /\ validate(reload[l]))
    BY <1>2, <2>2, Zenon DEF Store
  <2> QED
    BY <2>1, <2>2
<1>3. (\E l \in Loops : Store(l)) \/ current' = current
  BY Zenon DEF Next, Watch, Hup, Edit, LoadPolicyFile, vars
<1> QED
  BY <1>1, <1>2, <1>3

LEMMA StepReload == TypeOK /\ ReloadInv /\ [Next]_vars => ReloadInv'
<1> SUFFICES ASSUME TypeOK, ReloadInv, [Next]_vars, ~raced' PROVE (OneReload /\ UnwatchedFile /\ StaleReload /\ StalePolicy)'
  BY DEF ReloadInv
<1> DEFINE Valid(d) == d \in Documents /\ validate(d)
<1>0. file \in Documents \cup {Broken} /\ file # Idle /\ wakes \in [Loops -> Nat]
      /\ reload \in [Loops -> Documents \cup {Broken, Idle}]
  BY DocumentAssumption DEF TypeOK
<1>1. ~raced
  BY DEF Next, Watch, Hup, Edit, LoadPolicyFile, Store, vars, TypeOK
<1>2. /\ OneReload /\ UnwatchedFile /\ StaleReload
      /\ current = file \/ ~Valid(file) \/ wakes["watch"] > 0 \/ \E l \in Loops : reload[l] = file
  BY <1>1 DEF ReloadInv, StalePolicy
<1>3. SUFFICES /\ (OneReload /\ UnwatchedFile /\ StaleReload)'
               /\ \/ current' = file' \/ ~Valid(file') \/ wakes'["watch"] > 0
                  \/ \E l \in Loops : reload'[l] = file'
  BY DEF StalePolicy, validate
<1> HIDE DEF Valid
<1> USE <1>0, <1>1, <1>2 DEF OneReload, UnwatchedFile, StaleReload, Loops
<1>4. CASE Watch
  BY <1>4 DEF Watch
<1>5. CASE Hup
  BY <1>5 DEF Hup
<1>6. ASSUME NEW d \in Documents \cup {Broken}, Edit(d) PROVE <1>3!1
  <2>1. watching /\ file' = d /\ wakes' = [wakes EXCEPT !["watch"] = @ + 1]
    BY <1>6 DEF Edit
  <2>2. UNCHANGED <<current, watching, reload>>
    BY <1>6 DEF Edit
  <2>3. wakes'["watch"] > 0
    BY <2>1
  <2> QED
    BY <2>1, <2>2, <2>3
<1>7. ASSUME NEW l \in Loops, LoadPolicyFile(l) PROVE <1>3!1
  <2>1. wakes[l] > 0 /\ wakes' = [wakes EXCEPT ![l] = @ - 1] /\ reload' = [reload EXCEPT ![l] = file]
    BY <1>7 DEF LoadPolicyFile
  <2>2. \A k \in Loops : reload[k] = Idle
    BY <1>7 DEF LoadPolicyFile
  <2>3. UNCHANGED <<file, current, watching>> /\ watching
    BY <1>7, <2>1 DEF LoadPolicyFile
  <2>4. \A k \in Loops : reload'[k] = IF k = l THEN file ELSE Idle
    BY <2>1, <2>2
  <2>5. OneReload' /\ UnwatchedFile' /\ StaleReload'
    BY <2>3, <2>4
  <2>6. reload'[l] = file'
    BY <2>3, <2>4
  <2> QED
    BY <2>5, <2>6
<1>8. ASSUME NEW l \in Loops, Store(l) PROVE <1>3!1
  <2>1. current' = IF Valid(reload[l]) THEN reload[l] ELSE current
    BY <1>8 DEF Store, Valid
  <2>2. reload[l] # Idle /\ reload' = [reload EXCEPT ![l] = Idle] /\ UNCHANGED <<file, watching, wakes>>
    BY <1>8 DEF Store
  <2> QED
    BY <2>1, <2>2
<1>9. CASE UNCHANGED vars
  BY <1>9 DEF vars
<1> QED
  BY <1>4, <1>5, <1>6, <1>7, <1>8, <1>9 DEF Next
(* The policy in force and the bookkeeping of reloads keep their types. *)
THEOREM PolicyTypeCorrect == Spec => []TypeOK
<1>1. Init => EngineInv
  BY InitEngine
<1>2. EngineInv /\ [Next]_vars => EngineInv'
  BY StepType, StepValid DEF EngineInv
<1>3. EngineInv => TypeOK
  BY DEF EngineInv
<1> QED
  BY <1>1, <1>2, <1>3, PTL DEF Spec

(* The policy in force passes validate at all times, whatever documents    *)
(* come and go in the file and however the two goroutines' reloads         *)
(* interleave (policy.go 108-136, 175-187).                                *)
THEOREM PolicyAlwaysValid == Spec => [](current \in PolicyDocument /\ validate(current))
<1>1. Init => EngineInv
  BY InitEngine
<1>2. EngineInv /\ [Next]_vars => EngineInv'
  BY StepType, StepValid DEF EngineInv
<1>3. EngineInv => current \in PolicyDocument /\ validate(current)
  BY DocumentAssumption DEF EngineInv, TypeOK
<1> QED
  BY <1>1, <1>2, <1>3, PTL DEF Spec

(* NoChangeLost holds of every behaviour of the engine, fair or not, for   *)
(* any documents and any number of changes: the safety half of CatchesUp.  *)
THEOREM PolicyFollowsFile == Spec => []NoChangeLost
<1>1. Init => EngineInv /\ ReloadInv
  BY InitEngine
<1>2. EngineInv /\ ReloadInv /\ [Next]_vars => (EngineInv /\ ReloadInv)'
  BY StepType, StepValid, StepReload DEF EngineInv
<1>3. EngineInv /\ ReloadInv => NoChangeLost
  <2> SUFFICES ASSUME EngineInv, ReloadInv, ~raced, wakes["watch"] = 0,
                      \A l \in Loops : reload[l] = Idle, file \in Documents, validate(file)
               PROVE  current = file
    BY DEF NoChangeLost
  <2>1. file # Idle
    BY DocumentAssumption
  <2>2. StalePolicy
    BY DEF ReloadInv
  <2>3. current = file \/ wakes["watch"] > 0 \/ \E l \in Loops : reload[l] = file
    BY <2>2, Zenon DEF StalePolicy
  <2> QED
    BY <2>1, <2>3
<1> QED
  BY <1>1, <1>2, <1>3, PTL DEF Spec

-------------------------------------------------------------------------------
(* The inputs of the model *)

Pattern == Seq({"a", "b", Star})
PlainText == Seq({"a", "b"}) \cup {Anything}
MatchInputs == [kind : {"match"}, pattern : Pattern, value : PlainText]
RequestInputs == [kind : {"request"}, subject : {<<"a", "b">>, <<"b">>}, cluster : {<<"a">>, <<"b">>},
                  verb : {"get", "logs", "delete"}, args : Seq(Words)]
InputInv == input \in {NoInput} \cup MatchInputs \cup RequestInputs

LEMMA InputInit == MCInit => InputInv
<1> SUFFICES ASSUME input \in {NoInput} \cup Matches \cup Requests PROVE InputInv
  BY DEF MCInit
<1>1. CASE input \in Matches
  <2>1. <<>> \in Pattern /\ {<<>>, Anything} \subseteq PlainText
    BY DEF Pattern, PlainText
  <2>2. input \in MatchInputs
    BY <1>1, <2>1 DEF Matches, MatchInputs
  <2> QED
    BY <2>2 DEF InputInv
<1>2. CASE input \in Requests
  <2>1. <<>> \in Seq(Words)
    OBVIOUS
  <2>2. input \in RequestInputs
    BY <1>2, <2>1 DEF Requests, RequestInputs
  <2> QED
    BY <2>2 DEF InputInv
<1> QED
  BY <1>1, <1>2 DEF InputInv

LEMMA InputStep == InputInv /\ [MCNext]_<<vars, input>> => InputInv'
<1> SUFFICES ASSUME InputInv, [MCNext]_<<vars, input>> PROVE InputInv'
  OBVIOUS
<1>1. CASE UNCHANGED input
  BY <1>1 DEF InputInv
<1>2. ASSUME input.kind = "match" PROVE input \in MatchInputs
  BY <1>2 DEF InputInv, NoInput, RequestInputs
<1>3. CASE ExtendPattern
  <2>1. input \in MatchInputs
    BY <1>2, <1>3 DEF ExtendPattern
  <2>2. PICK ch \in {"a", "b", Star} : input' = [input EXCEPT !.pattern = Append(@, ch)]
    BY <1>3 DEF ExtendPattern
  <2>3. Append(input.pattern, ch) \in Pattern
    <3>1. input.pattern \in Pattern
      BY <2>1 DEF MatchInputs
    <3> QED
      BY <3>1 DEF Pattern
  <2> QED
    BY <2>1, <2>2, <2>3 DEF MatchInputs, InputInv
<1>4. CASE ExtendValue
  <2>1. input \in MatchInputs
    BY <1>2, <1>4 DEF ExtendValue
  <2>2. PICK ch \in {"a", "b"} : input' = [input EXCEPT !.value = Append(@, ch)]
    BY <1>4 DEF ExtendValue
  <2>3. Append(input.value, ch) \in PlainText
    <3>1. input.value \in Seq({"a", "b"})
      BY <1>4, <2>1 DEF MatchInputs, PlainText, ExtendValue
    <3>2. Append(input.value, ch) \in Seq({"a", "b"})
      BY <3>1
    <3> QED
      BY <3>2 DEF PlainText
  <2> QED
    BY <2>1, <2>2, <2>3 DEF MatchInputs, InputInv
<1>5. CASE ExtendCommand
  <2>1. input \in RequestInputs
    BY <1>5 DEF InputInv, NoInput, MatchInputs, ExtendCommand
  <2>2. PICK w \in Words : input' = [input EXCEPT !.args = Append(@, w)]
    BY <1>5 DEF ExtendCommand
  <2>3. Append(input.args, w) \in Seq(Words)
    <3>1. input.args \in Seq(Words)
      BY <2>1 DEF RequestInputs
    <3> HIDE DEF Words
    <3> QED
      BY <3>1
  <2> QED
    BY <2>1, <2>2, <2>3 DEF RequestInputs, InputInv
<1> QED
  BY <1>1, <1>3, <1>4, <1>5 DEF MCNext

LEMMA WordsArePlain == Words \subseteq PlainWord
<1> USE CharAssumption, BoundAssumption DEF Star, Slash
<1>1. /\ <<"-">> \in Text /\ <<"a">> \in Text /\ <<"b">> \in Text /\ <<"p">> \in Text
      /\ <<"a", "b", "/", "a">> \in Text
  BY DEF Text
<1>2. /\ PlainValue(<<"-">>) /\ PlainValue(<<"a">>) /\ PlainValue(<<"b">>) /\ PlainValue(<<"p">>)
      /\ PlainValue(<<"a", "b", "/", "a">>)
  BY DEF PlainValue
<1>3. \A w \in Words : /\ w \in [flag : {"all", "n", "n=", "other", "no"},
                                 text : {<<"-">>, <<"a">>, <<"b">>, <<"p">>, <<"a", "b", "/", "a">>}]
  BY DEF Words
<1>4. {<<"-">>, <<"a">>, <<"b">>, <<"p">>, <<"a", "b", "/", "a">>} \subseteq Value
  BY <1>1, <1>2, Zenon DEF Value
<1>5. PICK T : T = {<<"-">>, <<"a">>, <<"b">>, <<"p">>, <<"a", "b", "/", "a">>}
  OBVIOUS
<1>6. T \subseteq Value /\ Value \subseteq Text
  BY <1>4, <1>5, Zenon DEF Value
<1>7. \A w \in Words : w \in [flag : {"all", "n", "n=", "other", "no"}, text : T]
  BY <1>3, <1>5, Zenon
<1> QED
  BY <1>6, <1>7 DEF PlainWord, Word

(* PatternsMatch at every input the model can write down, however long. *)
THEOREM PatternsAlwaysMatch == MCSpec => []PatternsMatch
<1>1. InputInv => PatternsMatch
  <2> SUFFICES ASSUME InputInv, input.kind = "match"
               PROVE  matchPattern(input.pattern, input.value) <=> Glob(input.pattern, input.value)
    BY DEF PatternsMatch
  <2>1. input \in MatchInputs
    BY DEF InputInv, NoInput, RequestInputs
  <2>2. PICK pattern, value : pattern = input.pattern /\ value = input.value
    OBVIOUS
  <2>3. pattern \in Seq({"a", "b", Star}) /\ value \in Seq({"a", "b"}) \cup {<<Star>>}
    BY <2>1, <2>2 DEF MatchInputs, Pattern, PlainText, Anything
  <2>4. value \in Seq({"a", "b", Star}) /\ PlainValue(value)
    <3>1. CASE value \in Seq({"a", "b"})
      <4>1. \A i \in 1..Len(value) : value[i] \in {"a", "b"}
        BY <3>1
      <4>2. \A i \in 1..Len(value) : value[i] # Star
        BY <4>1 DEF Star
      <4> QED
        BY <3>1, <4>2 DEF PlainValue
    <3>2. CASE value = <<Star>>
      BY <3>2 DEF PlainValue
    <3> QED
      BY <2>3, <3>1, <3>2
  <2>5. matchPattern(pattern, value) <=> Glob(pattern, value)
    BY <2>3, <2>4, MatchPatternIsGlob, Zenon
  <2> QED
    BY <2>2, <2>5, Zenon
<1> QED
  BY InputInit, InputStep, <1>1, PTL DEF MCSpec

(* DecisionsCorrect for every set of documents and commands of every       *)
(* length: whichever policy the reloads have put in force, it is a valid   *)
(* one, and decides as documented, the default role for bound users        *)
(* excepted.                                                               *)
THEOREM DecisionsAlwaysCorrect == MCSpec => []DecisionsCorrect
<1>1. MCInit => EngineInv /\ InputInv
  BY InitEngine, InputInit DEF MCInit
<1>2. EngineInv /\ InputInv /\ [MCNext]_<<vars, input>> => (EngineInv /\ InputInv)'
  <2>1. [MCNext]_<<vars, input>> => [Next]_vars
    BY DEF MCNext
  <2> QED
    BY <2>1, InputStep, StepType, StepValid DEF EngineInv
<1>3. EngineInv /\ InputInv => DecisionsCorrect
  <2> SUFFICES ASSUME EngineInv, InputInv, input.kind = "request", Ordinary(input.args)
               PROVE  DecisionsCorrect
    BY DEF DecisionsCorrect
  <2>1. input \in RequestInputs
    BY DEF InputInv, NoInput, MatchInputs
  <2>2. PICK subject, cluster, verb, args, fallback :
          /\ subject = input.subject /\ cluster = input.cluster /\ verb = input.verb
          /\ args = input.args /\ fallback = <<"a">>
    OBVIOUS
  <2>3. {<<"a", "b">>, <<"b">>, <<"a">>} \subseteq Value
    BY CharAssumption, BoundAssumption DEF Value, Text, PlainValue, Star
  <2>4. subject \in Value /\ cluster \in Value /\ fallback \in Value
    BY <2>1, <2>2, <2>3 DEF RequestInputs
  <2>5. args \in Seq(PlainWord)
    <3>1. args \in Seq(Words)
      BY <2>1, <2>2 DEF RequestInputs
    <3> QED
      BY <3>1, WordsArePlain
  <2>6. current \in PolicyDocument /\ validate(current)
    BY DocumentAssumption DEF EngineInv, TypeOK
  <2>7. Ordinary(args)
    BY <2>2, Zenon
  <2>8. PICK req : req = [cluster |-> cluster, verb |-> verb, resource |-> RefResource(verb, args),
                          namespace |-> RefNamespace(args, fallback)]
    OBVIOUS
  <2>9. allows(current, subject, parseAccessRequest(cluster, verb, args, fallback))
          <=> RefAllows(current, subject, req) \/ DefaultDespiteBinding(current, subject, req)
    BY <2>4, <2>5, <2>6, <2>7, <2>8, DecisionsOfTheCode, Zenon
  <2> QED
    BY <2>2, <2>8, <2>9, Zenon DEF DecisionsCorrect
<1> QED
  BY <1>1, <1>2, <1>3, PTL DEF MCSpec
===============================================================================
