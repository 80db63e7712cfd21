----------------------------- MODULE AuthCliProofs ----------------------------
(***************************************************************************)
(* Proofs about sessions, user rows and the CLI's credentials, for any     *)
(* number of users, invocations, operators and token pairs.                *)
(***************************************************************************)
EXTENDS AuthCli, FiniteSetTheorems, TLAPS

Issued == {n \in Pairs : access[n] # "none"}

(* Pairs are issued in order; the table holds issued ones; an issued pair  *)
(* has claims and descends from an issued pair.                            *)
PairInv ==
  /\ \E k \in 0..MaxTokens : \A n \in Pairs : access[n] # "none" <=> n <= k
  /\ rows \subseteq Issued
  /\ \A n \in Issued : claims[n] \in Claims /\ family[n] \in Issued

(* What a handler has read. *)
HandlerInv ==
  \A c \in Callers :
    /\ http[c].tok \in Issued \cup {0}
    /\ http[c].pc \in {"rotate", "drop", "reload"} => http[c].tok # 0
    /\ http[c].pc \in {"issue", "rotate", "reload", "update"} => http[c].user \in UserIds
    /\ http[c].pc \in {"insert", "update"} => http[c].row \in Row
    /\ http[c].pc = "update" => users[http[c].user] # Unused

OperatorInv == \A c \in Operators : http[c].pc \in {"idle", "update", "insert", "replied"}

(* c is exchanging a refresh token. *)
Rotates(c) == http[c].pc \in {"rotate", "reload", "issue"} /\ http[c].tok # 0

(* A login that is being refreshed has no other refresh in progress, and   *)
(* no token but the one about to be deleted.                               *)
RotationInv ==
  \A c \in Callers : Rotates(c) /\ family[http[c].tok] \notin doubled =>
    /\ \A d \in Callers : Rotates(d) /\ family[http[d].tok] = family[http[c].tok] => d = c
    /\ \A n \in rows : family[n] = family[http[c].tok] =>
         http[c].pc = "rotate" /\ n = http[c].tok

(* An existing user is meant to exist. *)
IntendedInv == \A u \in UserIds : Exists(u) => intended[u] \in Row

(* A row about to be written back differs from the current one in the      *)
(* fields it changes only.                                                 *)
UpdateInv ==
  \A c \in Callers : http[c].pc = "update" /\ http[c].user \notin crossed =>
    /\ \A d \in Updating(http[c].user) : d = c
    /\ Exists(http[c].user) =>
         http[c].row = Merge(http[c].user, http[c].row, http[c].ch)

RanInv ==
  \A p \in Procs : ran[p] = 0 \/ (ran[p] = 1 /\ proc[p].pc \in {"save", "done"})

(* An invocation in a calm behaviour: the file has a live refresh token,   *)
(* except while this invocation is exchanging it.                          *)
Live(n) == n \in rows /\ n # 0
CalmProc(p) ==
  /\ proc[p].cmd # "logout"
  /\ proc[p].pc \in {"call", "refresh", "retry", "save"} => proc[p].mem = config
  /\ proc[p].pc \in {"call", "retry", "save"} => Live(config.refresh)
  /\ proc[p].pc \in {"retry", "save"} => http[p] = Idle
  /\ proc[p].pc = "call" =>
       \/ http[p] = Idle
       \/ proc[p].cmd = "login" /\ http[p].pc = "issue" /\ http[p].tok = 0
       \/ /\ proc[p].cmd = "login" /\ http[p].pc = "replied"
          /\ http[p].reply = "200" => Live(http[p].tok)
  /\ proc[p].pc = "retry" => access[config.token] = "valid"
  /\ proc[p].pc = "refresh" =>
       \/ http[p] = Idle /\ Live(config.refresh)
       \/ http[p].pc \in {"rotate", "reload", "issue"} /\ Exists(http[p].user)
       \/ /\ http[p].pc = "replied" /\ http[p].reply = "200"
          /\ Live(http[p].tok) /\ access[http[p].tok] = "valid"

(* While nothing disturbs a session, one invocation runs at a time and the *)
(* next one will find a live token in the file.                            *)
CalmInv ==
  calm =>
    /\ stale = {} /\ config.token = config.refresh
    /\ \A p, q \in Running : p = q
    /\ \A p \in Procs : proc[p].result # "relogin"
    /\ \A p \in Procs \ Running : http[p].pc \in {"idle", "replied"}
    /\ \A p \in Procs : proc[p].pc = "new" => http[p] = Idle
    /\ \A p \in Running : CalmProc(p)
    /\ Running = {} => Live(config.refresh)

ServiceInv ==
  /\ ServiceTypeOK /\ PairInv /\ HandlerInv
  /\ NoTokenOfDeletedUser /\ OneTokenPerLogin /\ RotationInv
  /\ UpdatesMerge /\ UpdateInv /\ IntendedInv

CliTypes ==
  /\ config \in Tokens /\ proc \in [Procs -> Invocations]
  /\ ran \in [Procs -> 0..2] /\ calm \in BOOLEAN

CliInv == CliTypes /\ OperatorInv /\ RanInv /\ CalmInv

SessionInv == ServiceInv /\ CliInv

-------------------------------------------------------------------------------
(* Facts about the store *)

LEMMA RowsDiffer == \A r \in Row : r \notin {Unused, Deleted}
<1> SUFFICES ASSUME NEW r \in Row PROVE r \notin {Unused, Deleted}
  OBVIOUS
<1>1. DOMAIN r = {"email", "pw", "active", "admin"}
  BY DEF Row
<1>2. DOMAIN Unused = {"email"} /\ DOMAIN Deleted = {"email"}
  BY DEF Unused, Deleted
<1>3. QED
  BY <1>1, <1>2

(* The next pair is one that was not issued yet, and comes after those     *)
(* that were.                                                              *)
LEMMA NextPairNew ==
  ASSUME ServiceTypeOK, PairInv
  PROVE  /\ NextPair \in Nat \ {0} /\ NextPair \notin Issued
         /\ \A n \in Pairs : access[n] # "none" <=> n < NextPair
<1>1. PICK k \in 0..MaxTokens : \A n \in Pairs : access[n] # "none" <=> n <= k
  BY DEF PairInv
<1>2. k \in Nat /\ k <= MaxTokens /\ MaxTokens \in Nat
  BY UserAssumption
<1>3. {n \in Pairs : access[n] # "none"} = 1..k
  BY <1>1, <1>2 DEF Pairs
<1>4. Cardinality(1..k) = k
  BY <1>2, FS_Interval
<1>5. NextPair = k + 1
  BY <1>3, <1>4 DEF NextPair
<1>6. QED
  BY <1>1, <1>2, <1>5 DEF Issued, Pairs

-------------------------------------------------------------------------------
(* The service's invariant under each kind of step *)

LEMMA ServiceStart ==
  ASSUME NEW cast, ServiceInit(cast)
  PROVE  ServiceInv
<1> USE UserAssumption, CallerAssumption DEF ServiceInit
<1>1. UserStoreTypeOK
  BY DEF UserStoreTypeOK, NewRow, Row, Claims, Pairs
<1>2. Idle \in Handlers /\ [Idle EXCEPT !.pc = "replied"] \in Handlers
  BY DEF Idle, Handlers, Pcs, Replies, Fields
<1>3. ServiceTypeOK
  <2>1. 0 \in 0..MaxTokens /\ 1 \in 0..MaxTokens
    OBVIOUS
  <2>2. http \in [Callers -> Handlers] /\ family \in [Pairs -> 0..MaxTokens]
    BY <1>2, <2>1
  <2>3. QED
    BY <1>1, <2>2 DEF ServiceTypeOK, UserStoreTypeOK
<1>4. PairInv
  <2>1. \A n \in Pairs : access[n] # "none" <=> n <= 1
    BY DEF Pairs
  <2>2. 1 \in 0..MaxTokens /\ Issued = {1}
    BY DEF Pairs, Issued
  <2>3. claims[1] \in Claims /\ family[1] = 1 /\ rows = {1}
    BY DEF Pairs, Claims
  <2>4. QED
    BY <2>1, <2>2, <2>3 DEF PairInv
<1>5. HandlerInv /\ RotationInv /\ UpdateInv
  BY DEF HandlerInv, RotationInv, Rotates, UpdateInv, Idle
<1>6. NoTokenOfDeletedUser
  <2>1. rows = {1} /\ claims[1].user = Member
    BY DEF Pairs
  <2>2. \E e \in Emails, pw \in Passwords : users[Member] = NewRow(e, pw, TRUE, FALSE)
    OBVIOUS
  <2>3. users[Member] \in Row
    BY <2>2 DEF NewRow, Row
  <2>4. QED
    BY <2>1, <2>3, RowsDiffer DEF NoTokenOfDeletedUser, Exists
<1>7. OneTokenPerLogin /\ UpdatesMerge /\ IntendedInv
  BY <1>1 DEF OneTokenPerLogin, UpdatesMerge, IntendedInv, Exists, UserStoreTypeOK
<1>8. QED
  BY <1>3, <1>4, <1>5, <1>6, <1>7 DEF ServiceInv

LEMMA UpdateKept ==
  ASSUME UpdateInv, UNCHANGED <<users, intended, crossed>>,
         \A d \in Callers : http'[d].pc = "update" => http'[d] = http[d]
  PROVE  UpdateInv'
<1> SUFFICES ASSUME NEW c \in Callers, NEW h, h = http'[c], h.pc = "update", h.user \notin crossed
             PROVE  /\ \A d \in Updating(h.user)' : d = c
                    /\ Exists(h.user)' => h.row = Merge(h.user, h.row, h.ch)'
  BY DEF UpdateInv
<1>1. h = http[c]
  OBVIOUS
<1>2. \A d \in Updating(h.user)' : d = c
  BY <1>1 DEF UpdateInv, Updating
<1>3. Exists(h.user)' => Exists(h.user)
  BY DEF Exists
<1>4. Merge(h.user, h.row, h.ch)' = Merge(h.user, h.row, h.ch)
  BY DEF Merge
<1>5. QED
  BY <1>1, <1>2, <1>3, <1>4 DEF UpdateInv

(* A handler's step that writes at most deletions of refresh tokens, and   *)
(* does not begin to exchange one or to update a user.                     *)
Moves(c, r) ==
  /\ http' = [http EXCEPT ![c] = r] /\ r \in Handlers
  /\ rows' \subseteq rows /\ doubled \subseteq doubled' /\ doubled' \subseteq 0..MaxTokens
  /\ UNCHANGED <<users, stale, claims, access, family, intended, crossed>>
  /\ r.tok \in Issued \cup {0}
  /\ r.pc \in {"rotate", "drop", "reload"} => r.tok # 0
  /\ r.pc \in {"rotate", "reload", "issue"} => r.user \in UserIds
  /\ r.pc = "insert" => r.row \in Row
  /\ r.pc # "update"
  /\ r.pc \in {"rotate", "reload", "issue"} /\ r.tok # 0 =>
       /\ Rotates(c) /\ http[c].tok = r.tok
       /\ \A n \in rows' : family[n] # family[r.tok] \/ family[n] \in doubled'

LEMMA MovesKept ==
  ASSUME ServiceInv, NEW c \in Callers, NEW r, Moves(c, r)
  PROVE  ServiceInv'
<1> USE DEF ServiceInv, Moves
<1>1. ServiceTypeOK'
  BY DEF ServiceTypeOK, UserStoreTypeOK
<1>2. PairInv'
  BY DEF PairInv, Issued
<1>3. HandlerInv'
  BY DEF HandlerInv, ServiceTypeOK, Issued
<1>4. NoTokenOfDeletedUser' /\ OneTokenPerLogin' /\ UpdatesMerge' /\ IntendedInv'
  BY DEF NoTokenOfDeletedUser, OneTokenPerLogin, UpdatesMerge, IntendedInv, Exists
<1>5. RotationInv'
  <2>1. \A d \in Callers : Rotates(d)' => Rotates(d) /\ http'[d].tok = http[d].tok
    BY DEF Rotates, ServiceTypeOK
  <2>2. \A d \in Callers : d # c => http'[d] = http[d]
    BY DEF ServiceTypeOK
  <2>3. http'[c] = r
    BY DEF ServiceTypeOK
  <2>4. SUFFICES ASSUME NEW d \in Callers, Rotates(d)', family[http[d].tok] \notin doubled'
                 PROVE  /\ \A e \in Callers : Rotates(e)' /\ family[http[e].tok] = family[http[d].tok]
                             => e = d
                        /\ \A n \in rows' : family[n] = family[http[d].tok] =>
                             http'[d].pc = "rotate" /\ n = http[d].tok
    BY <2>1 DEF RotationInv
  <2>5. Rotates(d) /\ family[http[d].tok] \notin doubled
    BY <2>1, <2>4
  <2>6. ASSUME NEW n \in rows', family[n] = family[http[d].tok]
        PROVE  http'[d].pc = "rotate" /\ n = http[d].tok
    BY <2>1, <2>2, <2>3, <2>4, <2>5, <2>6 DEF RotationInv, Rotates
  <2>7. QED
    BY <2>1, <2>5, <2>6 DEF RotationInv
<1>6. UpdateInv'
  BY DEF UpdateInv, Updating, Exists, Merge, ServiceTypeOK
<1>7. QED
  BY <1>1, <1>2, <1>3, <1>4, <1>5, <1>6
(* Handlers' answers. *)
LEMMA Answers ==
  ASSUME ServiceInv, NEW c \in Callers, NEW s \in Replies, Reply(c, s),
         rows' \subseteq rows, UNCHANGED <<users, stale, claims, access, family, doubled, intended, crossed>>
  PROVE  ServiceInv'
<1> DEFINE r == [Idle EXCEPT !.pc = "replied", !.reply = s]
<1>1. r \in Handlers /\ r.tok = 0 /\ r.pc = "replied"
  <2>1. 0 \in 0..MaxTokens
    BY UserAssumption
  <2>2. QED
    BY <2>1 DEF Idle, Handlers, Pcs
<1>2. http' = [http EXCEPT ![c] = r]
  BY DEF Reply
<1> HIDE DEF r
<1>3. Moves(c, r)
  BY <1>1, <1>2 DEF Moves, ServiceInv, ServiceTypeOK
<1>4. QED
  BY <1>3, MovesKept

(* A handler goes on with a token it is not exchanging, or with a login. *)
LEMMA Goes ==
  ASSUME ServiceInv, NEW c \in Callers, NEW pc \in {"issue", "drop", "forget"},
         NEW n \in Issued \cup {0}, NEW u \in UserIds \cup {None}, Goto(c, pc, n, u),
         pc = "issue" => u \in UserIds /\ n = 0,
         pc = "drop" => n # 0,
         UNCHANGED <<userStoreVars, family, doubled, intended, crossed>>
  PROVE  ServiceInv'
<1> DEFINE r == [Idle EXCEPT !.pc = pc, !.tok = n, !.user = u]
<1>1. r \in Handlers /\ r.pc = pc /\ r.tok = n /\ r.user = u
  <2>1. n \in 0..MaxTokens
    BY UserAssumption DEF Issued, Pairs
  <2>2. pc \in Pcs
    BY DEF Pcs
  <2>3. QED
    BY <2>1, <2>2 DEF Idle, Handlers, Replies
<1>2. http' = [http EXCEPT ![c] = r]
  BY DEF Goto
<1> HIDE DEF r
<1>3. Moves(c, r)
  BY <1>1, <1>2 DEF Moves, ServiceInv, ServiceTypeOK, userStoreVars
<1>4. QED
  BY <1>3, MovesKept

LEMMA ServiceRateLimited ==
  ASSUME ServiceInv, NEW c \in Callers, RateLimited(c) PROVE ServiceInv'
BY Answers DEF RateLimited, Replies, userStoreVars

LEMMA ServiceReceive ==
  ASSUME ServiceInv, NEW c \in Callers, Receive(c),
         UNCHANGED <<userStoreVars, family, doubled, intended, crossed>>
  PROVE  ServiceInv'
<1>1. Idle \in Handlers /\ Idle.tok = 0 /\ Idle.pc = "idle"
  BY UserAssumption DEF Idle, Handlers, Pcs, Replies, Fields
<1>2. Moves(c, Idle)
  BY <1>1 DEF Moves, Receive, ServiceInv, ServiceTypeOK, userStoreVars
<1>3. QED
  BY <1>2, MovesKept

LEMMA ServiceLogin ==
  ASSUME ServiceInv, NEW c \in Callers, NEW e \in Emails, NEW pw \in Passwords, HandleLogin(c, e, pw)
  PROVE  ServiceInv'
<1>1. UNCHANGED <<userStoreVars, family, doubled, intended, crossed>>
  BY DEF HandleLogin
<1>2. \/ \E s \in Replies : Reply(c, s)
      \/ \E u \in UserIds : Goto(c, "issue", 0, u)
  BY DEF HandleLogin, Replies, GetUserByEmail
<1>3. QED
  BY <1>1, <1>2, Answers, Goes DEF userStoreVars

LEMMA ServiceLogout ==
  ASSUME ServiceInv, NEW c \in Callers, NEW a \in 0..MaxTokens, NEW n \in 0..MaxTokens,
         HandleLogout(c, a, n)
  PROVE  ServiceInv'
<1>1. UNCHANGED <<userStoreVars, family, doubled, intended, crossed>>
  BY DEF HandleLogout
<1>2. \/ \E s \in Replies : Reply(c, s)
      \/ n \in Issued \cup {0} /\ Goto(c, "forget", n, None)
  BY DEF HandleLogout, Replies, GetRefreshTokenByHash, ServiceInv, PairInv
<1>3. QED
  BY <1>1, <1>2, Answers, Goes DEF userStoreVars

LEMMA ServiceCreateUser ==
  ASSUME ServiceInv, NEW c \in Callers, NEW e \in Emails, NEW pw \in Passwords, NEW a \in BOOLEAN,
         HandleCreateUser(c, e, pw, a)
  PROVE  ServiceInv'
<1>1. UNCHANGED <<userStoreVars, family, doubled, intended, crossed>>
  BY DEF HandleCreateUser
<1> DEFINE r == [Idle EXCEPT !.pc = "insert", !.row = NewRow(e, pw, a, FALSE)]
<1>2. Reply(c, "409") \/ http' = [http EXCEPT ![c] = r]
  BY DEF HandleCreateUser
<1>3. r \in Handlers /\ r.tok = 0 /\ r.pc = "insert" /\ r.row \in Row
  <2>1. NewRow(e, pw, a, FALSE) \in Row
    BY DEF NewRow, Row
  <2>2. 0 \in 0..MaxTokens
    BY UserAssumption
  <2>3. QED
    BY <2>1, <2>2 DEF Idle, Handlers, Pcs, Replies
<1> HIDE DEF r
<1>4. ASSUME http' = [http EXCEPT ![c] = r] PROVE Moves(c, r)
  BY <1>1, <1>3, <1>4 DEF Moves, ServiceInv, ServiceTypeOK, userStoreVars
<1>5. QED
  BY <1>1, <1>2, <1>4, MovesKept, Answers DEF Replies, userStoreVars

LEMMA ServiceAbort ==
  ASSUME ServiceInv, NEW c \in Callers, HandlerAbort(c) PROVE ServiceInv'
<1>1. \E s \in Replies : Reply(c, s)
  BY DEF HandlerAbort, Replies
<1>2. QED
  BY <1>1, Answers DEF HandlerAbort, userStoreVars

LEMMA ServiceRefreshExpired ==
  ASSUME ServiceInv, NEW c \in Callers, RefreshExpired(c) PROVE ServiceInv'
BY Answers DEF RefreshExpired, DeleteRefreshToken, Replies

LEMMA ServiceLogoutDelete ==
  ASSUME ServiceInv, NEW c \in Callers, NEW ok \in BOOLEAN, LogoutDelete(c, ok) PROVE ServiceInv'
<1>1. rows' \subseteq rows
  BY DEF LogoutDelete, DeleteRefreshToken
<1>2. QED
  BY <1>1, Answers DEF LogoutDelete, Replies

(* After the deletion a login that is not doubled has no token left. *)
LEMMA ServiceRefreshDelete ==
  ASSUME ServiceInv, NEW c \in Callers, NEW ok \in BOOLEAN, RefreshDelete(c, ok)
  PROVE  ServiceInv'
<1> DEFINE r == [http[c] EXCEPT !.pc = "reload"]
<1>1. /\ http[c].pc = "rotate" /\ http' = [http EXCEPT ![c] = r]
      /\ UNCHANGED <<users, stale, claims, access, family, intended, crossed>>
  BY DEF RefreshDelete
<1>2. /\ r \in Handlers /\ r.pc = "reload" /\ r.tok = http[c].tok /\ r.user = http[c].user
  BY DEF ServiceInv, ServiceTypeOK, Handlers, Pcs
<1>3. /\ http[c].tok \in Issued /\ http[c].user \in UserIds
      /\ family[http[c].tok] \in 0..MaxTokens
  BY <1>1 DEF ServiceInv, HandlerInv, ServiceTypeOK, Issued
<1>4. /\ rows' \subseteq rows /\ doubled \subseteq doubled' /\ doubled' \subseteq 0..MaxTokens
      /\ \A n \in rows' : family[n] # family[http[c].tok] \/ family[n] \in doubled'
  <2>1. CASE ok
    <3>1. rows' = rows \ {http[c].tok} /\ doubled' = doubled
      BY <2>1 DEF RefreshDelete, DeleteRefreshToken
    <3>2. Rotates(c)
      BY <1>1 DEF Rotates, ServiceInv, HandlerInv
    <3>3. QED
      BY <3>1, <3>2 DEF ServiceInv, ServiceTypeOK, RotationInv
  <2>2. CASE ~ok
    BY <2>2, <1>3 DEF RefreshDelete, ServiceInv, ServiceTypeOK
  <2>3. QED
    BY <2>1, <2>2
<1>5. Rotates(c)
  BY <1>1 DEF Rotates, ServiceInv, HandlerInv
<1> HIDE DEF r
<1>6. Moves(c, r)
  BY <1>1, <1>2, <1>3, <1>4, <1>5 DEF Moves, Rotates
<1>7. QED
  BY <1>6, MovesKept

LEMMA ServiceRefreshUser ==
  ASSUME ServiceInv, NEW c \in Callers, RefreshUser(c)
  PROVE  ServiceInv'
<1> DEFINE r == [http[c] EXCEPT !.pc = "issue"]
<1>1. /\ http[c].pc = "reload" /\ UNCHANGED <<userStoreVars, family, doubled, intended, crossed>>
      /\ http' = [http EXCEPT ![c] = r] \/ Reply(c, "401")
  BY DEF RefreshUser
<1>2. /\ r \in Handlers /\ r.pc = "issue" /\ r.tok = http[c].tok /\ r.user = http[c].user
  BY DEF ServiceInv, ServiceTypeOK, Handlers, Pcs
<1>3. http[c].tok \in Issued /\ http[c].user \in UserIds /\ Rotates(c)
  BY <1>1 DEF ServiceInv, HandlerInv, Rotates
<1>4. \A n \in rows : family[n] # family[http[c].tok] \/ family[n] \in doubled
  BY <1>1, <1>3 DEF ServiceInv, RotationInv
<1> HIDE DEF r
<1>5. ASSUME http' = [http EXCEPT ![c] = r] PROVE Moves(c, r)
  BY <1>1, <1>2, <1>3, <1>4, <1>5 DEF Moves, ServiceInv, ServiceTypeOK, userStoreVars
<1>6. QED
  BY <1>1, <1>5, MovesKept, Answers DEF Replies, userStoreVars
(* A refresh that begins: nobody else is exchanging the login's token, or  *)
(* the login is doubled from now on.                                       *)
LEMMA ServiceRefresh ==
  ASSUME ServiceInv, NEW c \in Callers, NEW n \in 0..MaxTokens, HandleRefresh(c, n)
  PROVE  ServiceInv'
<1> USE DEF ServiceInv
<1>1. /\ UNCHANGED <<users, rows, stale, claims, access, family, intended, crossed>>
      /\ http[c] = Idle
      /\ doubled' = IF Rotating(n) # {} THEN doubled \cup {family[n]} ELSE doubled
  BY DEF HandleRefresh, userStoreVars
<1>2. n \in rows => n \in Issued /\ n # 0 /\ claims[n].user \in UserIds
  BY UserAssumption DEF PairInv, Issued, Pairs, Claims
<1>3. Rotating(n) # {} => family[n] \in 0..MaxTokens
  BY DEF Rotating, HandlerInv, ServiceTypeOK, Issued
<1>4. doubled \subseteq doubled' /\ doubled' \subseteq 0..MaxTokens
  BY <1>1, <1>3 DEF ServiceTypeOK
<1>5. CASE n \in rows \ stale
  <2> DEFINE r == [Idle EXCEPT !.pc = "rotate", !.tok = n, !.user = claims[n].user]
  <2>1. http' = [http EXCEPT ![c] = r]
    BY <1>5 DEF HandleRefresh, GetRefreshTokenByHash, Goto
  <2>2. r \in Handlers /\ r.pc = "rotate" /\ r.tok = n /\ r.user = claims[n].user
    BY <1>2, <1>5 DEF Idle, Handlers, Pcs, Replies
  <2> HIDE DEF r
  <2>3. ServiceTypeOK' /\ PairInv' /\ HandlerInv'
    <3>1. ServiceTypeOK'
      BY <1>1, <1>4, <2>1, <2>2 DEF ServiceTypeOK, UserStoreTypeOK
    <3>2. PairInv'
      BY <1>1 DEF PairInv, Issued
    <3>3. HandlerInv'
      BY <1>1, <1>2, <1>5, <2>1, <2>2 DEF HandlerInv, Issued, ServiceTypeOK
    <3>4. QED
      BY <3>1, <3>2, <3>3
  <2>4. NoTokenOfDeletedUser' /\ OneTokenPerLogin' /\ UpdatesMerge' /\ IntendedInv'
    BY <1>1, <1>4 DEF NoTokenOfDeletedUser, OneTokenPerLogin, UpdatesMerge, IntendedInv, Exists
  <2>5. UpdateInv'
    BY <1>1, <2>1, <2>2 DEF UpdateInv, Updating, Exists, Merge, ServiceTypeOK
  <2>6. RotationInv'
    <3>1. http'[c] = r /\ \A d \in Callers : d # c => http'[d] = http[d]
      BY <2>1 DEF ServiceTypeOK
    <3>2. ASSUME NEW d \in Callers, d # c, Rotates(d), family[http[d].tok] = family[n]
          PROVE  family[n] \in doubled'
      <4>1. CASE family[n] \notin doubled
        <5>1. http[d].pc = "rotate" /\ n = http[d].tok
          BY <1>5, <3>2, <4>1 DEF RotationInv
        <5>2. d \in Rotating(n)
          BY <5>1 DEF Rotating
        <5>3. QED
          BY <5>2, <1>1
      <4>2. QED
        BY <4>1, <1>4
    <3>3. \A d \in Callers : d # c => (Rotates(d)' <=> Rotates(d))
      BY <3>1 DEF Rotates
    <3>4. ASSUME NEW d \in Callers, Rotates(d)', family[http'[d].tok] \notin doubled'
          PROVE  /\ \A e \in Callers : Rotates(e)' /\ family[http'[e].tok] = family[http'[d].tok]
                      => e = d
                 /\ \A m \in rows : family[m] = family[http'[d].tok] =>
                      http'[d].pc = "rotate" /\ m = http'[d].tok
      <4>1. CASE d = c
        <5>1. \A m \in rows : family[m] = family[n] => m = n
          BY <1>4, <1>5, <2>2, <3>1, <3>4, <4>1 DEF OneTokenPerLogin
        <5>2. QED
          BY <2>2, <3>1, <3>2, <3>3, <3>4, <4>1, <5>1
      <4>2. CASE d # c
        <5>1. Rotates(d) /\ http'[d] = http[d] /\ family[http[d].tok] \notin doubled
          BY <1>4, <3>1, <3>3, <3>4, <4>2
        <5>2. family[http[d].tok] # family[n]
          BY <3>2, <3>4, <4>2, <5>1
        <5>3. ASSUME NEW e \in Callers, Rotates(e)', family[http'[e].tok] = family[http'[d].tok]
              PROVE  e = d
          <6>1. e # c
            BY <2>2, <3>1, <5>1, <5>2, <5>3
          <6>2. QED
            BY <3>1, <3>3, <5>1, <5>3, <6>1 DEF RotationInv
        <5>4. QED
          BY <5>1, <5>3 DEF RotationInv
      <4>3. QED
        BY <4>1, <4>2
    <3>5. QED
      BY <1>1, <3>4 DEF RotationInv
  <2>7. QED
    BY <2>3, <2>4, <2>5, <2>6
<1>6. CASE n \in rows /\ n \in stale
  <2> DEFINE r == [Idle EXCEPT !.pc = "drop", !.tok = n, !.user = claims[n].user]
  <2>1. http' = [http EXCEPT ![c] = r]
    BY <1>6 DEF HandleRefresh, GetRefreshTokenByHash, Goto
  <2>2. r \in Handlers /\ r.pc = "drop" /\ r.tok = n /\ r.user = claims[n].user
    BY <1>2, <1>6 DEF Idle, Handlers, Pcs, Replies
  <2> HIDE DEF r
  <2>3. Moves(c, r)
    BY <1>1, <1>2, <1>4, <1>6, <2>1, <2>2 DEF Moves
  <2>4. QED
    BY <2>3, MovesKept
<1>7. CASE n \notin rows
  <2> DEFINE r == [Idle EXCEPT !.pc = "replied", !.reply = "401"]
  <2>1. http' = [http EXCEPT ![c] = r]
    BY <1>7 DEF HandleRefresh, GetRefreshTokenByHash, Reply
  <2>2. r \in Handlers /\ r.pc = "replied" /\ r.tok = 0
    <3>1. 0 \in 0..MaxTokens
      BY UserAssumption
    <3>2. QED
      BY <3>1 DEF Idle, Handlers, Pcs, Replies
  <2> HIDE DEF r
  <2>3. Moves(c, r)
    BY <1>1, <1>4, <2>1, <2>2 DEF Moves
  <2>4. QED
    BY <2>3, MovesKept
<1>8. QED
  BY <1>5, <1>6, <1>7

(* A new pair is the first of a login, or replaces the only one it had. *)
LEMMA ServiceIssue ==
  ASSUME ServiceInv, NEW c \in Callers, IssueTokens(c)
  PROVE  ServiceInv'
<1> USE DEF ServiceInv
<1> DEFINE u == http[c].user
           n == NextPair
           t == http[c].tok
           f == IF t = 0 THEN n ELSE family[t]
<1>1. /\ UNCHANGED <<users, stale, doubled, intended, crossed>>
      /\ http[c].pc = "issue" /\ u \in UserIds /\ t \in Issued \cup {0}
  BY DEF IssueTokens, HandlerInv
<1>2. CASE ~(n \in Pairs /\ Exists(u))
  BY <1>1, <1>2, Answers DEF IssueTokens, CanCreateRefreshToken, Replies
<1>3. CASE n \in Pairs /\ Exists(u)
  <2> DEFINE r == [Idle EXCEPT !.pc = "replied", !.tok = n, !.reply = "200"]
  <2>1. /\ rows' = rows \cup {n}
        /\ claims' = [claims EXCEPT ![n] = [user |-> u, admin |-> users[u].admin]]
        /\ access' = [access EXCEPT ![n] = "valid"]
        /\ family' = [family EXCEPT ![n] = f]
        /\ http' = [http EXCEPT ![c] = r]
    BY <1>3 DEF IssueTokens, CanCreateRefreshToken, CreateRefreshToken
  <2>2. n \in Nat \ {0} /\ n \notin Issued /\ \A m \in Pairs : access[m] # "none" <=> m < n
    BY NextPairNew
  <2>3. r \in Handlers /\ r.pc = "replied" /\ r.tok = n
    <3>1. n \in 0..MaxTokens
      BY <1>3 DEF Pairs
    <3>2. QED
      BY <3>1 DEF Idle, Handlers, Pcs, Replies
  <2>4. http'[c] = r /\ \A d \in Callers : d # c => http'[d] = http[d]
    BY <2>1 DEF ServiceTypeOK
  <2>5. [user |-> u, admin |-> users[u].admin] \in Claims
    <3>1. users[u] \in Row
      BY <1>1, <1>3 DEF ServiceTypeOK, UserStoreTypeOK, Exists
    <3>2. QED
      BY <1>1, <3>1 DEF Row, Claims
  <2>6. f \in Issued \cup {n} /\ f \in 0..MaxTokens
    BY <1>1, <1>3, UserAssumption DEF PairInv, Issued, Pairs
  <2>7. Issued' = Issued \cup {n}
    BY <1>3, <2>1 DEF Issued, ServiceTypeOK, UserStoreTypeOK
  <2>8. /\ \A m \in Issued : family'[m] = family[m] /\ claims'[m] = claims[m] /\ m # n
        /\ family'[n] = f /\ claims'[n] = [user |-> u, admin |-> users[u].admin]
    BY <1>3, <2>1, <2>2 DEF Issued, ServiceTypeOK, UserStoreTypeOK
  <2> HIDE DEF r, n, f, u
  <2>9. ServiceTypeOK'
    BY <1>1, <1>3, <2>1, <2>3, <2>5, <2>6 DEF ServiceTypeOK, UserStoreTypeOK
  <2>10. PairInv'
    <3>1. \A m \in Pairs : access'[m] # "none" <=> m <= n
      BY <1>3, <2>1, <2>2 DEF ServiceTypeOK, UserStoreTypeOK, Pairs
    <3>2. n \in 0..MaxTokens
      BY <1>3 DEF Pairs
    <3>3. rows' \subseteq Issued'
      BY <2>1, <2>7 DEF PairInv
    <3>4. \A m \in Issued' : claims'[m] \in Claims /\ family'[m] \in Issued'
      BY <2>5, <2>6, <2>7, <2>8 DEF PairInv
    <3>5. QED
      BY <3>1, <3>2, <3>3, <3>4 DEF PairInv
  <2>11. HandlerInv'
    BY <1>1, <2>3, <2>4, <2>7 DEF HandlerInv
  <2>12. NoTokenOfDeletedUser'
    BY <1>1, <1>3, <2>1, <2>8 DEF NoTokenOfDeletedUser, Exists, PairInv
  <2>13. ASSUME NEW m \in rows, family[m] = f, f \notin doubled PROVE FALSE
    <3>1. CASE t = 0
      BY <3>1, <2>2, <2>13 DEF f, PairInv, n
    <3>2. CASE t # 0
      BY <3>2, <1>1, <2>13 DEF f, RotationInv, Rotates
    <3>3. QED
      BY <3>1, <3>2
  <2>14. OneTokenPerLogin'
    BY <1>1, <2>1, <2>8, <2>13 DEF OneTokenPerLogin, PairInv
  <2>15. RotationInv'
    <3>1. \A d \in Callers : Rotates(d)' => d # c /\ Rotates(d) /\ http[d].tok \in Issued
      BY <2>3, <2>4 DEF Rotates, HandlerInv
    <3>2. ASSUME NEW d \in Callers, Rotates(d)', family[http[d].tok] = f, f \notin doubled
          PROVE  FALSE
      <4>1. CASE t = 0
        BY <3>1, <3>2, <4>1, <2>2 DEF f, PairInv, n
      <4>2. CASE t # 0
        <5>1. Rotates(c)
          BY <1>1, <4>2 DEF Rotates
        <5>2. QED
          BY <3>1, <3>2, <4>2, <5>1 DEF f, RotationInv
      <4>3. QED
        BY <4>1, <4>2
    <3>3. ASSUME NEW d \in Callers, Rotates(d)', family'[http'[d].tok] \notin doubled'
          PROVE  /\ \A e \in Callers : Rotates(e)' /\ family'[http'[e].tok] = family'[http'[d].tok]
                      => e = d
                 /\ \A m \in rows' : family'[m] = family'[http'[d].tok] =>
                      http'[d].pc = "rotate" /\ m = http'[d].tok
      <4>1. \A e \in Callers : Rotates(e)' => family'[http'[e].tok] = family[http[e].tok] /\ http'[e] = http[e]
        BY <2>4, <2>8, <3>1
      <4>2. family[http[d].tok] # f
        BY <1>1, <3>2, <3>3, <4>1
      <4>3. \A m \in rows' : family'[m] = family'[http'[d].tok] => m \in rows /\ family'[m] = family[m]
        BY <2>1, <2>8, <3>3, <4>1, <4>2 DEF PairInv
      <4>4. QED
        BY <1>1, <3>1, <3>3, <4>1, <4>3 DEF RotationInv
    <3>4. QED
      BY <3>3 DEF RotationInv
  <2>16. UpdatesMerge' /\ UpdateInv' /\ IntendedInv'
    <3>1. \A d \in Callers : http'[d].pc = "update" => http'[d] = http[d]
      BY <2>3, <2>4
    <3>2. UpdatesMerge' /\ IntendedInv'
      BY <1>1 DEF UpdatesMerge, IntendedInv, Exists
    <3>3. UpdateInv'
      BY <1>1, <3>1, UpdateKept
    <3>4. QED
      BY <3>2, <3>3
  <2>17. QED
    BY <2>9, <2>10, <2>11, <2>12, <2>14, <2>15, <2>16
<1>4. QED
  BY <1>2, <1>3
-------------------------------------------------------------------------------
(* Changes of user rows *)

LEMMA RowEquality ==
  ASSUME NEW r \in Row, NEW s \in Row,
         r.email = s.email, r.pw = s.pw, r.active = s.active, r.admin = s.admin
  PROVE  r = s
BY DEF Row

LEMMA MergeRow ==
  ASSUME NEW u \in UserIds, intended[u] \in Row, NEW row \in Row, NEW ch \in SUBSET Fields
  PROVE  /\ Merge(u, row, ch) \in Row
         /\ Merge(u, row, ch).email = intended[u].email
         /\ Merge(u, row, ch).admin = intended[u].admin
         /\ Merge(u, row, ch).pw = IF "pw" \in ch THEN row.pw ELSE intended[u].pw
         /\ Merge(u, row, ch).active = IF "active" \in ch THEN row.active ELSE intended[u].active
BY DEF Merge, Row

(* Tokens, when handlers that exchange none go on. *)
LEMMA TokensKept ==
  ASSUME ServiceInv, UNCHANGED <<claims, access, family, doubled>>,
         rows' \subseteq rows,
         \A d \in Callers : Rotates(d)' => http'[d] = http[d]
  PROVE  PairInv' /\ OneTokenPerLogin' /\ RotationInv'
<1>1. PairInv' /\ OneTokenPerLogin'
  BY DEF ServiceInv, PairInv, Issued, OneTokenPerLogin
<1>2. \A d \in Callers : Rotates(d)' => Rotates(d)
  BY DEF Rotates
<1>3. RotationInv'
  BY <1>2 DEF ServiceInv, RotationInv
<1>4. QED
  BY <1>1, <1>3

(* A handler reads a row to write it back. *)
LEMMA ServiceRead ==
  ASSUME ServiceInv, NEW c \in Callers, NEW u \in UserIds, Exists(u), NEW row \in Row,
         NEW ch \in SUBSET Fields, ReadToUpdate(c, u, row, ch),
         u \notin crossed => row = Merge(u, row, ch)
  PROVE  ServiceInv'
<1> USE DEF ServiceInv
<1> DEFINE r == [Idle EXCEPT !.pc = "update", !.user = u, !.row = row, !.ch = ch]
<1>1. /\ UNCHANGED <<users, rows, stale, claims, access, family, doubled, intended>>
      /\ http' = [http EXCEPT ![c] = r]
      /\ crossed' = IF Updating(u) # {} THEN crossed \cup {u} ELSE crossed
  BY DEF ReadToUpdate, userStoreVars
<1>2. r \in Handlers /\ r.pc = "update" /\ r.user = u /\ r.row = row /\ r.ch = ch /\ r.tok = 0
  <2>1. 0 \in 0..MaxTokens
    BY UserAssumption
  <2>2. QED
    BY <2>1 DEF Idle, Handlers, Pcs, Replies
<1> HIDE DEF r
<1>3. http'[c] = r /\ \A d \in Callers : d # c => http'[d] = http[d]
  BY <1>1 DEF ServiceTypeOK
<1>4. ServiceTypeOK'
  BY <1>1, <1>2 DEF ServiceTypeOK, UserStoreTypeOK
<1>5. PairInv' /\ OneTokenPerLogin' /\ RotationInv'
  BY <1>1, <1>2, <1>3, TokensKept DEF Rotates
<1>6. HandlerInv'
  BY <1>1, <1>2, <1>3 DEF HandlerInv, Issued, Exists
<1>7. NoTokenOfDeletedUser' /\ UpdatesMerge' /\ IntendedInv'
  BY <1>1 DEF NoTokenOfDeletedUser, UpdatesMerge, IntendedInv, Exists
<1>8. UpdateInv'
  <2> SUFFICES ASSUME NEW d \in Callers, NEW h, h = http'[d], h.pc = "update", h.user \notin crossed'
               PROVE  /\ \A e \in Updating(h.user)' : e = d
                      /\ Exists(h.user)' => h.row = Merge(h.user, h.row, h.ch)'
    BY DEF UpdateInv
  <2>1. \A v, q, x : Merge(v, q, x)' = Merge(v, q, x) /\ (Exists(v)' <=> Exists(v))
    BY <1>1 DEF Merge, Exists
  <2>2. h.user \notin crossed /\ (h.user = u => Updating(u) = {})
    BY <1>1
  <2>3. CASE d = c
    <3>1. h.user = u /\ h.row = row /\ h.ch = ch
      BY <1>2, <1>3, <2>3
    <3>2. \A e \in Updating(u)' : e = c
      BY <1>3, <2>2, <3>1 DEF Updating
    <3>3. QED
      BY <2>1, <2>2, <2>3, <3>1, <3>2
  <2>4. CASE d # c
    <3>1. h = http[d] /\ d \in Updating(h.user)
      BY <1>3, <2>4 DEF Updating
    <3>2. h.user # u
      BY <2>2, <3>1
    <3>3. \A e \in Updating(h.user)' : e = d
      BY <1>2, <1>3, <2>2, <3>1, <3>2 DEF Updating, UpdateInv
    <3>4. Exists(h.user) => h.row = Merge(h.user, h.row, h.ch)
      BY <2>2, <3>1 DEF UpdateInv
    <3>5. QED
      BY <2>1, <3>3, <3>4
  <2>5. QED
    BY <2>3, <2>4
<1>9. QED
  BY <1>4, <1>5, <1>6, <1>7, <1>8

LEMMA ServiceChangePassword ==
  ASSUME ServiceInv, NEW c \in Callers, NEW n \in Pairs, NEW pw \in Passwords,
         HandleChangePassword(c, n, pw)
  PROVE  ServiceInv'
<1> DEFINE u == claims[n].user
           row == [users[u] EXCEPT !.pw = pw]
<1>1. u \in UserIds /\ Exists(u) /\ ReadToUpdate(c, u, row, {"pw"})
  BY DEF HandleChangePassword, ValidateAccessToken, ServiceInv, PairInv, Issued, Claims
<1>2. users[u] \in Row
  BY <1>1 DEF ServiceInv, ServiceTypeOK, UserStoreTypeOK, Exists
<1>3. /\ row \in Row /\ row.email = users[u].email /\ row.active = users[u].active
      /\ row.admin = users[u].admin
  BY <1>2 DEF Row
<1>4. {"pw"} \in SUBSET Fields
  BY DEF Fields
<1> HIDE DEF row, u
<1>5. ASSUME u \notin crossed PROVE row = Merge(u, row, {"pw"})
  <2>1. intended[u] = users[u]
    BY <1>1, <1>5 DEF ServiceInv, UpdatesMerge
  <2>2. QED
    BY <1>1, <1>2, <1>3, <1>4, <2>1, MergeRow, RowEquality
<1>6. QED
  BY <1>1, <1>3, <1>4, <1>5, ServiceRead

LEMMA ServiceUpdateUser ==
  ASSUME ServiceInv, NEW c \in Callers, NEW u \in UserIds, NEW active \in BOOLEAN,
         NEW pw \in Passwords, HandleUpdateUser(c, u, active, pw)
  PROVE  ServiceInv'
<1> DEFINE row == [users[u] EXCEPT !.active = active, !.pw = pw]
           ch == (IF active # users[u].active THEN {"active"} ELSE {})
                   \cup (IF pw # users[u].pw THEN {"pw"} ELSE {})
<1>1. Exists(u) /\ ReadToUpdate(c, u, row, ch)
  BY DEF HandleUpdateUser
<1>2. users[u] \in Row
  BY <1>1 DEF ServiceInv, ServiceTypeOK, UserStoreTypeOK, Exists
<1>3. /\ row \in Row /\ row.email = users[u].email /\ row.admin = users[u].admin
      /\ row.active = active /\ row.pw = pw
  BY <1>2 DEF Row
<1>4. /\ ch \in SUBSET Fields
      /\ "active" \notin ch => active = users[u].active
      /\ "pw" \notin ch => pw = users[u].pw
  BY DEF Fields
<1> HIDE DEF row, ch
<1>5. ASSUME u \notin crossed PROVE row = Merge(u, row, ch)
  <2>1. intended[u] = users[u]
    BY <1>1, <1>5 DEF ServiceInv, UpdatesMerge
  <2>2. QED
    BY <1>1, <1>2, <1>3, <1>4, <2>1, MergeRow, RowEquality
<1>6. QED
  BY <1>1, <1>3, <1>4, <1>5, ServiceRead
(* Handlers of other users' rows do not notice a change of u's. *)
LEMMA UpdateOther ==
  ASSUME UpdateInv, NEW u \in UserIds, UNCHANGED crossed,
         \A d \in Callers : http'[d].pc = "update" => http'[d] = http[d] /\ http[d].user \in UserIds,
         \A v \in UserIds \ {u} : users'[v] = users[v] /\ intended'[v] = intended[v],
         \A d \in Callers : http'[d].pc = "update" /\ http'[d].user = u => u \in crossed \/ ~Exists(u)'
  PROVE  UpdateInv'
<1> SUFFICES ASSUME NEW c \in Callers, NEW h, h = http'[c], h.pc = "update", h.user \notin crossed
             PROVE  /\ \A d \in Updating(h.user)' : d = c
                    /\ Exists(h.user)' => h.row = Merge(h.user, h.row, h.ch)'
  BY DEF UpdateInv
<1>1. h = http[c] /\ h.user \in UserIds
  OBVIOUS
<1>2. \A d \in Updating(h.user)' : d = c
  BY <1>1 DEF UpdateInv, Updating
<1>3. CASE h.user = u
  BY <1>2, <1>3
<1>4. CASE h.user # u
  <2>1. Exists(h.user)' => Exists(h.user)
    BY <1>1, <1>4 DEF Exists
  <2>2. Merge(h.user, h.row, h.ch)' = Merge(h.user, h.row, h.ch)
    BY <1>1, <1>4 DEF Merge
  <2>3. QED
    BY <1>1, <1>2, <2>1, <2>2 DEF UpdateInv
<1>5. QED
  BY <1>3, <1>4

(* Row u changes from users[u] to row, in the table and as intended, and   *)
(* the handlers that go on are not updating u or the update is lost.       *)
Replaces(u, row) ==
  /\ users' = [users EXCEPT ![u] = row]
  /\ row \in Row \cup {Deleted}
  /\ u \notin crossed => intended'[u] = row
  /\ intended' \in [UserIds -> Row \cup {Unused, Deleted}]
  /\ row # Deleted => intended'[u] \in Row
  /\ \A v \in UserIds \ {u} : intended'[v] = intended[v]
  /\ UNCHANGED <<stale, claims, access, family, doubled, crossed>>
  /\ rows' \subseteq rows
  /\ row = Deleted => \A n \in rows' : claims[n].user # u
  /\ http' \in [Callers -> Handlers]
  /\ \A d \in Callers : http'[d] = http[d] \/ (http'[d].pc \in {"idle", "replied"} /\ http'[d].tok = 0)
  /\ \A d \in Callers : http'[d].pc = "update" /\ http'[d].user = u => u \in crossed \/ row = Deleted

LEMMA ReplacesKept ==
  ASSUME ServiceInv, NEW u \in UserIds, NEW row, Replaces(u, row)
  PROVE  ServiceInv'
<1> USE DEF ServiceInv, Replaces
<1>1. /\ users'[u] = row /\ \A v \in UserIds : v # u => users'[v] = users[v]
      /\ users' \in [UserIds -> Row \cup {Unused, Deleted}]
  BY DEF ServiceTypeOK, UserStoreTypeOK
<1>2. Deleted # Unused
  BY UserAssumption DEF Deleted, Unused
<1>3. users'[u] # Unused /\ (row # Deleted => Exists(u)')
  BY <1>1, <1>2, RowsDiffer DEF Exists
<1>4. ServiceTypeOK'
  BY <1>1 DEF ServiceTypeOK, UserStoreTypeOK
<1>5. PairInv' /\ OneTokenPerLogin' /\ RotationInv'
  BY TokensKept DEF Rotates
<1>6. HandlerInv'
  BY <1>1, <1>3 DEF HandlerInv, Issued
<1>7. NoTokenOfDeletedUser'
  <2> SUFFICES ASSUME NEW n \in rows' PROVE Exists(claims[n].user)'
    BY DEF NoTokenOfDeletedUser
  <2>1. claims[n].user \in UserIds /\ Exists(claims[n].user)
    BY DEF PairInv, Issued, Claims, NoTokenOfDeletedUser
  <2>2. QED
    BY <1>1, <1>3, <2>1 DEF Exists
<1>8. UpdatesMerge' /\ IntendedInv'
  BY <1>1 DEF UpdatesMerge, IntendedInv, Exists
<1>9. UpdateInv'
  <2>1. \A d \in Callers : http'[d].pc = "update" => http'[d] = http[d] /\ http[d].user \in UserIds
    BY DEF HandlerInv
  <2>2. row = Deleted => ~Exists(u)'
    BY <1>1 DEF Exists
  <2>3. QED
    BY <1>1, <2>1, <2>2, UpdateOther
<1>10. QED
  BY <1>4, <1>5, <1>6, <1>7, <1>8, <1>9

LEMMA ReplyShape ==
  ASSUME ServiceInv, NEW c \in Callers, NEW s \in Replies, Reply(c, s)
  PROVE  /\ http' \in [Callers -> Handlers]
         /\ http'[c].pc = "replied" /\ http'[c].tok = 0
         /\ \A d \in Callers : d # c => http'[d] = http[d]
<1> DEFINE r == [Idle EXCEPT !.pc = "replied", !.reply = s]
<1>1. 0 \in 0..MaxTokens
  BY UserAssumption
<1>2. r \in Handlers /\ r.tok = 0 /\ r.pc = "replied"
  BY <1>1 DEF Idle, Handlers, Pcs
<1>3. http' = [http EXCEPT ![c] = r]
  BY DEF Reply
<1> HIDE DEF r
<1>4. QED
  BY <1>2, <1>3 DEF ServiceInv, ServiceTypeOK

(* The row written back is the merged one, unless updates crossed. *)
LEMMA ServiceWriteBack ==
  ASSUME ServiceInv, NEW c \in Callers, WriteBack(c)
  PROVE  ServiceInv'
<1> DEFINE u == http[c].user
           row == http[c].row
           ch == http[c].ch
<1>1. /\ http[c].pc = "update" /\ Reply(c, "200")
      /\ UNCHANGED <<rows, stale, claims, access, family, doubled, crossed>>
      /\ users' = IF Exists(u) THEN [users EXCEPT ![u] = row] ELSE users
      /\ intended' = IF Exists(u) THEN [intended EXCEPT ![u] = Merge(u, row, ch)] ELSE intended
  BY DEF WriteBack, UpdateUser
<1>2. u \in UserIds /\ row \in Row /\ ch \in SUBSET Fields
  BY <1>1 DEF ServiceInv, HandlerInv, ServiceTypeOK, Handlers
<1>3. CASE ~Exists(u)
  BY <1>1, <1>3, Answers DEF Replies
<1>4. CASE Exists(u)
  <2>1. /\ intended \in [UserIds -> Row \cup {Unused, Deleted}]
        /\ u \notin crossed => /\ intended[u] = users[u] /\ row = Merge(u, row, ch)
                               /\ \A d \in Updating(u) : d = c
    BY <1>1, <1>2, <1>4 DEF ServiceInv, ServiceTypeOK, UpdatesMerge, UpdateInv
  <2>2. Merge(u, row, ch) \in Row
    BY <1>2, <1>4, MergeRow DEF ServiceInv, IntendedInv
  <2>3. /\ http' \in [Callers -> Handlers]
        /\ http'[c].pc = "replied" /\ http'[c].tok = 0
        /\ \A d \in Callers : d # c => http'[d] = http[d]
    BY <1>1, ReplyShape DEF Replies
  <2> HIDE DEF u, row, ch
  <2>4. \A d \in Callers : http'[d].pc = "update" /\ http'[d].user = u => u \in crossed
    BY <2>1, <2>3 DEF Updating
  <2>5. Replaces(u, row)
    BY <1>1, <1>2, <1>4, <2>1, <2>2, <2>3, <2>4, RowsDiffer DEF Replaces
  <2>6. QED
    BY <1>2, <2>5, ReplacesKept
<1>5. QED
  BY <1>3, <1>4
LEMMA ServiceInsertUser ==
  ASSUME ServiceInv, NEW c \in Callers, NEW u \in UserIds, InsertUser(c, u)
  PROVE  ServiceInv'
<1> DEFINE row == http[c].row
<1>1. /\ http[c].pc = "insert" /\ users[u] = Unused
      /\ UNCHANGED <<rows, stale, claims, access, family, doubled, crossed>>
  BY DEF InsertUser
<1>2. CASE ~CanCreateUser(row.email)
  BY <1>1, <1>2, Answers DEF InsertUser, Replies
<1>3. CASE CanCreateUser(row.email)
  <2>1. /\ users' = [users EXCEPT ![u] = row] /\ intended' = [intended EXCEPT ![u] = row]
        /\ Reply(c, "200") /\ row \in Row
    BY <1>1, <1>3 DEF InsertUser, CreateUser, ServiceInv, HandlerInv
  <2>2. /\ http' \in [Callers -> Handlers]
        /\ http'[c].pc = "replied" /\ http'[c].tok = 0
        /\ \A d \in Callers : d # c => http'[d] = http[d]
    BY <2>1, ReplyShape DEF Replies
  <2> HIDE DEF row
  <2>3. \A d \in Callers : http'[d].pc = "update" => http'[d].user # u
    BY <1>1, <2>2 DEF ServiceInv, HandlerInv
  <2>4. Replaces(u, row)
    BY <1>1, <2>1, <2>2, <2>3, RowsDiffer DEF Replaces, ServiceInv, ServiceTypeOK
  <2>5. QED
    BY <2>4, ReplacesKept
<1>4. QED
  BY <1>2, <1>3

(* The foreign key cascades: the user's tokens go with the row. *)
LEMMA ServiceDeleteUser ==
  ASSUME ServiceInv, NEW c \in Callers, NEW u \in UserIds, HandleDeleteUser(c, u)
  PROVE  ServiceInv'
<1>1. /\ users' = [users EXCEPT ![u] = Deleted] /\ intended' = [intended EXCEPT ![u] = Deleted]
      /\ rows' = {n \in rows : claims[n].user # u}
      /\ Reply(c, "200") /\ UNCHANGED <<stale, claims, access, family, doubled, crossed>>
  BY DEF HandleDeleteUser, DeleteUser
<1>2. /\ http' \in [Callers -> Handlers]
      /\ http'[c].pc = "replied" /\ http'[c].tok = 0
      /\ \A d \in Callers : d # c => http'[d] = http[d]
  BY <1>1, ReplyShape DEF Replies
<1>3. Replaces(u, Deleted)
  BY <1>1, <1>2 DEF Replaces, ServiceInv, ServiceTypeOK
<1>4. QED
  BY <1>3, ReplacesKept

(* Steps of no handler. *)
LEMMA ServiceFrame ==
  ASSUME ServiceInv, rows' \subseteq rows, stale' \subseteq Pairs,
         access' \in [Pairs -> {"none", "valid", "expired"}],
         \A n \in Pairs : access'[n] = "none" <=> access[n] = "none",
         UNCHANGED <<users, claims, handlerVars>>
  PROVE  ServiceInv'
<1> USE DEF ServiceInv, handlerVars
<1>1. Issued' = Issued
  BY DEF Issued
<1>2. ServiceTypeOK'
  BY DEF ServiceTypeOK, UserStoreTypeOK
<1>3. PairInv'
  <2>1. PICK k \in 0..MaxTokens : \A n \in Pairs : access[n] # "none" <=> n <= k
    BY DEF PairInv
  <2>2. \A n \in Pairs : access'[n] # "none" <=> n <= k
    BY <2>1
  <2>3. QED
    BY <1>1, <2>2 DEF PairInv
<1>4. HandlerInv' /\ NoTokenOfDeletedUser' /\ OneTokenPerLogin' /\ UpdatesMerge' /\ IntendedInv'
  BY <1>1 DEF HandlerInv, NoTokenOfDeletedUser, OneTokenPerLogin, UpdatesMerge, IntendedInv, Exists
<1>5. RotationInv'
  BY DEF RotationInv, Rotates
<1>6. UpdateInv'
  BY UpdateKept
<1>7. QED
  BY <1>2, <1>3, <1>4, <1>5, <1>6

LEMMA ServiceTime ==
  ASSUME ServiceInv,
         \/ \E n \in Pairs : AccessExpires(n) \/ RefreshExpires(n)
         \/ RefreshTokenCleanup
         \/ UNCHANGED serviceVars
  PROVE  ServiceInv'
<1>1. CASE \E n \in Pairs : AccessExpires(n)
  BY <1>1, ServiceFrame DEF AccessExpires, ServiceInv, ServiceTypeOK, UserStoreTypeOK
<1>2. CASE \E n \in Pairs : RefreshExpires(n)
  BY <1>2, ServiceFrame DEF RefreshExpires, ServiceInv, ServiceTypeOK, UserStoreTypeOK
<1>3. CASE RefreshTokenCleanup
  BY <1>3, ServiceFrame DEF RefreshTokenCleanup, CleanupExpiredRefreshTokens, ServiceInv,
     ServiceTypeOK, UserStoreTypeOK
<1>4. CASE UNCHANGED serviceVars
  BY <1>4, ServiceFrame DEF serviceVars, userStoreVars, ServiceInv, ServiceTypeOK, UserStoreTypeOK
<1>5. QED
  BY <1>1, <1>2, <1>3, <1>4

(* Central restarts: no handler is left, and the administrator's row is    *)
(* one that was not used before.                                           *)
LEMMA ServiceRestart ==
  ASSUME ServiceInv, NEW u \in UserIds, CentralRestart(u)
  PROVE  ServiceInv'
<1> DEFINE r == [Idle EXCEPT !.pc = "replied", !.reply = "500"]
<1>1. /\ http' = [c \in Callers |-> IF http[c] = Idle THEN Idle ELSE r]
      /\ UNCHANGED <<rows, stale, claims, access, family, doubled, crossed>>
  BY DEF CentralRestart
<1>2. /\ r \in Handlers /\ r.tok = 0 /\ r.pc = "replied"
      /\ Idle \in Handlers /\ Idle.tok = 0 /\ Idle.pc = "idle"
  <2>1. 0 \in 0..MaxTokens
    BY UserAssumption
  <2>2. QED
    BY <2>1 DEF Idle, Handlers, Pcs, Replies
<1> HIDE DEF r
<1>3. /\ http' \in [Callers -> Handlers]
      /\ \A c \in Callers : http'[c].pc \in {"idle", "replied"} /\ http'[c].tok = 0
  BY <1>1, <1>2
<1>4. CASE CanCreateUser(AdminEmail) /\ users[u] = Unused
  <2>1. PICK pw \in Passwords : LET row == NewRow(AdminEmail, pw, TRUE, TRUE)
          IN CreateUser(u, row) /\ intended' = [intended EXCEPT ![u] = row]
    BY <1>4 DEF CentralRestart
  <2> DEFINE row == NewRow(AdminEmail, pw, TRUE, TRUE)
  <2>2. row \in Row
    BY UserAssumption DEF NewRow, Row
  <2>3. users' = [users EXCEPT ![u] = row] /\ intended' = [intended EXCEPT ![u] = row]
    BY <2>1 DEF CreateUser
  <2> HIDE DEF row
  <2>4. Replaces(u, row)
    BY <1>1, <1>3, <2>2, <2>3, RowsDiffer DEF Replaces, ServiceInv, ServiceTypeOK
  <2>5. QED
    BY <2>4, ReplacesKept
<1>5. CASE ~(CanCreateUser(AdminEmail) /\ users[u] = Unused)
  <2> USE DEF ServiceInv
  <2>1. UNCHANGED <<users, intended>>
    BY <1>5 DEF CentralRestart
  <2>2. ServiceTypeOK'
    BY <1>1, <1>3, <2>1 DEF ServiceTypeOK, UserStoreTypeOK
  <2>3. PairInv' /\ OneTokenPerLogin' /\ RotationInv'
    BY <1>1, <1>3, TokensKept DEF Rotates
  <2>4. HandlerInv'
    BY <1>1, <1>3 DEF HandlerInv
  <2>5. NoTokenOfDeletedUser' /\ UpdatesMerge' /\ IntendedInv'
    BY <1>1, <2>1 DEF NoTokenOfDeletedUser, UpdatesMerge, IntendedInv, Exists
  <2>6. UpdateInv'
    BY <1>3 DEF UpdateInv
  <2>7. QED
    BY <2>2, <2>3, <2>4, <2>5, <2>6
<1>6. QED
  BY <1>4, <1>5
-------------------------------------------------------------------------------
(* The client *)

LEMMA SetShape ==
  ASSUME CliTypes, NEW p \in Procs, NEW pc \in {"call", "refresh", "retry", "save"},
         NEW mem \in Tokens, Set(p, pc, mem)
  PROVE  /\ proc' \in [Procs -> Invocations]
         /\ \A q \in Procs : q # p => proc'[q] = proc[q]
         /\ proc'[p].pc = pc /\ proc'[p].mem = mem
         /\ proc'[p].cmd = proc[p].cmd /\ proc'[p].result = proc[p].result
<1> DEFINE r == [proc[p] EXCEPT !.pc = pc, !.mem = mem]
<1>1. /\ r \in Invocations /\ r.pc = pc /\ r.mem = mem
      /\ r.cmd = proc[p].cmd /\ r.result = proc[p].result
  BY DEF CliTypes, Invocations
<1>2. proc' = [proc EXCEPT ![p] = r]
  BY DEF Set
<1> HIDE DEF r
<1>3. QED
  BY <1>1, <1>2 DEF CliTypes

LEMMA EndShape ==
  ASSUME CliTypes, NEW p \in Procs, NEW result \in {"ok", "failed", "nologin", "relogin"}, End(p, result)
  PROVE  /\ proc' \in [Procs -> Invocations]
         /\ \A q \in Procs : q # p => proc'[q] = proc[q]
         /\ proc'[p].pc = "done" /\ proc'[p].result = result
<1> DEFINE r == [proc[p] EXCEPT !.pc = "done", !.mem = NoTokens, !.result = result]
<1>1. NoTokens \in Tokens
  <2>1. 0 \in 0..MaxTokens
    BY UserAssumption
  <2>2. QED
    BY <2>1 DEF NoTokens, Tokens
<1>2. r \in Invocations /\ r.pc = "done" /\ r.result = result
  BY <1>1 DEF CliTypes, Invocations
<1>3. proc' = [proc EXCEPT ![p] = r]
  BY DEF End
<1> HIDE DEF r
<1>4. QED
  BY <1>2, <1>3 DEF CliTypes

(* In a calm behaviour the process that runs is the only one. *)
LEMMA CalmOne ==
  ASSUME CliInv, NEW p \in Running, calm' => calm,
         calm' => stale' = {} /\ config'.token = config'.refresh,
         \A q \in Procs : q # p => proc'[q] = proc[q] /\ http'[q] = http[q],
         calm' => \/ proc'[p].pc \notin {"new", "done"} /\ CalmProc(p)'
                  \/ /\ proc'[p].pc = "done" /\ http'[p].pc \in {"idle", "replied"}
                     /\ Live(config.refresh)',
         calm' => proc'[p].result # "relogin"
  PROVE  CalmInv'
<1> SUFFICES ASSUME calm' PROVE CalmInv'
  BY DEF CalmInv
<1>1. CalmInv /\ calm /\ p \in Procs
  BY DEF CliInv, Running
<1>2. \A q \in Procs : q # p => q \notin Running /\ q \notin Running'
  BY <1>1 DEF CalmInv, Running
<1>3. \A q \in Running' : q = p
  BY <1>2 DEF Running
<1>4. \A q \in Procs : proc'[q].result # "relogin"
  BY <1>1 DEF CalmInv
<1>5. \A q \in Procs \ Running' : http'[q].pc \in {"idle", "replied"}
  BY <1>1, <1>2 DEF CalmInv, Running
<1>6. \A q \in Procs : proc'[q].pc = "new" => http'[q] = Idle
  BY <1>1, <1>2 DEF CalmInv
<1>7. (\A q \in Running' : CalmProc(q)') /\ (Running' = {} => Live(config.refresh)')
  BY <1>1, <1>3 DEF Running
<1>8. QED
  BY <1>3, <1>4, <1>5, <1>6, <1>7 DEF CalmInv

(* Steps of others in a calm behaviour: the client's requests and tokens   *)
(* stay, and so do the users.                                              *)
LEMMA CalmOthers ==
  ASSUME CliInv, calm' => calm, UNCHANGED <<proc, config, stale>>,
         \A q \in Procs : http'[q] = http[q],
         calm' => rows \subseteq rows' /\ \A u \in UserIds : Exists(u) => Exists(u)',
         calm' => \A n \in Pairs : access[n] = "valid" =>
                    access'[n] = "valid" \/ \A q \in Procs : ~Retrying(q, n),
         ServiceInv
  PROVE  CalmInv'
<1> SUFFICES ASSUME calm' PROVE CalmInv'
  BY DEF CalmInv
<1>1. CalmInv /\ calm /\ Running' = Running
  BY DEF CliInv, Running
<1>2. ASSUME NEW p \in Running PROVE CalmProc(p)'
  <2>1. CalmProc(p) /\ p \in Procs /\ p \in Callers
    BY <1>1 DEF CalmInv, Running, Callers
  <2>2. \A n : Live(n) => Live(n)' /\ n \in Pairs
    BY DEF Live, ServiceInv, ServiceTypeOK, UserStoreTypeOK
  <2>3. http[p].pc \in {"rotate", "reload", "issue"} /\ Exists(http[p].user) => Exists(http[p].user)'
    BY <2>1 DEF ServiceInv, HandlerInv, Exists
  <2>4. proc[p].pc = "retry" => access'[config.token] = "valid"
    BY <1>1, <2>1, <2>2 DEF CalmProc, Retrying, CalmInv
  <2>5. /\ proc[p].pc = "refresh" /\ http[p].pc = "replied" /\ http[p].reply = "200"
           => Live(http[p].tok)' /\ access'[http[p].tok] = "valid"
    <3> SUFFICES ASSUME proc[p].pc = "refresh", http[p].pc = "replied", http[p].reply = "200"
                 PROVE  Live(http[p].tok)' /\ access'[http[p].tok] = "valid"
      OBVIOUS
    <3>1. Live(http[p].tok) /\ access[http[p].tok] = "valid"
      BY <2>1 DEF CalmProc, Idle
    <3>2. QED
      BY <2>1, <2>2, <3>1 DEF Retrying, Live
  <2>6. QED
    BY <2>1, <2>2, <2>3, <2>4, <2>5 DEF CalmProc, Live
<1>3. Running = {} => Live(config.refresh)'
  BY <1>1 DEF CalmInv, Live
<1>4. QED
  BY <1>1, <1>2, <1>3 DEF CalmInv
LEMMA OperatorsElsewhere ==
  ASSUME NEW p \in Procs PROVE p \in Callers /\ \A c \in Operators : c \in Callers /\ c # p
BY CallerAssumption DEF Callers

(* initConfig: the first process of a calm behaviour, or the next one,     *)
(* finds a live token.                                                     *)
LEMMA CliStart ==
  ASSUME SessionInv, NEW p \in Procs, Start(p) PROVE CliInv'
<1> USE DEF SessionInv, CliInv
<1>1. /\ proc[p].pc = "new" /\ Set(p, "call", config)
      /\ calm' = (calm /\ Running = {} /\ proc[p].cmd # "logout")
      /\ UNCHANGED <<users, rows, stale, access, http, config, ran>>
  BY DEF Start, serviceVars, userStoreVars, handlerVars
<1>2. /\ proc' \in [Procs -> Invocations]
      /\ \A q \in Procs : q # p => proc'[q] = proc[q]
      /\ proc'[p].pc = "call" /\ proc'[p].mem = config
      /\ proc'[p].cmd = proc[p].cmd /\ proc'[p].result = proc[p].result
  BY <1>1, SetShape DEF CliTypes
<1>3. CliTypes'
  BY <1>1, <1>2 DEF CliTypes
<1>4. OperatorInv' /\ RanInv'
  BY <1>1, <1>2 DEF OperatorInv, RanInv
<1>5. CalmInv'
  <2> SUFFICES ASSUME calm' PROVE CalmInv'
    BY DEF CalmInv
  <2>1. calm /\ Running = {} /\ proc[p].cmd # "logout" /\ CalmInv
    BY <1>1
  <2>2. Running' = {p}
    BY <1>2, <2>1 DEF Running
  <2>3. Live(config.refresh)' /\ http'[p] = Idle
    BY <1>1, <2>1 DEF CalmInv, Live
  <2>4. CalmProc(p)'
    BY <1>1, <1>2, <2>1, <2>3 DEF CalmProc
  <2>5. \A q \in Procs : q # p => q \notin Running
    BY <2>1
  <2>6. QED
    BY <1>1, <1>2, <2>1, <2>2, <2>4 DEF CalmInv
<1>6. QED
  BY <1>3, <1>4, <1>5

(* An attempt that central accepts. *)
LEMMA CliAccepted ==
  ASSUME SessionInv, NEW p \in Procs, proc[p].pc \in {"call", "retry"},
         proc[p].cmd \in {"run", "attach", "use"} \/ proc[p].pc = "retry", Accepted(p),
         UNCHANGED <<serviceVars, config, calm>>
  PROVE  CliInv'
<1> USE DEF SessionInv, CliInv
<1>1. /\ UNCHANGED <<users, rows, stale, access, http, config, calm>>
      /\ ran' = [ran EXCEPT ![p] = ran[p] + 1]
      /\ Set(p, "save", proc[p].mem) \/ End(p, "ok")
  BY DEF Accepted, serviceVars, userStoreVars, handlerVars
<1>2. proc[p].mem \in Tokens /\ ran[p] = 0
  BY DEF CliTypes, Invocations, RanInv
<1>3. /\ proc' \in [Procs -> Invocations]
      /\ \A q \in Procs : q # p => proc'[q] = proc[q]
      /\ \/ /\ proc'[p].pc = "save" /\ proc'[p].mem = proc[p].mem
            /\ proc'[p].cmd = proc[p].cmd /\ proc'[p].result = proc[p].result
         \/ proc'[p].pc = "done" /\ proc'[p].result = "ok"
  <2>1. CASE Set(p, "save", proc[p].mem)
    BY <1>2, <2>1, SetShape
  <2>2. CASE End(p, "ok")
    BY <2>2, EndShape
  <2>3. QED
    BY <1>1, <2>1, <2>2
<1>4. CliTypes'
  <2>1. ran' = [ran EXCEPT ![p] = 1] /\ 1 \in 0..2
    BY <1>1, <1>2
  <2>2. QED
    BY <1>1, <1>3, <2>1 DEF CliTypes
<1>5. OperatorInv' /\ RanInv'
  BY <1>1, <1>2, <1>3 DEF OperatorInv, RanInv, CliTypes
<1>6. CalmInv'
  <2>1. p \in Running
    BY DEF Running
  <2>2. ASSUME calm
        PROVE  /\ stale = {} /\ config.token = config.refresh /\ proc[p].cmd # "logout"
               /\ proc[p].result # "relogin" /\ proc[p].mem = config /\ Live(config.refresh)
               /\ http[p] = Idle
    BY <2>1, <2>2 DEF CalmInv, CalmProc
  <2>3. Idle.pc = "idle"
    BY DEF Idle
  <2>4. ASSUME calm' PROVE Live(config.refresh)'
    BY <1>1, <2>2, <2>4 DEF Live
  <2>5. ASSUME calm', proc'[p].pc = "save" PROVE CalmProc(p)'
    BY <1>1, <1>3, <2>2, <2>4, <2>5 DEF CalmProc
  <2>6. QED
    BY <1>1, <1>3, <2>1, <2>2, <2>3, <2>4, <2>5, CalmOne
<1>7. QED
  BY <1>4, <1>5, <1>6

LEMMA CliFirstAttempt ==
  ASSUME SessionInv, NEW p \in Procs, FirstAttempt(p) PROVE CliInv'
<1> USE DEF SessionInv, CliInv
<1>1. CASE Accepted(p)
  BY <1>1, CliAccepted DEF FirstAttempt
<1>2. CASE ~Accepted(p)
  <2>1. /\ proc[p].pc = "call" /\ proc[p].cmd \in {"run", "attach", "use"}
        /\ UNCHANGED <<users, rows, stale, access, http, config, calm, ran>>
        /\ Set(p, "refresh", proc[p].mem) \/ (proc[p].mem.refresh = 0 /\ End(p, "nologin"))
    BY <1>2 DEF FirstAttempt, serviceVars, userStoreVars, handlerVars
  <2>2. proc[p].mem \in Tokens
    BY DEF CliTypes, Invocations
  <2>3. /\ proc' \in [Procs -> Invocations]
        /\ \A q \in Procs : q # p => proc'[q] = proc[q]
        /\ \/ /\ proc'[p].pc = "refresh" /\ proc'[p].mem = proc[p].mem
              /\ proc'[p].cmd = proc[p].cmd /\ proc'[p].result = proc[p].result
           \/ proc'[p].pc = "done" /\ proc'[p].result = "nologin"
    <3>1. CASE Set(p, "refresh", proc[p].mem)
      BY <2>2, <3>1, SetShape
    <3>2. CASE End(p, "nologin")
      BY <3>2, EndShape
    <3>3. QED
      BY <2>1, <3>1, <3>2
  <2>4. CliTypes'
    BY <2>1, <2>3 DEF CliTypes
  <2>5. OperatorInv' /\ RanInv'
    BY <2>1, <2>3 DEF OperatorInv, RanInv
  <2>6. CalmInv'
    <3>1. p \in Running
      BY <2>1 DEF Running
    <3>2. ASSUME calm
          PROVE  /\ stale = {} /\ config.token = config.refresh /\ proc[p].cmd # "logout"
                 /\ proc[p].result # "relogin" /\ proc[p].mem = config /\ Live(config.refresh)
                 /\ http[p] = Idle
      BY <2>1, <3>1, <3>2 DEF CalmInv, CalmProc
    <3>3. Idle.pc = "idle"
      BY DEF Idle
    <3>4. ASSUME calm' PROVE Live(config.refresh)'
      BY <2>1, <3>2, <3>4 DEF Live
    <3>5. ASSUME calm', proc'[p].pc = "refresh" PROVE CalmProc(p)'
      BY <2>1, <2>3, <3>2, <3>3, <3>4, <3>5 DEF CalmProc
    <3>6. QED
      BY <2>1, <2>3, <3>1, <3>2, <3>3, <3>4, <3>5, CalmOne
  <2>7. QED
    BY <2>4, <2>5, <2>6
<1>3. QED
  BY <1>1, <1>2

(* A retry with the new token is not refused in a calm behaviour. *)
LEMMA CliSecondAttempt ==
  ASSUME SessionInv, NEW p \in Procs, SecondAttempt(p) PROVE CliInv'
<1> USE DEF SessionInv, CliInv
<1>1. CASE Accepted(p)
  BY <1>1, CliAccepted DEF SecondAttempt
<1>2. CASE ~Accepted(p)
  <2>1. /\ proc[p].pc = "retry" /\ ~ValidateAccessToken(proc[p].mem.token)
        /\ UNCHANGED <<users, rows, stale, access, http, config, calm, ran>> /\ End(p, "relogin")
    BY <1>2 DEF SecondAttempt, serviceVars, userStoreVars, handlerVars
  <2>2. /\ proc' \in [Procs -> Invocations]
        /\ \A q \in Procs : q # p => proc'[q] = proc[q]
        /\ proc'[p].pc = "done"
    BY <2>1, EndShape
  <2>3. CliTypes' /\ OperatorInv' /\ RanInv'
    BY <2>1, <2>2 DEF CliTypes, OperatorInv, RanInv
  <2>4. p \in Running
    BY <2>1 DEF Running
  <2>5. ~calm
    BY <2>1, <2>4 DEF CalmInv, CalmProc, Live, ValidateAccessToken
  <2>6. QED
    BY <2>1, <2>3, <2>5 DEF CalmInv
<1>3. QED
  BY <1>1, <1>2

LEMMA CliUseSave ==
  ASSUME SessionInv, NEW p \in Procs, UseSave(p) PROVE CliInv'
<1> USE DEF SessionInv, CliInv
<1>1. /\ proc[p].pc = "save" /\ config' = proc[p].mem /\ End(p, "ok")
      /\ UNCHANGED <<users, rows, stale, access, http, calm, ran>>
  BY DEF UseSave, serviceVars, userStoreVars, handlerVars
<1>2. /\ proc' \in [Procs -> Invocations]
      /\ \A q \in Procs : q # p => proc'[q] = proc[q]
      /\ proc'[p].pc = "done" /\ proc'[p].result = "ok"
  BY <1>1, EndShape
<1>3. CliTypes' /\ OperatorInv' /\ RanInv'
  BY <1>1, <1>2 DEF CliTypes, Invocations, OperatorInv, RanInv
<1>4. p \in Running
  BY <1>1 DEF Running
<1>5. ASSUME calm
      PROVE  /\ stale = {} /\ config.token = config.refresh /\ proc[p].mem = config
             /\ Live(config.refresh) /\ http[p] = Idle
  BY <1>1, <1>4, <1>5 DEF CalmInv, CalmProc
<1>6. Idle.pc = "idle"
  BY DEF Idle
<1>7. ASSUME calm' PROVE Live(config.refresh)'
  BY <1>1, <1>5, <1>7 DEF Live
<1>8. CalmInv'
  BY <1>1, <1>2, <1>4, <1>5, <1>6, <1>7, CalmOne
<1>9. QED
  BY <1>3, <1>8

(* A process that is killed ends the calm. *)
LEMMA CliGone ==
  ASSUME SessionInv, NEW p \in Procs, ProcGone(p) PROVE CliInv'
<1> USE DEF SessionInv, CliInv
<1>1. /\ End(p, "failed") /\ calm' = FALSE
      /\ UNCHANGED <<http, config, ran>>
  BY DEF ProcGone, serviceVars, handlerVars
<1>2. /\ proc' \in [Procs -> Invocations]
      /\ \A q \in Procs : q # p => proc'[q] = proc[q]
      /\ proc'[p].pc = "done"
  BY <1>1, EndShape
<1>3. QED
  BY <1>1, <1>2 DEF CliTypes, OperatorInv, RanInv, CalmInv
(* Requests of the client. *)
LEMMA HttpShape ==
  ASSUME ServiceInv, NEW c \in Callers, NEW r, http' = [http EXCEPT ![c] = r]
  PROVE  http'[c] = r /\ \A d \in Callers : d # c => http'[d] = http[d]
BY DEF ServiceInv, ServiceTypeOK

LEMMA GotoShape ==
  ASSUME ServiceInv, NEW c \in Callers, NEW pc, NEW n, NEW u, Goto(c, pc, n, u)
  PROVE  /\ http'[c].pc = pc /\ http'[c].tok = n /\ http'[c].user = u
         /\ \A d \in Callers : d # c => http'[d] = http[d]
<1> DEFINE r == [Idle EXCEPT !.pc = pc, !.tok = n, !.user = u]
<1>1. r.pc = pc /\ r.tok = n /\ r.user = u
  BY DEF Idle
<1>2. http' = [http EXCEPT ![c] = r]
  BY DEF Goto
<1> HIDE DEF r
<1>3. QED
  BY <1>1, <1>2, HttpShape

LEMMA AnswerShape ==
  ASSUME ServiceInv, NEW c \in Callers, NEW s, Reply(c, s)
  PROVE  /\ http'[c].pc = "replied" /\ http'[c].tok = 0 /\ http'[c].reply = s
         /\ \A d \in Callers : d # c => http'[d] = http[d]
<1> DEFINE r == [Idle EXCEPT !.pc = "replied", !.reply = s]
<1>1. r.pc = "replied" /\ r.tok = 0 /\ r.reply = s
  BY DEF Idle
<1>2. http' = [http EXCEPT ![c] = r]
  BY DEF Reply
<1> HIDE DEF r
<1>3. QED
  BY <1>1, <1>2, HttpShape

(* A step of p's request that leaves the client alone. *)
LEMMA CliElsewhere ==
  ASSUME CliInv, NEW p \in Procs, \A d \in Callers : d # p => http'[d] = http[d],
         UNCHANGED <<config, proc, ran>>, calm' \in BOOLEAN
  PROVE  CliTypes' /\ OperatorInv' /\ RanInv'
<1>1. \A c \in Operators : http'[c] = http[c]
  BY OperatorsElsewhere
<1>2. QED
  BY <1>1 DEF CliInv, CliTypes, OperatorInv, RanInv

LEMMA CliLoginCall ==
  ASSUME SessionInv, NEW p \in Procs, NEW e \in Emails, NEW pw \in Passwords, LoginCall(p, e, pw)
  PROVE  CliInv'
<1> USE DEF SessionInv, CliInv
<1>1. /\ proc[p].pc = "call" /\ proc[p].cmd = "login" /\ http[p] = Idle
      /\ UNCHANGED <<users, rows, stale, access, config, proc, ran, calm>>
      /\ \/ \E u \in UserIds : Goto(p, "issue", 0, u)
         \/ \E s \in {"401", "403"} : Reply(p, s)
  BY DEF LoginCall, HandleLogin, GetUserByEmail, userStoreVars, cliVars
<1>2. /\ \A d \in Callers : d # p => http'[d] = http[d]
      /\ \/ http'[p].pc = "issue" /\ http'[p].tok = 0
         \/ http'[p].pc = "replied" /\ http'[p].reply # "200"
  BY <1>1, OperatorsElsewhere, GotoShape, AnswerShape
<1>3. CliTypes' /\ OperatorInv' /\ RanInv'
  BY <1>1, <1>2, CliElsewhere DEF CliTypes
<1>4. p \in Running /\ \A q \in Procs : q \in Callers
  BY <1>1 DEF Running, Callers
<1>5. ASSUME calm
      PROVE  /\ stale = {} /\ config.token = config.refresh /\ proc[p].mem = config
             /\ proc[p].result # "relogin" /\ Live(config.refresh)
  BY <1>1, <1>4, <1>5 DEF CalmInv, CalmProc
<1>6. ASSUME calm' PROVE CalmProc(p)'
  BY <1>1, <1>2, <1>5, <1>6 DEF CalmProc, Live
<1>7. CalmInv'
  BY <1>1, <1>2, <1>4, <1>5, <1>6, CalmOne
<1>8. QED
  BY <1>3, <1>7

(* Nobody logs out in a calm behaviour. *)
LEMMA CliLogoutCall ==
  ASSUME SessionInv, NEW p \in Procs, LogoutCall(p) PROVE CliInv'
<1> USE DEF SessionInv, CliInv
<1>1. /\ proc[p].pc = "call" /\ proc[p].cmd = "logout"
      /\ UNCHANGED <<config, proc, ran, calm>>
      /\ \/ \E n, u : Goto(p, "forget", n, u)
         \/ \E s \in {"401", "200"} : Reply(p, s)
  BY DEF LogoutCall, HandleLogout, cliVars
<1>2. \A d \in Callers : d # p => http'[d] = http[d]
  BY <1>1, OperatorsElsewhere, GotoShape, AnswerShape
<1>3. CliTypes' /\ OperatorInv' /\ RanInv'
  BY <1>1, <1>2, CliElsewhere DEF CliTypes
<1>4. p \in Running
  BY <1>1 DEF Running
<1>5. ~calm
  BY <1>1, <1>4 DEF CalmInv, CalmProc
<1>6. QED
  BY <1>1, <1>3, <1>5 DEF CalmInv

(* The token presented is the one of the file: it is in the table, has not *)
(* expired, and its user exists.                                           *)
LEMMA CliRefreshCall ==
  ASSUME SessionInv, NEW p \in Procs, RefreshCall(p) PROVE CliInv'
<1> USE DEF SessionInv, CliInv
<1> DEFINE n == proc[p].mem.refresh
<1>1. /\ proc[p].pc = "refresh" /\ http[p] = Idle
      /\ UNCHANGED <<users, rows, stale, access, config, proc, ran, calm>>
      /\ IF n \in rows THEN Goto(p, IF n \in stale THEN "drop" ELSE "rotate", n, claims[n].user)
         ELSE Reply(p, "401")
  BY DEF RefreshCall, HandleRefresh, GetRefreshTokenByHash, userStoreVars, cliVars
<1>2. \A d \in Callers : d # p => http'[d] = http[d]
  BY <1>1, OperatorsElsewhere, GotoShape, AnswerShape
<1>3. CliTypes' /\ OperatorInv' /\ RanInv'
  BY <1>1, <1>2, CliElsewhere DEF CliTypes
<1>4. p \in Running /\ \A q \in Procs : q \in Callers
  BY <1>1 DEF Running, Callers
<1>5. ASSUME calm
      PROVE  /\ stale = {} /\ config.token = config.refresh /\ proc[p].mem = config
             /\ proc[p].result # "relogin" /\ proc[p].cmd # "logout" /\ Live(config.refresh)
  BY <1>1, <1>4, <1>5 DEF CalmInv, CalmProc, Idle
<1>6. ASSUME calm' PROVE CalmProc(p)'
  <2>1. n \in rows /\ n \notin stale
    BY <1>1, <1>5, <1>6 DEF Live
  <2>2. http'[p].pc = "rotate" /\ http'[p].user = claims[n].user
    BY <1>1, <1>4, <2>1, GotoShape
  <2>3. Exists(http[p].user)'
    BY <1>1, <2>1, <2>2 DEF ServiceInv, NoTokenOfDeletedUser, Exists
  <2>4. QED
    BY <1>1, <1>5, <1>6, <2>2, <2>3 DEF CalmProc
<1>7. CalmInv'
  BY <1>1, <1>2, <1>4, <1>5, <1>6, CalmOne
<1>8. QED
  BY <1>3, <1>7

(* Answers to the client. *)
LEMMA CliLoginDone ==
  ASSUME SessionInv, NEW p \in Procs, LoginDone(p) PROVE CliInv'
<1> USE DEF SessionInv, CliInv
<1>1. /\ proc[p].pc = "call" /\ proc[p].cmd = "login" /\ http[p].pc = "replied"
      /\ UNCHANGED <<users, rows, stale, access, ran, calm>>
      /\ http' = [http EXCEPT ![p] = Idle]
      /\ \/ /\ http[p].reply = "200"
            /\ config' = [token |-> http[p].tok, refresh |-> http[p].tok] /\ End(p, "ok")
         \/ UNCHANGED config /\ End(p, "failed")
  BY DEF LoginDone, Receive, userStoreVars
<1>2. http'[p] = Idle /\ \A d \in Callers : d # p => http'[d] = http[d]
  BY <1>1, OperatorsElsewhere, HttpShape
<1>3. /\ proc' \in [Procs -> Invocations]
      /\ \A q \in Procs : q # p => proc'[q] = proc[q]
      /\ proc'[p].pc = "done" /\ proc'[p].result # "relogin"
  BY <1>1, EndShape
<1>4. CliTypes' /\ OperatorInv' /\ RanInv'
  <2>1. http[p].tok \in 0..MaxTokens
    BY OperatorsElsewhere DEF ServiceInv, ServiceTypeOK, Handlers
  <2>2. config' \in Tokens
    BY <1>1, <2>1 DEF CliTypes, Tokens
  <2>3. \A c \in Operators : http'[c] = http[c]
    BY <1>2, OperatorsElsewhere
  <2>4. QED
    BY <1>1, <1>3, <2>2, <2>3 DEF CliTypes, OperatorInv, RanInv
<1>5. p \in Running /\ \A q \in Procs : q \in Callers
  BY <1>1 DEF Running, Callers
<1>6. ASSUME calm
      PROVE  /\ stale = {} /\ config.token = config.refresh /\ Live(config.refresh)
             /\ http[p].reply = "200" => Live(http[p].tok)
  BY <1>1, <1>5, <1>6 DEF CalmInv, CalmProc, Idle
<1>7. ASSUME calm' PROVE Live(config.refresh)' /\ config'.token = config'.refresh
  BY <1>1, <1>6, <1>7 DEF Live
<1>8. Idle.pc = "idle"
  BY DEF Idle
<1>9. CalmInv'
  BY <1>1, <1>2, <1>3, <1>5, <1>6, <1>7, <1>8, CalmOne
<1>10. QED
  BY <1>4, <1>9

LEMMA CliLogoutDone ==
  ASSUME SessionInv, NEW p \in Procs, LogoutDone(p) PROVE CliInv'
<1> USE DEF SessionInv, CliInv
<1>1. /\ proc[p].pc = "call" /\ proc[p].cmd = "logout" /\ config' = NoTokens
      /\ proc' = [proc EXCEPT ![p] = [proc[p] EXCEPT !.pc = "done", !.result = "ok"]]
      /\ http' = [http EXCEPT ![p] = Idle] /\ UNCHANGED <<ran, calm>>
  BY DEF LogoutDone, Receive
<1>2. http'[p] = Idle /\ \A d \in Callers : d # p => http'[d] = http[d]
  BY <1>1, OperatorsElsewhere, HttpShape
<1> DEFINE r == [proc[p] EXCEPT !.pc = "done", !.result = "ok"]
<1>3. r \in Invocations /\ r.pc = "done"
  BY DEF CliTypes, Invocations
<1>4. proc' = [proc EXCEPT ![p] = r]
  BY <1>1
<1> HIDE DEF r
<1>5. config' \in Tokens
  <2>1. 0 \in 0..MaxTokens
    BY UserAssumption
  <2>2. QED
    BY <1>1, <2>1 DEF NoTokens, Tokens
<1>6. CliTypes' /\ OperatorInv' /\ RanInv'
  BY <1>1, <1>2, <1>3, <1>4, <1>5, OperatorsElsewhere DEF CliTypes, OperatorInv, RanInv
<1>7. p \in Running
  BY <1>1 DEF Running
<1>8. ~calm
  BY <1>1, <1>7 DEF CalmInv, CalmProc
<1>9. QED
  BY <1>1, <1>6, <1>8 DEF CalmInv
(* The retry is made with the pair that was just stored. *)
LEMMA CliRefreshDone ==
  ASSUME SessionInv, NEW p \in Procs, RefreshDone(p) PROVE CliInv'
<1> USE DEF SessionInv, CliInv
<1> DEFINE m == [token |-> http[p].tok, refresh |-> http[p].tok]
<1>1. /\ proc[p].pc = "refresh" /\ http[p].pc = "replied"
      /\ UNCHANGED <<users, rows, stale, access, ran>>
      /\ http' = [http EXCEPT ![p] = Idle]
      /\ \/ http[p].reply = "200" /\ config' = m /\ Set(p, "retry", m) /\ UNCHANGED calm
         \/ UNCHANGED config /\ Set(p, "retry", m) /\ calm' = FALSE
         \/ UNCHANGED config /\ End(p, "relogin") /\ calm' = FALSE
         \/ http[p].reply # "200" /\ UNCHANGED <<config, calm>> /\ End(p, "relogin")
  BY DEF RefreshDone, Receive, Persist, userStoreVars
<1>2. http'[p] = Idle /\ (\A d \in Callers : d # p => http'[d] = http[d]) /\ Idle.pc = "idle"
  <2>1. p \in Callers /\ ServiceInv /\ http' = [http EXCEPT ![p] = Idle]
    BY <1>1, OperatorsElsewhere
  <2>2. http'[p] = Idle /\ \A d \in Callers : d # p => http'[d] = http[d]
    BY <2>1, HttpShape
  <2>3. Idle.pc = "idle"
    BY DEF Idle
  <2> QED
    BY <2>2, <2>3
<1>3. m \in Tokens /\ m.token = http[p].tok /\ m.refresh = http[p].tok
  <2>1. http[p].tok \in 0..MaxTokens
    BY OperatorsElsewhere DEF ServiceInv, ServiceTypeOK, Handlers
  <2>2. QED
    BY <2>1 DEF Tokens
<1> HIDE DEF m
<1>4. /\ proc' \in [Procs -> Invocations]
      /\ \A q \in Procs : q # p => proc'[q] = proc[q]
      /\ \/ Set(p, "retry", m) /\ proc'[p].pc = "retry" /\ proc'[p].mem = m
            /\ proc'[p].cmd = proc[p].cmd /\ proc'[p].result = proc[p].result
         \/ End(p, "relogin") /\ proc'[p].pc = "done"
  <2>1. CASE Set(p, "retry", m)
    BY <1>3, <2>1, SetShape
  <2>2. CASE End(p, "relogin")
    BY <2>2, EndShape
  <2>3. QED
    BY <1>1, <2>1, <2>2
<1>5. CliTypes' /\ OperatorInv' /\ RanInv'
  <2>1. \A c \in Operators : http'[c] = http[c]
    BY <1>2, OperatorsElsewhere
  <2>2. QED
    BY <1>1, <1>3, <1>4, <2>1 DEF CliTypes, OperatorInv, RanInv
<1>6. p \in Running /\ \A q \in Procs : q \in Callers
  BY <1>1 DEF Running, Callers
<1>7. ASSUME calm
      PROVE  /\ stale = {} /\ proc[p].result # "relogin" /\ proc[p].cmd # "logout"
             /\ http[p].reply = "200" /\ Live(http[p].tok) /\ access[http[p].tok] = "valid"
  BY <1>1, <1>2, <1>6, <1>7 DEF CalmInv, CalmProc
<1>8. CalmInv'
  <2> SUFFICES ASSUME calm' PROVE CalmInv'
    BY DEF CalmInv
  <2>1. calm /\ config' = m /\ Set(p, "retry", m)
    BY <1>1, <1>7
  <2>2. /\ proc'[p].pc = "retry" /\ proc'[p].mem = m
        /\ proc'[p].cmd = proc[p].cmd /\ proc'[p].result = proc[p].result
    BY <1>3, <2>1, SetShape
  <2>3. CalmProc(p)'
    BY <1>1, <1>2, <1>3, <1>7, <2>1, <2>2 DEF CalmProc, Live
  <2>4. QED
    BY <1>1, <1>2, <1>3, <1>4, <1>6, <1>7, <2>1, <2>2, <2>3, CalmOne
<1>9. QED
  BY <1>5, <1>8

-------------------------------------------------------------------------------
(* The server, seen from the client *)

LEMMA StepShape ==
  ASSUME ServiceInv, NEW c \in Callers, HandlerStep(c) \/ HandlerAbort(c)
  PROVE  /\ \A d \in Callers : d # c => http'[d] = http[d]
         /\ http[c].pc \notin {"idle", "replied"}
         /\ http[c].pc \in {"update", "insert"} => http'[c].pc = "replied"
<1>1. CASE IssueTokens(c)
  <2> DEFINE r == [Idle EXCEPT !.pc = "replied", !.tok = NextPair, !.reply = "200"]
  <2>1. http[c].pc = "issue" /\ (http' = [http EXCEPT ![c] = r] \/ Reply(c, "500"))
    BY <1>1 DEF IssueTokens
  <2> HIDE DEF r
  <2>2. QED
    BY <2>1, HttpShape, AnswerShape
<1>2. CASE \/ RefreshExpired(c) \/ WriteBack(c) \/ HandlerAbort(c)
           \/ \E ok \in BOOLEAN : LogoutDelete(c, ok)
           \/ \E u \in UserIds : InsertUser(c, u)
  <2>1. http[c].pc \notin {"idle", "replied"} /\ \E s : Reply(c, s)
    BY <1>2 DEF RefreshExpired, WriteBack, HandlerAbort, LogoutDelete, InsertUser
  <2>2. QED
    BY <2>1, AnswerShape
<1>3. CASE RefreshUser(c) \/ \E ok \in BOOLEAN : RefreshDelete(c, ok)
  <2>1. /\ http[c].pc \in {"reload", "rotate"}
        /\ (\E r : http' = [http EXCEPT ![c] = r]) \/ Reply(c, "401")
    BY <1>3 DEF RefreshUser, RefreshDelete
  <2>2. QED
    BY <2>1, HttpShape, AnswerShape
<1>4. QED
  BY <1>1, <1>2, <1>3 DEF HandlerStep

(* A handler that works for an operator, or ends one user's row. *)
LEMMA OperatorKept ==
  ASSUME CliInv, NEW c \in Callers, \A d \in Callers : d # c => http'[d] = http[d],
         c \in Operators => http'[c].pc \in {"idle", "update", "insert", "replied"},
         UNCHANGED <<config, proc, ran>>, calm' \in BOOLEAN
  PROVE  CliTypes' /\ OperatorInv' /\ RanInv'
BY DEF CliInv, CliTypes, OperatorInv, RanInv, Callers

(* Of a process, the handler of its login or of its refresh goes on. *)
LEMMA CliServerProc ==
  ASSUME SessionInv, NEW p \in Procs, ServerStep(p) PROVE CliInv'
<1> USE DEF SessionInv, CliInv
<1>1. /\ HandlerStep(p) /\ UNCHANGED <<config, proc, ran>>
      /\ calm' = (calm /\ ~(http[p].pc = "issue" /\ NextPair \notin Pairs))
  BY DEF ServerStep
<1>2. p \in Callers /\ p \notin Operators
  BY OperatorsElsewhere
<1>3. (\A d \in Callers : d # p => http'[d] = http[d]) /\ http[p].pc \notin {"idle", "replied"}
  BY <1>1, <1>2, StepShape
<1>4. CliTypes' /\ OperatorInv' /\ RanInv'
  BY <1>1, <1>2, <1>3, OperatorKept DEF CliTypes
<1>5. CalmInv'
  <2> SUFFICES ASSUME calm' PROVE CalmInv'
    BY DEF CalmInv
  <2>1. calm /\ CalmInv /\ (http[p].pc = "issue" => NextPair \in Pairs)
    BY <1>1
  <2>2. p \in Running /\ \A q \in Procs : q \in Callers
    BY <1>3, <2>1 DEF CalmInv, Callers
  <2>3. /\ CalmProc(p) /\ config.token = config.refresh /\ stale = {} /\ proc[p].result # "relogin"
    BY <2>1, <2>2 DEF CalmInv
  <2>4. /\ http[p] # Idle
        /\ \/ /\ proc[p].pc = "call" /\ proc[p].cmd = "login" /\ http[p].pc = "issue"
              /\ http[p].tok = 0 /\ Live(config.refresh)
           \/ /\ proc[p].pc = "refresh" /\ http[p].pc \in {"rotate", "reload", "issue"}
              /\ Exists(http[p].user)
        /\ proc[p].cmd # "logout" /\ proc[p].mem = config
    BY <1>3, <2>2, <2>3 DEF CalmProc, Idle, Running, CliTypes, Invocations
  <2>5. CASE IssueTokens(p)
    <3> DEFINE n == NextPair
               r == [Idle EXCEPT !.pc = "replied", !.tok = n, !.reply = "200"]
    <3>1. http[p].pc = "issue" /\ n \in Pairs /\ UNCHANGED <<stale, users>>
      BY <2>1, <2>5 DEF IssueTokens
    <3>2. r.pc = "replied" /\ r.tok = n /\ r.reply = "200"
      BY DEF Idle
    <3>3. CASE Exists(http[p].user)
      <4>1. /\ rows' = rows \cup {n} /\ access' = [access EXCEPT ![n] = "valid"]
            /\ http' = [http EXCEPT ![p] = r]
        BY <2>5, <3>1, <3>3 DEF IssueTokens, CanCreateRefreshToken, CreateRefreshToken
      <4>2. access'[n] = "valid" /\ n # 0
        BY <3>1, <4>1 DEF ServiceInv, ServiceTypeOK, UserStoreTypeOK, Pairs
      <4>3. http'[p] = r
        BY <1>2, <4>1, HttpShape
      <4> HIDE DEF r, n
      <4>4. CalmProc(p)'
        BY <1>1, <2>4, <3>2, <4>1, <4>2, <4>3 DEF CalmProc, Live
      <4>5. QED
        BY <1>1, <1>3, <2>2, <2>3, <2>4, <3>1, <4>4, CalmOne
    <3>4. CASE ~Exists(http[p].user)
      <4>1. Reply(p, "500") /\ UNCHANGED <<rows, access>>
        BY <2>5, <3>4 DEF IssueTokens, CanCreateRefreshToken
      <4>2. http'[p].pc = "replied" /\ http'[p].reply # "200"
        BY <1>2, <4>1, AnswerShape
      <4>3. CalmProc(p)'
        BY <1>1, <2>4, <3>4, <4>1, <4>2 DEF CalmProc, Live
      <4>4. QED
        BY <1>1, <1>3, <2>2, <2>3, <2>4, <3>1, <4>3, CalmOne
    <3>5. QED
      BY <3>3, <3>4
  <2>6. CASE RefreshUser(p) \/ \E ok \in BOOLEAN : RefreshDelete(p, ok)
    <3>1. proc[p].pc = "refresh" /\ Exists(http[p].user)
      BY <2>4, <2>6 DEF RefreshUser, RefreshDelete
    <3>2. PICK pc \in {"reload", "issue"} :
            http' = [http EXCEPT ![p].pc = pc] /\ UNCHANGED <<stale, users>>
      BY <2>6, <3>1 DEF RefreshUser, RefreshDelete, userStoreVars
    <3> DEFINE r == [http[p] EXCEPT !.pc = pc]
    <3>3. r.pc = pc /\ r.user = http[p].user
      BY <1>2 DEF ServiceInv, ServiceTypeOK, Handlers
    <3>4. http' = [http EXCEPT ![p] = r]
      BY <3>2
    <3> HIDE DEF r
    <3>5. http'[p] = r
      BY <1>2, <3>4, HttpShape
    <3>6. Exists(http[p].user)'
      BY <3>1, <3>2, <3>3, <3>5 DEF Exists
    <3>7. CalmProc(p)'
      BY <1>1, <2>4, <3>1, <3>2, <3>3, <3>5, <3>6 DEF CalmProc
    <3>8. QED
      BY <1>1, <1>3, <2>2, <2>3, <2>4, <3>1, <3>2, <3>7, CalmOne
  <2>7. CASE ~IssueTokens(p) /\ ~(RefreshUser(p) \/ \E ok \in BOOLEAN : RefreshDelete(p, ok))
    BY <1>1, <2>4, <2>7 DEF HandlerStep, RefreshExpired, WriteBack, LogoutDelete, InsertUser
  <2>8. QED
    BY <2>5, <2>6, <2>7
<1>6. QED
  BY <1>4, <1>5
(* An operator's handler writes a user's row; users stay. *)
LEMMA CliServerOperator ==
  ASSUME SessionInv, NEW c \in Operators, ServerStep(c) PROVE CliInv'
<1> USE DEF SessionInv, CliInv
<1>1. /\ HandlerStep(c) /\ UNCHANGED <<config, proc, ran>> /\ c \in Callers
      /\ calm' = (calm /\ ~(http[c].pc = "issue" /\ NextPair \notin Pairs))
  BY DEF ServerStep, Callers
<1>2. /\ \A d \in Callers : d # c => http'[d] = http[d]
      /\ http[c].pc \in {"update", "insert"} /\ http'[c].pc = "replied"
  BY <1>1, StepShape DEF OperatorInv
<1>3. CliTypes' /\ OperatorInv' /\ RanInv'
  BY <1>1, <1>2, OperatorKept DEF CliTypes
<1>4. /\ UNCHANGED <<rows, stale, access>>
      /\ \A u \in UserIds : Exists(u) => Exists(u)'
  <2>1. CASE WriteBack(c)
    <3> DEFINE v == http[c].user
               row == http[c].row
    <3>1. /\ UNCHANGED <<rows, stale, access>> /\ http[c].pc = "update"
          /\ users' = IF Exists(v) THEN [users EXCEPT ![v] = row] ELSE users
      BY <2>1 DEF WriteBack, UpdateUser
    <3>2. v \in UserIds /\ row \in Row
      BY <1>1, <3>1 DEF ServiceInv, HandlerInv
    <3> HIDE DEF v, row
    <3>3. QED
      BY <3>1, <3>2, RowsDiffer DEF Exists, ServiceInv, ServiceTypeOK, UserStoreTypeOK
  <2>2. ASSUME NEW v \in UserIds, InsertUser(c, v) PROVE <1>4!1 /\ <1>4!2
    <3> DEFINE row == http[c].row
    <3>1. /\ UNCHANGED <<rows, stale, access>> /\ http[c].pc = "insert" /\ users[v] = Unused
          /\ users' = [users EXCEPT ![v] = row] \/ users' = users
      BY <2>2 DEF InsertUser, CreateUser
    <3> HIDE DEF row
    <3>2. QED
      BY <3>1 DEF Exists, ServiceInv, ServiceTypeOK, UserStoreTypeOK
  <2>3. QED
    BY <1>1, <1>2, <2>1, <2>2 DEF HandlerStep, IssueTokens, RefreshExpired, RefreshUser,
       RefreshDelete, LogoutDelete
<1>5. \A q \in Procs : http'[q] = http[q]
  BY <1>2, OperatorsElsewhere
<1>6. CalmInv'
  BY <1>1, <1>4, <1>5, CalmOthers
<1>7. QED
  BY <1>3, <1>6

(* An operator's request: only the deletion of a user disturbs a session. *)
LEMMA CliOperatorCall ==
  ASSUME SessionInv, NEW c \in Operators, OperatorCall(c) PROVE CliInv'
<1> USE DEF SessionInv, CliInv
<1>1. UNCHANGED <<config, proc, ran>> /\ c \in Callers
  BY DEF OperatorCall, Callers
<1>2. CASE \E u \in UserIds : HandleDeleteUser(c, u) /\ calm' = FALSE
  <2>1. Reply(c, "200") /\ calm' = FALSE
    BY <1>2 DEF HandleDeleteUser
  <2>2. (\A d \in Callers : d # c => http'[d] = http[d]) /\ http'[c].pc = "replied"
    BY <1>1, <2>1, AnswerShape
  <2>3. QED
    BY <1>1, <2>1, <2>2, OperatorKept DEF CalmInv
<1>3. CASE ~\E u \in UserIds : HandleDeleteUser(c, u) /\ calm' = FALSE
  <2>1. /\ UNCHANGED <<users, rows, stale, access, calm>>
        /\ \/ \E u, row, ch : http' = [http EXCEPT ![c] =
                [Idle EXCEPT !.pc = "update", !.user = u, !.row = row, !.ch = ch]]
           \/ \E row : http' = [http EXCEPT ![c] = [Idle EXCEPT !.pc = "insert", !.row = row]]
           \/ Reply(c, "409")
    <3>1. CASE \E n \in Pairs, pw \in Passwords : HandleChangePassword(c, n, pw) /\ UNCHANGED calm
      <4>1. UNCHANGED calm /\ \E u, row, ch : ReadToUpdate(c, u, row, ch)
        BY <3>1 DEF HandleChangePassword
      <4>2. QED
        BY <4>1 DEF ReadToUpdate, userStoreVars
    <3>2. CASE \E u \in UserIds, a \in BOOLEAN, pw \in Passwords :
                 HandleUpdateUser(c, u, a, pw) /\ UNCHANGED calm
      <4>1. UNCHANGED calm /\ \E u, row, ch : ReadToUpdate(c, u, row, ch)
        BY <3>2 DEF HandleUpdateUser
      <4>2. QED
        BY <4>1 DEF ReadToUpdate, userStoreVars
    <3>3. CASE \E e \in Emails, pw \in Passwords, a \in BOOLEAN :
                 HandleCreateUser(c, e, pw, a) /\ UNCHANGED calm
      BY <3>3 DEF HandleCreateUser, userStoreVars
    <3>4. QED
      BY <1>3, <3>1, <3>2, <3>3 DEF OperatorCall
  <2>2. /\ \A d \in Callers : d # c => http'[d] = http[d]
        /\ http'[c].pc \in {"update", "insert", "replied"}
    <3>1. ASSUME NEW u, NEW row, NEW ch,
                 http' = [http EXCEPT ![c] =
                   [Idle EXCEPT !.pc = "update", !.user = u, !.row = row, !.ch = ch]]
          PROVE  <2>2!1 /\ <2>2!2
      <4> DEFINE r == [Idle EXCEPT !.pc = "update", !.user = u, !.row = row, !.ch = ch]
      <4>1. r.pc = "update"
        BY DEF Idle
      <4> HIDE DEF r
      <4>2. http' = [http EXCEPT ![c] = r]
        BY <3>1 DEF r
      <4>3. QED
        BY <1>1, <4>1, <4>2, HttpShape
    <3>2. ASSUME NEW row, http' = [http EXCEPT ![c] = [Idle EXCEPT !.pc = "insert", !.row = row]]
          PROVE  <2>2!1 /\ <2>2!2
      <4> DEFINE r == [Idle EXCEPT !.pc = "insert", !.row = row]
      <4>1. r.pc = "insert"
        BY DEF Idle
      <4> HIDE DEF r
      <4>2. http' = [http EXCEPT ![c] = r]
        BY <3>2 DEF r
      <4>3. QED
        BY <1>1, <4>1, <4>2, HttpShape
    <3>3. CASE Reply(c, "409")
      BY <1>1, <3>3, AnswerShape
    <3>4. QED
      BY <2>1, <3>1, <3>2, <3>3
  <2>3. \A q \in Procs : http'[q] = http[q]
    BY <2>2, OperatorsElsewhere
  <2>4. CalmInv'
    BY <1>1, <2>1, <2>3, CalmOthers DEF Exists
  <2>5. QED
    BY <1>1, <2>1, <2>2, <2>4, OperatorKept DEF CliTypes
<1>4. QED
  BY <1>2, <1>3

LEMMA CliDisturbance ==
  ASSUME SessionInv, Disturbance PROVE CliInv'
<1> USE DEF SessionInv, CliInv
<1>1. UNCHANGED <<config, proc, ran>> /\ calm' = FALSE
  BY DEF Disturbance
<1>2. CliTypes' /\ RanInv' /\ CalmInv'
  BY <1>1 DEF CliTypes, RanInv, CalmInv
<1>3. OperatorInv'
  <2>1. CASE \E p \in Running : RateLimited(p)
    <3>1. PICK p \in Procs : Reply(p, "429")
      BY <2>1 DEF Running, RateLimited
    <3>2. QED
      BY <3>1, AnswerShape, OperatorsElsewhere DEF OperatorInv
  <2>2. CASE \E c \in Callers : HandlerAbort(c)
    <3>1. PICK c \in Callers : \E s : Reply(c, s)
      BY <2>2 DEF HandlerAbort
    <3>2. QED
      BY <3>1, AnswerShape DEF OperatorInv, Callers
  <2>3. CASE \E n \in Pairs : RefreshExpires(n)
    BY <2>3 DEF RefreshExpires, handlerVars, OperatorInv
  <2>4. CASE \E u \in UserIds : CentralRestart(u)
    <3> DEFINE r == [Idle EXCEPT !.pc = "replied", !.reply = "500"]
    <3>1. r.pc = "replied" /\ Idle.pc = "idle"
      BY DEF Idle
    <3>2. http' = [c \in Callers |-> IF http[c] = Idle THEN Idle ELSE r]
      BY <2>4 DEF CentralRestart
    <3> HIDE DEF r
    <3>3. QED
      BY <3>1, <3>2 DEF OperatorInv, Callers
  <2>5. QED
    BY <2>1, <2>2, <2>3, <2>4 DEF Disturbance
<1>4. QED
  BY <1>2, <1>3

LEMMA CliExpiry ==
  ASSUME SessionInv, Expiry PROVE CliInv'
<1> USE DEF SessionInv, CliInv
<1>1. UNCHANGED <<config, proc, ran, users, http>>
  BY DEF Expiry, RefreshTokenCleanup, AccessExpires, cliVars, handlerVars
<1>2. CASE RefreshTokenCleanup /\ UNCHANGED cliVars
  <2>1. ~calm /\ calm' = calm
    BY <1>2 DEF RefreshTokenCleanup, CalmInv, cliVars
  <2>2. QED
    BY <1>1, <2>1 DEF CliTypes, OperatorInv, RanInv, CalmInv
<1>3. ASSUME NEW n \in Pairs, AccessExpires(n),
             calm' = (calm /\ \A p \in Procs : ~Retrying(p, n))
      PROVE  CliInv'
  <2>1. CalmInv'
    BY <1>1, <1>3, CalmOthers DEF AccessExpires, Exists, ServiceInv, ServiceTypeOK, UserStoreTypeOK
  <2>2. CliTypes' /\ OperatorInv' /\ RanInv'
    BY <1>1, <1>3 DEF CliTypes, OperatorInv, RanInv
  <2>3. QED
    BY <2>1, <2>2
<1>4. QED
  BY <1>2, <1>3 DEF Expiry

-------------------------------------------------------------------------------
LEMMA SessionInit == Init => SessionInv
<1> SUFFICES ASSUME Init PROVE SessionInv
  OBVIOUS
<1>1. PICK plan \in Plans : /\ ServiceInit({c \in Callers : plan[c] # "none"})
                            /\ proc = [p \in Procs |-> Invocation(plan[p])]
  BY DEF Init
<1>2. /\ config = [token |-> 1, refresh |-> 1] /\ ran = [p \in Procs |-> 0] /\ calm = TRUE
  BY DEF Init
<1>3. ServiceInv
  BY <1>1, ServiceStart
<1>4. \A p \in Procs : plan[p] \in Commands \cup {"none"}
  BY PlanAssumption
<1>5. 0 \in 0..MaxTokens /\ 1 \in 0..MaxTokens
  BY UserAssumption
<1>6. NoTokens \in Tokens /\ config \in Tokens
  BY <1>2, <1>5 DEF NoTokens, Tokens
<1>7. \A p \in Procs : Invocation(plan[p]) \in Invocations
  BY <1>4, <1>6 DEF Invocation, Invocations
<1>8. CliTypes
  BY <1>1, <1>2, <1>6, <1>7 DEF CliTypes
<1>9. /\ \A c \in Callers : http[c].pc \in {"idle", "replied"}
      /\ \A c \in Callers : plan[c] # "none" => http[c] = Idle
  BY <1>1 DEF ServiceInit, Idle
<1>10. OperatorInv /\ RanInv
  BY <1>2, <1>9 DEF OperatorInv, RanInv, Callers
<1>11. /\ \A p \in Procs : proc[p].result # "relogin" /\ proc[p].pc \in {"new", "done"}
       /\ \A p \in Procs : proc[p].pc = "new" => plan[p] # "none"
  BY <1>1 DEF Invocation
<1>12. stale = {} /\ Live(config.refresh) /\ config.token = config.refresh
  BY <1>1, <1>2 DEF ServiceInit, Live
<1>13. Running = {}
  BY <1>11 DEF Running
<1>14. CalmInv
  BY <1>9, <1>11, <1>12, <1>13 DEF CalmInv, Callers
<1>15. QED
  BY <1>3, <1>8, <1>10, <1>14 DEF SessionInv, CliInv

LEMMA SessionNext == SessionInv /\ [Next]_vars => SessionInv'
<1> SUFFICES ASSUME SessionInv, [Next]_vars PROVE SessionInv'
  OBVIOUS
<1>1. ServiceInv /\ CliTypes
  BY DEF SessionInv, CliInv
<1>2. ASSUME NEW p \in Procs, ClientStep(p) \/ ProcGone(p) \/ Start(p) PROVE SessionInv'
  <2>1. p \in Callers
    BY DEF Callers
  <2>2. proc[p].mem.token \in 0..MaxTokens /\ proc[p].mem.refresh \in 0..MaxTokens
    BY <1>1 DEF CliTypes, Invocations, Tokens
  <2>3. CliInv'
    BY <1>2, CliStart, CliFirstAttempt, CliSecondAttempt, CliUseSave, CliGone, CliLoginCall,
       CliLogoutCall, CliRefreshCall, CliLoginDone, CliLogoutDone, CliRefreshDone DEF ClientStep
  <2>4. CASE Start(p) \/ FirstAttempt(p) \/ SecondAttempt(p) \/ UseSave(p) \/ ProcGone(p)
    BY <1>1, <2>3, <2>4, ServiceTime DEF SessionInv, Start, FirstAttempt, SecondAttempt, UseSave, ProcGone
  <2>5. CASE LoginDone(p) \/ LogoutDone(p) \/ RefreshDone(p)
    BY <1>1, <2>1, <2>3, <2>5, ServiceReceive DEF SessionInv, LoginDone, LogoutDone, RefreshDone
  <2>6. CASE LogoutCall(p) \/ RefreshCall(p) \/ \E e \in Emails, pw \in Passwords : LoginCall(p, e, pw)
    BY <1>1, <2>1, <2>2, <2>3, <2>6, ServiceLogin, ServiceLogout, ServiceRefresh
       DEF SessionInv, LoginCall, LogoutCall, RefreshCall
  <2>7. QED
    BY <1>2, <2>4, <2>5, <2>6 DEF ClientStep
<1>3. ASSUME NEW c \in Callers, ServerStep(c) PROVE SessionInv'
  <2>1. CliInv'
    BY <1>3, CliServerProc, CliServerOperator DEF Callers
  <2>2. ServiceInv'
    BY <1>1, <1>3, ServiceIssue, ServiceRefreshExpired, ServiceRefreshUser, ServiceWriteBack,
       ServiceRefreshDelete, ServiceLogoutDelete, ServiceInsertUser DEF ServerStep, HandlerStep
  <2>3. QED
    BY <2>1, <2>2 DEF SessionInv
<1>4. ASSUME NEW c \in Operators, OperatorCall(c) PROVE SessionInv'
  <2>1. c \in Callers
    BY DEF Callers
  <2>2. ServiceInv'
    BY <1>1, <1>4, <2>1, ServiceChangePassword, ServiceUpdateUser, ServiceCreateUser,
       ServiceDeleteUser DEF OperatorCall
  <2>3. QED
    BY <1>4, <2>2, CliOperatorCall DEF SessionInv
<1>5. CASE Disturbance
  <2>1. ServiceInv'
    BY <1>1, <1>5, ServiceRateLimited, ServiceAbort, ServiceTime, ServiceRestart
       DEF Disturbance, Running, Callers
  <2>2. QED
    BY <1>5, <2>1, CliDisturbance DEF SessionInv
<1>6. CASE Expiry
  <2>1. ServiceInv'
    BY <1>1, <1>6, ServiceTime DEF Expiry
  <2>2. QED
    BY <1>6, <2>1, CliExpiry DEF SessionInv
<1>7. CASE UNCHANGED vars
  <2>1. ServiceInv'
    BY <1>1, <1>7, ServiceTime DEF vars
  <2>2. UNCHANGED <<config, proc, ran, calm, users, rows, stale, access, http>>
    BY <1>7 DEF vars, cliVars, serviceVars, userStoreVars, handlerVars
  <2>3. CliTypes' /\ OperatorInv' /\ RanInv'
    BY <2>2 DEF SessionInv, CliInv, CliTypes, OperatorInv, RanInv
  <2>4. CalmInv'
    BY <1>1, <2>2, CalmOthers DEF SessionInv, Exists
  <2>5. QED
    BY <2>1, <2>3, <2>4 DEF SessionInv, CliInv
<1>8. QED
  BY <1>2, <1>3, <1>4, <1>5, <1>6, <1>7 DEF Next

(* The invariant of sessions holds of every behaviour: what handlers and   *)
(* invocations of kb hold between two statements, two requests or two      *)
(* reads of the configuration file.                                        *)
THEOREM SessionInvariant == Spec => []SessionInv
BY SessionInit, SessionNext, PTL DEF Spec

(* The tables, the handlers and the invocations keep their types, for any  *)
(* number of them (auth_handlers.go, sqlite_store.go, client.go).          *)
THEOREM SessionTypes == Spec => []TypeOK
<1>1. SessionInv => TypeOK
  BY DEF SessionInv, CliInv, CliTypes, ServiceInv, TypeOK
<1>2. QED
  BY <1>1, SessionInvariant, PTL

(* No refresh token outlives its user, however logins, refreshes and       *)
(* deletions of users overlap (auth_handlers.go 175-207, migrations.go).   *)
THEOREM DeletedUsersHaveNoTokens == Spec => []NoTokenOfDeletedUser
<1>1. SessionInv => NoTokenOfDeletedUser
  BY DEF SessionInv, ServiceInv
<1>2. QED
  BY <1>1, SessionInvariant, PTL

(* Rotation leaves a login one refresh token at a time, for any number of  *)
(* refreshes in progress, unless two of one token overlap or a deletion    *)
(* fails unnoticed (auth_handlers.go 106).                                 *)
THEOREM RotationHolds == Spec => []OneTokenPerLogin
<1>1. SessionInv => OneTokenPerLogin
  BY DEF SessionInv, ServiceInv
<1>2. QED
  BY <1>1, SessionInvariant, PTL

(* Updates of a user that do not overlap are all kept although each writes *)
(* the whole row back (HandleUpdateUser, HandleChangePassword).            *)
THEOREM UpdatesAreKept == Spec => []UpdatesMerge
<1>1. SessionInv => UpdatesMerge
  BY DEF SessionInv, ServiceInv
<1>2. QED
  BY <1>1, SessionInvariant, PTL

(* Central executes the request of an invocation at most once although it  *)
(* is sent again after a refresh (client.go doRequest).                    *)
THEOREM RequestsRunOnce == Spec => []RunsOnce
<1>1. SessionInv => RunsOnce
  BY DEF SessionInv, CliInv, RanInv, RunsOnce
<1>2. QED
  BY <1>1, SessionInvariant, PTL

(* While invocations do not overlap and nothing ends the session, no       *)
(* invocation is told to log in again (docs/security.md:318): each finds   *)
(* in the file the token the one before it was given, for any number of    *)
(* invocations one after the other.                                        *)
THEOREM RefreshIsTransparent == Spec => []TransparentRefresh
<1>1. SessionInv => TransparentRefresh
  BY DEF SessionInv, CliInv, CalmInv, TransparentRefresh
<1>2. QED
  BY <1>1, SessionInvariant, PTL
===============================================================================
