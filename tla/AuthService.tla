------------------------------ MODULE AuthService -----------------------------
(***************************************************************************)
(* The HTTP handlers of AuthHandlers and the user handlers of              *)
(* AdminHandlers over UserStore, one goroutine per request.  A handler     *)
(* runs one statement per step, so handlers of different requests          *)
(* interleave between a handler's statements.                              *)
(*                                                                         *)
(* A caller (a member of Callers) has at most one request: http[c] is the  *)
(* progress of its handler, and the response once pc is "replied".  When   *)
(* the caller goes away the request's context is cancelled and every       *)
(* later statement fails, which ends the handler (HandlerAbort): the error *)
(* of DeleteRefreshToken is ignored, the next statement fails too.         *)
(*                                                                         *)
(* Abstracted: request parsing; the login limiter is a refusal that may    *)
(* happen.                                                                 *)
(***************************************************************************)
EXTENDS UserStore

CONSTANTS Procs,     \* invocations of the kb command
          Operators, \* direct users of the API with an administrator's access token
          Root,      \* the seeded administrator
          Member,    \* a user created before the behaviour starts
          Faults     \* TRUE: statements fail, callers disappear, tokens expire, central restarts

ASSUME CallerAssumption ==
  /\ Procs \cap Operators = {} /\ Faults \in BOOLEAN
  /\ Root \in UserIds /\ Member \in UserIds /\ Root # Member

Callers == Procs \cup Operators

VARIABLES
  http,       \* Callers -> handler and response of the caller's request
  family,     \* token pairs -> the pair of the login it descends from (history)
  doubled,    \* logins with a token refreshed twice or not deleted (history)
  intended,   \* UserIds -> the row with every write applied to its own fields (history)
  crossed     \* users two of whose updates overlapped (history)

handlerVars == <<http, family, doubled, intended, crossed>>
serviceVars == <<userStoreVars, handlerVars>>

Fields == {"pw", "active"}
Idle == [pc |-> "idle", tok |-> 0, user |-> None, row |-> Unused, ch |-> {}, reply |-> "none"]
Pcs == {"idle", "issue", "rotate", "drop", "reload", "forget", "update", "insert", "replied"}
Replies == {"none", "200", "401", "403", "409", "429", "500"}

Handlers == [pc : Pcs, tok : 0..MaxTokens, user : UserIds \cup {None},
             row : Row \cup {Unused}, ch : SUBSET Fields, reply : Replies]

ServiceTypeOK ==
  /\ UserStoreTypeOK
  /\ http \in [Callers -> Handlers]
  /\ family \in [Pairs -> 0..MaxTokens]
  /\ doubled \subseteq 0..MaxTokens
  /\ intended \in [UserIds -> Row \cup {Unused, Deleted}]
  /\ crossed \subseteq UserIds

(* A row written by CreateUser; seeding and administrators differ only in  *)
(* is_admin.                                                               *)
NewRow(e, pw, active, admin) == [email |-> e, pw |-> pw, active |-> active, admin |-> admin]

(* Central has seeded the administrator, who has created the member, who   *)
(* has logged in and holds the first pair.  Callers outside cast make no   *)
(* request.                                                                *)
ServiceInit(cast) ==
  /\ LET pw == CHOOSE w \in Passwords : TRUE
         e == CHOOSE a \in Emails \ {AdminEmail} : TRUE
     IN  users = [u \in UserIds |-> CASE u = Root -> NewRow(AdminEmail, pw, TRUE, TRUE)
                                      [] u = Member -> NewRow(e, pw, TRUE, FALSE)
                                      [] OTHER -> Unused]
  /\ rows = {1} /\ stale = {}
  /\ claims = [n \in Pairs |-> IF n = 1 THEN [user |-> Member, admin |-> FALSE] ELSE NoClaims]
  /\ access = [n \in Pairs |-> IF n = 1 THEN "valid" ELSE "none"]
  /\ http = [c \in Callers |-> IF c \in cast THEN Idle ELSE [Idle EXCEPT !.pc = "replied"]]
  /\ family = [n \in Pairs |-> IF n = 1 THEN 1 ELSE 0]
  /\ doubled = {}
  /\ intended = users
  /\ crossed = {}

Reply(c, s) == http' = [http EXCEPT ![c] = [Idle EXCEPT !.pc = "replied", !.reply = s]]
Goto(c, pc, n, u) == http' = [http EXCEPT ![c] = [Idle EXCEPT !.pc = pc, !.tok = n, !.user = u]]
Receive(c) == http' = [http EXCEPT ![c] = Idle]

(* ValidateAccessToken: the signature and the expiry are all that is       *)
(* checked; AuthMiddleware answers 401 without a valid token.              *)
ValidateAccessToken(n) == n # 0 /\ access[n] = "valid"

(* loginRateLimitMiddleware guards /auth/login and /auth/refresh.          *)
RateLimited(c) ==
  /\ http[c] = Idle
  /\ Reply(c, "429")
  /\ UNCHANGED <<userStoreVars, family, doubled, intended, crossed>>

(* HandleLogin up to issueTokens. *)
HandleLogin(c, e, pw) ==
  /\ http[c] = Idle
  /\ IF \E u \in GetUserByEmail(e) : users[u].pw = pw
     THEN \E u \in GetUserByEmail(e) :
            IF users[u].active THEN Goto(c, "issue", 0, u) ELSE Reply(c, "403")
     ELSE Reply(c, "401")
  /\ UNCHANGED <<userStoreVars, family, doubled, intended, crossed>>

NextPair == Cardinality({n \in Pairs : access[n] # "none"}) + 1

(* issueTokens: an access token with the claims of the row read earlier,   *)
(* a refresh token inserted for its user; 500 when that user is gone, or   *)
(* (the bound stands for a failed read of random bytes) no pair is left.   *)
IssueTokens(c) ==
  /\ http[c].pc = "issue"
  /\ LET u == http[c].user
         n == NextPair
     IN  IF n \in Pairs /\ CanCreateRefreshToken(u)
         THEN /\ CreateRefreshToken(n)
              /\ claims' = [claims EXCEPT ![n] = [user |-> u, admin |-> users[u].admin]]
              /\ access' = [access EXCEPT ![n] = "valid"]
              /\ family' = [family EXCEPT ![n] = IF http[c].tok = 0 THEN n ELSE family[http[c].tok]]
              /\ http' = [http EXCEPT ![c] = [Idle EXCEPT !.pc = "replied", !.tok = n, !.reply = "200"]]
         ELSE Reply(c, "500") /\ UNCHANGED <<rows, claims, access, family>>
  /\ UNCHANGED <<users, stale, doubled, intended, crossed>>

(* The handlers that have read row n and not deleted it yet. *)
Rotating(n) == {d \in Callers : http[d].pc = "rotate" /\ http[d].tok = n}

(* HandleRefresh: look the presented token up (401), check its expiry. *)
HandleRefresh(c, n) ==
  /\ http[c] = Idle
  /\ IF GetRefreshTokenByHash(n)
     THEN Goto(c, IF n \in stale THEN "drop" ELSE "rotate", n, claims[n].user)
     ELSE Reply(c, "401")
  /\ doubled' = IF Rotating(n) # {} THEN doubled \cup {family[n]} ELSE doubled
  /\ UNCHANGED <<userStoreVars, family, intended, crossed>>

(* HandleRefresh of an expired token: delete it and answer 401. *)
RefreshExpired(c) ==
  /\ http[c].pc = "drop"
  /\ DeleteRefreshToken(http[c].tok)
  /\ Reply(c, "401")
  /\ UNCHANGED <<users, stale, claims, access, family, doubled, intended, crossed>>

(* Mutant of RefreshDelete: the used token is not deleted. *)
MutRefreshDelete(c, ok) ==
  /\ http[c].pc = "rotate"
  /\ UNCHANGED rows
  /\ http' = [http EXCEPT ![c].pc = "reload"]
  /\ UNCHANGED <<users, stale, claims, access, family, doubled, intended, crossed>>

(* HandleRefresh, rotation: whether the statement deleted a row, or failed *)
(* (ok is FALSE: the database was locked), is not looked at.               *)
RefreshDelete(c, ok) ==
  /\ http[c].pc = "rotate" /\ (ok \/ Faults)
  /\ IF ok THEN DeleteRefreshToken(http[c].tok) ELSE UNCHANGED rows
  /\ doubled' = IF ok THEN doubled ELSE doubled \cup {family[http[c].tok]}
  /\ http' = [http EXCEPT ![c].pc = "reload"]
  /\ UNCHANGED <<users, stale, claims, access, family, intended, crossed>>

(* HandleRefresh, GetUserByID: 401 without a row; is_active is not read. *)
RefreshUser(c) ==
  /\ http[c].pc = "reload"
  /\ IF Exists(http[c].user) THEN http' = [http EXCEPT ![c].pc = "issue"] ELSE Reply(c, "401")
  /\ UNCHANGED <<userStoreVars, family, doubled, intended, crossed>>

(* HandleLogout behind AuthMiddleware: look the token up, delete it; the   *)
(* answer is 200 whatever was found.                                       *)
HandleLogout(c, a, n) ==
  /\ http[c] = Idle
  /\ IF ~ValidateAccessToken(a) THEN Reply(c, "401")
     ELSE IF GetRefreshTokenByHash(n) THEN Goto(c, "forget", n, None)
     ELSE Reply(c, "200")
  /\ UNCHANGED <<userStoreVars, family, doubled, intended, crossed>>

(* HandleLogout ignores a failed deletion too. *)
LogoutDelete(c, ok) ==
  /\ http[c].pc = "forget" /\ (ok \/ Faults)
  /\ IF ok THEN DeleteRefreshToken(http[c].tok) ELSE UNCHANGED rows
  /\ Reply(c, "200")
  /\ UNCHANGED <<users, stale, claims, access, family, doubled, intended, crossed>>

-------------------------------------------------------------------------------
(* Changes of user rows *)

(* The handlers that have read u's row and not written it back yet. *)
Updating(u) == {d \in Callers : http[d].pc = "update" /\ http[d].user = u}

(* Go on to write row back, of which the request changes the fields ch. *)
ReadToUpdate(c, u, row, ch) ==
  /\ http' = [http EXCEPT ![c] = [Idle EXCEPT !.pc = "update", !.user = u, !.row = row, !.ch = ch]]
  /\ crossed' = IF Updating(u) # {} THEN crossed \cup {u} ELSE crossed
  /\ UNCHANGED <<userStoreVars, family, doubled, intended>>

(* HandleChangePassword up to UpdateUser, for a caller with a token of the *)
(* user who knows the current password; all other calls change nothing.    *)
HandleChangePassword(c, n, pw) ==
  /\ http[c] = Idle
  /\ ValidateAccessToken(n) /\ Exists(claims[n].user)
  /\ ReadToUpdate(c, claims[n].user, [users[claims[n].user] EXCEPT !.pw = pw], {"pw"})

(* Mutant of HandleUpdateUser: a request without is_active deactivates.    *)
MutHandleUpdateUser(c, u, active, pw) ==
  /\ http[c] = Idle /\ Exists(u)
  /\ LET p == pw # users[u].pw
     IN  ReadToUpdate(c, u, [users[u] EXCEPT !.active = active /\ ~p, !.pw = pw],
                      IF p THEN {"pw"} ELSE {"active"})

(* HandleUpdateUser up to UpdateUser, behind AdminRequired: a field absent *)
(* from the request keeps the value that was read, and so does one that is *)
(* set to it.                                                              *)
HandleUpdateUser(c, u, active, pw) ==
  /\ http[c] = Idle /\ Exists(u)
  /\ LET a == active # users[u].active
         p == pw # users[u].pw
     IN  ReadToUpdate(c, u, [users[u] EXCEPT !.active = active, !.pw = pw],
                      (IF a THEN {"active"} ELSE {}) \cup (IF p THEN {"pw"} ELSE {}))

(* The row u would have if row's fields ch had been written alone. *)
Merge(u, row, ch) ==
  [intended[u] EXCEPT !.pw = IF "pw" \in ch THEN row.pw ELSE @,
                      !.active = IF "active" \in ch THEN row.active ELSE @]

(* The rest of HandleChangePassword and HandleUpdateUser: the whole row as *)
(* it was read, with the changes.                                          *)
WriteBack(c) ==
  /\ http[c].pc = "update"
  /\ LET u == http[c].user
     IN  /\ UpdateUser(u, http[c].row)
         /\ intended' = IF Exists(u) THEN [intended EXCEPT ![u] = Merge(u, http[c].row, http[c].ch)]
                        ELSE intended
  /\ Reply(c, "200")
  /\ UNCHANGED <<rows, stale, claims, access, family, doubled, crossed>>

(* HandleCreateUser up to CreateUser: 409 when the e-mail is taken. *)
HandleCreateUser(c, e, pw, active) ==
  /\ http[c] = Idle
  /\ IF GetUserByEmail(e) # {} THEN Reply(c, "409")
     ELSE http' = [http EXCEPT ![c] = [Idle EXCEPT !.pc = "insert",
                                                   !.row = NewRow(e, pw, active, FALSE)]]
  /\ UNCHANGED <<userStoreVars, family, doubled, intended, crossed>>

(* HandleCreateUser, the insert: 500 when another one was first. *)
InsertUser(c, u) ==
  /\ http[c].pc = "insert" /\ users[u] = Unused
  /\ IF CanCreateUser(http[c].row.email)
     THEN CreateUser(u, http[c].row) /\ intended' = [intended EXCEPT ![u] = http[c].row]
                                     /\ Reply(c, "200")
     ELSE UNCHANGED <<users, intended>> /\ Reply(c, "500")
  /\ UNCHANGED <<rows, stale, claims, access, family, doubled, crossed>>

(* HandleDeleteUser: one statement. *)
HandleDeleteUser(c, u) ==
  /\ http[c] = Idle /\ Exists(u)
  /\ DeleteUser(u)
  /\ intended' = [intended EXCEPT ![u] = Deleted]
  /\ Reply(c, "200")
  /\ UNCHANGED <<stale, claims, access, family, doubled, crossed>>

(* The steps of a handler that has begun. *)
HandlerStep(c) ==
  \/ IssueTokens(c) \/ RefreshExpired(c) \/ RefreshUser(c) \/ WriteBack(c)
  \/ \E ok \in BOOLEAN : RefreshDelete(c, ok) \/ LogoutDelete(c, ok)
  \/ \E u \in UserIds : InsertUser(c, u)

(* A statement fails, or the caller is gone and its context cancelled;     *)
(* HandleLogout does not notice (LogoutDelete).                            *)
HandlerAbort(c) ==
  /\ http[c].pc \notin {"idle", "replied", "forget"}
  /\ Reply(c, IF http[c].pc \in {"rotate", "drop", "reload"} THEN "401" ELSE "500")
  /\ UNCHANGED <<userStoreVars, family, doubled, intended, crossed>>

-------------------------------------------------------------------------------
(* Time and restarts *)

(* Expiry of the access token of pair n. *)
AccessExpires(n) ==
  /\ access[n] = "valid"
  /\ access' = [access EXCEPT ![n] = "expired"]
  /\ UNCHANGED <<users, rows, stale, claims, handlerVars>>

RefreshExpires(n) ==
  /\ n \in rows \ stale
  /\ stale' = stale \cup {n}
  /\ UNCHANGED <<users, rows, claims, access, handlerVars>>

(* runRefreshTokenCleanup *)
RefreshTokenCleanup ==
  /\ rows \cap stale # {}
  /\ CleanupExpiredRefreshTokens
  /\ UNCHANGED <<users, stale, claims, access, handlerVars>>

(* A restart of central ends every handler; seedAdminUser creates the      *)
(* administrator's row when it has none.                                   *)
CentralRestart(u) ==
  /\ http' = [c \in Callers |-> IF http[c] = Idle THEN Idle
                                ELSE [Idle EXCEPT !.pc = "replied", !.reply = "500"]]
  /\ IF CanCreateUser(AdminEmail) /\ users[u] = Unused
     THEN \E pw \in Passwords : LET row == NewRow(AdminEmail, pw, TRUE, TRUE)
                                IN CreateUser(u, row) /\ intended' = [intended EXCEPT ![u] = row]
     ELSE UNCHANGED <<users, intended>>
  /\ UNCHANGED <<rows, stale, claims, access, family, doubled, crossed>>

-------------------------------------------------------------------------------
(* Properties *)

(* No refresh token outlives its user: neither the deletion of a user nor  *)
(* a login or refresh that read the user's row before the deletion and     *)
(* inserts its token after it (auth_handlers.go 175-207) leaves one.       *)
NoTokenOfDeletedUser == \A n \in rows : Exists(claims[n].user)

(* Rotation (auth_handlers.go 106): one login has at most one refresh      *)
(* token at a time, unless two refreshes of one token overlapped or the    *)
(* deletion of a used token failed unnoticed.                              *)
OneTokenPerLogin ==
  \A m, n \in rows : family[m] = family[n] /\ family[n] \notin doubled => m = n

(* A user's row is what its updates, each applied to the fields it         *)
(* changes, make of it, unless two updates overlapped: HandleUpdateUser    *)
(* and HandleChangePassword write whole rows back.                         *)
UpdatesMerge == \A u \in UserIds \ crossed : users[u] = intended[u]
===============================================================================
