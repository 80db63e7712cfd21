------------------------------- MODULE AuthCli --------------------------------
(***************************************************************************)
(* The credentials of the kb command (internal/cli): invocations of kb     *)
(* share one configuration file, each has loaded it at its start, and      *)
(* writes all of it back when it saves.  Composed with AuthService.        *)
(*                                                                         *)
(* Commands: "login", "logout", "run" (any command that goes through       *)
(* CentralClient.doRequest or StreamCommand, which retry alike), "attach"  *)
(* (runExecInteractive and runPortForward, which go on when the tokens     *)
(* cannot be saved) and "use" (kb clusters use, which runs one such        *)
(* request and then saves the configuration).                              *)
(***************************************************************************)
EXTENDS AuthService

CONSTANTS Commands,   \* the commands considered
          Plans       \* bound: Callers -> the command of an invocation, "request" for
                      \* an operator that takes part, "none" for one that does not

ASSUME PlanAssumption ==
  \A plan \in Plans : /\ \A p \in Procs : plan[p] \in Commands \cup {"none"}
                      /\ \A c \in Operators : plan[c] \in {"request", "none"}

VARIABLES
  config,     \* tokens in the configuration file, 0 for none
  proc,       \* Procs -> the invocation: command, pc, tokens in memory, result
  ran,        \* Procs -> times central executed the invocation's request (history)
  calm        \* nothing has happened that may end a session (history)

cliVars == <<config, proc, ran, calm>>
vars == <<serviceVars, cliVars>>

NoTokens == [token |-> 0, refresh |-> 0]
Tokens == [token : 0..MaxTokens, refresh : 0..MaxTokens]
Invocation(cmd) == [cmd |-> cmd, pc |-> IF cmd = "none" THEN "done" ELSE "new",
                    mem |-> NoTokens, result |-> "none"]

Invocations == [cmd : Commands \cup {"none"}, mem : Tokens,
                pc : {"new", "call", "refresh", "retry", "save", "done"},
                result : {"none", "ok", "failed", "nologin", "relogin"}]

TypeOK ==
  /\ ServiceTypeOK
  /\ config \in Tokens
  /\ proc \in [Procs -> Invocations]
  /\ ran \in [Procs -> 0..2]
  /\ calm \in BOOLEAN

Init ==
  /\ config = [token |-> 1, refresh |-> 1]
  /\ \E plan \in Plans :
       /\ ServiceInit({c \in Callers : plan[c] # "none"})
       /\ proc = [p \in Procs |-> Invocation(plan[p])]
  /\ ran = [p \in Procs |-> 0]
  /\ calm = TRUE

Running == {p \in Procs : proc[p].pc \notin {"new", "done"}}
Set(p, pc, mem) == proc' = [proc EXCEPT ![p] = [@ EXCEPT !.pc = pc, !.mem = mem]]
End(p, result) ==
  proc' = [proc EXCEPT ![p] = [@ EXCEPT !.pc = "done", !.mem = NoTokens, !.result = result]]

(* initConfig: read the configuration file. *)
Start(p) ==
  /\ proc[p].pc = "new"
  /\ Set(p, "call", config)
  /\ calm' = (calm /\ Running = {} /\ proc[p].cmd # "logout")
  /\ UNCHANGED <<serviceVars, config, ran>>

(* runLogin, the request. *)
LoginCall(p, e, pw) ==
  /\ proc[p].pc = "call" /\ proc[p].cmd = "login"
  /\ HandleLogin(p, e, pw)
  /\ UNCHANGED cliVars

(* runLogin, the answer: store the tokens. *)
LoginDone(p) ==
  /\ proc[p].pc = "call" /\ proc[p].cmd = "login" /\ http[p].pc = "replied"
  /\ IF http[p].reply = "200"
     THEN /\ config' = [token |-> http[p].tok, refresh |-> http[p].tok]
          /\ End(p, "ok")
     ELSE UNCHANGED config /\ End(p, "failed")
  /\ Receive(p)
  /\ UNCHANGED <<userStoreVars, family, doubled, intended, crossed, ran, calm>>

(* runLogout, the request: a client without a refresh token, so a 401 is   *)
(* not answered by a refresh.                                              *)
LogoutCall(p) ==
  /\ proc[p].pc = "call" /\ proc[p].cmd = "logout"
  /\ 0 \notin {proc[p].mem.token, proc[p].mem.refresh}
  /\ HandleLogout(p, proc[p].mem.token, proc[p].mem.refresh)
  /\ UNCHANGED cliVars

(* runLogout, the end: whatever the request returned, clear the tokens. *)
LogoutDone(p) ==
  /\ proc[p].pc = "call" /\ proc[p].cmd = "logout"
  /\ http[p].pc = "replied" \/ 0 \in {proc[p].mem.token, proc[p].mem.refresh}
  /\ config' = NoTokens
  /\ proc' = [proc EXCEPT ![p] = [@ EXCEPT !.pc = "done", !.result = "ok"]]
  /\ Receive(p)
  /\ UNCHANGED <<userStoreVars, family, doubled, intended, crossed, ran, calm>>

(* Central executes the request behind AuthMiddleware, and the answer      *)
(* arrives; "use" then saves.                                              *)
Accepted(p) ==
  /\ ValidateAccessToken(proc[p].mem.token)
  /\ ran' = [ran EXCEPT ![p] = @ + 1]
  /\ IF proc[p].cmd = "use" THEN Set(p, "save", proc[p].mem) ELSE End(p, "ok")

(* Mutant of FirstAttempt: any failure, not only a 401, is retried. *)
MutFirstAttempt(p) ==
  /\ proc[p].pc = "call" /\ proc[p].cmd \in {"run", "attach", "use"}
  /\ \/ Accepted(p)
     \/ /\ proc[p].mem.refresh # 0
        /\ ran' = [ran EXCEPT ![p] = @ + IF ValidateAccessToken(proc[p].mem.token) THEN 1 ELSE 0]
        /\ Set(p, "refresh", proc[p].mem)
  /\ UNCHANGED <<serviceVars, config, calm>>

(* doRequest, the first attempt: a 401 leads to a refresh if there is a    *)
(* refresh token.                                                          *)
FirstAttempt(p) ==
  /\ proc[p].pc = "call" /\ proc[p].cmd \in {"run", "attach", "use"}
  /\ \/ Accepted(p)
     \/ /\ ~ValidateAccessToken(proc[p].mem.token)
        /\ IF proc[p].mem.refresh # 0 THEN Set(p, "refresh", proc[p].mem) ELSE End(p, "nologin")
        /\ UNCHANGED ran
  /\ UNCHANGED <<serviceVars, config, calm>>

(* Refresh, the request. *)
RefreshCall(p) ==
  /\ proc[p].pc = "refresh"
  /\ HandleRefresh(p, proc[p].mem.refresh)
  /\ UNCHANGED cliVars

(* Mutant of Persist: the access token alone is saved. *)
MutPersist(n) == config' = [config EXCEPT !.token = n]

(* defaultPersist: set both tokens and write the file. *)
Persist(n) == config' = [token |-> n, refresh |-> n]

(* Refresh and refreshTokenViaHTTP, the answer: anything but a 200 asks    *)
(* for a new login, and so does a file that cannot be written, except in   *)
(* the paths of "attach", which ignore that.                               *)
RefreshDone(p) ==
  /\ proc[p].pc = "refresh" /\ http[p].pc = "replied"
  /\ \/ /\ http[p].reply = "200"
        /\ Persist(http[p].tok)
        /\ Set(p, "retry", [token |-> http[p].tok, refresh |-> http[p].tok])
        /\ UNCHANGED calm
     \/ /\ http[p].reply = "200" /\ Faults
        /\ IF proc[p].cmd = "attach"
           THEN Set(p, "retry", [token |-> http[p].tok, refresh |-> http[p].tok])
           ELSE End(p, "relogin")
        /\ calm' = FALSE
        /\ UNCHANGED config
     \/ /\ http[p].reply # "200"
        /\ End(p, "relogin")
        /\ UNCHANGED <<config, calm>>
  /\ Receive(p)
  /\ UNCHANGED <<userStoreVars, family, doubled, intended, crossed, ran>>

(* doRequest, the retry, the last attempt. *)
SecondAttempt(p) ==
  /\ proc[p].pc = "retry"
  /\ \/ Accepted(p)
     \/ ~ValidateAccessToken(proc[p].mem.token) /\ End(p, "relogin") /\ UNCHANGED ran
  /\ UNCHANGED <<serviceVars, config, calm>>

(* runClustersUse: save the configuration as loaded, with the cluster. *)
UseSave(p) ==
  /\ proc[p].pc = "save"
  /\ config' = proc[p].mem
  /\ End(p, "ok")
  /\ UNCHANGED <<serviceVars, ran, calm>>

(* An invocation is killed or its request times out; its handler goes on   *)
(* until it notices.                                                       *)
ProcGone(p) ==
  /\ p \in Running /\ Faults
  /\ End(p, "failed") /\ calm' = FALSE
  /\ UNCHANGED <<serviceVars, config, ran>>

-------------------------------------------------------------------------------
(* Direct users of the API, one request each. *)
OperatorCall(c) ==
  /\ \/ \E n \in Pairs, pw \in Passwords : HandleChangePassword(c, n, pw) /\ UNCHANGED calm
     \/ \E u \in UserIds, a \in BOOLEAN, pw \in Passwords :
          HandleUpdateUser(c, u, a, pw) /\ UNCHANGED calm
     \/ \E e \in Emails, pw \in Passwords, a \in BOOLEAN :
          HandleCreateUser(c, e, pw, a) /\ UNCHANGED calm
     \/ \E u \in UserIds : HandleDeleteUser(c, u) /\ calm' = FALSE
  /\ UNCHANGED <<config, proc, ran>>

(* Running out of token pairs is a bound of the model. *)
ServerStep(c) ==
  /\ HandlerStep(c)
  /\ calm' = (calm /\ ~(http[c].pc = "issue" /\ NextPair \notin Pairs))
  /\ UNCHANGED <<config, proc, ran>>

Disturbance ==
  /\ \/ \E p \in Running : (proc[p].pc = "refresh" \/ proc[p].cmd = "login") /\ RateLimited(p)
     \/ \E c \in Callers : HandlerAbort(c)
     \/ \E n \in Pairs : RefreshExpires(n)
     \/ \E u \in UserIds : CentralRestart(u)
  /\ Faults /\ calm' = FALSE
  /\ UNCHANGED <<config, proc, ran>>

(* p has been sent the pair n and has yet to retry with it. *)
Retrying(p, n) ==
  \/ proc[p].pc = "retry" /\ proc[p].mem.token = n
  \/ proc[p].pc = "refresh" /\ http[p].pc = "replied" /\ http[p].tok = n

(* An access token outlives the retry it was refreshed for, by far: to     *)
(* expire earlier is no calm case.                                         *)
Expiry ==
  \/ RefreshTokenCleanup /\ UNCHANGED cliVars
  \/ \E n \in Pairs :
       /\ AccessExpires(n)
       /\ calm' = (calm /\ \A p \in Procs : ~Retrying(p, n))
       /\ UNCHANGED <<config, proc, ran>>

ClientStep(p) ==
  \/ \E e \in Emails, pw \in Passwords : LoginCall(p, e, pw)
  \/ LoginDone(p) \/ LogoutCall(p) \/ LogoutDone(p) \/ FirstAttempt(p)
  \/ RefreshCall(p) \/ RefreshDone(p) \/ SecondAttempt(p) \/ UseSave(p)

Next ==
  \/ \E p \in Procs : ClientStep(p) \/ ProcGone(p) \/ Start(p)
  \/ \E c \in Callers : ServerStep(c)
  \/ \E c \in Operators : OperatorCall(c)
  \/ Disturbance \/ Expiry

Spec == Init /\ [][Next]_vars

-------------------------------------------------------------------------------
(* Properties *)

(* A request is executed at most once by an invocation, although           *)
(* doRequest, StreamCommand and runExecInteractive send it twice: the      *)
(* first was refused with a 401 before it reached its handler.             *)
RunsOnce == \A p \in Procs : ran[p] <= 1

(* "Users are not prompted to log in until the refresh token expires"      *)
(* (docs/security.md:318) as long as invocations do not overlap, nobody    *)
(* logs out or deletes the user, no request is lost or rate-limited: each  *)
(* invocation finds in the file the token the one before it was given.     *)
TransparentRefresh == calm => \A p \in Procs : proc[p].result # "relogin"
===============================================================================
