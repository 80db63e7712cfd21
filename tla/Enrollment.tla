------------------------------ MODULE Enrollment ------------------------------
(***************************************************************************)
(* Agent tokens and registration at central: the token handlers of         *)
(* AdminHandlers, AgentAuthenticator.Authenticate and the Register RPC     *)
(* (internal/central/admin_handlers.go, agent_auth.go, grpc.go), over      *)
(* ClusterStore and AgentStore.  Every statement is a step of its own.     *)
(*                                                                         *)
(* adm[o] is the progress of operator o's HandleCreateAgentToken; reg[s]   *)
(* is a Register handler: the call's arguments, what it has read, and      *)
(* gone, once its caller has given up (its context is cancelled and every  *)
(* later statement fails).                                                 *)
(***************************************************************************)
EXTENDS AgentStore, ClusterStore

CONSTANTS Agents,      \* agent deployments
          Operators,   \* administrators
          Slots        \* bound: Register calls in progress at once

VARIABLES adm, reg,
          handed       \* Tokens -> cluster name of the 201 that returned it, or None

enrollVars == <<storeVars, clusterStoreVars, adm, reg, handed>>

NoAdm == [pc |-> "idle", name |-> None, row |-> None]
NoCall == [pc |-> "free", by |-> None, tok |-> None, name |-> None, row |-> None,
           id |-> None, late |-> FALSE, gone |-> FALSE]

AdmCalls == [pc : {"idle", "cluster", "token"}, name : Clusters \cup {None},
             row : ClusterIds \cup {None}]
RegisterCalls == [pc : {"free", "get", "bind", "touch", "mark", "enter", "accepted", "rejected"},
                  by : Agents \cup {None}, tok : Tokens \cup {None},
                  name : Clusters \cup {None}, row : ClusterIds \cup {None},
                  id : AgentIds \cup {None}, late : BOOLEAN, gone : BOOLEAN]

EnrollTypeOK ==
  /\ StoreTypeOK /\ ClusterStoreTypeOK
  /\ adm \in [Operators -> AdmCalls]
  /\ reg \in [Slots -> RegisterCalls]
  /\ handed \in [Tokens -> Clusters \cup {None}]

(* A token that Authenticate accepts. *)
Valid(t) == tokens[t] # NoToken /\ ~tokens[t].revoked /\ ~tokens[t].expired

-------------------------------------------------------------------------------
(* Tokens *)

(* HandleCreateAgentToken, findOrCreateCluster's lookup. *)
HandleCreateAgentToken(o, n) ==
  /\ adm[o] = NoAdm
  /\ adm' = [adm EXCEPT ![o] =
       IF GetClusterByName(n) = {} THEN [NoAdm EXCEPT !.pc = "cluster", !.name = n]
       ELSE [pc |-> "token", name |-> n, row |-> CHOOSE k \in GetClusterByName(n) : TRUE]]
  /\ UNCHANGED <<storeVars, clusterStoreVars, reg, handed>>

(* Mutant of FindOrCreate: any existing row will do. *)
MutFindOrCreate(o, k) ==
  /\ adm[o].pc = "cluster"
  /\ IF clusters[k] = NoCluster THEN CreateCluster(k, adm[o].name) ELSE UNCHANGED clusters
  /\ adm' = [adm EXCEPT ![o] = [@ EXCEPT !.pc = "token", !.row = k]]
  /\ UNCHANGED <<storeVars, tokens, reg, handed>>

(* findOrCreateCluster, the insert: 500 when another request was first. *)
FindOrCreate(o, k) ==
  /\ adm[o].pc = "cluster"
  /\ IF CanCreateCluster(adm[o].name)
     THEN /\ CreateCluster(k, adm[o].name)
          /\ adm' = [adm EXCEPT ![o] = [@ EXCEPT !.pc = "token", !.row = k]]
     ELSE UNCHANGED clusters /\ adm' = [adm EXCEPT ![o] = NoAdm]
  /\ UNCHANGED <<storeVars, tokens, reg, handed>>

(* HandleCreateAgentToken, the rest: a new token, its row and the 201. *)
InsertToken(o, t) ==
  /\ adm[o].pc = "token"
  /\ CreateAgentToken(t, adm[o].row)
  /\ handed' = [handed EXCEPT ![t] = adm[o].name]
  /\ adm' = [adm EXCEPT ![o] = NoAdm]
  /\ UNCHANGED <<storeVars, clusters, reg>>

(* HandleRevokeAgentToken *)
HandleRevokeAgentToken(t) ==
  /\ GetAgentTokenByHash(t) /\ ~tokens[t].revoked
  /\ RevokeAgentToken(t)
  /\ UNCHANGED <<storeVars, clusters, adm, reg, handed>>

(* expires_at passes. *)
TokenExpires(t) ==
  /\ GetAgentTokenByHash(t) /\ ~tokens[t].expired
  /\ tokens' = [tokens EXCEPT ![t].expired = TRUE]
  /\ UNCHANGED <<storeVars, clusters, adm, reg, handed>>

-------------------------------------------------------------------------------
(* Register *)

(* The call of agent g arrives. *)
RegisterArrives(s, g, t, n) ==
  /\ reg[s] = NoCall
  /\ reg' = [reg EXCEPT ![s] = [NoCall EXCEPT !.pc = "get", !.by = g, !.tok = t, !.name = n,
                                              !.late = ~Valid(t)]]

Reject(s) == reg' = [reg EXCEPT ![s].pc = "rejected"]

(* Mutant of AuthenticateToken: a revoked token is accepted. *)
MutAuthenticateToken(s) ==
  /\ reg[s].pc = "get"
  /\ LET t == reg[s].tok
     IN  IF ~reg[s].gone /\ GetAgentTokenByHash(t) /\ ~tokens[t].expired
         THEN reg' = [reg EXCEPT ![s] = [@ EXCEPT !.pc = "bind", !.row = tokens[t].cluster]] ELSE Reject(s)
  /\ UNCHANGED <<storeVars, clusterStoreVars, adm, handed>>

(* Authenticate: the token's row, not revoked, not expired. *)
AuthenticateToken(s) ==
  /\ reg[s].pc = "get"
  /\ LET t == reg[s].tok
     IN  IF ~reg[s].gone /\ Valid(t)
         THEN reg' = [reg EXCEPT ![s] = [@ EXCEPT !.pc = "bind", !.row = tokens[t].cluster]] ELSE Reject(s)
  /\ UNCHANGED <<storeVars, clusterStoreVars, adm, handed>>

(* Mutant of AuthenticateCluster: the requested cluster is not compared. *)
MutAuthenticateCluster(s) ==
  /\ reg[s].pc = "bind"
  /\ IF ~reg[s].gone THEN reg' = [reg EXCEPT ![s].pc = "touch"] ELSE Reject(s)
  /\ UNCHANGED <<storeVars, clusterStoreVars, adm, handed>>

(* Authenticate: the token's cluster, which must be the requested one. *)
AuthenticateCluster(s) ==
  /\ reg[s].pc = "bind"
  /\ IF ~reg[s].gone /\ clusters[reg[s].row].name = reg[s].name
     THEN reg' = [reg EXCEPT ![s].pc = "touch"] ELSE Reject(s)
  /\ UNCHANGED <<storeVars, clusterStoreVars, adm, handed>>

(* IDs that no entry and no handler has; they are interchangeable. *)
FreshIds == AgentIds \ (issued \cup {reg[r].id : r \in Slots})

(* Authenticate: TouchAgentToken, whose error is ignored; generateAgentID. *)
RegisterTouch(s) ==
  /\ reg[s].pc = "touch" /\ FreshIds # {}
  /\ reg' = [reg EXCEPT ![s] = [@ EXCEPT !.pc = "mark", !.id = CHOOSE a \in FreshIds : TRUE]]
  /\ UNCHANGED <<storeVars, clusterStoreVars, adm, handed>>

(* markClusterConnected: a failure is logged. *)
MarkClusterConnected(s) ==
  /\ reg[s].pc = "mark"
  /\ IF reg[s].gone THEN UNCHANGED clusters ELSE UpdateCluster(reg[s].row)
  /\ reg' = [reg EXCEPT ![s].pc = "enter"]
  /\ UNCHANGED <<storeVars, tokens, adm, handed>>

(* Register, the rest: the entry in memory and the response. *)
RegisterEnter(s) ==
  /\ reg[s].pc = "enter"
  /\ StoreRegister(reg[s].id, clusters[reg[s].row].name)
  /\ reg' = [reg EXCEPT ![s].pc = "accepted"]
  /\ UNCHANGED <<clusterStoreVars, adm, handed>>

RegisterStep(s) ==
  \/ AuthenticateToken(s) \/ AuthenticateCluster(s) \/ RegisterTouch(s)
  \/ MarkClusterConnected(s) \/ RegisterEnter(s)

(* A handler nobody waits for has returned. *)
RegisterReturns(s) ==
  /\ reg[s].gone /\ reg[s].pc \in {"accepted", "rejected"}
  /\ reg' = [reg EXCEPT ![s] = NoCall]
  /\ UNCHANGED <<storeVars, clusterStoreVars, adm, handed>>

-------------------------------------------------------------------------------
(* A token that was given out stays bound to the cluster it was asked for, *)
(* however requests for one new cluster overlap (admin_handlers.go 334).   *)
TokenBound ==
  \A t \in Tokens : handed[t] # None =>
    tokens[t] # NoToken /\ clusters[tokens[t].cluster].name = handed[t]

(* A token revoked or expired before a Register call arrived never         *)
(* registers an agent (agent_auth.go 46), whatever the handler's other     *)
(* statements find or fail to do.                                          *)
RevokedStaysOut ==
  \A s \in Slots : reg[s].late => reg[s].pc \in {"get", "rejected"}
===============================================================================
