----------------------------- MODULE ClusterStore -----------------------------
(***************************************************************************)
(* The clusters and agent_tokens tables of SQLiteStore                     *)
(* (internal/central/sqlite_store.go, migrations.go); an operator is one   *)
(* statement.  No caller deletes a cluster or a token (DeleteCluster is    *)
(* not used).                                                              *)
(*                                                                         *)
(* A plaintext token, its HMAC and its row's uuid are one value: random    *)
(* tokens never repeat, and the pepper is fixed.  Columns nothing reads    *)
(* (agent_id, last_used_at and other times, prefix, description) are left  *)
(* out.                                                                    *)
(***************************************************************************)
EXTENDS Names

CONSTANTS ClusterIds,   \* uuids of cluster rows
          Tokens        \* agent tokens

ASSUME ClusterAssumption == None \notin ClusterIds \cup Tokens

VARIABLES
  clusters,     \* ClusterIds -> the row, NoCluster before it exists
  tokens        \* Tokens -> the row, NoToken before it exists

clusterStoreVars == <<clusters, tokens>>

NoCluster == [name |-> None]
ClusterRow == [name : Clusters, status : {"pending", "connected"}]

NoToken == [cluster |-> None]
TokenRow == [cluster : ClusterIds, revoked : BOOLEAN, expired : BOOLEAN]

ClusterStoreTypeOK ==
  /\ clusters \in [ClusterIds -> ClusterRow \cup {NoCluster}]
  /\ tokens \in [Tokens -> TokenRow \cup {NoToken}]

GetClusterByName(n) == {k \in ClusterIds : clusters[k] # NoCluster /\ clusters[k].name = n}

(* INSERT INTO clusters: name is UNIQUE. *)
CanCreateCluster(n) == GetClusterByName(n) = {}
CreateCluster(k, n) ==
  /\ clusters[k] = NoCluster
  /\ clusters' = [clusters EXCEPT ![k] = [name |-> n, status |-> "pending"]]

(* UPDATE clusters, as markClusterConnected uses it: the name is the one   *)
(* that was read and never changes.                                        *)
UpdateCluster(k) == clusters' = [clusters EXCEPT ![k].status = "connected"]

(* INSERT INTO agent_tokens. *)
CreateAgentToken(t, k) ==
  /\ tokens[t] = NoToken
  /\ tokens' = [tokens EXCEPT ![t] = [cluster |-> k, revoked |-> FALSE, expired |-> FALSE]]

GetAgentTokenByHash(t) == tokens[t] # NoToken

RevokeAgentToken(t) == tokens' = [tokens EXCEPT ![t].revoked = TRUE]
===============================================================================
