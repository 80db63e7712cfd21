------------------------------ MODULE AgentStore ------------------------------
(***************************************************************************)
(* Central's in-memory registry of agents (internal/central/store.go).     *)
(*                                                                         *)
(* The store is a Go map from agent ID to AgentInfo.  An agent process     *)
(* gets a NEW random ID from every successful Register call                *)
(* (generateAgentID), so one process, and one cluster, may own several     *)
(* entries; nothing in the program removes an entry again                  *)
(* (AgentStore.Remove has no caller).  Only a restart of central empties   *)
(* the map.                                                                *)
(*                                                                         *)
(* Abstracted: tokens and timestamps.  MarkDisconnected may hit any set of *)
(* connected agents, because heartbeats may be late by any amount.         *)
(***************************************************************************)

EXTENDS Names

VARIABLES
  agentStatus,   \* AgentIds -> is the ID in the map, and with which Status
  agentCluster,  \* AgentIds -> ClusterName given at registration, None before
  issued         \* IDs generated so far: random IDs never repeat

storeVars == <<agentStatus, agentCluster, issued>>

AgentStatuses == {"absent", "connected", "disconnected"}

StoreTypeOK ==
  /\ agentStatus \in [AgentIds -> AgentStatuses]
  /\ agentCluster \in [AgentIds -> Clusters \cup {None}]
  /\ issued \in SUBSET AgentIds

NewAgentStore ==
  /\ agentStatus = [a \in AgentIds |-> "absent"]
  /\ agentCluster = [a \in AgentIds |-> None]
  /\ issued = {}

-------------------------------------------------------------------------------
(* Get(agentID) finds an entry. *)
Registered(a) == agentStatus[a] # "absent"

(* GetByClusterName returns the first match in Go's random map order: any  *)
(* entry of the cluster, whatever its Status.                              *)
GetByClusterName(c) == {a \in AgentIds : Registered(a) /\ agentCluster[a] = c}

(* generateAgentID followed by Register(info): the entry starts connected. *)
StoreRegister(a, c) ==
  /\ a \notin issued
  /\ issued' = issued \cup {a}
  /\ agentStatus' = [agentStatus EXCEPT ![a] = "connected"]
  /\ agentCluster' = [agentCluster EXCEPT ![a] = c]

(* UpdateHeartbeat on a known ID; convertAgentStatus maps every reported   *)
(* status to "connected".                                                  *)
UpdateHeartbeat(a) ==
  /\ Registered(a)
  /\ agentStatus' = [agentStatus EXCEPT ![a] = "connected"]
  /\ UNCHANGED <<agentCluster, issued>>

(* MarkDisconnected, run by runDisconnectChecker, on the entries S whose   *)
(* LastSeen is older than DisconnectTimeout.                               *)
MarkDisconnected(S) ==
  /\ S # {}
  /\ \A a \in S : agentStatus[a] = "connected"
  /\ agentStatus' = [a \in AgentIds |->
                       IF a \in S THEN "disconnected" ELSE agentStatus[a]]
  /\ UNCHANGED <<agentCluster, issued>>

(* A new central process starts with an empty map; IDs stay used up. *)
StoreLost ==
  /\ agentStatus' = [a \in AgentIds |-> "absent"]
  /\ UNCHANGED <<agentCluster, issued>>
===============================================================================
