-------------------------------- MODULE Names ---------------------------------
(***************************************************************************)
(* The identifiers central and its agents exchange.                        *)
(***************************************************************************)

CONSTANTS AgentIds,   \* the IDs generateAgentID can return (internal/central/grpc.go)
          Clusters,   \* cluster names
          Requests,   \* request IDs of one-shot commands, one per HTTP request
          None        \* "no value": Go's nil or empty string

ASSUME NoneAssumption == None \notin AgentIds \cup Clusters \cup Requests
===============================================================================
