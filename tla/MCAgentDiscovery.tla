--------------------------- MODULE MCAgentDiscovery ---------------------------
(* TLC instances of AgentDiscovery. *)
EXTENDS AgentDiscovery
=============================================================================
