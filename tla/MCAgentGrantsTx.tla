-------------------------- MODULE MCAgentGrantsTx --------------------------
(***************************************************************************)
(* A small instance of AgentGrantsTx for TLC.                              *)
(***************************************************************************)
EXTENDS AgentGrantsTx

CONSTANTS Read  \* the scope "portfolio:read"

MCOffline == {{Read, OfflineAccess}}

=============================================================================
