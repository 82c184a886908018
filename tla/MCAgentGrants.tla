--------------------------- MODULE MCAgentGrants ---------------------------
(***************************************************************************)
(* Small instances of AgentGrants for TLC.                                 *)
(***************************************************************************)
EXTENDS AgentGrants, TLC

CONSTANTS Read  \* the scope "portfolio:read"

MCScopeSets == {{Read}, {Read, OfflineAccess}}
MCOffline == {{Read, OfflineAccess}}
Symmetry == Permutations(Users) \cup Permutations(Clients) \cup Permutations(Handlers)

=============================================================================
