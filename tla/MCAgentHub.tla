----------------------------- MODULE MCAgentHub -----------------------------
(* A connection and the one that replaces it, a call, one rotation.        *)
EXTENDS AgentHub
=============================================================================
