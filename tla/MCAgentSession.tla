--------------------------- MODULE MCAgentSession ---------------------------
(* The agent session for model checking: parameters are in the cfg files.   *)
EXTENDS AgentSession
=============================================================================
