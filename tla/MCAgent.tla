------------------------------ MODULE MCAgent ------------------------------
(* The agent for TLC; the configurations Agent*.cfg give the bounds.       *)
EXTENDS AgentTranscript
=============================================================================
