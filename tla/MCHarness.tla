----------------------------- MODULE MCHarness -----------------------------
(* The harness for TLC; the configurations Harness*.cfg give the bounds.   *)
EXTENDS AgentHarness
=============================================================================
