-------------------------- MODULE AgentTranscript --------------------------
(***************************************************************************)
(* The agent implements the abstract transcript: state.messages is the     *)
(* log, and the calls of the current batch without a result are open.      *)
(***************************************************************************)
EXTENDS Agent, FiniteSets

Failing == {"failure", "failureMessage", "failureEnd"}

(* Calls of the batch whose result is in the transcript: the first ones,   *)
(* because results are added in source order.                              *)
Reported  == {i \in DOMAIN batch : st[batch[i]] = "reported"}
nReported == Cardinality(Reported)

OpenCalls ==
    IF pc \in {"failureMessage", "failureEnd"} THEN <<>>
    ELSE SubSeq(batch, nReported + 1, Len(batch))

Active == activeRun # 0
Broken == Active /\ (aborted \/ pc \in Failing)

T == INSTANCE Transcript WITH
        log <- messages, open <- OpenCalls, active <- Active, broken <- Broken

(* Every step of the agent is a step of the abstract transcript, or leaves *)
(* it alone.                                                               *)
ImplementsTranscript == T!TSpec
=============================================================================
