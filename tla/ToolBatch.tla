------------------------------ MODULE ToolBatch ------------------------------
(***************************************************************************)
(* A batch of tool calls that edit and write files and call an MCP server, *)
(* while the server is started and stopped and the run may be aborted.     *)
(***************************************************************************)
EXTENDS FileMutations, McpServers

vars == <<fileVars, mcpVars>>

Init == FileInit /\ McpInit

(* The calls were prepared; those of executeToolCallsParallel start.       *)
StartBatch == CallMutations /\ callTools

AbortBatch == Abort /\ AbortCalls

FileWork(c) == FileStep(c) /\ UNCHANGED mcpVars
Timeout(c)  == TimesOut(c) /\ UNCHANGED fileVars

Next ==
    \/ StartBatch
    \/ \E c \in Calls : FileWork(c)
    \/ McpStep /\ UNCHANGED fileVars
    \/ AbortBatch

(* The file system answers, and so do timers.                              *)
Fairness == \A c \in Calls : WF_vars(FileWork(c)) /\ WF_vars(Timeout(c))

Spec == Init /\ [][Next]_vars /\ Fairness

(* Every call that was made ends, with a result or an error: nothing waits *)
(* for an answer, for a lock or for an earlier mutation forever.           *)
Underway(c) == ~(pc[c] \in Settled \cup {"idle"} /\ sent[c] \in Settled \cup {"idle"})
CallsSettle == \A c \in Calls : Underway(c) ~> ~Underway(c)

=============================================================================
