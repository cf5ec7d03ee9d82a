------------------------------ MODULE ToolCalls ------------------------------
(***************************************************************************)
(* The tool calls of one answer of the model, which                        *)
(* executeToolCallsParallel of packages/agent/src/agent-loop.ts prepares   *)
(* one after another and then starts together, in the order of the answer, *)
(* under the abort signal of the run.                                      *)
(***************************************************************************)
EXTENDS Naturals

CONSTANTS
    Calls,    \* tool calls, numbered in the order of the answer
    Batches,  \* answers: the tool of each call
    Files,    \* files an edit or a write may name, by their real path
    Links     \* whether such a path may lead through a symbolic link

(* A refused call is one that preparing it already gave a result: there is *)
(* no such tool, its arguments are wrong or a hook blocked it.             *)
Tools == {"edit", "write", "mcp", "refused"}

ASSUME CallsAssumption == Calls \subseteq Nat \ {0}
ASSUME BatchesAssumption == Batches \subseteq [Calls -> Tools]
ASSUME LinksAssumption == Links \subseteq BOOLEAN

VARIABLES
    request,  \* the tool and the path of each call
    aborted   \* the run's signal

Request == [tool : Tools, file : Files, linked : Links]

File(c)     == request[c].file
IsMcp(c)    == request[c].tool = "mcp"
Mutation(c) == request[c].tool \in {"edit", "write"}
Settled     == {"done", "failed"}

CallsInit ==
    /\ \E batch \in Batches :
         request \in {r \in [Calls -> Request] : \A c \in Calls : r[c].tool = batch[c]}
    /\ aborted = FALSE

=============================================================================
