------------------------------ MODULE Messages ------------------------------
(***************************************************************************)
(* The messages of a conversation, as far as the order of a transcript is  *)
(* concerned: a user message is a number and the way it came in, an        *)
(* assistant message its stop reason and the tool calls it makes, a tool   *)
(* result the call it answers.                                             *)
(***************************************************************************)
EXTENDS Naturals, Sequences

CONSTANTS
    MaxMsgs,   \* bound: user messages ever prompted, steered or queued
    MaxCalls   \* bound: tool calls ever made

ASSUME MessageBounds == MaxMsgs \in Nat /\ MaxCalls \in Nat

Msgs  == 1..MaxMsgs
Calls == 1..MaxCalls
Stops == {"stop", "error", "aborted"}
Vias  == {"prompt", "steer", "followUp"}

User(n, via)           == [role |-> "user", id |-> n, kind |-> via, calls |-> <<>>]
Assistant(calls, stop) == [role |-> "assistant", id |-> 0, kind |-> stop, calls |-> calls]
Partial                == [role |-> "assistant", id |-> 0, kind |-> "partial", calls |-> <<>>]
ToolResult(c)          == [role |-> "toolResult", id |-> c, kind |-> "result", calls |-> <<>>]

UserMessage == [role : {"user"}, id : Msgs, kind : Vias, calls : {<<>>}]
AssistantMessage == [role : {"assistant"}, id : {0}, kind : Stops, calls : Seq(Calls)]
ToolResultMessage == [role : {"toolResult"}, id : Calls, kind : {"result"}, calls : {<<>>}]
Message == UserMessage \cup AssistantMessage \cup ToolResultMessage

(* The user messages of a sequence of messages.                            *)
Ids(s) == {s[i].id : i \in {j \in DOMAIN s : s[j].role = "user"}}
=============================================================================
