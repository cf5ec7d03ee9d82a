---------------------------- MODULE AgentSession ----------------------------
(***************************************************************************)
(* AgentSession of packages/coding-agent/src/core/agent-session.ts: what   *)
(* the coding agent keeps around the Agent.  A prompt runs the agent and,  *)
(* until nothing is left to do, continues it after a retry, a compaction   *)
(* or for messages still queued; finished messages are written to the      *)
(* session; results of user commands wait for the end of the prompt; the   *)
(* queues are mirrored for display; and the session can be compacted,      *)
(* aborted and appended to at any time.                                    *)
(*                                                                         *)
(* An action is the code from one await to the next.  A step that only     *)
(* waits for a settled promise ("ran", "cancelled", "continue") is taken   *)
(* before any other event: JavaScript runs such continuations first.       *)
(* There is one prompt at a time, as the interactive mode submits them;    *)
(* while a prompt runs, further input is queued.                           *)
(***************************************************************************)
EXTENDS Naturals, FiniteSets, SequencesExt, Selections

CONSTANTS
    Replies,       \* how the provider may answer
    Ops,           \* what the application does besides prompting
    Texts,         \* what a user writes, "" when it is only images
    QuietCompact,  \* whether compact() is only called while nothing runs
    MaxRetries,    \* settings.retry.maxRetries
    KeepRecent,    \* how many of the latest messages a compaction may keep
    MaxCalls,      \* bound: answers of the provider that are not plain
    MaxInputs      \* bound: calls of prompt() and operations of Ops

(* "full" is a plain answer whose usage is over the threshold, "silent"    *)
(* one whose usage exceeds the context window; "error" may be retried,     *)
(* "overflow" says that the context is too long, "fatal" is any other.     *)
ReplyKinds == {"stop", "toolUse", "full", "silent", "error", "overflow", "fatal"}
OpKinds == {"steer", "followUp", "custom", "bash", "clearQueue", "abort",
            "abortRetry", "abortCompaction", "compact"}

ASSUME ChoiceAssumption ==
    Replies \subseteq ReplyKinds /\ Ops \subseteq OpKinds /\ QuietCompact \in BOOLEAN
ASSUME BoundAssumption ==
    KeepRecent \subseteq Nat \ {0} /\ MaxRetries \in Nat /\ MaxCalls \in Nat /\ MaxInputs \in Nat

VARIABLES
    messages,       \* agent.state.messages
    phase,          \* where the agent's loop is, "idle" without an active run
    pending,        \* messages the loop is about to deliver
    writing,        \* message whose message_end listeners run, or none
    heard,          \* whether the session was connected when they were called
    firstPoll,      \* whether the loop has yet to poll for steering messages
    aborted,        \* the active run's abort signal
    steeringQueue, followUpQueue,        \* the agent's queues
    steeringMessages, followUpMessages,  \* texts of those, shown to the user
    unlisted,       \* history: texts of messages that came without being shown
    connected,      \* _unsubscribeAgent is set
    entries,        \* the session's branch, from the root to the leaf
    lastAssistantMessage,        \* <<_lastAssistantMessage>> or <<>>
    retryAttempt, overflowRecoveryAttempted,
    pendingBashMessages,
    pc,             \* where prompt() is
    stage,          \* "check", "before" or "main": which of its loops
    reason,         \* of the automatic compaction
    prepared,       \* <<preparation>> of the automatic compaction, or <<>>
    compactionAborted,           \* signal of _autoCompactionAbortController
    manual,         \* where compact() is
    manualPrepared, manualAborted,
    cancelledAt,    \* history: how many entries there were when a retry was cancelled
    lastId, calls, inputs  \* counters: messages made, and those of the bounds

agentVars == <<phase, pending, writing, heard, firstPoll, aborted, calls>>
queueVars == <<steeringQueue, followUpQueue, steeringMessages, followUpMessages, unlisted>>
runVars == <<lastAssistantMessage, retryAttempt, overflowRecoveryAttempted, cancelledAt>>
loopVars == <<pc, stage, reason, prepared, compactionAborted>>
manualVars == <<connected, manual, manualPrepared, manualAborted>>
vars == <<messages, entries, pendingBashMessages, lastId, inputs,
          agentVars, queueVars, runVars, loopVars, manualVars>>

-----------------------------------------------------------------------------
(* Faults: what some of the definitions below would be with a bug, to see  *)
(* that the properties find it.  No definition uses them.                  *)
RecoveryForgotten         == overflowRecoveryAttempted' = FALSE
RecordedByAgentOnly(m)    == messages' = Append(messages, m) /\ UNCHANGED entries
CutAnywhere(es, start)    == {i \in start..Len(es) : es[i].role # "compaction"}
AfterCompaction(es, k)    == k + 1
SteeringOnly(text) ==
    /\ steeringMessages' = RemoveFirst(steeringMessages, text)
    /\ UNCHANGED followUpMessages

-----------------------------------------------------------------------------
(* Messages and entries.  An entry of the session is the message itself or *)
(* a compaction, whose summary stands in the context built from the        *)
(* session for the entries it covers and is followed by those from first.  *)
(* A text is only asked for until its message has been delivered.          *)

Made(role, kind) ==
    [role |-> role, kind |-> kind, text |-> "", id |-> lastId + 1,
     first |-> 0, covers |-> {}, noHistory |-> FALSE]
Written(text) == [Made("user", "") EXCEPT !.text = text]
Said(m)       == [m EXCEPT !.text = ""]

Ids(s)          == {s[i].id : i \in DOMAIN s}
IsAssistant(m)  == m.role = "assistant"
IsCompaction(m) == m.role = "compaction"
IsMessage(m)    == ~IsCompaction(m)
StopError(m)    == m.kind \in {"error", "overflow", "fatal"}
ContextOverflow(m) == m.kind \in {"overflow", "silent"}

MessagesOf(s) == Chosen(s, {i \in DOMAIN s : IsMessage(s[i])})

LatestCompaction(es) == SelectLastInSeq(es, IsCompaction)
FirstKept(es, k)     == SelectInSeq(es, LAMBDA e : e.id = es[k].first)

BuildSessionContext(es) ==
    LET k == LatestCompaction(es)
    IN  IF k = 0 THEN es
        ELSE <<es[k]>> \o MessagesOf(SubSeq(es, FirstKept(es, k), k - 1))
                       \o SubSeq(es, k + 1, Len(es))

(* prepareCompaction: the latest messages are kept, as many as fit into    *)
(* keepRecentTokens, or all of them.  The cut is never before a tool       *)
(* result, and moves back over entries that are not plain messages.        *)
BoundaryStart(es, k) == IF k = 0 THEN 1 ELSE FirstKept(es, k)
CutPoints(es, start) ==
    {i \in start..Len(es) : es[i].role \notin {"toolResult", "compaction"}}
Cuts(es, start) ==
    LET C == CutPoints(es, start)
        From(i) == {j \in C : j >= i}
    IN  {i \in C : \E k \in KeepRecent :
            Cardinality(From(i)) = k \/ (From(i) = C /\ Cardinality(C) < k)}
MovedBack(es, start, i) ==
    CHOOSE c \in start..i :
        /\ \A j \in c..(i - 1) : es[j].role = "custom"
        /\ c > start => es[c - 1].role # "custom"

(* Where the turn starts that a cut at c splits, or c if it splits none.   *)
StartsTurn(e) == e.role \in {"user", "bash", "custom"}
TurnStart(es, start, c) ==
    IF es[c].role = "user" \/ ~\E i \in start..c : StartsTurn(es[i]) THEN c
    ELSE CHOOSE i \in start..c :
            StartsTurn(es[i]) /\ \A j \in (i + 1)..c : ~StartsTurn(es[j])

(* The summary is one of what comes before the turn, with the previous     *)
(* summary, and one of the turn up to the cut.  With nothing before the    *)
(* turn the first of them is "No prior history." and drops the previous.   *)
NoHistory(es, start, c) ==
    LET t == TurnStart(es, start, c)
    IN  t < c /\ \A i \in start..(t - 1) : ~IsMessage(es[i])

Preparation(es, k, start, c) ==
    [first     |-> es[c].id,
     noHistory |-> NoHistory(es, start, c),
     covers    |-> {es[i].id : i \in {j \in start..(c - 1) : IsMessage(es[j])}}
                      \cup (IF k = 0 \/ NoHistory(es, start, c) THEN {} ELSE es[k].covers)]

Preparations(es) ==
    LET k     == LatestCompaction(es)
        start == BoundaryStart(es, k)
    IN  IF k = Len(es) THEN {}
        ELSE {Preparation(es, k, start, MovedBack(es, start, i)) : i \in Cuts(es, start)}

Prepared == {<<p>> : p \in Preparations(entries)}
CompactionEntry(p) ==
    [role |-> "compaction", kind |-> "", text |-> "", id |-> lastId + 1,
     first |-> p.first, covers |-> p.covers, noHistory |-> p.noHistory]

WithoutLastAssistant ==
    IF messages # <<>> /\ IsAssistant(Last(messages)) THEN Front(messages) ELSE messages

-----------------------------------------------------------------------------
Init ==
    /\ messages = <<>> /\ entries = <<>> /\ pendingBashMessages = <<>>
    /\ phase = "idle" /\ pending = <<>> /\ writing = <<>>
    /\ heard = TRUE /\ firstPoll = FALSE /\ aborted = FALSE
    /\ steeringQueue = <<>> /\ followUpQueue = <<>>
    /\ steeringMessages = <<>> /\ followUpMessages = <<>> /\ unlisted = {}
    /\ lastAssistantMessage = <<>> /\ retryAttempt = 0
    /\ overflowRecoveryAttempted = FALSE /\ cancelledAt = 0
    /\ pc = "idle" /\ stage = "main" /\ reason = "none"
    /\ prepared = <<>> /\ compactionAborted = FALSE
    /\ connected = TRUE /\ manual = "none"
    /\ manualPrepared = <<>> /\ manualAborted = FALSE
    /\ lastId = 0 /\ calls = 0 /\ inputs = 0

isStreaming == phase # "idle"
hasQueuedMessages == steeringQueue # <<>> \/ followUpQueue # <<>>
NoContinuation == pc \notin {"checking", "ran", "cancelled", "continue"}

-----------------------------------------------------------------------------
(* The agent's run, as the session sees it: Agent models it in full.       *)

StartRun(ms, poll) ==
    /\ phase' = IF ms = <<>> THEN "poll" ELSE "deliver"
    /\ pending' = ms
    /\ firstPoll' = poll
    /\ aborted' = FALSE
    /\ UNCHANGED <<writing, heard, calls>>

(* _handleAgentEvent, message_start of a user message: its text, if it has *)
(* any, leaves the mirror it is found in first, whoever wrote it.          *)
Unmirror(text) ==
    IF text = "" THEN UNCHANGED <<steeringMessages, followUpMessages>>
    ELSE IF text \in Range(steeringMessages)
    THEN /\ steeringMessages' = RemoveFirst(steeringMessages, text)
         /\ UNCHANGED followUpMessages
    ELSE /\ followUpMessages' = RemoveFirst(followUpMessages, text)
         /\ UNCHANGED steeringMessages

UserTexts(q) == {m.text : m \in {n \in Range(q) : n.role = "user"}}

(* The agent stores a finished message and calls the session's handler,    *)
(* which tells the extensions before it persists the message.              *)
Finished(m) ==
    /\ messages' = Append(messages, m)
    /\ writing' = <<m>>
    /\ heard' = connected
    /\ phase' = "writing"
    /\ UNCHANGED <<entries, pendingBashMessages, inputs, firstPoll, aborted,
                   loopVars, manualVars>>

(* A message is delivered: message_start, and the message is stored.       *)
Deliver ==
    /\ phase = "deliver"
    /\ Finished(Said(Head(pending)))
    /\ pending' = Tail(pending)
    /\ unlisted' = unlisted \cap (UserTexts(steeringQueue) \cup UserTexts(followUpQueue))
    /\ IF connected /\ Head(pending).role = "user"
       THEN Unmirror(Head(pending).text) /\ overflowRecoveryAttempted' = FALSE
       ELSE UNCHANGED <<steeringMessages, followUpMessages, overflowRecoveryAttempted>>
    /\ UNCHANGED <<lastId, calls, steeringQueue, followUpQueue, lastAssistantMessage,
                   retryAttempt, cancelledAt>>

(* Plain answers and aborted ones are not bounded: nothing goes on after   *)
(* them that the bound on the input does not bound.                        *)
Counted == ReplyKinds \ {"stop"}

Respond(kind) ==
    /\ phase = "call"
    /\ \/ kind \in Replies /\ (kind \in Counted => calls < MaxCalls)
       \/ kind = "aborted" /\ aborted
    /\ Finished(Made("assistant", kind))
    /\ lastId' = lastId + 1
    /\ calls' = IF kind \in Counted THEN calls + 1 ELSE calls
    /\ UNCHANGED <<pending, queueVars, runVars>>

ToolEnds ==
    /\ phase = "tool"
    /\ Finished(Made("toolResult", ""))
    /\ lastId' = lastId + 1
    /\ UNCHANGED <<pending, calls, queueVars, runVars>>

(* _handleAgentEvent, message_end after the extensions: persist, and keep  *)
(* account of the answers.                                                 *)
Persisted(m) == entries' = Append(entries, m)

TrackAssistant(m) ==
    /\ lastAssistantMessage' = <<m>>
    /\ IF StopError(m)
       THEN UNCHANGED <<overflowRecoveryAttempted, retryAttempt>>
       ELSE overflowRecoveryAttempted' = FALSE /\ retryAttempt' = 0

(* Where the loop goes on: it stops at an answer that failed, executes     *)
(* tools, or polls its queues, which by default give one message at a      *)
(* time; a follow-up is only taken when it would stop.                     *)
TakeSteering ==
    /\ pending' = <<Head(steeringQueue)>> /\ steeringQueue' = Tail(steeringQueue)
    /\ phase' = "deliver" /\ UNCHANGED followUpQueue

TakeFollowUp ==
    /\ pending' = <<Head(followUpQueue)>> /\ followUpQueue' = Tail(followUpQueue)
    /\ phase' = "deliver" /\ UNCHANGED steeringQueue

GoTo(p) == phase' = p /\ UNCHANGED <<pending, steeringQueue, followUpQueue>>

Poll(otherwise) == IF steeringQueue # <<>> THEN TakeSteering ELSE GoTo(otherwise)

AfterMessage(m) ==
    CASE m.role = "toolResult" -> Poll("call")
      [] IsAssistant(m) /\ (StopError(m) \/ m.kind = "aborted") -> GoTo("end")
      [] IsAssistant(m) /\ m.kind = "toolUse" -> GoTo("tool")
      [] IsAssistant(m) /\ m.kind \in {"stop", "full", "silent"} ->
             IF steeringQueue = <<>> /\ followUpQueue # <<>> THEN TakeFollowUp ELSE Poll("end")
      [] OTHER -> IF pending # <<>> THEN GoTo("deliver")
                  ELSE IF firstPoll THEN Poll("call") ELSE GoTo("call")

MessagePersisted ==
    /\ phase = "writing"
    /\ LET m == writing[1]
       IN  /\ AfterMessage(m)
           /\ firstPoll' = (firstPoll /\ pending # <<>>)
           /\ IF heard THEN Persisted(m) ELSE UNCHANGED entries
           /\ IF heard /\ IsAssistant(m)
              THEN TrackAssistant(m)
              ELSE UNCHANGED <<lastAssistantMessage, overflowRecoveryAttempted, retryAttempt>>
    /\ writing' = <<>>
    /\ UNCHANGED <<messages, pendingBashMessages, cancelledAt, lastId, inputs, heard, aborted, calls,
                   steeringMessages, followUpMessages, unlisted, loopVars, manualVars>>

(* A run that continues polls before its first request.                    *)
FirstPoll ==
    /\ phase = "poll" /\ Poll("call") /\ firstPoll' = FALSE
    /\ UNCHANGED <<messages, entries, pendingBashMessages, lastId, inputs, writing, heard,
                   aborted, calls, steeringMessages, followUpMessages, unlisted,
                   runVars, loopVars, manualVars>>

(* The listeners of agent_end have returned: whoever waits for the run may *)
(* go on.                                                                  *)
FinishRun ==
    /\ phase = "end"
    /\ phase' = "idle" /\ aborted' = FALSE
    /\ pc' = "ran"
    /\ manual' = IF manual = "waiting" THEN "ready" ELSE manual
    /\ UNCHANGED <<messages, entries, pendingBashMessages, lastId, inputs, pending, writing,
                   heard, firstPoll, calls, queueVars, runVars, stage, reason, prepared,
                   compactionAborted, connected, manualPrepared, manualAborted>>

AgentStep ==
    NoContinuation /\ (Deliver \/ ToolEnds \/ MessagePersisted \/ FirstPoll \/ FinishRun
                       \/ \E k \in ReplyKinds \cup {"aborted"} : Respond(k))

-----------------------------------------------------------------------------
(* prompt() and _runAgentPrompt.                                           *)

Flush ==
    /\ messages' = messages \o pendingBashMessages
    /\ entries' = entries \o pendingBashMessages
    /\ pendingBashMessages' = <<>>

(* Without an active run; the interactive mode holds input back while      *)
(* isCompacting.                                                           *)
Prompt ==
    /\ inputs < MaxInputs /\ inputs' = inputs + 1
    /\ pc = "idle" /\ ~isStreaming /\ manual = "none"
    /\ Flush
    /\ pc' = "checking" /\ stage' = "check"
    /\ UNCHANGED <<lastId, agentVars, queueVars, runVars, reason, prepared,
                   compactionAborted, manualVars>>

BeginCompaction(why) ==
    /\ pc' = "compacting" /\ reason' = why /\ compactionAborted' = FALSE
    /\ prepared' \in IF Prepared = {} THEN {<<>>} ELSE Prepared

(* The end of a loop over agent.continue(): prompt() goes on to its own    *)
(* message or returns.                                                     *)
LoopEnds ==
    /\ Flush
    /\ pc' = IF stage = "before" THEN "hook" ELSE "idle"
    /\ stage' = "main"

NothingToContinue ==
    \/ /\ stage = "check" /\ pc' = "hook" /\ stage' = "main"
       /\ UNCHANGED <<messages, entries, pendingBashMessages>>
    \/ /\ stage # "check" /\ hasQueuedMessages /\ pc' = "continue"
       /\ UNCHANGED <<stage, messages, entries, pendingBashMessages>>
    \/ stage # "check" /\ ~hasQueuedMessages /\ LoopEnds

ToContinue ==
    /\ pc' = "continue"
    /\ stage' = IF stage = "check" THEN "before" ELSE stage

(* _checkCompaction: overflow is recovered from once, and the size of the  *)
(* context is the usage of the message or, for an error, of the last       *)
(* successful one.                                                         *)
BeforeCompaction(m) ==
    LatestCompaction(entries) # 0 /\ m.id < entries[LatestCompaction(entries)].id

Successful(m) == IsAssistant(m) /\ ~StopError(m) /\ m.kind # "aborted"
OverThreshold(m) ==
    LET u == SelectLastInSeq(messages, Successful)
    IN  IF StopError(m)
        THEN u # 0 /\ messages[u].kind = "full" /\ ~BeforeCompaction(messages[u])
        ELSE m.kind = "full"
Checked(m) == ~BeforeCompaction(m) /\ (m.kind = "aborted" => stage = "check")

RecoveryAttempted == overflowRecoveryAttempted' = TRUE

CheckCompaction(m) ==
    \/ /\ Checked(m) /\ ContextOverflow(m) /\ ~overflowRecoveryAttempted
       /\ RecoveryAttempted
       /\ messages' = WithoutLastAssistant
       /\ BeginCompaction("overflow")
       /\ UNCHANGED <<entries, pendingBashMessages, stage>>
    \/ /\ Checked(m) /\ ~ContextOverflow(m) /\ OverThreshold(m)
       /\ BeginCompaction("threshold")
       /\ UNCHANGED <<messages, entries, pendingBashMessages, stage,
                      overflowRecoveryAttempted>>
    \/ /\ ~Checked(m) \/ (ContextOverflow(m) /\ overflowRecoveryAttempted)
                      \/ (~ContextOverflow(m) /\ ~OverThreshold(m))
       /\ NothingToContinue
       /\ UNCHANGED <<overflowRecoveryAttempted, reason, prepared, compactionAborted>>

(* Before a prompt: the last answer in the agent's messages.               *)
CheckBeforePrompt ==
    /\ pc = "checking"
    /\ LET i == SelectLastInSeq(messages, IsAssistant)
       IN  IF i = 0
           THEN NothingToContinue
                /\ UNCHANGED <<overflowRecoveryAttempted, reason, prepared, compactionAborted>>
           ELSE CheckCompaction(messages[i])
    /\ UNCHANGED <<lastId, inputs, agentVars, queueVars, lastAssistantMessage, retryAttempt,
                   cancelledAt, manualVars>>

(* _handlePostAgentRun and _prepareRetry.                                  *)
MayRetry(m) == m.kind = "error" /\ retryAttempt < MaxRetries

WaitForRetry(m) ==
    /\ MayRetry(m)
    /\ retryAttempt' = retryAttempt + 1
    /\ messages' = WithoutLastAssistant
    /\ pc' = "sleep"
    /\ UNCHANGED <<entries, pendingBashMessages, stage, reason, prepared,
                   compactionAborted, overflowRecoveryAttempted>>

GiveUp(m) ==
    /\ ~MayRetry(m)
    /\ retryAttempt' = IF StopError(m) THEN 0 ELSE retryAttempt
    /\ CheckCompaction(m)

HandlePostAgentRun ==
    /\ pc = "ran"
    /\ lastAssistantMessage' = <<>>
    /\ IF lastAssistantMessage = <<>>
       THEN /\ LoopEnds
            /\ UNCHANGED <<retryAttempt, overflowRecoveryAttempted, reason, prepared,
                           compactionAborted>>
       ELSE WaitForRetry(lastAssistantMessage[1]) \/ GiveUp(lastAssistantMessage[1])
    /\ UNCHANGED <<lastId, inputs, agentVars, queueVars, cancelledAt, manualVars>>

Slept ==
    /\ pc = "sleep" /\ pc' = "continue"
    /\ UNCHANGED <<messages, entries, pendingBashMessages, lastId, inputs, agentVars, queueVars,
                   runVars, stage, reason, prepared, compactionAborted,
                   manualVars>>

(* The failed message of a cancelled retry is checked like any other: the  *)
(* session still knows it, the agent's messages no longer have it.         *)
Cancelled ==
    /\ pc = "cancelled"
    /\ retryAttempt' = 0 /\ cancelledAt' = Len(entries)
    /\ CheckCompaction(entries[SelectLastInSeq(entries, IsAssistant)])
    /\ UNCHANGED <<lastId, inputs, agentVars, queueVars, lastAssistantMessage,
                   manualVars>>

AutoCompactionOver ==
    reason' = "none" /\ prepared' = <<>> /\ compactionAborted' = FALSE

(* _runAutoCompaction: nothing to compact, cancelled, failed or saved.     *)
CompactionFails ==
    /\ pc = "compacting"
    /\ NothingToContinue
    /\ AutoCompactionOver
    /\ UNCHANGED <<lastId, inputs, agentVars, queueVars, runVars, manualVars>>

Compacted(p) ==
    /\ entries' = Append(entries, CompactionEntry(p))
    /\ lastId' = lastId + 1
    /\ messages' = BuildSessionContext(entries')

CompactionSaved ==
    /\ pc = "compacting" /\ prepared # <<>> /\ ~compactionAborted
    /\ Compacted(prepared[1])
    /\ pc' = "compacted" /\ prepared' = <<>>
    /\ UNCHANGED <<pendingBashMessages, inputs, agentVars, queueVars, runVars, stage, reason,
                   compactionAborted, manualVars>>

(* The listeners of session_compact have returned.                         *)
CompactionEnds ==
    /\ pc = "compacted"
    /\ IF reason = "overflow"
       THEN /\ messages' = IF StopError(Last(messages)) THEN WithoutLastAssistant ELSE messages
            /\ ToContinue
            /\ UNCHANGED <<entries, pendingBashMessages>>
       ELSE IF hasQueuedMessages
            THEN ToContinue /\ UNCHANGED <<messages, entries, pendingBashMessages>>
            ELSE NothingToContinue
    /\ AutoCompactionOver
    /\ UNCHANGED <<lastId, inputs, agentVars, queueVars, runVars, manualVars>>

(* Agent.continue(): from an answer it goes on with what is queued, from   *)
(* anything else with another request; it throws if there is neither.      *)
ContinueThrows ==
    \/ isStreaming \/ messages = <<>>
    \/ IsAssistant(Last(messages)) /\ ~hasQueuedMessages

Continue ==
    /\ pc = "continue" /\ ~ContinueThrows
    /\ pc' = "run"
    /\ IF ~IsAssistant(Last(messages))
       THEN StartRun(<<>>, TRUE) /\ UNCHANGED <<steeringQueue, followUpQueue>>
       ELSE IF steeringQueue # <<>>
       THEN /\ StartRun(<<Head(steeringQueue)>>, FALSE)
            /\ steeringQueue' = Tail(steeringQueue) /\ UNCHANGED followUpQueue
       ELSE /\ StartRun(<<Head(followUpQueue)>>, TRUE)
            /\ followUpQueue' = Tail(followUpQueue) /\ UNCHANGED steeringQueue
    /\ UNCHANGED <<messages, entries, pendingBashMessages, lastId, inputs, steeringMessages,
                   followUpMessages, unlisted, runVars, stage, reason, prepared,
                   compactionAborted, manualVars>>

ContinueRefused ==
    /\ pc = "continue" /\ ContinueThrows
    /\ Flush
    /\ pc' = "idle" /\ stage' = "main"
    /\ UNCHANGED <<lastId, inputs, agentVars, queueVars, runVars, reason, prepared,
                   compactionAborted, manualVars>>

(* before_agent_start has returned: the prompt's own run.                  *)
RunPrompt ==
    /\ pc = "hook" /\ pc' = "run"
    /\ \E text \in Texts :
         StartRun(<<Written(text)>>, TRUE) /\ unlisted' = unlisted \cup {text}
    /\ lastId' = lastId + 1
    /\ UNCHANGED <<messages, entries, pendingBashMessages, inputs, steeringQueue, followUpQueue,
                   steeringMessages, followUpMessages, runVars, stage, reason, prepared,
                   compactionAborted, manualVars>>

PromptStep ==
    \/ CheckBeforePrompt \/ HandlePostAgentRun \/ Cancelled \/ Continue \/ ContinueRefused
    \/ NoContinuation /\ (Slept \/ CompactionFails \/ CompactionSaved \/ CompactionEnds
                          \/ RunPrompt)

-----------------------------------------------------------------------------
(* What the application and the extensions do meanwhile; calls that would  *)
(* change nothing are left out.                                            *)

Op(o) == NoContinuation /\ o \in Ops /\ inputs < MaxInputs /\ inputs' = inputs + 1

steer ==
    /\ Op("steer") /\ lastId' = lastId + 1
    /\ \E text \in Texts :
         /\ steeringMessages' = Append(steeringMessages, text)
         /\ steeringQueue' = Append(steeringQueue, Written(text))
    /\ UNCHANGED <<messages, entries, pendingBashMessages, agentVars, followUpQueue,
                   followUpMessages, unlisted, runVars, loopVars, manualVars>>

followUp ==
    /\ Op("followUp") /\ lastId' = lastId + 1
    /\ \E text \in Texts :
         /\ followUpMessages' = Append(followUpMessages, text)
         /\ followUpQueue' = Append(followUpQueue, Written(text))
    /\ UNCHANGED <<messages, entries, pendingBashMessages, agentVars, steeringQueue,
                   steeringMessages, unlisted, runVars, loopVars, manualVars>>

Recorded(m) ==
    messages' = Append(messages, m) /\ entries' = Append(entries, m)

sendCustomMessage ==
    /\ Op("custom") /\ lastId' = lastId + 1
    /\ LET m == Made("custom", "")
       IN  IF isStreaming
           THEN /\ \/ steeringQueue' = Append(steeringQueue, m) /\ UNCHANGED followUpQueue
                   \/ followUpQueue' = Append(followUpQueue, m) /\ UNCHANGED steeringQueue
                /\ UNCHANGED <<messages, entries>>
           ELSE Recorded(m) /\ UNCHANGED <<steeringQueue, followUpQueue>>
    /\ UNCHANGED <<pendingBashMessages, agentVars, steeringMessages, followUpMessages,
                   unlisted, runVars, loopVars, manualVars>>

recordBashResult ==
    /\ Op("bash") /\ lastId' = lastId + 1
    /\ LET m == Made("bash", "")
       IN  IF isStreaming
           THEN /\ pendingBashMessages' = Append(pendingBashMessages, m)
                /\ UNCHANGED <<messages, entries>>
           ELSE Recorded(m) /\ UNCHANGED pendingBashMessages
    /\ UNCHANGED <<agentVars, queueVars, runVars, loopVars, manualVars>>

clearQueue ==
    /\ Op("clearQueue")
    /\ hasQueuedMessages \/ steeringMessages # <<>> \/ followUpMessages # <<>>
    /\ steeringMessages' = <<>> /\ followUpMessages' = <<>>
    /\ steeringQueue' = <<>> /\ followUpQueue' = <<>>
    /\ unlisted' = UserTexts(pending)
    /\ UNCHANGED <<messages, entries, pendingBashMessages, lastId, agentVars, runVars,
                   loopVars, manualVars>>

AbortRetry == pc' = IF pc = "sleep" THEN "cancelled" ELSE pc
AbortAgent == aborted' = (aborted \/ isStreaming)

abortRetry ==
    /\ Op("abortRetry") /\ pc = "sleep" /\ AbortRetry
    /\ UNCHANGED <<messages, entries, pendingBashMessages, lastId, agentVars, queueVars,
                   runVars, stage, reason, prepared, compactionAborted,
                   manualVars>>

abort ==
    /\ Op("abort") /\ (pc = "sleep" \/ (isStreaming /\ ~aborted))
    /\ AbortRetry /\ AbortAgent
    /\ UNCHANGED <<messages, entries, pendingBashMessages, lastId, phase, pending, writing,
                   heard, firstPoll, calls, queueVars, runVars, stage, reason, prepared,
                   compactionAborted, manualVars>>

abortCompaction ==
    /\ Op("abortCompaction") /\ (pc = "compacting" \/ manual \in {"ready", "summarizing"})
    /\ compactionAborted' = (compactionAborted \/ pc = "compacting")
    /\ manualAborted' = (manualAborted \/ manual \in {"ready", "summarizing"})
    /\ UNCHANGED <<messages, entries, pendingBashMessages, lastId, agentVars, queueVars,
                   runVars, pc, stage, reason, prepared, connected,
                   manual, manualPrepared>>

Application ==
    \/ steer \/ followUp \/ sendCustomMessage \/ recordBashResult \/ clearQueue
    \/ abortRetry \/ abort \/ abortCompaction

-----------------------------------------------------------------------------
(* compact(): disconnect from the agent, abort it and wait for its run,    *)
(* summarize, save, rebuild the messages, connect again.                   *)

compact ==
    /\ Op("compact") /\ manual = "none"
    /\ QuietCompact => pc = "idle"
    /\ connected' = FALSE
    /\ AbortRetry /\ AbortAgent
    /\ manual' = IF isStreaming THEN "waiting" ELSE "ready"
    /\ manualAborted' = FALSE
    /\ UNCHANGED <<messages, entries, pendingBashMessages, lastId, phase, pending, writing,
                   heard, firstPoll, calls, queueVars, runVars, stage, reason, prepared,
                   compactionAborted, manualPrepared>>

ManualPrepare ==
    /\ manual = "ready" /\ manual' = "summarizing"
    /\ manualPrepared' \in Prepared
    /\ UNCHANGED <<messages, entries, pendingBashMessages, lastId, inputs, agentVars, queueVars,
                   runVars, loopVars, connected, manualAborted>>

ManualFails ==
    /\ manual \in {"ready", "summarizing"} /\ manual' = "none"
    /\ connected' = TRUE /\ manualPrepared' = <<>> /\ manualAborted' = FALSE
    /\ UNCHANGED <<messages, entries, pendingBashMessages, lastId, inputs, agentVars, queueVars,
                   runVars, loopVars>>

ManualSaved ==
    /\ manual = "summarizing" /\ ~manualAborted /\ manual' = "saved"
    /\ Compacted(manualPrepared[1]) /\ manualPrepared' = <<>>
    /\ UNCHANGED <<pendingBashMessages, inputs, agentVars, queueVars, runVars, loopVars,
                   connected, manualAborted>>

ManualEnds ==
    /\ manual = "saved" /\ manual' = "none"
    /\ connected' = TRUE /\ manualPrepared' = <<>> /\ manualAborted' = FALSE
    /\ UNCHANGED <<messages, entries, pendingBashMessages, lastId, inputs, agentVars, queueVars,
                   runVars, loopVars>>

CompactStep ==
    NoContinuation /\ (ManualPrepare \/ ManualFails \/ ManualSaved \/ ManualEnds)

-----------------------------------------------------------------------------
Next ==
    \/ AgentStep \/ PromptStep \/ CompactStep
    \/ NoContinuation /\ Prompt
    \/ Application \/ compact

Spec == Init /\ [][Next]_vars

-----------------------------------------------------------------------------
Roles == {"user", "custom", "bash", "assistant", "toolResult", "compaction"}

(* Type invariant.                                                         *)
TypeOK ==
    /\ \A m \in Range(messages) \cup Range(entries) \cup Range(pending)
              \cup Range(writing) \cup Range(pendingBashMessages)
              \cup Range(steeringQueue) \cup Range(followUpQueue) :
         /\ m.role \in Roles /\ m.kind \in ReplyKinds \cup {"aborted", ""}
         /\ m.text \in Texts \cup {""} /\ m.noHistory \in BOOLEAN
         /\ m.id \in 1..lastId /\ m.covers \subseteq 1..lastId
    /\ Range(steeringMessages) \cup Range(followUpMessages) \cup unlisted \subseteq Texts
    /\ phase \in {"idle", "poll", "deliver", "writing", "call", "tool", "end"}
    /\ pc \in {"idle", "checking", "hook", "run", "ran", "sleep", "cancelled",
               "compacting", "compacted", "continue"}
    /\ phase # "idle" => pc = "run"
    /\ phase = "deliver" => pending # <<>>
    /\ (phase = "writing") = (writing # <<>>)
    /\ stage \in {"check", "before", "main"} /\ reason \in {"none", "overflow", "threshold"}
    /\ manual \in {"none", "waiting", "ready", "summarizing", "saved"}
    /\ (manual = "none") = connected
    /\ retryAttempt \in 0..MaxRetries

(* What a restart would rebuild from the session is what the agent has,    *)
(* but for answers that were taken back for a retry, and a message whose   *)
(* listeners still run is the next one to be written.                      *)
TakenBack(m) == m.kind \in {"error", "overflow", "silent"}
Lasting(s)   == Chosen(s, {i \in DOMAIN s : ~TakenBack(s[i])})

SessionIsContext ==
    Lasting(messages) =
        Lasting(BuildSessionContext(entries) \o (IF heard THEN writing ELSE <<>>))

(* Results of user commands and custom messages never come between a tool  *)
(* call and its result, in the agent's messages or in those rebuilt from   *)
(* the session, and no compaction separates them.                          *)
Adjacent(s) ==
    \A i \in 1..(Len(s) - 1) : s[i].kind = "toolUse" <=> s[i + 1].role = "toolResult"

ToolResultsFollow ==
    /\ Adjacent(messages) /\ Adjacent(BuildSessionContext(entries))
    /\ pc # "run" => \A s \in {messages, entries} : s # <<>> => Last(s).kind # "toolUse"

(* Nothing said is forgotten but by the rule for split turns: each entry   *)
(* of the session is in the agent's messages, or was taken back, or is     *)
(* covered by the summary they begin with, or a compaction that says "No   *)
(* prior history." came after the one that covered it; and when the prompt *)
(* has returned no command's result waits.                                 *)
Remembered(e) ==
    \/ IsCompaction(e) \/ TakenBack(e)
    \/ e.id \in Ids(messages)
    \/ messages # <<>> /\ e.id \in Head(messages).covers
Forgotten(e) ==
    \E i, j \in DOMAIN entries :
        i < j /\ e.id \in entries[i].covers /\ entries[j].noHistory

NothingForgotten ==
    /\ \A e \in Range(entries) : Remembered(e) \/ Forgotten(e)
    /\ pc = "idle" => pendingBashMessages = <<>>

(* A prompt does not retry forever: with no message delivered or recorded, *)
(* no other answer and no cancelled retry in between, a request fails at   *)
(* most once more than retries are allowed, and overflows at most once     *)
(* after the recovery from an overflow.                                    *)
FailedLast(i) ==
    \A j \in i..Len(entries) : IsCompaction(entries[j]) \/ entries[j].kind = "error"
Failures ==
    {i \in DOMAIN entries : i > cancelledAt /\ entries[i].kind = "error" /\ FailedLast(i)}

Delivered(e) == e.role \in {"user", "custom"}
Overflows ==
    {i \in DOMAIN entries :
        /\ entries[i].kind = "overflow"
        /\ \A j \in i..Len(entries) :
             ~Delivered(entries[j]) /\ (IsAssistant(entries[j]) => StopError(entries[j]))}

RetriesBounded == Cardinality(Failures) <= MaxRetries + 1 /\ Cardinality(Overflows) <= 2

(* What is shown of the queues is what waits in them: no text is shown     *)
(* more often than messages with it are queued or about to be delivered,   *)
(* nor as steering more often than that queue has it; and as often, but    *)
(* for a text that also came unshown (a prompt's own, or of a message on   *)
(* its way when the queues were cleared) while some of it still waits.     *)
(* A queued message of images only is shown, at least while it is queued.  *)
Copies(q, text) ==
    Len(Chosen(q, {i \in DOMAIN q : q[i].role = "user" /\ q[i].text = text}))
Shown(s, text) == Len(Chosen(s, {i \in DOMAIN s : s[i] = text}))

Waiting(text) ==
    Copies(steeringQueue, text) + Copies(followUpQueue, text) + Copies(pending, text)
Listed(text) == Shown(steeringMessages, text) + Shown(followUpMessages, text)

QueueShown ==
    /\ \A text \in Texts \ {""} :
         /\ \/ Listed(text) = Waiting(text)
            \/ text \in unlisted /\ Listed(text) < Waiting(text)
         /\ Shown(steeringMessages, text) <= Copies(steeringQueue, text) + Copies(pending, text)
    /\ Copies(steeringQueue, "") <= Shown(steeringMessages, "")
    /\ Copies(followUpQueue, "") <= Shown(followUpMessages, "")

(* The session goes on after a retry or a compaction: agent.continue() is  *)
(* only called when there is something to continue with.                   *)
ContinueAccepted == pc = "continue" => ~ContinueThrows

(* The previous summary is passed on "as iterative context when present":  *)
(* no compaction forgets what an earlier one summarized.                   *)
SummariesKept == \A e \in Range(entries) : Remembered(e)

(* What is shown is delivered later: with empty queues and nothing on its  *)
(* way, nothing is shown.                                                  *)
NothingLeftShown ==
    ~hasQueuedMessages /\ pending = <<>> => steeringMessages = <<>> /\ followUpMessages = <<>>

(* "Aborts current agent operation first": while compact() works, no run   *)
(* of the agent is active.                                                 *)
CompactsAlone == manual \in {"summarizing", "saved"} => ~isStreaming

=============================================================================
