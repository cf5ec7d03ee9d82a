------------------------------- MODULE Agent -------------------------------
(***************************************************************************)
(* The Agent of packages/agent/src/agent.ts together with the loop it runs *)
(* (packages/agent/src/agent-loop.ts): one run at a time, a transcript,    *)
(* two message queues, streamed assistant messages, and tool calls that    *)
(* are executed one by one or concurrently.                                *)
(*                                                                         *)
(* JavaScript interleaves only at an await, so an action is the code from  *)
(* one await to the next and pc names the await the loop is suspended at.  *)
(* Every await on listeners, hooks, the provider or a tool is a place      *)
(* where the application may steer, queue, abort or reset.                 *)
(***************************************************************************)
EXTENDS Messages

CONSTANTS
    QueueModes,   \* queue modes the application uses
    ToolModes,    \* how batches of tool calls may be executed
    MaxRuns,      \* bound: runs started
    MaxPrompt,    \* bound: messages of one prompt
    MaxBatch,     \* bound: tool calls of one assistant message
    MaxUpdates,   \* bound: 1 if tools report progress, 0 if they do not
    MaxFaults,    \* bound: exceptions of listeners, hooks and the provider
    Resets        \* whether the application calls reset() and the clear methods

ASSUME QueueModesAssumption ==
    QueueModes # {} /\ QueueModes \subseteq {"all", "one-at-a-time"}
ASSUME ToolModesAssumption ==
    ToolModes # {} /\ ToolModes \subseteq {"sequential", "parallel"}
ASSUME BoundsAssumption ==
    /\ MaxRuns \in Nat /\ MaxPrompt \in Nat /\ MaxBatch \in Nat
    /\ MaxUpdates \in Nat /\ MaxFaults \in Nat
    /\ Resets \in BOOLEAN

VARIABLES
    activeRun,        \* number of the active run, 0 when there is none
    isStreaming,      \* state.isStreaming
    aborted,          \* the active run's abort signal
    steeringQueue,    \* messages of steer()
    followUpQueue,    \* messages of followUp()
    queueMode,        \* [steer, followUp]: how each queue is drained
    messages,         \* state.messages, the transcript
    pendingToolCalls, \* state.pendingToolCalls
    pc,               \* the await the loop is suspended at
    ctx,              \* currentContext.messages of the loop
    newMessages,      \* messages the loop reports with agent_end
    pending,          \* prompts, then pendingMessages, still to be injected
    hasMore,          \* hasMoreToolCalls
    skipPoll,         \* skipInitialSteeringPoll
    batch,            \* tool calls of the current assistant message
    idx,              \* how many of them the loop has started
    mode,             \* how the batch is executed
    st,               \* [Calls -> CallStates]
    owner,            \* [Calls -> run that made the call]
    upd,              \* [Calls -> state of the call's progress update]
    terminate,        \* calls whose result asks the loop to stop
    runs, nMsgs, nCalls, faults,  \* counters the bounds apply to
    discarded,        \* history: messages thrown away by clear, reset or a failed run
    wasReset,         \* history: reset() was called during the active run
    agentEnds         \* history: agent_end events of the active run

appVars  == <<steeringQueue, followUpQueue, queueMode>>
runVars  == <<activeRun, isStreaming, aborted, runs, wasReset>>
loopVars == <<ctx, newMessages, pending, hasMore, skipPoll>>
toolVars == <<batch, idx, mode, st, owner, upd, terminate, nCalls, pendingToolCalls>>
histVars == <<nMsgs, faults, discarded, agentEnds>>
vars == <<appVars, runVars, loopVars, toolVars, histVars, messages, pc>>

-----------------------------------------------------------------------------
Runs == 1..MaxRuns

(* Faults: what some of the definitions below would be with a bug, to see  *)
(* that the properties find it.  No definition uses them.                  *)

RestKeepsAll(q, m) == q
RestDropsAll(q, m) == <<>>
AwaitedWholeBatch ==
    IF pc = "joining" /\ mode = "parallel"
    THEN {batch[i] : i \in DOMAIN batch}
    ELSE {batch[idx]}
JoinRejectsOnAbort ==
    aborted \/ \E c \in {batch[i] : i \in 1..idx} : st[c] \in {"rejected", "failed"}
UpdatesNotAwaited(c) == TRUE
ResultsButLast == [i \in 1..(idx - 1) |-> ToolResult(batch[i])]
ReportNothing(ms) == newMessages' = newMessages
NoReturn == pc' = "turnEnd" /\ agentEnds' = agentEnds + 1
PushPartial == messages' = Append(messages, Partial)
CompletionOrder(i) == TRUE
KeepPendingCalls == isStreaming' = FALSE /\ pendingToolCalls' = pendingToolCalls

-----------------------------------------------------------------------------
(* PendingMessageQueue.drain: what it returns and what it leaves.          *)
Drained(q, m) == IF m = "all" \/ q = <<>> THEN q ELSE <<Head(q)>>
Rest(q, m)    == IF m = "all" \/ q = <<>> THEN <<>> ELSE Tail(q)

-----------------------------------------------------------------------------
(* Tool calls.  "starting" is in preparation, "ready" waits for the rest   *)
(* of a parallel batch, "executing" has tool.execute running, "settled"    *)
(* waits for update listeners and afterToolCall, "ended" waits for the     *)
(* listeners of tool_execution_end, "done" has resolved, "rejected" and    *)
(* "failed" have thrown before and after emitting tool_execution_end, and  *)
(* "reported" has its result message in the transcript.                    *)

CallStates == {"none", "starting", "ready", "executing", "settled",
               "ended", "done", "rejected", "failed", "reported"}
NotEnded   == {"starting", "ready", "executing", "settled", "rejected"}
Updates    == {"none", "listening", "heard", "rejected"}

PCs == {"idle", "prompts", "turn", "inject", "injected", "calling", "streaming",
        "answered", "tool", "prepare", "prepared", "immediate", "joining",
        "reporting", "reported", "turnEnd", "ended",
        "failure", "failureMessage", "failureEnd"}

(* The calls the loop is waiting for.                                      *)
Awaited ==
    IF pc = "joining" /\ mode = "parallel"
    THEN {batch[i] : i \in 1..idx}
    ELSE {batch[idx]}

JoinRejects == \E c \in Awaited : st[c] \in {"rejected", "failed"}

UpdatesHeard(c) == upd[c] \in {"none", "heard"}

(* What a batch adds to the context: a result for each call it got to.     *)
Results == [i \in 1..idx |-> ToolResult(batch[i])]

-----------------------------------------------------------------------------
(* Initial state: createMutableAgentState and the constructor.             *)

NewState ==
    /\ messages = <<>>
    /\ isStreaming = FALSE
    /\ pendingToolCalls = {}

Init ==
    /\ NewState
    /\ activeRun = 0 /\ aborted = FALSE
    /\ steeringQueue = <<>> /\ followUpQueue = <<>>
    /\ queueMode \in [steer : QueueModes, followUp : QueueModes]
    /\ pc = "idle" /\ ctx = <<>> /\ newMessages = <<>> /\ pending = <<>>
    /\ hasMore = FALSE /\ skipPoll = FALSE
    /\ batch = <<>> /\ idx = 0 /\ mode \in ToolModes
    /\ st = [c \in Calls |-> "none"]
    /\ owner = [c \in Calls |-> 0]
    /\ upd = [c \in Calls |-> "none"]
    /\ terminate = {}
    /\ runs = 0 /\ nMsgs = 0 /\ nCalls = 0 /\ faults = 0
    /\ discarded = {} /\ wasReset = FALSE /\ agentEnds = 0

-----------------------------------------------------------------------------
(* The application.                                                        *)

steer ==
    /\ nMsgs < MaxMsgs
    /\ nMsgs' = nMsgs + 1
    /\ steeringQueue' = Append(steeringQueue, User(nMsgs + 1, "steer"))
    /\ UNCHANGED <<followUpQueue, queueMode, runVars, loopVars, toolVars,
                   faults, discarded, agentEnds, messages, pc>>

followUp ==
    /\ nMsgs < MaxMsgs
    /\ nMsgs' = nMsgs + 1
    /\ followUpQueue' = Append(followUpQueue, User(nMsgs + 1, "followUp"))
    /\ UNCHANGED <<steeringQueue, queueMode, runVars, loopVars, toolVars,
                   faults, discarded, agentEnds, messages, pc>>

(* clearSteeringQueue, clearFollowUpQueue and, in sequence, clearAllQueues *)
clearSteeringQueue ==
    /\ Resets
    /\ discarded' = discarded \cup Ids(steeringQueue)
    /\ steeringQueue' = <<>>
    /\ UNCHANGED <<followUpQueue, queueMode, runVars, loopVars, toolVars,
                   nMsgs, faults, agentEnds, messages, pc>>

clearFollowUpQueue ==
    /\ Resets
    /\ discarded' = discarded \cup Ids(followUpQueue)
    /\ followUpQueue' = <<>>
    /\ UNCHANGED <<steeringQueue, queueMode, runVars, loopVars, toolVars,
                   nMsgs, faults, agentEnds, messages, pc>>

setQueueMode ==
    /\ queueMode' \in [steer : QueueModes, followUp : QueueModes]
    /\ UNCHANGED <<steeringQueue, followUpQueue, runVars, loopVars, toolVars,
                   histVars, messages, pc>>

abort ==
    /\ activeRun # 0
    /\ aborted' = TRUE
    /\ UNCHANGED <<appVars, activeRun, isStreaming, runs, wasReset, loopVars,
                   toolVars, histVars, messages, pc>>

(* reset() asks for no idle agent: the active run keeps its own context.   *)
reset ==
    /\ Resets
    /\ messages' = <<>> /\ isStreaming' = FALSE /\ pendingToolCalls' = {}
    /\ steeringQueue' = <<>> /\ followUpQueue' = <<>>
    /\ discarded' = discarded \cup Ids(messages) \cup Ids(steeringQueue)
                             \cup Ids(followUpQueue)
    /\ wasReset' = (activeRun # 0)
    /\ UNCHANGED <<queueMode, activeRun, aborted, runs, loopVars, batch, idx, mode, st,
                   owner, upd, terminate, nCalls, nMsgs, faults, agentEnds, pc>>

(* runWithLifecycle and the head of runAgentLoop / runAgentLoopContinue.   *)
StartRun(prompts, skip) ==
    /\ activeRun = 0 /\ runs < MaxRuns
    /\ runs' = runs + 1 /\ activeRun' = runs + 1
    /\ isStreaming' = TRUE /\ aborted' = FALSE
    /\ wasReset' = FALSE /\ agentEnds' = 0
    /\ pc' = "prompts" /\ pending' = prompts
    /\ ctx' = messages \o prompts /\ newMessages' = prompts
    /\ hasMore' = TRUE /\ skipPoll' = skip
    /\ UNCHANGED <<queueMode, toolVars, faults, discarded, messages>>

prompt(k) ==
    /\ nMsgs + k <= MaxMsgs
    /\ nMsgs' = nMsgs + k
    /\ StartRun([i \in 1..k |-> User(nMsgs + i, "prompt")], FALSE)
    /\ UNCHANGED <<steeringQueue, followUpQueue>>

(* continue() on a transcript that ends with an assistant message takes    *)
(* queued messages, and does not poll the steering queue a second time.    *)
continueQueued ==
    /\ messages # <<>> /\ messages[Len(messages)].role = "assistant"
    /\ \/ /\ steeringQueue # <<>>
          /\ StartRun(Drained(steeringQueue, queueMode.steer), TRUE)
          /\ steeringQueue' = Rest(steeringQueue, queueMode.steer)
          /\ UNCHANGED followUpQueue
       \/ /\ steeringQueue = <<>> /\ followUpQueue # <<>>
          /\ StartRun(Drained(followUpQueue, queueMode.followUp), FALSE)
          /\ followUpQueue' = Rest(followUpQueue, queueMode.followUp)
          /\ UNCHANGED steeringQueue
    /\ UNCHANGED nMsgs

continueTranscript ==
    /\ messages # <<>> /\ messages[Len(messages)].role # "assistant"
    /\ StartRun(<<>>, FALSE)
    /\ UNCHANGED <<steeringQueue, followUpQueue, nMsgs>>

-----------------------------------------------------------------------------
(* The loop: injecting messages and calling the model.                     *)

Report(ms) == newMessages' = newMessages \o ms

EmitPrompt ==
    /\ pc = "prompts" /\ pending # <<>>
    /\ messages' = Append(messages, Head(pending))
    /\ pending' = Tail(pending)
    /\ UNCHANGED <<appVars, runVars, ctx, newMessages, hasMore, skipPoll, toolVars,
                   histVars, pc>>

(* getSteeringMessages: drains the queue into pendingMessages.             *)
PollSteering ==
    /\ pc = "turnEnd" \/ (pc = "prompts" /\ pending = <<>>)
    /\ pc' = "turn" /\ skipPoll' = FALSE
    /\ IF skipPoll
       THEN UNCHANGED <<pending, steeringQueue>>
       ELSE /\ pending' = Drained(steeringQueue, queueMode.steer)
            /\ steeringQueue' = Rest(steeringQueue, queueMode.steer)
    /\ UNCHANGED <<followUpQueue, queueMode, runVars, ctx, newMessages, hasMore,
                   toolVars, histVars, messages>>

EnterTurn ==
    /\ pc = "turn" /\ (hasMore \/ pending # <<>>)
    /\ pc' = "inject"
    /\ UNCHANGED <<appVars, runVars, loopVars, toolVars, histVars, messages>>

WouldStop == ~hasMore /\ pending = <<>>

(* The agent would stop here: follow-up messages, or agent_end.            *)
PollFollowUps ==
    /\ pc = "turn" /\ WouldStop
    /\ pending' = Drained(followUpQueue, queueMode.followUp)
    /\ followUpQueue' = Rest(followUpQueue, queueMode.followUp)
    /\ IF followUpQueue # <<>>
       THEN hasMore' = TRUE /\ UNCHANGED <<pc, agentEnds>>
       ELSE pc' = "ended" /\ agentEnds' = agentEnds + 1 /\ UNCHANGED hasMore
    /\ UNCHANGED <<steeringQueue, queueMode, runVars, ctx, newMessages, skipPoll, toolVars,
                   nMsgs, faults, discarded, messages>>

InjectMessage ==
    /\ pc = "inject" /\ pending # <<>>
    /\ messages' = Append(messages, Head(pending))
    /\ pc' = "injected"
    /\ UNCHANGED <<appVars, runVars, loopVars, toolVars, histVars>>

MessageInjected ==
    /\ pc = "injected"
    /\ ctx' = Append(ctx, Head(pending))
    /\ Report(<<Head(pending)>>)
    /\ pending' = Tail(pending)
    /\ pc' = "inject"
    /\ UNCHANGED <<appVars, runVars, hasMore, skipPoll, toolVars, histVars, messages>>

CallModel ==
    /\ pc = "inject" /\ pending = <<>>
    /\ pc' = "calling"
    /\ UNCHANGED <<appVars, runVars, loopVars, toolVars, histVars, messages>>

KeepTranscript == UNCHANGED messages

(* A streamed response is in the context before it is complete; listeners  *)
(* hear of it, the transcript gets it only when it is.                     *)
StreamStart ==
    /\ pc = "calling"
    /\ ctx' = Append(ctx, Partial)
    /\ pc' = "streaming"
    /\ KeepTranscript
    /\ UNCHANGED <<appVars, runVars, newMessages, pending, hasMore, skipPoll, toolVars,
                   histVars>>

StreamDone(k, stop) ==
    LET calls == [i \in 1..k |-> nCalls + i]
        final == Assistant(calls, stop)
    IN  /\ pc \in {"calling", "streaming"}
        /\ nCalls + k <= MaxCalls
        /\ ctx' = IF pc = "streaming" THEN [ctx EXCEPT ![Len(ctx)] = final]
                                      ELSE Append(ctx, final)
        /\ messages' = Append(messages, final)
        /\ nCalls' = nCalls + k
        /\ batch' = (IF stop = "stop" THEN calls ELSE <<>>) /\ idx' = 0
        /\ pc' = "answered"
        /\ UNCHANGED <<appVars, runVars, newMessages, pending, hasMore, skipPoll, mode, st,
                       owner, upd, terminate, pendingToolCalls, histVars>>

EndLoop  == pc' = "ended" /\ agentEnds' = agentEnds + 1

Answered ==
    LET message == ctx[Len(ctx)]
    IN  /\ pc = "answered"
        /\ Report(<<message>>)
        /\ \/ /\ message.kind # "stop"
              /\ EndLoop
              /\ UNCHANGED <<hasMore, mode>>
           \/ /\ message.kind = "stop" /\ batch = <<>>
              /\ pc' = "turnEnd" /\ hasMore' = FALSE
              /\ UNCHANGED <<mode, agentEnds>>
           \/ /\ message.kind = "stop" /\ batch # <<>>
              /\ pc' = "tool" /\ hasMore' = FALSE
              /\ mode' \in ToolModes
              /\ UNCHANGED agentEnds
        /\ UNCHANGED <<appVars, runVars, ctx, pending, skipPoll, batch, idx, st, owner, upd,
                       terminate, nCalls, pendingToolCalls, nMsgs, faults, discarded,
                       messages>>

-----------------------------------------------------------------------------
(* The loop: a batch of tool calls.                                        *)

StartCall ==
    LET c == batch[idx + 1]
    IN  /\ pc = "tool"
        /\ idx' = idx + 1
        /\ st' = [st EXCEPT ![c] = "starting"]
        /\ owner' = [owner EXCEPT ![c] = activeRun]
        /\ pendingToolCalls' = pendingToolCalls \cup {c}
        /\ pc' = "prepare"
        /\ UNCHANGED <<appVars, runVars, loopVars, batch, mode, upd, terminate, nCalls,
                       histVars, messages>>

(* No such tool, invalid arguments, blocked by beforeToolCall, or aborted: *)
(* the outcome is an error result and the tool is not executed.            *)
PrepareImmediate ==
    LET c == batch[idx]
    IN  /\ pc = "prepare"
        /\ st' = [st EXCEPT ![c] = "ended"]
        /\ pendingToolCalls' = pendingToolCalls \ {c}
        /\ pc' = IF mode = "parallel" THEN "immediate" ELSE "joining"
        /\ UNCHANGED <<appVars, runVars, loopVars, batch, idx, mode, owner, upd, terminate,
                       nCalls, histVars, messages>>

PreparedToolCall ==
    /\ pc = "prepare" /\ ~aborted
    /\ IF mode = "parallel"
       THEN st' = [st EXCEPT ![batch[idx]] = "ready"] /\ pc' = "prepared"
       ELSE st' = [st EXCEPT ![batch[idx]] = "executing"] /\ pc' = "joining"
    /\ UNCHANGED <<appVars, runVars, loopVars, batch, idx, mode, owner, upd, terminate, nCalls,
                   pendingToolCalls, histVars, messages>>

(* End of one round of the preflight loop of executeToolCallsParallel: the *)
(* next call, or every prepared call at once after the last or an abort.   *)
PreflightDone ==
    /\ pc = "prepared" \/ (pc = "immediate" /\ st[batch[idx]] = "done")
    /\ IF idx < Len(batch) /\ ~aborted
       THEN pc' = "tool" /\ UNCHANGED st
       ELSE /\ pc' = "joining"
            /\ st' = [c \in Calls |-> IF st[c] = "ready" /\ owner[c] = activeRun
                                      THEN "executing" ELSE st[c]]
    /\ UNCHANGED <<appVars, runVars, loopVars, batch, idx, mode, owner, upd, terminate, nCalls,
                   pendingToolCalls, histVars, messages>>

(* Promise.all of a parallel batch has resolved.                           *)
AllDone ==
    /\ pc = "joining" /\ mode = "parallel"
    /\ \A c \in Awaited : st[c] = "done"
    /\ pc' = "reporting"
    /\ UNCHANGED <<appVars, runVars, loopVars, toolVars, histVars, messages>>

(* emitToolResultMessage: of the one call of a sequential batch that just  *)
(* ended, or of the next call, in source order, of a parallel one.         *)
SourceOrder(i) == \A j \in 1..(i - 1) : st[batch[j]] = "reported"

ReportResult(i) ==
    /\ \/ pc = "joining" /\ mode = "sequential" /\ i = idx /\ pc' = "reported"
       \/ pc = "reporting" /\ pc' = pc
    /\ st[batch[i]] = "done"
    /\ SourceOrder(i)
    /\ st' = [st EXCEPT ![batch[i]] = "reported"]
    /\ messages' = Append(messages, ToolResult(batch[i]))
    /\ UNCHANGED <<appVars, runVars, loopVars, batch, idx, mode, owner, upd, terminate, nCalls,
                   pendingToolCalls, histVars>>

ResultReported == pc = "reported"

NextCall ==
    /\ ResultReported /\ idx < Len(batch) /\ ~aborted
    /\ pc' = "tool"
    /\ UNCHANGED <<appVars, runVars, loopVars, toolVars, histVars, messages>>

EndBatch ==
    /\ \/ pc = "reported" /\ (idx = Len(batch) \/ aborted)
       \/ pc = "reporting" /\ \A i \in 1..idx : st[batch[i]] = "reported"
    /\ ctx' = ctx \o Results
    /\ Report(Results)
    /\ hasMore' = (\E i \in 1..idx : batch[i] \notin terminate)
    /\ pc' = "turnEnd"
    /\ UNCHANGED <<appVars, runVars, pending, skipPoll, toolVars, histVars, messages>>

-----------------------------------------------------------------------------
(* A tool call on its own: executePreparedToolCall and finalizing.  It     *)
(* goes on even if the run that started it is over.                        *)

(* The tool reports progress; emit throws when no run is active.           *)
CallUpdates(c) ==
    /\ st[c] = "executing" /\ upd[c] = "none" /\ MaxUpdates > 0
    /\ upd' = [upd EXCEPT ![c] = IF activeRun = 0 THEN "rejected" ELSE "listening"]
    /\ UNCHANGED <<appVars, runVars, loopVars, batch, idx, mode, st, owner, terminate, nCalls,
                   pendingToolCalls, histVars, messages, pc>>

UpdateHeard(c) ==
    /\ upd[c] = "listening"
    /\ upd' = [upd EXCEPT ![c] = "heard"]
    /\ UNCHANGED <<appVars, runVars, loopVars, batch, idx, mode, st, owner, terminate, nCalls,
                   pendingToolCalls, histVars, messages, pc>>

(* tool.execute returns or throws: no updates are accepted from here on.   *)
CallSettles(c) ==
    /\ st[c] = "executing"
    /\ st' = [st EXCEPT ![c] = "settled"]
    /\ UNCHANGED <<appVars, runVars, loopVars, batch, idx, mode, owner, upd, terminate, nCalls,
                   pendingToolCalls, histVars, messages, pc>>

(* All updates were heard: afterToolCall, then tool_execution_end.         *)
CallEnds(c, term) ==
    /\ st[c] = "settled" /\ UpdatesHeard(c)
    /\ st' = [st EXCEPT ![c] = IF activeRun = 0 THEN "failed" ELSE "ended"]
    /\ terminate' = IF term THEN terminate \cup {c} ELSE terminate
    /\ pendingToolCalls' = pendingToolCalls \ {c}
    /\ UNCHANGED <<appVars, runVars, loopVars, batch, idx, mode, owner, upd, nCalls,
                   histVars, messages, pc>>

(* A listener of an update threw: executePreparedToolCall rejects.         *)
CallRejects(c) ==
    /\ st[c] = "settled" /\ upd[c] = "rejected"
    /\ st' = [st EXCEPT ![c] = "rejected"]
    /\ UNCHANGED <<appVars, runVars, loopVars, batch, idx, mode, owner, upd, terminate, nCalls,
                   pendingToolCalls, histVars, messages, pc>>

EndHeard(c) ==
    /\ st[c] = "ended"
    /\ st' = [st EXCEPT ![c] = "done"]
    /\ UNCHANGED <<appVars, runVars, loopVars, batch, idx, mode, owner, upd, terminate, nCalls,
                   pendingToolCalls, histVars, messages, pc>>

(* A listener of the update or of tool_execution_end throws.               *)
CallListenerThrows(c) ==
    /\ faults < MaxFaults /\ faults' = faults + 1
    /\ \/ upd[c] = "listening" /\ upd' = [upd EXCEPT ![c] = "rejected"] /\ UNCHANGED st
       \/ st[c] = "ended" /\ st' = [st EXCEPT ![c] = "failed"] /\ UNCHANGED upd
    /\ UNCHANGED <<appVars, runVars, loopVars, batch, idx, mode, owner, terminate, nCalls,
                   pendingToolCalls, nMsgs, discarded, agentEnds, messages, pc>>

-----------------------------------------------------------------------------
(* Failure and the end of a run.                                           *)

(* Messages the loop holds that no listener has seen yet.                  *)
Undelivered == IF pc = "injected" THEN Tail(pending) ELSE pending

(* The executor rejects; what it had drained from the queues is gone.      *)
RunFails ==
    /\ pc' = "failure"
    /\ discarded' = discarded \cup Ids(Undelivered)
    /\ pending' = <<>>
    /\ UNCHANGED <<appVars, runVars, ctx, newMessages, hasMore, skipPoll, toolVars,
                   nMsgs, agentEnds, messages>>

(* A listener, a hook or the provider throws where the loop awaits it.     *)
LoopThrows ==
    /\ pc \in {"prompts", "inject", "injected", "calling", "streaming", "answered", "prepare",
               "reporting", "reported", "turnEnd", "ended"}
    /\ faults < MaxFaults /\ faults' = faults + 1
    /\ RunFails

(* An awaited call has rejected; in a parallel batch others still run.     *)
CallFailed ==
    /\ pc \in {"joining", "immediate"} /\ JoinRejects
    /\ RunFails
    /\ UNCHANGED faults

(* handleRunFailure *)
FailureMessage ==
    /\ pc = "failure"
    /\ messages' = Append(messages, Assistant(<<>>, IF aborted THEN "aborted" ELSE "error"))
    /\ pc' = "failureMessage"
    /\ UNCHANGED <<appVars, runVars, loopVars, toolVars, histVars>>

FailureEnd ==
    /\ pc = "failureMessage"
    /\ agentEnds' = agentEnds + 1
    /\ pc' = "failureEnd"
    /\ UNCHANGED <<appVars, runVars, loopVars, toolVars, nMsgs, faults, discarded, messages>>

ClearRuntime == isStreaming' = FALSE /\ pendingToolCalls' = {}

finishRun ==
    /\ \/ pc \in {"ended", "failureEnd"} /\ UNCHANGED faults
       \/ /\ pc \in {"failure", "failureMessage"}   \* a listener throws once more
          /\ faults < MaxFaults /\ faults' = faults + 1
    /\ activeRun' = 0 /\ ClearRuntime
    /\ pc' = "idle" /\ aborted' = FALSE /\ agentEnds' = 0 /\ wasReset' = FALSE
    /\ ctx' = <<>> /\ newMessages' = <<>> /\ pending' = <<>>
    /\ hasMore' = FALSE /\ skipPoll' = FALSE /\ batch' = <<>> /\ idx' = 0
    /\ UNCHANGED <<appVars, runs, mode, st, owner, upd, terminate, nCalls, nMsgs, discarded,
                   messages>>

-----------------------------------------------------------------------------
App ==
    \/ steer \/ followUp \/ clearSteeringQueue \/ clearFollowUpQueue \/ setQueueMode
    \/ abort \/ reset \/ continueQueued \/ continueTranscript
    \/ \E k \in 1..MaxPrompt : prompt(k)

Loop ==
    \/ EmitPrompt \/ PollSteering \/ EnterTurn \/ PollFollowUps
    \/ InjectMessage \/ MessageInjected \/ CallModel \/ StreamStart
    \/ \E k \in 0..MaxBatch, stop \in Stops : StreamDone(k, stop)
    \/ Answered \/ StartCall \/ PrepareImmediate \/ PreparedToolCall \/ PreflightDone
    \/ AllDone \/ NextCall \/ EndBatch
    \/ \E i \in 1..idx : ReportResult(i)
    \/ CallFailed \/ FailureMessage \/ FailureEnd \/ finishRun

Call(c) ==
    \/ UpdateHeard(c) \/ CallSettles(c) \/ CallRejects(c) \/ EndHeard(c)
    \/ \E term \in BOOLEAN : CallEnds(c, term)

Next ==
    \/ App
    \/ Loop
    \/ \E c \in Calls : Call(c) \/ CallUpdates(c) \/ CallListenerThrows(c)
    \/ LoopThrows

Spec == Init /\ [][Next]_vars

(* The loop goes on whenever it can; tools, listeners and the provider     *)
(* answer eventually.                                                      *)
Fairness == WF_vars(Loop) /\ \A c \in Calls : WF_vars(Call(c))
FairSpec == Spec /\ Fairness

-----------------------------------------------------------------------------
(* Properties.                                                             *)

RunTypes ==
    /\ activeRun \in 0..MaxRuns /\ runs \in 0..MaxRuns
    /\ isStreaming \in BOOLEAN /\ aborted \in BOOLEAN /\ wasReset \in BOOLEAN
    /\ pc \in PCs

QueueTypes ==
    /\ steeringQueue \in Seq(UserMessage) /\ followUpQueue \in Seq(UserMessage)
    /\ queueMode \in [steer : QueueModes, followUp : QueueModes]

TextTypes ==
    /\ messages \in Seq(Message) /\ newMessages \in Seq(Message)
    /\ ctx \in Seq(Message \cup {Partial})
    /\ pending \in Seq(UserMessage)
    /\ hasMore \in BOOLEAN /\ skipPoll \in BOOLEAN

CallTypes ==
    /\ batch \in Seq(Calls) /\ idx \in 0..Len(batch) /\ mode \in ToolModes
    /\ st \in [Calls -> CallStates] /\ owner \in [Calls -> 0..MaxRuns]
    /\ upd \in [Calls -> Updates]
    /\ terminate \subseteq Calls /\ pendingToolCalls \subseteq Calls
    /\ nCalls \in 0..MaxCalls

CountTypes ==
    /\ nMsgs \in 0..MaxMsgs /\ faults \in 0..MaxFaults
    /\ discarded \subseteq Msgs /\ agentEnds \in 0..2

(* Every variable has its type. *)
TypeOK == RunTypes /\ QueueTypes /\ TextTypes /\ CallTypes /\ CountTypes

(* The model is called with exactly the transcript the application sees:   *)
(* the loop's own context and state.messages never drift apart in a run    *)
(* that is not reset.                                                      *)
ContextIsTranscript == pc = "calling" /\ ~wasReset => ctx = messages

(* agent_end reports precisely what the run added to the transcript.       *)
Suffix(s, t) == Len(s) <= Len(t) /\ s = SubSeq(t, Len(t) - Len(s) + 1, Len(t))
AgentEndReportsRun == pc = "ended" => Suffix(newMessages, ctx) /\ (wasReset \/ ctx = messages)

(* pendingToolCalls is exactly the calls of the active run between their   *)
(* start and end events, also while tools of a failed run still execute.   *)
PendingIsInProgress ==
    LET current == {c \in Calls : owner[c] = activeRun /\ st[c] \in NotEnded}
    IN  /\ activeRun = 0 => pendingToolCalls = {}
        /\ pendingToolCalls \subseteq current
        /\ activeRun # 0 /\ ~wasReset => pendingToolCalls = current

(* Messages of one kind reach the transcript in the order they were given  *)
(* to the agent, and none twice.                                           *)
Flow(via, queue) == messages \o Undelivered \o queue
InOrder(via, flow) ==
    \A i, j \in DOMAIN flow :
        i < j /\ flow[i].kind = via /\ flow[j].kind = via => flow[i].id < flow[j].id
DeliveredInOrder ==
    /\ InOrder("steer", Flow("steer", steeringQueue))
    /\ InOrder("followUp", Flow("followUp", followUpQueue))
    /\ InOrder("prompt", Flow("prompt", <<>>))

(* A message given to the agent is in a queue, in the hands of the loop or *)
(* in the transcript until the application discards it or the run fails:   *)
(* neither an abort nor a provider error loses one.                        *)
NothingLost ==
    1..nMsgs = Ids(messages) \cup Ids(pending) \cup Ids(steeringQueue)
                   \cup Ids(followUpQueue) \cup discarded

(* No progress update is still being heard when a call ends.               *)
UpdatesPrecedeEnd ==
    \A c \in Calls : upd[c] = "listening" => st[c] \in {"executing", "settled"}

(* agent_end is the last event of a run, as long as nothing was thrown:    *)
(* after it the transcript does not grow and there is no second agent_end. *)
AgentEndIsFinal ==
    [][faults' = 0 /\ agentEnds = 1 =>
           agentEnds' <= 1 /\ Len(messages') <= Len(messages)]_vars

(* As long as nothing was thrown, listeners hear tool events only of the   *)
(* run that is active, and none after its agent_end.                       *)
ToolEventsOfActiveRun ==
    [][\A c \in Calls :
           faults' = 0 /\ st[c] = "settled" /\ st'[c] = "ended" =>
               owner[c] = activeRun /\ agentEnds = 0]_vars

(* Every run settles, whatever throws and whatever is aborted or queued.   *)
RunSettles == \A r \in Runs : activeRun = r ~> activeRun # r
=============================================================================
