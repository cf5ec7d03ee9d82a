---------------------------- MODULE AgentHarness ----------------------------
(***************************************************************************)
(* AgentHarness (packages/agent/src/harness/agent-harness.ts): it runs the *)
(* agent loop over a session and owns the phase, the message queues and    *)
(* the session writes that wait while an operation is active.  Each call   *)
(* is a process that other calls, made by the application or by listeners  *)
(* and hooks, interleave with wherever it awaits something.                *)
(*                                                                         *)
(* The session is the sequence of what was appended to it; the agent loop, *)
(* which module Agent has in detail, is what it asks of the harness.       *)
(***************************************************************************)
EXTENDS Naturals, SequencesExt

CONSTANTS
    MaxOperations,  \* bound: prompts, compactions and navigations
    MaxMade,        \* bound: messages and writes the application makes
    MaxTurns,       \* bound: turns a run takes
    MaxAborts,      \* bound: calls of abort
    MaxFaults,      \* bound: exceptions
    Faults,         \* which exceptions: some of FaultKinds
    Reentrant,      \* operations may start before the last one has resolved
    Calls           \* what the application calls

FaultKinds == {"listener", "update", "hook", "snapshot", "append"}
Structural == {"compaction", "branch_summary"}
Requests   == {"steer", "followUp", "nextTurn", "write"}

ASSUME BoundsAssumption ==
    /\ MaxOperations \in Nat /\ MaxMade \in Nat /\ MaxTurns \in Nat
    /\ MaxAborts \in Nat /\ MaxFaults \in Nat
ASSUME CallsAssumption ==
    /\ Faults \subseteq FaultKinds /\ Reentrant \in BOOLEAN
    /\ Calls \subseteq {"turn"} \cup Structural \cup Requests

VARIABLES
    phase,                 \* "idle" or the operation that is active
    runPromise,            \* the run waitForIdle waits for, 0 if undefined
    runAbortController,    \* the run abort signals, 0 if undefined
    pendingSessionWrites,
    steerQueue, followUpQueue, nextTurnQueue,
    session,               \* the entries, in the order they were appended
    op,                    \* [Operations -> the state of its call]
    direct,                \* writes made while idle that are being appended
    abortCall,             \* the call of abort that is under way
    made, started, aborts, faults,  \* counters the bounds apply to
    given,                 \* history: what was put in a queue, writes included
    cleared                \* history: what abort returned to its caller

core   == <<phase, runPromise, runAbortController>>
queues == <<steerQueue, followUpQueue, nextTurnQueue>>
counts == <<made, started, aborts>>
vars == <<core, pendingSessionWrites, queues, session, op, direct, abortCall,
          counts, faults, given, cleared>>

Operations == 1..MaxOperations

(* Messages and entries: those of the application are numbered.            *)
Kinds == {"prompt", "steer", "followUp", "nextTurn", "write", "direct"}
Item(kind)  == [kind |-> kind, n |-> made + 1]
Output(kind) == [kind |-> kind, n |-> 0]
Items == [kind : Kinds, n : 1..MaxMade]
         \cup [kind : {"assistant", "toolResult", "failure", "structural"}, n : {0}]

(* The state of an operation's call: where it awaits, and its variables.   *)
NewOp == [pc |-> "none", kind |-> "turn",
          context |-> <<>>,     \* messages of the low-level loop
          messages |-> <<>>,    \* to be persisted at their message_end
          holding |-> <<>>,     \* read from a queue, until its await is over
          dead |-> FALSE,       \* abort replaced the queue held messages are from
          more |-> TRUE,        \* hasMoreToolCalls
          stopping |-> FALSE,   \* the response was an error or aborted
          failing |-> FALSE,    \* emitRunFailure
          eventError |-> FALSE, \* of turn_end, to be thrown after the flush
          error |-> FALSE,      \* the call will reject
          aborted |-> FALSE,    \* the signal
          turns |-> 0]

Active(o) == op[o].pc \notin {"none", "done"}

-----------------------------------------------------------------------------
(* Faults: what definitions below would be with a bug; none uses them.     *)

RejectedKeepsPhase(o) == runPromise' = 0 /\ UNCHANGED phase
ContextNotRefreshed(o) == op[o].context
QueuesNothing(item) ==
    session' = Append(session, item) /\ UNCHANGED <<pendingSessionWrites, direct, given>>
ShiftedAnyway(o, appended) ==
    pendingSessionWrites' = IF pendingSessionWrites = <<>> THEN <<>> ELSE Tail(pendingSessionWrites)
DrainDropsOne(o, pc, next, queue) ==
    /\ op[o].pc = pc /\ queue # <<>>
    /\ queue' = <<>>
    /\ op' = [op EXCEPT ![o].holding = SubSeq(queue, 1, 1), ![o].pc = next]
WaitsForNothing(o) == TRUE
WaitsForARun(o) == o # 0 /\ op[o].pc = "done"
FlushedAndDrained(o, pc) ==
    /\ op[o].pc = pc /\ op[o].holding = <<>> /\ pendingSessionWrites = <<>>
    /\ steerQueue = <<>>

-----------------------------------------------------------------------------
Init ==
    /\ phase = "idle" /\ runPromise = 0 /\ runAbortController = 0
    /\ pendingSessionWrites = <<>>
    /\ steerQueue = <<>> /\ followUpQueue = <<>> /\ nextTurnQueue = <<>>
    /\ session = <<>> /\ op = [o \in Operations |-> NewOp] /\ direct = {}
    /\ abortCall = [at |-> "none", of |-> 0, during |-> {}]
    /\ made = 0 /\ started = 0 /\ aborts = 0 /\ faults = 0
    /\ given = <<>> /\ cleared = {}

Throws(fault) == fault \in Faults /\ faults < MaxFaults /\ faults' = faults + 1

Goto(o, pc) == op' = [op EXCEPT ![o].pc = pc]

Make == made < MaxMade /\ made' = made + 1

Start(kind) ==
    /\ kind \in Calls
    /\ phase = "idle" /\ phase' = kind
    /\ started < MaxOperations /\ started' = started + 1
    /\ Reentrant \/ (direct = {} /\ \A o \in Operations : ~Active(o))

(* prompt, skill, promptFromTemplate.                                      *)
prompt ==
    /\ Start("turn") /\ Make
    /\ runPromise' = started + 1
    /\ op' = [op EXCEPT ![started + 1] =
                 [NewOp EXCEPT !.pc = "snapshot", !.messages = <<Item("prompt")>>]]
    /\ UNCHANGED <<runAbortController, pendingSessionWrites, queues, session, direct, abortCall,
                   aborts, faults, given, cleared>>

(* compact and navigateTree: no run promise, no abort controller.          *)
structural(kind) ==
    /\ kind \in Structural /\ Start(kind)
    /\ op' = [op EXCEPT ![started + 1] = [NewOp EXCEPT !.pc = "summarize", !.kind = kind]]
    /\ UNCHANGED <<runPromise, runAbortController, pendingSessionWrites, queues, session, direct,
                   abortCall, made, aborts, faults, given, cleared>>

(* It is cancelled or fails, or its entry is appended and announced.       *)
Summarize(o) ==
    /\ op[o].pc = "summarize"
    /\ \/ phase' = "idle" /\ Goto(o, "done") /\ UNCHANGED session
       \/ session' = Append(session, Output("structural")) /\ Goto(o, "announce") /\ UNCHANGED phase
    /\ UNCHANGED <<runPromise, runAbortController, pendingSessionWrites, queues, direct,
                   abortCall, counts, faults, given, cleared>>

Announce(o) ==
    /\ op[o].pc = "announce"
    /\ phase' = "idle" /\ Goto(o, "done")
    /\ UNCHANGED <<runPromise, runAbortController, pendingSessionWrites, queues, session, direct,
                   abortCall, counts, faults, given, cleared>>

-----------------------------------------------------------------------------
(* Starting a run: createTurnState, then executeTurn up to the loop.       *)

(* The catch of prompt before the loop has started.                        *)
Rejected(o) == phase' = "idle" /\ runPromise' = 0

Snapshot(o) ==
    /\ op[o].pc = "snapshot"
    /\ op' = [op EXCEPT ![o].context = session, ![o].pc = "start"]
    /\ UNCHANGED <<core, pendingSessionWrites, queues, session, direct, abortCall,
                   counts, faults, given, cleared>>

(* The system prompt callback throws, or the skill or template is unknown. *)
StartThrows(o) ==
    /\ op[o].pc = "start" /\ Throws("snapshot")
    /\ Rejected(o) /\ Goto(o, "done")
    /\ UNCHANGED <<runAbortController, pendingSessionWrites, queues, session, direct, abortCall,
                   counts, given, cleared>>

TakeNextTurn(o) ==
    /\ op[o].pc = "start"
    /\ nextTurnQueue' = <<>>
    /\ op' = [op EXCEPT ![o].messages = nextTurnQueue \o @, ![o].holding = nextTurnQueue,
                        ![o].pc = IF nextTurnQueue = <<>> THEN "hook" ELSE "nextTurn"]
    /\ UNCHANGED <<core, pendingSessionWrites, steerQueue, followUpQueue, session, direct,
                   abortCall, counts, faults, given, cleared>>

NextTurnTaken(o) ==
    /\ op[o].pc = "nextTurn"
    /\ \/ /\ op' = [op EXCEPT ![o].holding = <<>>, ![o].pc = "hook"]
          /\ UNCHANGED <<core, nextTurnQueue, faults>>
       \/ /\ Throws("update")
          /\ nextTurnQueue' = op[o].holding \o nextTurnQueue
          /\ Rejected(o)
          /\ op' = [op EXCEPT ![o].holding = <<>>, ![o].pc = "done"]
          /\ UNCHANGED runAbortController
    /\ UNCHANGED <<pendingSessionWrites, steerQueue, followUpQueue, session, direct, abortCall,
                   counts, given, cleared>>

(* before_agent_start, then the controller exists and the loop starts.     *)
BeforeAgentStart(o) ==
    /\ op[o].pc = "hook"
    /\ \/ /\ runAbortController' = o
          /\ op' = [op EXCEPT ![o].context = @ \o op[o].messages, ![o].pc = "prompts"]
          /\ UNCHANGED <<phase, runPromise, faults>>
       \/ Throws("hook") /\ Rejected(o) /\ Goto(o, "done") /\ UNCHANGED runAbortController
    /\ UNCHANGED <<pendingSessionWrites, queues, session, direct, abortCall, counts, given, cleared>>

-----------------------------------------------------------------------------
(* The run.                                                                *)

(* What throws in the loop reaches emitRunFailure; what throws there, the  *)
(* finally of executeTurn.                                                 *)
Failed(c) ==
    IF c.failing THEN [c EXCEPT !.pc = "lastFlush", !.error = TRUE, !.holding = <<>>]
    ELSE [c EXCEPT !.pc = "output", !.failing = TRUE, !.messages = <<Output("failure")>>,
                   !.eventError = FALSE, !.holding = <<>>]

Fails(o) == op' = [op EXCEPT ![o] = Failed(@)]

PersistPCs == {"prompts", "pending", "output"}

(* message_start to the listeners, message_end to the session before them. *)
MessageEnd(o) ==
    /\ op[o].pc \in PersistPCs /\ op[o].messages # <<>>
    /\ \/ /\ session' = Append(session, Head(op[o].messages))
          /\ \/ op' = [op EXCEPT ![o].messages = Tail(@)] /\ UNCHANGED faults
             \/ Throws("listener") /\ Fails(o)
       \/ (Throws("append") \/ Throws("listener")) /\ Fails(o) /\ UNCHANGED session
    /\ UNCHANGED <<core, pendingSessionWrites, queues, direct, abortCall, counts, given, cleared>>

MessagesEnded(o) ==
    /\ op[o].pc \in PersistPCs /\ op[o].messages = <<>>
    /\ Goto(o, CASE op[o].pc = "prompts" -> "steer"
                 [] op[o].pc = "pending" -> "request"
                 [] op[o].pc = "output"  -> "turnEnd")
    /\ UNCHANGED <<core, pendingSessionWrites, queues, session, direct, abortCall,
                   counts, faults, given, cleared>>

(* drainQueuedMessages takes all messages or one, as the mode is by now.   *)
Drain(o, pc, next, queue) ==
    /\ op[o].pc = pc /\ queue # <<>>
    /\ \E n \in {1, Len(queue)} :
          /\ queue' = SubSeq(queue, n + 1, Len(queue))
          /\ op' = [op EXCEPT ![o].holding = SubSeq(queue, 1, n), ![o].dead = FALSE,
                              ![o].pc = next]

(* unshift into the array they came from, which abort may have replaced.   *)
RolledBack(queue, o) == IF op[o].dead THEN queue ELSE op[o].holding \o queue

Drained(o, pc, queue) ==
    /\ op[o].pc = pc
    /\ \/ /\ op' = [op EXCEPT ![o].messages = op[o].holding, ![o].holding = <<>>,
                              ![o].context = @ \o op[o].holding, ![o].pc = "pending"]
          /\ UNCHANGED <<queue, faults>>
       \/ Throws("update") /\ queue' = RolledBack(queue, o) /\ Fails(o)

DrainQueues(o) ==
    /\ \/ Drain(o, "steer", "steerUpdate", steerQueue) /\ UNCHANGED <<followUpQueue, faults>>
       \/ Drained(o, "steerUpdate", steerQueue) /\ UNCHANGED followUpQueue
       \/ Drain(o, "followUp", "followUpUpdate", followUpQueue)
          /\ UNCHANGED <<steerQueue, faults>>
       \/ Drained(o, "followUpUpdate", followUpQueue) /\ UNCHANGED steerQueue
    /\ UNCHANGED <<core, pendingSessionWrites, nextTurnQueue, session, direct, abortCall, counts,
                   given, cleared>>

NothingQueued(o) ==
    /\ \/ /\ op[o].pc = "steer" /\ steerQueue = <<>>
          /\ Goto(o, IF op[o].more THEN "request" ELSE "followUp")
       \/ op[o].pc = "followUp" /\ followUpQueue = <<>> /\ Goto(o, "endFlush")
    /\ UNCHANGED <<core, pendingSessionWrites, queues, session, direct, abortCall,
                   counts, faults, given, cleared>>

(* The hooks of a request may throw; a provider honours the signal.  Tools *)
(* may end the run: then a turn with results is not followed by another.   *)
Request(o) ==
    /\ op[o].pc = "request"
    /\ \/ /\ op' = [op EXCEPT ![o].stopping = op[o].aborted, ![o].pc = "response"]
          /\ UNCHANGED faults
       \/ Throws("listener") /\ Fails(o)
    /\ UNCHANGED <<core, pendingSessionWrites, queues, session, direct, abortCall, counts,
                   given, cleared>>

Outputs == {<<Output("assistant")>>, <<Output("assistant"), Output("toolResult")>>}

Response(o) ==
    /\ op[o].pc = "response"
    /\ \E output \in Outputs, stops, more \in BOOLEAN :
          LET tools == Len(output) = 2 IN
          /\ op[o].stopping => stops
          /\ tools => ~stops /\ op[o].turns < MaxTurns
          /\ more => tools
          /\ op' = [op EXCEPT ![o].messages = output, ![o].context = @ \o output,
                              ![o].more = more, ![o].stopping = stops,
                              ![o].turns = IF tools THEN @ + 1 ELSE @, ![o].pc = "output"]
    /\ UNCHANGED <<core, pendingSessionWrites, queues, session, direct, abortCall,
                   counts, faults, given, cleared>>

TurnEnd(o) ==
    /\ op[o].pc = "turnEnd"
    /\ \/ Goto(o, "turnFlush") /\ UNCHANGED faults
       \/ Throws("listener") /\ op' = [op EXCEPT ![o].eventError = TRUE, ![o].pc = "turnFlush"]
    /\ UNCHANGED <<core, pendingSessionWrites, queues, session, direct, abortCall, counts,
                   given, cleared>>

-----------------------------------------------------------------------------
(* flushPendingSessionWrites, wherever it is awaited.                      *)

FlushPCs == {"turnFlush", "nextFlush", "endFlush", "lastFlush"}

Flush(o) ==
    /\ op[o].pc \in FlushPCs /\ op[o].holding = <<>> /\ pendingSessionWrites # <<>>
    /\ op' = [op EXCEPT ![o].holding = <<Head(pendingSessionWrites)>>]
    /\ UNCHANGED <<core, pendingSessionWrites, queues, session, direct, abortCall,
                   counts, faults, given, cleared>>

(* The first write is removed after it has been appended.                  *)
Shifted(o, appended) ==
    pendingSessionWrites' = IF appended /\ pendingSessionWrites # <<>>
                            THEN Tail(pendingSessionWrites) ELSE pendingSessionWrites

(* A flush that fails in the finally of executeTurn is its last step.      *)
FlushFails(o) == IF op[o].pc = "lastFlush" THEN op' = [op EXCEPT ![o].holding = <<>>, ![o].error = TRUE,
                                                               ![o].pc = "finally"]
                 ELSE Fails(o)

Flushed(o) ==
    /\ op[o].pc \in FlushPCs /\ op[o].holding # <<>>
    /\ \E appended \in BOOLEAN :
          /\ Shifted(o, appended)
          /\ IF appended
             THEN /\ session' = Append(session, Head(op[o].holding))
                  /\ op' = [op EXCEPT ![o].holding = <<>>] /\ UNCHANGED faults
             ELSE Throws("append") /\ FlushFails(o) /\ UNCHANGED session
    /\ UNCHANGED <<core, queues, direct, abortCall, counts, given, cleared>>

FlushedAll(o, pc) == op[o].pc = pc /\ op[o].holding = <<>> /\ pendingSessionWrites = <<>>

(* turn_end goes on with what its listeners threw, or with save_point.     *)
SavePoint(o) ==
    /\ FlushedAll(o, "turnFlush")
    /\ \/ op[o].eventError /\ Fails(o) /\ UNCHANGED faults
       \/ ~op[o].eventError /\ Throws("listener") /\ Fails(o)
       \/ /\ ~op[o].eventError /\ UNCHANGED faults
          /\ Goto(o, IF op[o].failing \/ op[o].stopping THEN "endFlush" ELSE "nextFlush")
    /\ UNCHANGED <<core, pendingSessionWrites, queues, session, direct, abortCall, counts,
                   given, cleared>>

(* createTurnState at a save point.                                        *)
NextContext(o) == session

PrepareNextTurn(o) ==
    /\ FlushedAll(o, "nextFlush")
    /\ \/ op' = [op EXCEPT ![o].context = NextContext(o), ![o].pc = "steer"] /\ UNCHANGED faults
       \/ Throws("snapshot") /\ Fails(o)
    /\ UNCHANGED <<core, pendingSessionWrites, queues, session, direct, abortCall, counts,
                   given, cleared>>

(* agent_end: the harness is idle before its listeners hear of it.         *)
AgentEnd(o) ==
    /\ FlushedAll(o, "endFlush")
    /\ phase' = "idle" /\ Goto(o, "settling")
    /\ UNCHANGED <<runPromise, runAbortController, pendingSessionWrites, queues, session, direct,
                   abortCall, counts, faults, given, cleared>>

Settled(o) ==
    /\ op[o].pc = "settling"
    /\ \/ Goto(o, "lastFlush") /\ UNCHANGED faults
       \/ Throws("listener") /\ Fails(o)
    /\ UNCHANGED <<core, pendingSessionWrites, queues, session, direct, abortCall, counts,
                   given, cleared>>

(* The finally of executeTurn, then the catch and the finally of prompt.   *)
Finally(o) ==
    /\ op[o].pc = "finally" \/ FlushedAll(o, "lastFlush")
    /\ runAbortController' = 0
    /\ IF op[o].error THEN Rejected(o) ELSE runPromise' = 0 /\ UNCHANGED phase
    /\ Goto(o, "done")
    /\ UNCHANGED <<pendingSessionWrites, queues, session, direct, abortCall, counts, faults,
                   given, cleared>>

-----------------------------------------------------------------------------
(* Calls that any listener, hook or other caller makes.                    *)

steer ==
    /\ "steer" \in Calls /\ phase # "idle" /\ Make
    /\ steerQueue' = Append(steerQueue, Item("steer"))
    /\ given' = Append(given, Item("steer"))
    /\ UNCHANGED <<core, pendingSessionWrites, followUpQueue, nextTurnQueue, session, op, direct,
                   abortCall, started, aborts, faults, cleared>>

followUp ==
    /\ "followUp" \in Calls /\ phase # "idle" /\ Make
    /\ followUpQueue' = Append(followUpQueue, Item("followUp"))
    /\ given' = Append(given, Item("followUp"))
    /\ UNCHANGED <<core, pendingSessionWrites, steerQueue, nextTurnQueue, session, op, direct,
                   abortCall, started, aborts, faults, cleared>>

nextTurn ==
    /\ "nextTurn" \in Calls /\ Make
    /\ nextTurnQueue' = Append(nextTurnQueue, Item("nextTurn"))
    /\ given' = Append(given, Item("nextTurn"))
    /\ UNCHANGED <<core, pendingSessionWrites, steerQueue, followUpQueue, session, op, direct,
                   abortCall, started, aborts, faults, cleared>>

QueueWrite(item) ==
    /\ pendingSessionWrites' = Append(pendingSessionWrites, item)
    /\ given' = Append(given, item)
    /\ UNCHANGED <<session, direct>>

(* appendMessage, setModel, setThinkingLevel, setTools, setActiveTools.    *)
write ==
    /\ "write" \in Calls /\ Make
    /\ IF phase = "idle"
       THEN direct' = direct \cup {Item("direct")} /\ UNCHANGED <<session, pendingSessionWrites, given>>
       ELSE QueueWrite(Item("write"))
    /\ UNCHANGED <<core, queues, op, abortCall, started, aborts, faults, cleared>>

DirectWritten(item) ==
    /\ item \in direct /\ direct' = direct \ {item}
    /\ session' = Append(session, item)
    /\ UNCHANGED <<core, pendingSessionWrites, queues, op, abortCall, counts, faults, given, cleared>>

(* abort empties the queues by new arrays and signals the controller.      *)
abort ==
    /\ abortCall.at = "none" /\ aborts < MaxAborts /\ aborts' = aborts + 1
    /\ steerQueue' = <<>> /\ followUpQueue' = <<>>
    /\ cleared' = cleared \cup ToSet(steerQueue) \cup ToSet(followUpQueue)
    /\ op' = [o \in Operations |->
                 [op[o] EXCEPT !.dead = TRUE, !.aborted = @ \/ runAbortController = o]]
    /\ abortCall' = [at |-> "update", of |-> 0,
                     during |-> {o \in Operations : Active(o) /\ op[o].kind = "turn"}]
    /\ UNCHANGED <<core, pendingSessionWrites, nextTurnQueue, session, direct, made, started,
                   faults, given>>

(* waitForIdle, called when the queue update is over.                      *)
AbortWaits ==
    /\ abortCall.at = "update"
    /\ abortCall' = [abortCall EXCEPT !.at = "waiting", !.of = runPromise]
    /\ UNCHANGED <<core, pendingSessionWrites, queues, session, op, direct, counts, faults,
                   given, cleared>>

Waited(o) == o # 0 => op[o].pc = "done"

Aborted ==
    /\ abortCall.at = "waiting" /\ Waited(abortCall.of)
    /\ abortCall' = [abortCall EXCEPT !.at = "none"]
    /\ UNCHANGED <<core, pendingSessionWrites, queues, session, op, direct, counts, faults,
                   given, cleared>>

-----------------------------------------------------------------------------
Step(o) ==
    \/ Summarize(o) \/ Announce(o)
    \/ Snapshot(o) \/ StartThrows(o) \/ TakeNextTurn(o) \/ NextTurnTaken(o) \/ BeforeAgentStart(o)
    \/ MessageEnd(o) \/ MessagesEnded(o) \/ DrainQueues(o) \/ NothingQueued(o)
    \/ Request(o) \/ Response(o) \/ TurnEnd(o) \/ Flush(o) \/ Flushed(o)
    \/ SavePoint(o) \/ PrepareNextTurn(o) \/ AgentEnd(o) \/ Settled(o) \/ Finally(o)

App ==
    \/ prompt \/ (\E kind \in Structural : structural(kind))
    \/ steer \/ followUp \/ nextTurn \/ write \/ abort

Next ==
    \/ App \/ (\E o \in Operations : Step(o))
    \/ (\E item \in direct : DirectWritten(item)) \/ AbortWaits \/ Aborted

Spec == Init /\ [][Next]_vars

(* Providers, tools, hooks and listeners answer, and no await is forgotten.*)
FairSpec ==
    /\ Spec
    /\ \A o \in Operations : WF_vars(Step(o))
    /\ WF_vars(\E item \in direct : DirectWritten(item))
    /\ WF_vars(AbortWaits \/ Aborted)

-----------------------------------------------------------------------------
(* Properties.                                                             *)

PCs == {"none", "summarize", "announce", "snapshot", "start", "nextTurn", "hook",
        "steer", "steerUpdate", "followUp", "followUpUpdate", "request", "response", "turnEnd",
        "settling", "finally", "done"} \cup PersistPCs \cup FlushPCs

(* Every variable has its type. *)
TypeOK ==
    /\ phase \in {"idle", "turn"} \cup Structural
    /\ runPromise \in 0..MaxOperations /\ runAbortController \in 0..MaxOperations
    /\ \A q \in {pendingSessionWrites, steerQueue, followUpQueue, nextTurnQueue, session, given} :
          q \in Seq(Items)
    /\ direct \subseteq Items /\ cleared \subseteq Items
    /\ made \in 0..MaxMade /\ started \in 0..MaxOperations
    /\ aborts \in 0..MaxAborts /\ faults \in 0..MaxFaults
    /\ abortCall.at \in {"none", "update", "waiting"} /\ abortCall.of \in 0..MaxOperations
    /\ DOMAIN op = Operations
    /\ \A o \in Operations :
          /\ op[o].pc \in PCs /\ op[o].kind \in {"turn"} \cup Structural
          /\ \A q \in {op[o].context, op[o].messages, op[o].holding} : q \in Seq(Items)

(* A provider is sent exactly the persisted transcript, though it is built *)
(* from a snapshot, the messages taken from the queues and the output of   *)
(* earlier turns, while writes are queued and flushed meanwhile.           *)
ContextIsSession == \A o \in Operations : op[o].pc = "request" => op[o].context = session

(* Writes queued while busy reach the session once, in the order they were *)
(* made in, and stay queued until then, whatever throws.                   *)
Written == {i \in DOMAIN session : session[i].kind = "write"}

WritesInOrder ==
    /\ \A i, j \in Written : i < j => session[i].n < session[j].n
    /\ \A i, j \in DOMAIN pendingSessionWrites :
          i < j => pendingSessionWrites[i].n < pendingSessionWrites[j].n
    /\ \A i \in Written, j \in DOMAIN pendingSessionWrites :
          session[i].n < pendingSessionWrites[j].n

WritesKept ==
    /\ WritesInOrder
    /\ {session[i] : i \in Written} \cup ToSet(pendingSessionWrites)
          = {item \in ToSet(given) : item.kind = "write"}

(* Queued writes come after the messages of a turn, never among them.      *)
ToolResultsFollow ==
    \A i \in DOMAIN session :
        session[i].kind = "toolResult" => i > 1 /\ session[i - 1].kind = "assistant"

(* When every call has returned, however it failed, the harness is idle,   *)
(* nothing waits for a run, and abort signals none.                        *)
Released ==
    (\A o \in Operations : ~Active(o)) =>
        phase = "idle" /\ runPromise = 0 /\ runAbortController = 0

(* A message put in a queue is there, or with the run that took it, or in  *)
(* the session, or abort has returned it.  Only a run that fails after it  *)
(* took a message from the queue may lose it.                              *)
InQueues == ToSet(steerQueue) \cup ToSet(followUpQueue) \cup ToSet(nextTurnQueue)
WithRuns ==
    (UNION {ToSet(op[o].holding) \cup ToSet(op[o].messages) : o \in {p \in Operations : Active(p)}})
    \cup (UNION {ToSet(op[o].context) : o \in {p \in Operations : op[p].failing}})

NothingLost ==
    {item \in ToSet(given) : item.kind # "write"}
        \subseteq InQueues \cup WithRuns \cup ToSet(session) \cup cleared

(* abort returns when the runs that were active when it was called are     *)
(* over.                                                                   *)
AbortIsBarrier ==
    [][abortCall.at = "waiting" /\ abortCall'.at = "none" =>
          \A o \in abortCall.during : ~Active(o)]_vars

(* A prompt, compaction or navigation ends, and so does an abort.          *)
Settles      == \A o \in Operations : Active(o) ~> op[o].pc = "done"
AbortReturns == abortCall.at # "none" ~> abortCall.at = "none"

(* docs/agent-harness.md: pending writes "are flushed at save points, at   *)
(* operation settlement, and in failure cleanup", so none is left then.    *)
SettledIsFlushed == (\A o \in Operations : ~Active(o)) => pendingSessionWrites = <<>>
=============================================================================
