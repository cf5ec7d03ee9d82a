# A specification of Pi-Enhanced

This directory specifies the core of Pi-Enhanced in TLA+: the agent and its loop, the session tree
and its file, and the harness that runs the one over the other (`packages/agent`); the session of the
coding agent, its files, the tools whose calls share state, and
the credentials that its processes share (`packages/coding-agent`). TLC checks
the modules on small instances and TLAPS proves theorems about them for every value of the constants.

    tlc -config AgentTools.cfg MCAgent     # a run; PROJECT.json lists them all
    tlapm AgentProofs.tla                  # a proof module

`PROJECT.json` has the components, the runs, the source lines of every definition (`map`), the
hazards with the properties that watch them, and the theorems. Paths below are relative to `src/`.

Contents: 1 inventory, 2 how the code is modelled, 3 the agent, 4 the session, 5 the harness,
6 the coding agent's session, 7 the session files, 8 tools and credentials, 9 disagreements between
code and documents, 10 proofs, 11 what is not covered, 12 plan.

## 1. Inventory

Pi-Enhanced is a coding agent: four TypeScript packages, each a layer.

    coding-agent   AgentSession, SessionManager, tools, MCP servers, credentials, modes
        |  prompts, steers, listens to events
    agent          Agent  ->  agent loop  ->  tools
        |          AgentHarness  ->  agent loop, and  Session  ->  storage  ->  file
        |  StreamFn: a request in, a stream of events out
    ai             streams over the model providers
    tui            terminal input and rendering, used by the interactive mode

The coding agent is built on Agent and keeps its sessions with a SessionManager of its own.
AgentHarness is what `packages/agent` offers to other applications, with Session as its
persistent state.

Everything is one JavaScript thread per process: no data race, but an interleaving at every `await`,
and callers, listeners, hooks and tools are all free to call back into the object that awaits them.

### Components with a state of their own

| component | state | operations | talks to |
|---|---|---|---|
| Agent (`agent.ts`) | transcript, streaming flag, pending tool calls, two queues with modes, the active run with promise and abort signal | prompt, continue, steer, followUp, clear, reset, abort, waitForIdle, subscribe | runs the loop; reduces its events into the state, then awaits each listener |
| agent loop (`agent-loop.ts`) | context, new messages, pending messages, "has more tool calls", the batch being executed | one run: turns of request, response, tool calls; polls both queues | provider stream, tools and hooks by await; the agent by events |
| Session (`session.ts`) | none: an API over a storage | append of each kind, moveTo, getBranch, buildContext | storage, by await |
| JSONL storage (`jsonl-storage.ts`) | header, entries, index by id, labels, leaf, all mirrored from a file | createEntryId, appendEntry, setLeafId, getLeafId, getPathToRoot, open | file system |
| memory storage | the same without the file | the same | |
| AgentHarness (`agent-harness.ts`) | phase, run promise, abort controller, pending session writes, three queues, runtime configuration | prompt, skill, template, compact, navigateTree, steer, followUp, nextTurn, appendMessage, the setters, abort, waitForIdle | agent loop by its callbacks, session by await, hooks and listeners by await |
| AgentSession (coding agent) | retry counter and abort controllers, overflow guard, mirrored queues, bash results that wait | prompt, steer, compact, retry, executeBash, navigate, switch | Agent by events and calls, SessionManager |
| SessionManager (coding agent) | entries, leaf, "flushed" flag, a file written from the first assistant message on | append, branch, open, fork | file system, synchronously |
| EventStream (`ai`) | queued events, waiting readers, final result | push, end, iterate, result | providers write, the loop reads |
| file mutation queue | a promise chain per real path | withFileMutationQueue | edit and write tools |
| auth storage | credentials in a file shared by processes | get, set, refresh under a lock | file system, OAuth servers |
| MCP server manager | servers, transports, requests that wait for an answer | start, stop, call, cancel | child processes by JSON-RPC |
| TUI (stdin buffer, undo, kill ring, renderer) | bytes not yet a key, stacks, last screen | input, timeout, render | terminal |

The rest (providers, OAuth flows, skills, templates, settings, model tables, modes, extensions,
command line) is translation, loading, formatting or a caller of the above; `PROJECT.json` lists
each part with the reason it has no module.

### What is hard, and what would make each part correct

* **Agent and loop.** The transcript, the loop's context and its list of new messages are three copies
  extended at different awaits; queues are drained at four points while the application pushes to
  them; a parallel batch runs tools that finish, report progress, throw or outlive the run in any
  order. *Correct* means: the copies agree whenever a request is made; every result answers its call
  in the order of the calls; every queued message is delivered once, in order; pending tool calls
  are exactly those in progress; a run settles and nothing is said of it afterwards.
* **Session.** An append is three awaits without a lock; a file is written before memory; a move with
  a summary is two writes; the process may die at any point; ids are the first 8 digits of a
  time-ordered UUID, the same for 65 seconds. *Correct* means: a tree that only grows, in which every
  entry stays on the branch it was appended to; memory agrees with the file; what was confirmed
  survives; opening restores the leaf; the path to the root ends.
* **Harness.** Session writes made while an operation is active wait and are flushed at save points;
  contexts are rebuilt from the session between turns; anything may throw anywhere and a failure
  report is itself persisted; the harness is idle before the run is over. *Correct* means: a request
  is the persisted transcript; pending writes reach the session once, in order, and never between a
  call and its result; whatever throws, phase, promise and controller are free at the end; abort
  waits for the run; no queued message is lost.
* **AgentSession.** A retry sleeps between a failed run and the next and takes the failure back from memory
  only; a compaction replaces the messages; bash results, custom messages and queued input arrive at
  any await. *Correct* means: memory is what the session would rebuild; nothing said is forgotten;
  a tool result stays with its call; retries and recoveries end; the queues shown are the queues,
  although they are matched by text.
* **SessionManager.** The file is created late, appended to line by line, read back leniently and, if an
  earlier version of the program wrote it, truncated and rewritten; forks copy a path. *Correct* means: memory and file agree, what is saved stays, and a fork shows the
  model what its origin did.
* **File mutation queue, MCP servers.** The calls of one answer start together and may be aborted.
  *Correct* means: edits and writes of a file take effect as if one after another; tools that are
  offered are those of the transport that calls take; every call settles.
* **Auth storage.** Processes share a file of credentials under a lock on disk that is taken away when it
  looks old; a refresh holds it while it waits for a server that takes each refresh token once.
  *Correct* means: no token is used twice and the one given for it reaches the file; no write takes
  back another; nobody waits for a lock for ever.
* **EventStream** (planned): wake-ups of readers.

The 40 hazards of `PROJECT.json` name the lines. Those without a property have a note: planned,
violated (section 9), or known and documented by the repository itself.

## 2. How the code is modelled

* **An action is the code between two awaits.** `pc` (in Agent), `pc[w]` (in SessionTree) or
  `op[o].pc` (in AgentHarness) names the await at which a call is suspended. Code that runs without
  an await is one action, its early returns and its `finally` included.
* **Listeners, hooks, tools and providers** are the environment: at each await the application may make
  any call that the interface allows there, and the awaited party may answer or, up to `MaxFaults`,
  throw. A fault is a rejected await, not a crash; crashes exist where state outlives the process,
  in SessionTree, SessionManager and AuthStorage.
* **Data** is reduced to what the properties tell apart. A message of a user is a number and the way
  it was given (prompt, steer, follow-up); an assistant message is its calls and stop reason; a
  session entry is its id, parent, kind and, for a move, its target.
* **Bounds** are the constants `Max...`; each one guards the action that counts. The system has no such
  limits. A behaviour that has used them up simply stops, and an idle agent with nothing to do stops
  in earnest, so all runs have `CHECK_DEADLOCK FALSE`; that calls do return is checked by liveness
  properties instead.
* **"Faults" sections.** Each module has a group of operators that say what a definition would be with a
  plausible bug (a queue that keeps what it drained, a commit that forgets the leaf). No definition
  uses them. Putting one in the place of its definition makes TLC find the property violated, for
  every property of every passing run (`mutants` in `PROJECT.json`).

| module | role |
|---|---|
| Messages | messages of a transcript, shared by Agent and Transcript |
| Agent | agent.ts and agent-loop.ts together: the loop is the agent's only process |
| Transcript, AgentTranscript | what an agent promises; the refinement mapping from Agent |
| SessionTree | session.ts over jsonl-storage.ts, the file, crash and opening |
| Branches, SessionBranches | what a session promises; the refinement mapping from SessionTree |
| AgentHarness | agent-harness.ts over an abstract loop and an abstract session |
| AgentSession | agent-session.ts over an abstract run of the agent and an abstract session |
| SessionManager | session-manager.ts and its files |
| ToolCalls | the calls of one answer and their abort signal |
| FileMutations, AtomicFiles | file-mutation-queue.ts under edit and write; what they promise, and the mapping |
| McpServers | server-manager.ts for one server |
| ToolBatch | the composition of both for one answer |
| AuthStorage | auth-storage.ts in several processes, over the lock, the file and the token server |
| MCAgent, MCSession, MCHarness, MCAgentSession, MCSessionManager, MCTools, MCAuth | what TLC is started with |
| AgentProofs | theorems about Agent: its control and queues, its calls, transcript and refinement |
| SessionProofs | theorems about SessionTree and its refinement |
| HarnessProofs | theorems about AgentHarness: who holds what; what is sent, answered and kept |
| AgentSessionProofs, SessionManagerProofs | theorems about AgentSession and SessionManager |
| Selections, SequenceLemmas | the choice of some elements of a sequence; least counterexamples, and what is proved of sequences |
| ToolProofs, AuthStorageProofs | theorems about the tools and about auth storage |

AgentHarness does not instantiate Agent and SessionTree. The harness calls the loop's functions, not
the Agent class, and what it needs of them is small: which callbacks the loop makes in which order,
and that an append adds one entry. The product of the three would not finish on any bound of
interest. Section 11 says what this leaves out.

## 3. The agent

`Agent` follows one run from `prompt`, `continueQueued` or `continueTranscript` through `runLoop`:

| code | actions |
|---|---|
| runPromptMessages, runContinuation, runWithLifecycle | prompt, continueQueued, continueTranscript, by StartRun |
| runAgentLoop (agent_start, the prompts) | EmitPrompt, PollSteering |
| runLoop, the outer and the inner loop | EnterTurn, InjectMessage, MessageInjected, PollFollowUps |
| streamAssistantResponse | CallModel, StreamStart, StreamDone |
| after the response: error, aborted, tools, none | Answered |
| executeToolCallsSequential, ...Parallel, prepareToolCall | StartCall, PrepareImmediate, PreparedToolCall, PreflightDone, AllDone, ReportResult, ResultReported, NextCall, EndBatch |
| executePreparedToolCall, finalizeExecutedToolCall, emitted by each tool itself | CallUpdates, UpdateHeard, CallSettles, CallEnds, CallRejects, EndHeard, CallListenerThrows |
| handleRunFailure, finishRun | LoopThrows, CallFailed, FailureMessage, FailureEnd, finishRun |
| steer, followUp, clear..., setters of the modes, abort, reset | actions of these names |

`st[c]` says how far call c is, `owner[c]` which run made it: a tool of a run that has failed goes on
executing, and the events it emits are reduced into the agent's state whichever run is active then.
`processEvents` changes the state and then awaits the listeners, so it is part of the action that
emits the event.

**agent_tools** (2 runs, 2 messages, 2 calls in one batch or two, one progress update per call, one
exception, both tool modes, fair scheduling) checks

* `ContextIsTranscript`: a request is the transcript of the agent.
* `AgentEndReportsRun`: agent_end reports the end of the transcript.
* `PendingIsInProgress`: the pending calls are those between their start and end events.
* `UpdatesPrecedeEnd`: progress is heard before the end of its call.
* `ImplementsTranscript`: results answer the calls of their message, in source order and before anything
  else is said.
* `AgentEndIsFinal` and `ToolEventsOfActiveRun`: as long as nothing was thrown, agent_end is the last event
  of a run and tool events belong to the run that is active. With an exception both fail (section 9).
* `RunSettles`: every run settles, whatever throws and whatever is aborted or queued.

Two calls are the least that can overlap, be reordered and be in different batches; two runs the least
in which a tool can outlive its run; one exception reaches every await, and since a failed run goes
through handleRunFailure in a fixed order, a second one adds only the loss of the failure report.

**agent_queues** (2 runs, 3 messages, up to 2 in one prompt, both modes of both queues, clear and
reset, one exception, no tool calls) checks `DeliveredInOrder` and `NothingLost`. Three messages let
two wait in a queue while one is delivered, which is where the two modes differ.

*Fairness:* `WF(Loop)` and `WF(Call(c))` for each call. Each disjunct is code that runs when an await
is answered; weak fairness says that providers, tools, hooks and listeners answer and that the event
loop forgets no continuation. A tool that never returns hangs the agent by design (it receives the
abort signal and nothing more). The application's calls have no fairness.

`Transcript` is the abstract specification: a log that grows one message at a time, only during a
run, in which the calls of an assistant message are answered one by one in source order before
anything else is said, unless an abort or an exception broke the run off. `AgentTranscript` maps
`open` to the calls of the batch without a result.

## 4. The session

| code | actions |
|---|---|
| Session.appendTypedEntry: `await createEntryId()`, `await getLeafId()`, `await appendEntry()` | AppendStart, ReadLeaf, WriteLine or WriteFails, Committed |
| Session.moveTo, storage.setLeafId, the summary after it | MoveStart, SetLeafId, WriteLine or WriteFails, Committed, SummaryStart |
| generateEntryId | NewId |
| leafIdAfterEntry, getPathToRoot | LeafIdAfter, PathFrom |
| loadJsonlStorage, JsonlSessionStorage.open | Loads, Parsed, LeafOf, Open |
| the process dies | Crash |

*Ids.* `uuidv7().slice(0, 8)` is the upper 32 of the 48 bits of the time in milliseconds. `window` is
the time in units of 2^16 ms; in one window every short id is the same, and `NewId` falls back to a
whole UUID, taken to be fresh, if memory already has the short one. As in the code, it does not look
at appends under way. `ById` returns the last entry with an id, as the Map does.

*The file* is a sequence of lines. An ending is "line" (entry and newline), "open" (entry without its
newline) or "torn" (part of an entry). `CrashWrites` and `FailedWrites` say what an interrupted or
rejected write may leave.

**session_single** (one caller who awaits each operation, 2 windows, 3 entries, 2 crashes, 1 rejected
write): `ReopenRestores`, `AckedReadable`, `Rooted`, `ImplementsBranches`. One caller is what the
harness is meant to be. Three entries are a move with a summary and one entry to move to, two crashes
let the second hit what the first recovered, two windows let a short id be free again.
`CrashWrites = {"line"}`: a write that a crash interrupts is complete or absent. The "open" outcome
is described in section 9, and recovery from torn lines is an open question of
`packages/agent/docs/durable-harness.md`. `FailedWrites = {}`: a rejected append wrote nothing.

**session_concurrent** (2 callers, symmetric, 2 windows, 3 entries, 1 rejected write):
`MemoryIsFile`, `ParentsKnown`. Nothing prevents two callers (an idle harness appends what it is given
at once, and its listeners need not await one append before the next), and these two properties
survive it. The order of the entries in file
and memory, and `Rooted`, do not: two callers may share an id or a parent (section 9).

`MemoryIsFile` and `ReopenRestores` say that the file can be opened at all (`Loads`) before they
compare what it gives with the memory.

`Branches` is the abstract session: a map from entries to parents that only grows, and a leaf. The
mapping takes both from the *file*: an operation takes effect when its line is written, and
therefore at once or not at all whenever the process dies. A move with a summary is two abstract
steps.

## 5. The harness

Every prompt, compaction and navigation is a process `o` with a record `op[o]`; direct writes, made
while the harness is idle, and one call of abort are processes too.

| code | actions |
|---|---|
| prompt, skill, promptFromTemplate; createTurnState, executeTurn up to the loop | prompt, Snapshot, StartThrows, TakeNextTurn, NextTurnTaken, BeforeAgentStart |
| compact, navigateTree | structural, Summarize, Announce |
| the loop: prompts, queued messages, request, response | MessageEnd, MessagesEnded, DrainQueues, NothingQueued, Request, Response |
| handleAgentEvent for turn_end and agent_end | TurnEnd, SavePoint, AgentEnd, Settled |
| flushPendingSessionWrites, at its four places | Flush, Flushed |
| prepareNextTurn | PrepareNextTurn |
| emitRunFailure; the finally blocks of executeTurn and prompt | Failed, Finally, Rejected |
| steer, followUp, nextTurn; appendMessage and the setters | steer, followUp, nextTurn, write, DirectWritten |
| abort, waitForIdle | abort, AbortWaits, Aborted |

`Faults` chooses which awaits may throw: listeners, queue updates, the before_agent_start hook, the
callbacks of a snapshot, appends.

**harness_safety** (2 operations, 3 messages or writes, 1 turn with tools per run, 1 abort, 1 exception
of a listener, a snapshot or an append): `ContextIsSession`, `ToolResultsFollow`, `WritesKept`,
`Released`, `NothingLost`, `AbortIsBarrier`. Two operations let a compaction or a second prompt see
what the first left behind; a turn with tools is what makes a second request, the only one whose
context was rebuilt; three items are a prompt and two writes to keep in order. Exceptions
of the hook and of a queue update are left out here because `NothingLost` fails with them (section 9).

**harness_settles** (1 operation of any kind, 3 items, all calls, all five kinds of exception, fair):
`Settles`, `AbortReturns`.

*Fairness:* `WF(Step(o))` for each operation, the direct writes and the abort: what is awaited is
answered. Nothing is assumed of the application. abort is not called by a listener of the run it
waits for, which would wait for itself; `packages/agent/docs/agent-harness.md:18` describes that.

`Reentrant = FALSE` in both: an operation starts when the last one and the direct writes have
resolved. Section 9 has what happens without this assumption.

## 6. The coding agent's session

`AgentSession` is the coding agent's loop around the Agent. Its own variables are `pc` (where
`prompt()` is), `stage` (which of its loops over `agent.continue()` it is in), the retry counter, the
overflow guard, the bash results that wait, the mirrored queues and the two compactions. The Agent
is reduced to `phase`: what it delivers, asks, executes and polls, and when its listeners run;
`Agent` has the rest.

| code | actions |
|---|---|
| prompt up to its own run: flush, check of the last answer, before_agent_start | Prompt, CheckBeforePrompt, RunPrompt |
| the agent's run, seen through `_handleAgentEvent` | Deliver, Respond, ToolEnds, MessagePersisted, FirstPoll, FinishRun |
| `_handlePostAgentRun`, `_prepareRetry` and its sleep | HandlePostAgentRun (WaitForRetry, GiveUp), Slept, Cancelled |
| `_checkCompaction`, `_runAutoCompaction` | CheckCompaction, CompactionFails, CompactionSaved, CompactionEnds |
| `agent.continue()` | Continue, ContinueRefused |
| prepareCompaction, findCutPoint, compact (compaction.ts), buildSessionContext | Preparations, NoHistory, BuildSessionContext |
| steer, followUp, sendCustomMessage, recordBashResult, clearQueue, abort, abortRetry, abortCompaction | actions of these names |
| compact | compact, ManualPrepare, ManualFails, ManualSaved, ManualEnds |

*Data.* An answer is one of seven kinds (`ReplyKinds`): plain, with tool calls, plain but over the
compaction threshold, plain but over the context window, an error that may be retried, an overflow,
another error. An entry of the session is the message itself or a compaction with the first entry it
keeps and the set of those its summary covers. A compaction may cut wherever the code allows a cut
for some size of the recent messages in `KeepRecent`. Its summary covers what lies between the boundary
and the cut and what the previous summary covered - unless it splits the turn that begins at the
boundary: `compact` then has no history to summarise, writes "No prior history." and leaves the previous
summary out (`NoHistory`).

*Texts.* `_handleAgentEvent` takes a delivered message out of the lists that are shown by its text: out of
the steering list first, then out of the other one, and not at all if the text is empty (`Unmirror`). `Texts`
has one text and the empty one, of a message of images only, so that equal texts in both
queues, in a prompt and a queue, and images are the normal case. `unlisted` is a history variable: the
texts of messages that came without being shown (a prompt's own, and those the loop had taken when the
queues were cleared), as long as messages of that text wait.

*Continuations.* `checking`, `ran`, `cancelled` and `continue` wait for a promise that is settled
already. JavaScript runs those before any other event, so they come before everything else
(`NoContinuation`).

**agent_session** (3 answers that are not plain, 3 inputs of the user: prompts or any of the nine
operations, one text and images, 1 retry, compactions that keep 2 messages or all; 4.9 million states,
two and a half minutes). Three answers are an error, its retry
and an overflow, or tool calls, a full context and an error; three inputs are a prompt with two
interruptions or a second prompt after the first. It reaches a second compaction that splits the turn the
first one began to keep (20 steps). It checks

* `SessionIsContext`: what a restart would rebuild from the session is what the agent has in memory, at
  every await, but for answers that were taken back for a retry. Retry takes back in memory only,
  compaction rebuilds memory from the session, bash results and custom messages are written to
  both from three places.
* `ToolResultsFollow`: nothing comes between a tool call and its result in either, and no cut of a
  compaction separates them.
* `NothingForgotten`: each entry is in the agent's messages or covered by the summary they begin with, or it was
  covered and the rule for split turns has dropped that summary (section 9): nothing else forgets. And
  no bash result still waits when `prompt()` has returned.
* `RetriesBounded`: without a message delivered or recorded, another answer or a cancelled retry, a request
  fails at most once more than retries are allowed, and overflows at most once after the recovery. A
  recorded message counts because of one path: the last retry has failed, something is queued, a bash
  result is recorded while the threshold compaction runs; `continue()` then sees a last message that is
  no answer and sends the request again, what is queued undelivered. `cancelledAt` is a history
  variable: where in the session the retry was last cancelled.
* `QueueShown`: each text is shown as often as messages with it wait in the agent's queues or in the loop's
  hands. Matching by text costs this: if the text also came unshown, the prompt's own message takes
  the queued one's place in the list, so that fewer are shown than wait, never more; and a text that is
  queued both ways leaves the steering list first, so that as steering never more are shown than wait
  there. Messages of images only are shown as long as they are queued, and after it (section 9).

`TypeOK` documents the types of the module and is not among the run's properties; AgentSessionProofs
proves a stronger one, `TypeInv`.

`QuietCompact = TRUE`: the user's `/compact` comes while no prompt is running (section 9 has the other
case). The kinds "silent" and "fatal" are left out of `Replies` for size. No liveness is checked
here, so no fairness is assumed.

## 7. The session files

`SessionManager` is the coding agent's own implementation of a session, synchronous, so that an action
is a whole call. What can come between its steps is a write that throws, and the end of the process
between two calls or in the middle of a write.

| code | definitions |
|---|---|
| `_appendEntry`, `_persist`, `_rewriteFile` | AppendEntry, Persisted, Created, Written |
| appendMessage, appendLabelChange, appendCompaction, branchWithSummary | actions of these names |
| branch and resetLeaf, newSession, createBranchedSession | actions of these names |
| setSessionFile, loadEntriesFromFile, `_buildIndex`, forkFrom | open, Loaded, LabelsOf, LeafOf, forkFrom |
| migrateToCurrentVersion and the `_rewriteFile` after it | Migrated, Rewritten |
| another version of the program is installed | Upgrade |
| getBranch, buildSessionContext, prepareCompaction | GetBranch, BuildSessionContext, CutsFrom |

*Files.* Each has its lines and whether the last one is ended. `Written` lists what a write may leave: all
its lines, or some of them with a crash or an exception and, if `Tears`, a part of the next. The
other appends (model, thinking level, session info, custom entries) do what `appendMessage` does for
a message of the user.

*Versions.* `outdated` is the set of files whose header names an earlier version than the program's. `open`
migrates such a file and truncates and rewrites it in place, in one synchronous call in which the process
may die after any line. The migration modelled is the one from version 2 (and any later one that keeps
ids, parents and kinds); files of version 1, which have no ids, are not modelled.

**session_manager** (3 entries of every kind, 2 files, 4 ends of the process, any upgrades, 1 write that
throws; 0.9 million states) checks
`FileIsSession` (memory is what opening the file would give, as long as no write has thrown, and a file
that is not yet there means no answer was appended), `SavedStays` (what could be read of a file can be
read for good, in its place, whatever is cut short, but for a migration that does not finish, which
leaves the beginning of it) and `TypeOK` (which says that ids are distinct,
parents older than their children, and labels what the label entries say). Three entries are a
message, an answer that creates the file, and one that is appended to it; two files are a session
and its fork or a new one; four ends of the process are a first one after which the program is upgraded,
one in the migration, one while the rest is appended to, and one more to read it back.
`Tears = FALSE`: section 9 has the other case.

**session_clone** (5 entries, 2 files, no faults) is a finding, see section 9.

## 8. Tools and credentials

### Tools that share state

Two parts of the coding agent's tools share state among the calls of one answer, which the loop starts
together. `ToolBatch` composes them under the calls of `ToolCalls` and one abort signal.

`FileMutations` is `withFileMutationQueue` with the bodies of `edit` and `write`:

| code | actions |
|---|---|
| the registration queue; realpath; the queue of the key | CallMutations, Register, RegisterFails, Begin |
| write: mkdir, writeFile | MadeDirectory, Opened, OpenFails, Wrote |
| edit: access, readFile, the edits, writeFile | Accessed, Read, Opened, OpenFails, Wrote |
| finally: release the next, delete the entry of the key | Release, in every action that ends a call |

A write of a file opens and truncates it and then writes, two steps between which others may read. A
file's content is the sequence of calls whose text it has.

`AtomicFiles` is the abstract specification: a mutation takes effect at once and at most once, an edit on
what the file holds at that moment. `ImplementsAtomicFiles` maps each mutation's effect to the moment
it opens its file and hides the truncated content until it is written.

`McpServers` is the manager of one server, over stdio:

| code | actions |
|---|---|
| startServer: spawn, initialize, tools/list | startServer, Connected, StartFails |
| stopServer up to `await transport.close()`, and after it | stopServer, Stopped |
| exit of the process | ProcessEnds |
| callTool, StdioTransport.send, for all calls of the batch | callTools |
| processBuffer; the timeout; the abort handler | Answered, TimesOut, AbortCalls |

Starts and stops do not wait for each other, so `starting` and `stopping` are sets. The id of a request
is made of its millisecond: `CallIds` lets any calls next to each other share one. As in the code, a
timeout is not cleared by the answer.

**tool_batch** (three calls that edit or write one file, or two of any kind with a third refused; two
starts, two stops, an abort) checks `ImplementsAtomicFiles`, `ToolsReachable` (the tools offered are those
of the start whose transport calls take, and it is open, unless the stop that closes it has not returned
or its process has ended by itself) and `CallsSettle` (every call ends with a result or an
error). Three mutations are the least in which the one in the middle has both a neighbour before and
after it in the queue; two starts and two stops the least in which an old stop meets a new start.
`Links = {FALSE}`: no path goes through a symbolic link (section 9 has the other case). The fault
model of `writeFile` is that it opens the file or fails; a write that fails in the middle is not modelled.

*Fairness:* `WF(FileWork(c))` and `WF(Timeout(c))` for each call: the file system answers, and timers
fire. Nothing is assumed of the MCP server, of starts, stops or the user: that a call settles although
the server never answers is what the timeout is for.

### Credentials

`AuthStorage` is a set of processes, each with its `this.data`, over one `auth.json` that holds an OAuth
credential and the key of another provider. A call of an operation goes through places:

| code | actions |
|---|---|
| getApiKey, set, logout (remove), reload up to the lock | Start |
| `lockfile.lockSync` with its spinning, `lockfile.lock`; ELOCKED | Acquire, Locked |
| the first part of the function under the lock | Read |
| `provider.refreshToken`: the server and its answer, or an error | Serve, Refreshed, RefreshFails |
| writeFileSync, and the finally of withLock and withLockAsync | Write, Release |
| the timer of proper-lockfile, onCompromised | Update |
| time; a process exits, is killed, or is killed in a write | Ages, Expires, Crash |

*Processes.* A synchronous call keeps its process busy (`Blocking`), also while it spins for the lock:
other calls of the process, and its timers, wait (`Turn`). Only a refresh is interleaved with calls of
its own process.

*The lock* is a directory with an mtime. `age` is fresh, old (more than 10 seconds, the default at which
`lockSync` takes it away) or stale (more than the 30 seconds that `withLockAsync` asks for). A process
remembers one lock (`holds`), and releasing removes the directory whoever made it. A refresh whose
timer finds the lock gone learns it at its next `throwIfCompromised`.

*Aliases.* A refresh makes what it read `this.data`, so what is set in the process while it waits is in what it
will write, even if the set itself gets ELOCKED: `shares` and `given`.

*Tokens* are numbers: the server takes token `valid` and answers with the next. `stored` is what the file
would be if each write had been made alone, and `mishaps` remembers what the properties except:
answers that nobody got, locks taken from a living process, torn writes.

**auth_storage** (2 processes; one refreshes, the other sets a key, and either makes one more call of any
kind; 2 expiries) checks `TokenKept` (the server is asked with each token once, and the file gets what it
answered), `NothingUndone` (no write takes back what another call has written) and `CallsEnd` (every call
of a living process ends). Three calls are a refresh, one of its own process and one of another; two
expiries let a second refresh use what the first has stored. TLC checks no more calls for size; the
first two properties are proved for any number.

*Fairness:* `WF(Step(c))` for each call: processes run while they live, and the server answers or the
connection fails. Nothing is assumed of time or deaths: a call ends because retries for the lock are
limited.

## 9. Disagreements between code and documents

Two are runs that TLC ends with a counterexample:

* **session_overflow** (`ContinueAccepted`): a request fails, is retried and overflows. The compaction rebuilds
  the messages from the session, where the first failure still is, and takes one trailing error away:
  the messages end with an assistant message, and `agent.continue()` throws out of `prompt()`.
  `docs/rpc.md:934` of the coding agent says the prompt is retried.
* **session_clone** (`ForkKeepsContext`): a fork leaves label entries out of the path it copies, but the first
  entry a compaction keeps may be one (`findCutPoint` moves back over entries that are no messages).
  Then none of the messages it kept are shown to the model in the fork. In every other case a fork shows
  what the entry it was made at showed: that is a theorem (`UncutForkShowsTheSame`).

The others are properties of the modules that no listed run checks. Each line names the property and the
change to a cfg under which TLC finds it violated.

| property | cfg and change | what happens |
|---|---|---|
| ToolEventsOfActiveRun (Agent) | AgentTools.cfg, without the condition `faults' = 0` | a listener throws during a parallel batch, `Promise.all` rejects and the run ends while other tools execute; their ends are heard in the next run, although `agent_end` "means no more loop events will be emitted" (`packages/agent/README.md:157`) |
| Reopenable (SessionTree) | SessionSingle.cfg, CrashWrites = {"line", "open"} | a crash loses only the newline of an entry; opening accepts the file, the next entry continues the line, and the session cannot be opened any more |
| Rooted (SessionTree) | SessionConcurrent.cfg | two appends that overlap within 65 seconds get the same id, and the second may take the first, that is itself, as its parent: `getPathToRoot` never ends |
| SettledIsFlushed (AgentHarness) | HarnessSafety.cfg | compact and navigateTree end without a flush, so a write queued meanwhile stays pending, although the documentation has it flushed "at operation settlement" |
| WritesKept (AgentHarness) | HarnessSafety.cfg, Reentrant = TRUE | the phase is idle before listeners hear agent_end; a prompt started there makes two flushes run at once, which write the first pending write twice and drop the next |
| CompactsAlone (AgentSession) | AgentSession.cfg, QuietCompact = FALSE, Ops = {"followUp", "compact"} | `/compact` "Aborts current agent operation first" (`core/agent-session.ts:1649`), but after the abort the prompt goes on with what is queued, while the session is disconnected and writes nothing of it |
| SummariesKept (AgentSession) | AgentSession.cfg | a second compaction cuts the turn at whose beginning the first one's kept messages start: there is no history before the turn, so the summary begins with "No prior history." and the previous summary is dropped (`core/compaction/compaction.ts:774`), although `docs/compaction.md:43` has it generated "passing the previous summary as iterative context when present" |
| NothingLeftShown (AgentSession) | AgentSession.cfg | a queued message of images only has the empty text and is never taken out of the list (`core/agent-session.ts:489`): it stays shown after it was delivered, until the queues are cleared, although the entry is to be removed when its message starts (`core/agent-session.ts:484`) |
| OwnAnswers (McpServers) | ToolBatch.cfg | calls of one millisecond have one id: the first answer resolves the second call, the first call waits for its timeout |
| OfferedIsOpen (McpServers) | ToolBatch.cfg | the process of a server ends by itself: the transport is closed, but nothing unregisters the tools (`core/mcp/server-manager.ts:94`), which stay offered and whose calls fail, although `docs/mcp.md:354` says "Tools activate/deactivate automatically as servers connect/disconnect" |
| StoppedOffersNone (McpServers) | ToolBatch.cfg | a stop that finds no transport sets the latest start to stopped; an earlier one then connects and offers its tools, although `docs/mcp.md` has `/mcp:stop` "Stop a running server and deactivate its tools" |
| ImplementsAtomicFiles | ToolBatch.cfg, Links = {TRUE, FALSE} | a missing file has a key for each of its names, so two writes through a link and without it run at once |
| LogoutIsKept (AuthStorage) | AuthStorage.cfg | `/logout` while a refresh of the same process holds the lock cannot write (ELOCKED, which is only recorded), and the refresh then stores the credential again, although `docs/providers.md:22` has `/logout` "clear credentials" |
| NothingUndone, TokenKept (AuthStorage) | AuthStorage.cfg, with "stolen" allowed in their conditions | a synchronous call takes a lock that is older than 10 seconds, which a refresh renews every 15: both then write what they have read, or the refresh finds its lock compromised and drops the token it was given, although locking is there "to prevent race conditions when multiple pie instances try to refresh tokens simultaneously" (`core/auth-storage.ts:5`) |
| SavedStays without `MigrationStops` (SessionManager) | SessionFiles.cfg | opening a file of an earlier version truncates it and writes it again line by line (`core/session-manager.ts:812`, `872`): if the process ends or a write throws before the end, entries that could be read are lost, although `docs/session-format.md:27` has sessions "automatically migrated to the current version (v3) when loaded" |
| SavedStays, FileIsSession (SessionManager) | SessionFiles.cfg, Tears = TRUE | an append after a torn last line merges with it, and the entry is lost at the next opening |

Other behaviour met while modelling:

* A listener that throws on agent_end makes the agent emit a second one. `reset()` during a run clears
  `isStreaming` though the run goes on.
* An abort of the harness before its controller exists (snapshot, before_agent_start) aborts nothing, and
  the caller waits for the whole run. Next-turn messages have left their queue when
  before_agent_start throws, and are lost. A queue update that throws puts its messages back into an
  array that an abort has replaced meanwhile.
* Cancelling a retry while something is queued sends the failed request again with it: `abort_retry` stops
  the sleep, not the continuation. `clearQueue` clears the mirror of a message that the loop has
  already taken and will deliver.
* After an append that throws, the entry is in memory and not in the file, so its children become orphans
  at the next opening; and if it was the write that creates the file, every later one is refused,
  because the file exists (`FileIsSession` and `TypeOK` except exactly these). A branch without an
  append after it is forgotten by opening.
* A start of an MCP server that fails or is replaced never closes its transport.
* `forkFrom` writes a header of the current version and copies the entries of the source as they are: those
  of an outdated source are never migrated (read, not checked).
* Two names of `auth.json` have two locks, since `lockSync` is called with `realpath: false` and `lock` is not;
  and proper-lockfile takes a stale lock away in several steps, where AuthStorage has one (both read, not
  checked).

## 10. Proofs

All theorems are about `Spec` for every value of the constants: any number of runs, callers, messages,
calls, exceptions and crashes. They rest on the named `ASSUME`s of the modules (bounds are numbers, modes
are modes, write outcomes are endings, calls are numbered) and on the conditions listed here, which
are stated in the theorems. They say nothing about termination.

| condition | theorems | why |
|---|---|---|
| `Reentrant = FALSE` | those of the harness but `HarnessTypeCorrect` | the proofs rest on one operation at a time; `WritesKept` is false when they overlap (section 9) |
| "update", "hook" not in `Faults` | `QueuedIsNotLost` | messages taken before that await are lost when it throws (section 9) |
| `FailedWrites = {}` | `MemoryMatchesFile`, `ReopenIsFaithful`, `SessionImplementsBranches`, `PathsReachTheRoot` | a rejected append that left its line is in the file and not in memory |
| `CrashWrites` at most `{"line"}` | the first three of these | after any other ending the next line makes the file unreadable (section 9) |
| `Writers = {caller}` | the last three of these | with two callers a reopened session has another leaf (section 9) |
| `FailedWrites`, `CrashWrites` at most `{"line"}` | `ConfirmedIsReadable` | as for the others |
| `mishaps` empty, or only "lost" | in `TokenKept`, or `NothingUndone` | a lock taken from a live process undoes writes and loses tokens (section 9); a torn write leaves no credentials |
| `QuietCompact = TRUE` | those of AgentSession but `Types` | `compact()` during a run is false to all of them (section 9); the interactive mode calls it between prompts |
| `Tears = FALSE` | those of SessionManager | a torn line swallows its successor, here too (section 9) |
| `Links = {FALSE}` | `FilesAreAtomic`, `BatchIsAtomic` | two names of one file have two queues |

### Agent

AgentProofs has first the control and the queues, then the calls, the texts and the refinement.

* **`TypeCorrect`: `Spec => []TypeOK`.** TypeOK is not inductive: that `ctx[Len(ctx)]` is a message when a
  response is finished, or that `batch[idx + 1]` exists, follows from where the loop is. `Control` says
  what each value of `pc` implies (a run is active, a context is not empty, messages remain to be
  injected, agent_end was said how often), and `Inv1 == TypeOK /\ Control` is inductive.
* **`NothingIsLost`: `Spec => []NothingLost`.** Every message given is in a queue, in the loop's hands, in
  the transcript, or was discarded by clear, reset or a failure. `QueueInv` adds that the head of
  `pending` is already in the transcript while its listeners are awaited.
* **`DeliveryInOrder`: `Spec => []DeliveredInOrder`.** Each kind of message reaches the transcript in the
  order it was given. `FlowInv` follows a message along transcript, loop and queue and says that ids of
  one kind ascend along the whole of it; that a drained queue is a prefix of what it was is the
  lemma it needs of both modes.
* **`PendingCorrect`: `Spec => []PendingIsInProgress`.** `pendingToolCalls` is exactly the calls of the
  active run between their start and end events, up to a reset. Inductive with `Ownership`: calls that
  are not finished belong to a run that was started, and those of the current batch to the active one.
  The point is a tool that outlives its run: its end event deletes nothing of the new run's.
* **`UpdatesAreHeardFirst`: `Spec => []UpdatesPrecedeEnd`**, with `BatchInv`: the calls of a batch are
  distinct, those after `idx` are untouched, an update comes from a call that executes.
* **`ContextCorrect`: `Spec => []ContextIsTranscript`, `ReportCorrect`: `Spec => []AgentEndReportsRun`.** Both
  from `TextInv`: where the loop is says by how much the context it sends differs from the transcript
  (the answer being streamed, results that are reported and not yet appended), and `SameText` that
  they agree otherwise.
* **`ToolEventsBelong`: `Spec => ToolEventsOfActiveRun`, `AgentEndFinal`: `Spec => AgentEndIsFinal`**: action
  properties, from `QuietInv`: as long as nothing was thrown a call that has not come to its end is
  one the loop waits for.
* **`AgentImplementsTranscript`: `Spec => ImplementsTranscript`.** `OpenCalls`, the calls of the batch
  without a result, is what the transcript calls open. Each action of Agent is shown to leave the
  mapped state alone or to be one of `Transcript`'s: a message is said, a result is said that is the
  first open one, a run begins, breaks off or ends.

### Session

* **`SessionTypeCorrect`: `Spec => []TypeOK`**, with `Typing`: an entry that is about to be written is
  complete.
* **`ParentsAlwaysKnown`: `Spec => []ParentsKnown`.** For any number of callers, crashes and
  failures, whatever interrupted writes leave, the leaf and all parents in memory are entries of the
  session. `ParentsKnown` of memory alone is not inductive, because Open replaces memory by the file.
  `RefInv` adds that the file refers only to itself, that memory is contained in it, that an
  operation under way refers to entries in memory, and that a closed session has none under way.
* **`ConfirmedIsReadable`: `Spec => []AckedReadable`**, any callers. `WholeLines`: every line of the file
  is whole, so the file opens and a confirmed entry is read back whatever is appended after it.
* **`MemoryMatchesFile`: `Spec => []MemoryIsFile`**, any callers. `CountInv`: the file has the entries of
  memory and, once, that of each caller who has written and not yet stored it. That it can be opened is
  `WholeLines`.
* **`ReopenIsFaithful`: `Spec => []ReopenRestores`.** `SameOrder`: with one caller the file is memory in the
  same order, and the leaf that parsing finds is the leaf in memory; with `WholeLines` parsing succeeds.
* **`SessionImplementsBranches`: `Spec => ImplementsBranches /\ []Reopenable`.** The mapped tree is the one that
  opening gives, so it is part of the theorem that the file always opens. `Fresh` says that an id that was given out
  is below what the generator gives next, so that a line adds one new node to `TreeOf(Persisted)`;
  `AtLeaf` that what a caller is about to write hangs at the leaf the abstract tree has.
* **`PathsReachTheRoot`: `Spec => []Rooted`.** `Backwards`: the parent of a line is on an earlier line. The
  path is a recursive function of the number of steps. Two inductions show that it comes to the
  root, both in the form of a least counterexample (`LeastNumber`, from well-foundedness): the
  recursive definition has the value of its equation (`PathUnfolds`), and the position in the file
  falls with each step.

### Harness

* **`AlwaysReleased`: `Spec => []Released`, `AbortWaitsForRuns`: `Spec => AbortIsBarrier`.** Both rest on
  `BusyInv`: at most one call is active, and where it is says what the harness holds (`Control`: from
  its start a turn owns the run promise, before its hook no controller exists, after agent_end the
  phase is idle, and so on). What a step of the active call may change is one lemma with a case per
  action (`StepBusy`). For abort, `AbortInv` adds that a run that was active at the call is the run it
  waits for, or over.
* **`HarnessTypeCorrect`: `Spec => [](TypeOK /\ KindsApart)`**, reentrant or not (proved only, no run checks
  it). `KindsApart`: the three queues hold messages only, what waits for a flush is session writes only.
  `TypeInv` is both, and says where a call holds what it read from a queue.
* **`WritesAreKept`: `Spec => []WritesKept`.** Needs that a flushing call holds the first pending write
  (`Flushing`), which is what `BusyInv` guarantees and what fails when calls overlap; and that writes are
  numbered below `made`. Three lemmas treat what can happen: a message is appended, a write is flushed,
  a write is queued.

The second part of HarnessProofs reduces the actions to thirteen shapes of a step (`StepShapes`: a request, an
answer, a result, a drained queue, a flushed write and so on), and proves three theorems from these:

* **`RequestsSendTheSession`: `Spec => []ContextIsSession`.** `RunInv` says what the call's lists and the
  queues may hold and where; `ContextInv` that from the snapshot on the context and what the call still
  has to append are the session and its pending writes, except for what is appended at the moment.
* **`ResultsFollowCalls`: `Spec => []ToolResultsFollow`**, with `ResultInv`: while a result is due the call
  that asked is the last entry of the session.
* **`QueuedIsNotLost`: `Spec => []NothingLost`.** What was given is accounted for at one place at least; each
  shape of step moves it from one place to the next.

### Agent session

`Chosen` of Selections stands for code that filters. It is a recursive function, and what it gives is
proved in SequenceLemmas by induction, in the form that a set of sequences closed under Append has
them all (`SequenceInduction`, from a least counterexample). AgentSessionProofs proves with it what the
model's operators do: the last answer, the context that is built from entries, the cuts of a
compaction. Then the actions are reduced to eight shapes of a step of the conversation (`TextStep`) and
seven of the queues (`QueueStep`), and the invariants are proved of these. `Consistent` is all of them
together.

* **`Types`: `Spec => []TypeInv`.** Types, the places at which prompt, run and compact may be together, and
  `AllSplit`: each compaction accounts for the messages before the first one it keeps (`Accounted`: it covers
  them, or an earlier one did whose summary a "No prior history." has dropped), and that one is no
  tool result. This needs no condition.
* **`ContextKept`: `Spec => []SessionIsContext`.** `Conversation`: what is being written is the last message of
  the agent (`WriteInv`), a run that ended has an answer last (`EndsInv`), a sleep before a retry follows a
  failure (`SleepInv`), a compaction for an overflow one that was taken back (`OverflowInv`), and messages without what is taken back are `Rebuilt` of the entries (`ContextInv`).
* **`EverythingRemembered`: `Spec => []NothingForgotten`.** `HeadInv`: once there is a compaction, the messages
  begin with the latest. By `AllSplit` it accounts for all that comes before what it keeps, which is covered
  or `Forgotten` by the rule for split turns.
* **`ToolsAnswered`: `Spec => []ToolResultsFollow`.** `ToolInv`: a call without a result is the last message
  of both, and only while its tool executes; `KnownInv`: ids identify messages, so that the two agree on
  which that is.
* **`QueueAlwaysShown`: `Spec => []QueueShown`**, inductive with the types once it is said with counts (`Tally`):
  how often a text is in a list, and how often messages with it wait (`ShownIs`, `ShownRules`). The seven
  shapes of `QueueStep` change the two by the same amount, or remember in `unlisted` that they do not.
* **`RetriesEnd`: `Spec => []RetriesBounded`.** `FailInv`: the failures at the end of the session number at most
  `retryAttempt`, one more when a run has just ended, and `MaxRetries + 1` only where no request can
  follow. `NewerInv` and `StageInv` say when the guard of the overflow recovery is reset; with them
  `OverInv`: at most one overflow after a recovery, a second only where `_runAgentPrompt` gives up. The
  bounds are cardinalities of sets of places in the session.

### Session files

`Consistent` is inductive: types of memory and files (`MemoryTypes`, `DiskTypes`: a file is not there, or
has a header and entries, or entries without a header), and what they hold. The header counts as an
entry with the id 0, so that memory and each file are alike sequences with the ids of a `Tree`: each id
is there once, was given out, and, if no write has failed, each parent is on an earlier line.

* **`SessionsAreTrees`: `Spec => []TypeOK`.** `TreeInv` of the memory and `DiskInv` of all files. It needs
  what the operators of the calls give: `BranchIs`, a path is made of entries of the session in their
  order (the walk to the root is a recursive function, taken step by step); `BranchedIs`, the path
  without labels, chained anew and with the labels at its end, is a tree again; `CutsIs`, a compaction
  keeps from an entry of the path on; `LabelsAppend`, what one more entry does to the labels that
  `_buildIndex` finds, which is what the label calls do to the map.
* **`SavedIsSession`: `Spec => []FileIsSession`.** `FileInv`: until a write throws the file has the lines of
  the session, or is not there and there is no answer. `AppendedIs` says what an append leaves in the
  file in each case of `_persist`: deferred, one line, a new file, refused. That `flushed` implies a
  file that exists is needed for a session that goes on after an error, and `refused` is shown to be
  possible only then.
* **`SavedForGood`: `Spec => SavedStays`.** Each step leaves a file alone, extends what it gives, writes one
  that gave nothing, or migrates one and writes again what it gave, all of it or, if the process ends,
  a beginning (`LoadedStays`, `FileWritten`,
  `RewriteStep`).
* **`UncutForkShowsTheSame`: `Spec => ForkKeepsUncut`.** How far the counterexample of section 9 goes: a fork
  shows the model the same entries as the entry it was made at, unless that entry's latest compaction
  keeps from a label entry on (`CutAtLabel`). The copy is the path without its label entries, then new
  ones (`CopiedFrom`), and its own branch is all of it (`ChainIsBranch`). A context is the latest
  summary and the messages that are `Told`, in their order (`ContextIs`), and the summary, what it keeps
  and hence the told messages of the copy are at the places of those of the path (`SameTold`). Two
  ways to go through the same places in ascending order are one (`ListedOnce`), so the contexts agree
  (`SameContext`). No run checks this property; session_clone shows that the exception is
  needed.

### Tools

* **`KeysExclude`: `FileSpec => []OneAtATime`**, for any files, links and calls. `QueueInv` describes the
  queue of a key: the calls registered under it that are not over form a chain, each waits for one
  that is still in it (`Chained`), the entry of the map is its end (`Lasts`), and only the first one
  works. It needs that calls register in their order (`InOrder`), which is where the serialised
  registration matters.
* **`FilesAreAtomic`: `FileSpec => ImplementsAtomicFiles`.** With `OneAtATime` and one key per file at most
  one call is at a file. `DiskInv` adds that what an edit has read is what the file still holds. Every
  step then maps to a step of `AtomicFiles` (`Opened`) or a stutter, and `Wrote` reveals what the mapping
  already showed.
* **`BatchIsAtomic`: `Spec => ImplementsAtomicFiles`** for `ToolBatch`: a step of the batch is a step of
  the files or leaves them alone.
* **`OfferedIsReachable`: `Spec => []ToolsReachable`.** Whichever stop deletes the transport withdraws the tools in
  the same step, and whichever start offers them has set the transport that
  calls take. A stop that closes it remembers that it does (`closes`) until it has returned.
* **`CallsAreTimed`: `Spec => []WaitingIsTimed`**, a call that waits for a server has a timer. It is the
  safety half of `CallsSettle`: an answer that goes to another call of the same id, a lost process or
  a stop cannot leave a call waiting without one.

### Auth storage

* **`TokensAreKept`: `Spec => []TokenKept`, `NoWriteUndone`: `Spec => []NothingUndone`**, for any processes,
  calls and requests. Neither is inductive. `AuthInv` adds what the operation of a call says of where it
  can be (`Shape`); that, unless a lock was taken from a living process, a living call between its
  `Acquire` and its `Release` owns the lock and is not compromised (`Exclusion`), so that what it read
  is what the file still holds (`SawFile`); and that what a refresh has read is the token the server
  takes, or the one before it once the server has answered (`Newest`). Each action has a lemma. The
  conditions on `mishaps` in the properties are needed: section 9 shows what a lock taken from a living
  process does, and a token whose answer is lost is a token nobody has.

### Only model-checked

Liveness, which is beyond the prover: `RunSettles`, `Settles`, `AbortReturns`, `CallsSettle`, `CallsEnd`; and the
two counterexamples of section 9. Every other property of a passing run has a theorem.

## 11. What is not covered

* Agent: `streamingMessage`, `errorMessage`, the order among several listeners, more than one progress
  update per call, the hooks `prepareNextTurn` and `shouldStopAfterTurn` (AgentHarness has the
  former), argument validation beyond its outcome.
* Session: labels, payloads, `buildSessionContext`, fork, the header line; the repositories around it.
  Ids outside their window are taken to be unique.
* Harness: values of the runtime configuration, so not that two concurrent `setModel` calls may be
  recorded in one order and take effect in the other; messages that hooks add or replace; the branch
  that a navigation moves to (the session of AgentHarness only grows); tools in detail.
* AgentSession: tree navigation, switching of sessions, models and thinking levels, dispose, extension
  commands, messages for the next turn, custom messages that start a turn, two prompts at once (the
  interactive mode queues the second), the execution of bash commands, of which two at once share
  one abort controller. Of the agent's batches only one tool call at a time.
* SessionManager: what a migration changes in the entries, files of version 1, listings, sessions in memory.
* Tools: everything but `edit` and `write`, and of these the text; a `writeFile` that fails in the middle.
  MCP: HTTP, the configuration, more than one server.
* AuthStorage: the login before its `set`, keys from elsewhere, the race of two processes that create the
  file, files that cannot be parsed (a torn write leaves an empty file, which is read as no credentials).
* The components the inventory lists without a module. EventStream has a hazard that no
  property watches yet.

## 12. Plan

Done: Agent with its abstract transcript; SessionTree with its abstract tree; AgentHarness;
AgentSession; SessionManager; the file mutation queue with its abstract specification, and the MCP
servers, in one batch of calls; AuthStorage; 41 theorems.

Next, in this order:

1. **EventStream**: a FIFO with a final result, and who is left waiting at its end.
2. Two prompts at once and dispose in AgentSession; liveness of `prompt()`.
3. Pure algorithms against a reference definition: truncation by lines and bytes, the reassembly of escape
   sequences.
4. Proofs: the lines that survive a torn one.

The runs are kept to twelve, one per question; a new component's run takes the place of a run whose
disagreement is by then described in section 9.
