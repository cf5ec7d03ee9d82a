---------------------------- MODULE AgentProofs ----------------------------
(***************************************************************************)
(* Proofs about the agent, for every value of the constants.               *)
(***************************************************************************)
EXTENDS AgentTranscript, SequenceTheorems, FiniteSetTheorems, TLAPS

(* Where the loop is says what it holds: an active run, a call to prepare, *)
(* messages to inject, and how often it has said agent_end.                *)
BatchPCs == {"prepare", "prepared", "immediate", "joining", "reporting", "reported"}
InjectPCs == {"prompts", "turn", "inject", "injected"}

Control ==
    /\ activeRun \in {0, runs}
    /\ activeRun = 0 <=> pc = "idle"
    /\ pc = "tool" => idx < Len(batch)
    /\ pc \in BatchPCs => idx > 0
    /\ pc = "streaming" => ctx # <<>>
    /\ pc = "answered" => idx = 0 /\ Len(ctx) > 0 /\ ctx[Len(ctx)] \in Message
    /\ pc = "injected" => pending # <<>>
    /\ pc \notin InjectPCs => pending = <<>>
    /\ pc \notin {"ended", "failure", "failureMessage", "failureEnd"} => agentEnds = 0
    /\ pc # "failureEnd" => agentEnds <= 1

Inv1 == TypeOK /\ Control

(* The constructors of Messages make messages.                             *)
LEMMA Constructors ==
    /\ \A n \in Msgs, via \in Vias : User(n, via) \in UserMessage /\ User(n, via) \in Message
    /\ \A calls \in Seq(Calls), stop \in Stops : Assistant(calls, stop) \in Message
    /\ \A c \in Calls : ToolResult(c) \in Message
    /\ UserMessage \subseteq Message
BY DEF User, Assistant, ToolResult, UserMessage, AssistantMessage, ToolResultMessage,
    Message

(* Draining a queue keeps user messages.                                   *)
LEMMA DrainTypes ==
    ASSUME NEW q \in Seq(UserMessage), NEW m
    PROVE  Drained(q, m) \in Seq(UserMessage) /\ Rest(q, m) \in Seq(UserMessage)
BY DEF Drained, Rest

(* The user messages of a transcript are messages ever given.              *)
LEMMA IdsTypes ==
    ASSUME NEW s \in Seq(Message)
    PROVE  Ids(s) \subseteq Msgs
<1>. SUFFICES ASSUME NEW i \in DOMAIN s, s[i].role = "user"
              PROVE  s[i].id \in Msgs
  BY DEF Ids
<1>1. s[i] \in Message
  OBVIOUS
<1>. QED
  BY <1>1 DEF Message, UserMessage, AssistantMessage, ToolResultMessage

(* A sequence of user messages is a transcript; its parts have its type.   *)
LEMMA UserSequences ==
    ASSUME NEW s \in Seq(UserMessage)
    PROVE  /\ s \in Seq(Message)
           /\ s # <<>> => Head(s) \in UserMessage /\ Head(s) \in Message
                          /\ Tail(s) \in Seq(UserMessage)
BY Constructors

(* The constructor establishes the types and the control invariant.        *)
LEMMA InitInv1 == Init => Inv1
<1>. SUFFICES ASSUME Init PROVE Inv1
  OBVIOUS
<1>. USE QueueModesAssumption, ToolModesAssumption, BoundsAssumption, MessageBounds
<1>. USE DEF Init, NewState
<1>1. /\ activeRun \in 0..MaxRuns /\ runs \in 0..MaxRuns /\ idx \in 0..Len(batch)
      /\ nMsgs \in 0..MaxMsgs /\ nCalls \in 0..MaxCalls /\ faults \in 0..MaxFaults
      /\ agentEnds \in 0..2
  OBVIOUS
<1>2. queueMode \in [steer : QueueModes, followUp : QueueModes]
  OBVIOUS
<1>3. /\ messages \in Seq(Message) /\ newMessages \in Seq(Message)
      /\ ctx \in Seq(Message \cup {Partial}) /\ batch \in Seq(Calls)
  OBVIOUS
<1>4. /\ pending \in Seq(UserMessage) /\ steeringQueue \in Seq(UserMessage)
      /\ followUpQueue \in Seq(UserMessage)
  OBVIOUS
<1>5. /\ pc \in PCs /\ st \in [Calls -> CallStates] /\ owner \in [Calls -> 0..MaxRuns]
      /\ upd \in [Calls -> Updates]
  BY DEF PCs, CallStates, Updates
<1>6. Control
  BY DEF Control, BatchPCs, InjectPCs
<1>. QED
  BY <1>1, <1>2, <1>3, <1>4, <1>5, <1>6
     DEF TypeOK, RunTypes, QueueTypes, TextTypes, CallTypes, CountTypes, Inv1

(* Starting a run (runWithLifecycle) preserves them.                       *)
LEMMA StartRunInv1 ==
    ASSUME Inv1, NEW prompts \in Seq(UserMessage), NEW skip \in BOOLEAN,
           StartRun(prompts, skip), QueueTypes', nMsgs' \in 0..MaxMsgs
    PROVE  Inv1'
<1>1. RunTypes'
  <2>1. /\ runs < MaxRuns /\ runs' = runs + 1 /\ activeRun' = runs + 1
        /\ isStreaming' = TRUE /\ aborted' = FALSE /\ wasReset' = FALSE /\ pc' = "prompts"
    BY DEF StartRun
  <2>2. runs' \in 0..MaxRuns /\ activeRun' \in 0..MaxRuns
    BY <2>1, BoundsAssumption DEF Inv1, TypeOK, RunTypes
  <2>3. /\ isStreaming' \in BOOLEAN /\ aborted' \in BOOLEAN /\ wasReset' \in BOOLEAN
        /\ pc' \in PCs
    BY <2>1 DEF PCs
  <2>. QED
    BY <2>2, <2>3 DEF RunTypes
<1>2. TextTypes'
  <2>1. prompts \in Seq(Message)
    BY UserSequences
  <2>2. messages \o prompts \in Seq(Message)
    BY <2>1 DEF Inv1, TypeOK, TextTypes
  <2>. QED
    BY <2>1, <2>2 DEF StartRun, Inv1, TypeOK, TextTypes
<1>3. CallTypes' /\ CountTypes'
  BY DEF StartRun, Inv1, TypeOK, CallTypes, CountTypes, toolVars
<1>4. Control'
  BY DEF StartRun, Inv1, TypeOK, RunTypes, Control, BatchPCs, InjectPCs, toolVars
<1>. QED
  BY <1>1, <1>2, <1>3, <1>4 DEF Inv1, TypeOK

(* A failing run throws away user messages only.                           *)
LEMMA RunFailsTypes ==
    ASSUME Inv1, RunFails
    PROVE  discarded' \subseteq Msgs /\ TextTypes'
<1>1. Undelivered \in Seq(UserMessage)
  BY UserSequences DEF Undelivered, Inv1, TypeOK, TextTypes, Control
<1>. QED
  BY <1>1, IdsTypes, UserSequences DEF RunFails, Inv1, TypeOK, TextTypes, CountTypes

(* What the application calls preserves them.                              *)
LEMMA AppInv1 ==
    ASSUME Inv1, App
    PROVE  Inv1'
<1>1. CASE steer
  <2>1. User(nMsgs + 1, "steer") \in UserMessage /\ nMsgs' \in 0..MaxMsgs
    BY <1>1, MessageBounds, Constructors DEF steer, Msgs, Vias, Inv1, TypeOK, CountTypes
  <2>2. QueueTypes'
    BY <1>1, <2>1 DEF steer, Inv1, TypeOK, QueueTypes
  <2>3. RunTypes' /\ TextTypes' /\ CallTypes' /\ CountTypes'
    BY <1>1, <2>1 DEF steer, Inv1, TypeOK, RunTypes, TextTypes, CallTypes, CountTypes,
        runVars, loopVars, toolVars
  <2>4. Control'
    BY <1>1 DEF steer, Inv1, Control, runVars, loopVars, toolVars
  <2>. QED
    BY <2>2, <2>3, <2>4 DEF Inv1, TypeOK
<1>2. CASE followUp
  <2>1. User(nMsgs + 1, "followUp") \in UserMessage /\ nMsgs' \in 0..MaxMsgs
    BY <1>2, MessageBounds, Constructors DEF followUp, Msgs, Vias, Inv1, TypeOK,
        CountTypes
  <2>2. QueueTypes'
    BY <1>2, <2>1 DEF followUp, Inv1, TypeOK, QueueTypes
  <2>3. RunTypes' /\ TextTypes' /\ CallTypes' /\ CountTypes'
    BY <1>2, <2>1 DEF followUp, Inv1, TypeOK, RunTypes, TextTypes, CallTypes,
        CountTypes, runVars, loopVars, toolVars
  <2>4. Control'
    BY <1>2 DEF followUp, Inv1, Control, runVars, loopVars, toolVars
  <2>. QED
    BY <2>2, <2>3, <2>4 DEF Inv1, TypeOK
<1>3. CASE clearSteeringQueue
  <2>1. discarded' \subseteq Msgs
    BY <1>3, IdsTypes, UserSequences DEF clearSteeringQueue, Inv1, TypeOK, QueueTypes,
        CountTypes
  <2>2. RunTypes' /\ QueueTypes'
    BY <1>3, <2>1 DEF clearSteeringQueue, Inv1, TypeOK, RunTypes, QueueTypes, PCs, appVars,
        runVars, loopVars, toolVars, histVars
  <2>3. TextTypes'
    BY <1>3, <2>1 DEF clearSteeringQueue, Inv1, TypeOK, TextTypes, loopVars, toolVars
  <2>4. CallTypes' /\ CountTypes'
    BY <1>3, <2>1 DEF clearSteeringQueue, Inv1, TypeOK, CallTypes, CountTypes, CallStates,
        Updates, RunTypes, toolVars, histVars
  <2>5. Control'
    BY <1>3, <2>1 DEF clearSteeringQueue, Inv1, TypeOK, Control, RunTypes, TextTypes,
        CallTypes, CountTypes, BatchPCs, InjectPCs, runVars, loopVars, toolVars, histVars
  <2>. QED
    BY <2>1, <2>2, <2>3, <2>4, <2>5 DEF Inv1, TypeOK
<1>4. CASE clearFollowUpQueue
  <2>1. discarded' \subseteq Msgs
    BY <1>4, IdsTypes, UserSequences DEF clearFollowUpQueue, Inv1, TypeOK, QueueTypes,
        CountTypes
  <2>2. RunTypes' /\ QueueTypes'
    BY <1>4, <2>1 DEF clearFollowUpQueue, Inv1, TypeOK, RunTypes, QueueTypes, PCs, appVars,
        runVars, loopVars, toolVars, histVars
  <2>3. TextTypes'
    BY <1>4, <2>1 DEF clearFollowUpQueue, Inv1, TypeOK, TextTypes, loopVars, toolVars
  <2>4. CallTypes' /\ CountTypes'
    BY <1>4, <2>1 DEF clearFollowUpQueue, Inv1, TypeOK, CallTypes, CountTypes, CallStates,
        Updates, RunTypes, toolVars, histVars
  <2>5. Control'
    BY <1>4, <2>1 DEF clearFollowUpQueue, Inv1, TypeOK, Control, RunTypes, TextTypes,
        CallTypes, CountTypes, BatchPCs, InjectPCs, runVars, loopVars, toolVars, histVars
  <2>. QED
    BY <2>1, <2>2, <2>3, <2>4, <2>5 DEF Inv1, TypeOK
<1>5. CASE setQueueMode
  <2>1. RunTypes' /\ QueueTypes'
    BY <1>5 DEF setQueueMode, Inv1, TypeOK, RunTypes, QueueTypes, PCs, appVars, runVars,
        loopVars, toolVars, histVars
  <2>2. TextTypes'
    BY <1>5 DEF setQueueMode, Inv1, TypeOK, TextTypes, loopVars, toolVars
  <2>3. CallTypes' /\ CountTypes'
    BY <1>5 DEF setQueueMode, Inv1, TypeOK, CallTypes, CountTypes, CallStates, Updates,
        RunTypes, toolVars, histVars
  <2>4. Control'
    BY <1>5 DEF setQueueMode, Inv1, TypeOK, Control, RunTypes, TextTypes, CallTypes,
        CountTypes, BatchPCs, InjectPCs, runVars, loopVars, toolVars, histVars
  <2>. QED
    BY <2>1, <2>2, <2>3, <2>4 DEF Inv1, TypeOK
<1>6. CASE abort
  <2>1. RunTypes' /\ QueueTypes'
    BY <1>6 DEF abort, Inv1, TypeOK, RunTypes, QueueTypes, PCs, appVars, runVars, loopVars,
        toolVars, histVars
  <2>2. TextTypes'
    BY <1>6 DEF abort, Inv1, TypeOK, TextTypes, loopVars, toolVars
  <2>3. CallTypes' /\ CountTypes'
    BY <1>6 DEF abort, Inv1, TypeOK, CallTypes, CountTypes, CallStates, Updates, RunTypes,
        toolVars, histVars
  <2>4. Control'
    BY <1>6 DEF abort, Inv1, TypeOK, Control, RunTypes, TextTypes, CallTypes, CountTypes,
        BatchPCs, InjectPCs, runVars, loopVars, toolVars, histVars
  <2>. QED
    BY <2>1, <2>2, <2>3, <2>4 DEF Inv1, TypeOK
<1>7. CASE reset
  <2>1. discarded' \subseteq Msgs
    BY <1>7, IdsTypes, UserSequences DEF reset, Inv1, TypeOK, QueueTypes, TextTypes,
        CountTypes
  <2>2. RunTypes' /\ CallTypes' /\ Control'
    BY <1>7 DEF reset, Inv1, TypeOK, RunTypes, CallTypes, Control, BatchPCs, InjectPCs,
        loopVars
  <2>3. QueueTypes' /\ TextTypes' /\ CountTypes'
    BY <1>7, <2>1 DEF reset, Inv1, TypeOK, QueueTypes, TextTypes, CountTypes, loopVars
  <2>. QED
    BY <2>2, <2>3 DEF Inv1, TypeOK
<1>8. ASSUME NEW k \in 1..MaxPrompt, prompt(k)
      PROVE  Inv1'
  <2>1. nMsgs' \in 0..MaxMsgs /\ \A i \in 1..k : User(nMsgs + i, "prompt") \in UserMessage
    BY <1>8, MessageBounds, BoundsAssumption, Constructors
    DEF prompt, Msgs, Vias, Inv1, TypeOK, CountTypes
  <2>2. [i \in 1..k |-> User(nMsgs + i, "prompt")] \in Seq(UserMessage)
    BY <2>1, BoundsAssumption
  <2>3. QueueTypes'
    BY <1>8 DEF prompt, StartRun, Inv1, TypeOK, QueueTypes
  <2>. QED
    BY <1>8, <2>1, <2>2, <2>3, StartRunInv1 DEF prompt
<1>9. CASE continueQueued
  <2>1. PICK q \in {steeringQueue, followUpQueue}, m \in QueueModes, skip \in BOOLEAN :
           StartRun(Drained(q, m), skip)
    BY <1>9 DEF continueQueued, Inv1, TypeOK, QueueTypes
  <2>2. Drained(q, m) \in Seq(UserMessage)
    BY DrainTypes DEF Inv1, TypeOK, QueueTypes
  <2>3. QueueTypes'
    BY <1>9, DrainTypes DEF continueQueued, StartRun, Inv1, TypeOK, QueueTypes
  <2>4. nMsgs' \in 0..MaxMsgs
    BY <1>9 DEF continueQueued, Inv1, TypeOK, CountTypes
  <2>. QED
    BY <2>1, <2>2, <2>3, <2>4, StartRunInv1
<1>10. CASE continueTranscript
  <2>1. QueueTypes' /\ nMsgs' \in 0..MaxMsgs
    BY <1>10 DEF continueTranscript, StartRun, Inv1, TypeOK, QueueTypes, CountTypes
  <2>2. <<>> \in Seq(UserMessage)
    OBVIOUS
  <2>. QED
    BY <1>10, <2>1, <2>2, StartRunInv1 DEF continueTranscript
<1>. QED
  BY <1>1, <1>2, <1>3, <1>4, <1>5, <1>6, <1>7, <1>8, <1>9, <1>10 DEF App

(* What the agent loop does preserves them.                                *)
LEMMA LoopInv1 ==
    ASSUME Inv1, Loop
    PROVE  Inv1'
<1>1. CASE EmitPrompt
  <2>1. TextTypes'
    BY <1>1, UserSequences DEF EmitPrompt, Inv1, TypeOK, TextTypes
  <2>2. RunTypes' /\ QueueTypes'
    BY <1>1, <2>1 DEF EmitPrompt, Inv1, TypeOK, RunTypes, QueueTypes, PCs, appVars, runVars,
        loopVars, toolVars, histVars
  <2>3. CallTypes' /\ CountTypes'
    BY <1>1, <2>1 DEF EmitPrompt, Inv1, TypeOK, CallTypes, CountTypes, CallStates, Updates,
        RunTypes, toolVars, histVars
  <2>4. Control'
    BY <1>1, <2>1 DEF EmitPrompt, Inv1, TypeOK, Control, RunTypes, TextTypes, CallTypes,
        CountTypes, BatchPCs, InjectPCs, runVars, loopVars, toolVars, histVars
  <2>. QED
    BY <2>1, <2>2, <2>3, <2>4 DEF Inv1, TypeOK
<1>2. CASE PollSteering
  <2>1. pending' \in Seq(UserMessage) /\ QueueTypes'
    BY <1>2, DrainTypes DEF PollSteering, Inv1, TypeOK, QueueTypes, TextTypes
  <2>2. RunTypes'
    BY <1>2, <2>1 DEF PollSteering, Inv1, TypeOK, RunTypes, PCs, appVars, runVars, loopVars,
        toolVars, histVars
  <2>3. TextTypes'
    BY <1>2, <2>1 DEF PollSteering, Inv1, TypeOK, TextTypes, loopVars, toolVars
  <2>4. CallTypes' /\ CountTypes'
    BY <1>2, <2>1 DEF PollSteering, Inv1, TypeOK, CallTypes, CountTypes, CallStates,
        Updates, RunTypes, toolVars, histVars
  <2>5. Control'
    BY <1>2, <2>1 DEF PollSteering, Inv1, TypeOK, Control, RunTypes, TextTypes, CallTypes,
        CountTypes, BatchPCs, InjectPCs, runVars, loopVars, toolVars, histVars
  <2>. QED
    BY <2>1, <2>2, <2>3, <2>4, <2>5 DEF Inv1, TypeOK
<1>3. CASE EnterTurn
  <2>1. RunTypes' /\ QueueTypes'
    BY <1>3 DEF EnterTurn, Inv1, TypeOK, RunTypes, QueueTypes, PCs, appVars, runVars,
        loopVars, toolVars, histVars
  <2>2. TextTypes'
    BY <1>3 DEF EnterTurn, Inv1, TypeOK, TextTypes, loopVars, toolVars
  <2>3. CallTypes' /\ CountTypes'
    BY <1>3 DEF EnterTurn, Inv1, TypeOK, CallTypes, CountTypes, CallStates, Updates,
        RunTypes, toolVars, histVars
  <2>4. Control'
    BY <1>3 DEF EnterTurn, Inv1, TypeOK, Control, RunTypes, TextTypes, CallTypes,
        CountTypes, BatchPCs, InjectPCs, runVars, loopVars, toolVars, histVars
  <2>. QED
    BY <2>1, <2>2, <2>3, <2>4 DEF Inv1, TypeOK
<1>4. CASE PollFollowUps
  <2>1. pending' \in Seq(UserMessage) /\ QueueTypes'
    BY <1>4, DrainTypes DEF PollFollowUps, Inv1, TypeOK, QueueTypes, TextTypes
  <2>2. followUpQueue = <<>> => pending' = <<>>
    BY <1>4 DEF PollFollowUps, Drained
  <2>3. Control' /\ agentEnds' \in 0..2
    BY <1>4, <2>2 DEF PollFollowUps, Inv1, TypeOK, CountTypes, Control, BatchPCs,
        InjectPCs, runVars, toolVars
  <2>4. RunTypes'
    BY <1>4, <2>1, <2>2, <2>3 DEF PollFollowUps, WouldStop, Inv1, TypeOK, RunTypes, PCs,
        appVars, runVars, loopVars, toolVars, histVars
  <2>5. TextTypes'
    BY <1>4, <2>1, <2>2, <2>3 DEF PollFollowUps, WouldStop, Inv1, TypeOK, TextTypes,
        loopVars, toolVars
  <2>6. CallTypes' /\ CountTypes'
    BY <1>4, <2>1, <2>2, <2>3 DEF PollFollowUps, WouldStop, Inv1, TypeOK, CallTypes,
        CountTypes, CallStates, Updates, RunTypes, toolVars, histVars
  <2>. QED
    BY <2>1, <2>2, <2>3, <2>4, <2>5, <2>6 DEF Inv1, TypeOK
<1>5. CASE InjectMessage
  <2>1. TextTypes'
    BY <1>5, UserSequences DEF InjectMessage, Inv1, TypeOK, TextTypes, loopVars
  <2>2. RunTypes' /\ QueueTypes'
    BY <1>5, <2>1 DEF InjectMessage, Inv1, TypeOK, RunTypes, QueueTypes, PCs, appVars,
        runVars, loopVars, toolVars, histVars
  <2>3. CallTypes' /\ CountTypes'
    BY <1>5, <2>1 DEF InjectMessage, Inv1, TypeOK, CallTypes, CountTypes, CallStates,
        Updates, RunTypes, toolVars, histVars
  <2>4. Control'
    BY <1>5, <2>1 DEF InjectMessage, Inv1, TypeOK, Control, RunTypes, TextTypes, CallTypes,
        CountTypes, BatchPCs, InjectPCs, runVars, loopVars, toolVars, histVars
  <2>. QED
    BY <2>1, <2>2, <2>3, <2>4 DEF Inv1, TypeOK
<1>6. CASE MessageInjected
  <2>1. TextTypes'
    BY <1>6, UserSequences DEF MessageInjected, Report, Inv1, TypeOK, Control, TextTypes
  <2>2. RunTypes' /\ QueueTypes'
    BY <1>6, <2>1 DEF MessageInjected, Report, Inv1, TypeOK, RunTypes, QueueTypes, PCs,
        appVars, runVars, loopVars, toolVars, histVars
  <2>3. CallTypes' /\ CountTypes'
    BY <1>6, <2>1 DEF MessageInjected, Report, Inv1, TypeOK, CallTypes, CountTypes,
        CallStates, Updates, RunTypes, toolVars, histVars
  <2>4. Control'
    BY <1>6, <2>1 DEF MessageInjected, Report, Inv1, TypeOK, Control, RunTypes, TextTypes,
        CallTypes, CountTypes, BatchPCs, InjectPCs, runVars, loopVars, toolVars, histVars
  <2>. QED
    BY <2>1, <2>2, <2>3, <2>4 DEF Inv1, TypeOK
<1>7. CASE CallModel
  <2>1. RunTypes' /\ QueueTypes'
    BY <1>7 DEF CallModel, Inv1, TypeOK, RunTypes, QueueTypes, PCs, appVars, runVars,
        loopVars, toolVars, histVars
  <2>2. TextTypes'
    BY <1>7 DEF CallModel, Inv1, TypeOK, TextTypes, loopVars, toolVars
  <2>3. CallTypes' /\ CountTypes'
    BY <1>7 DEF CallModel, Inv1, TypeOK, CallTypes, CountTypes, CallStates, Updates,
        RunTypes, toolVars, histVars
  <2>4. Control'
    BY <1>7 DEF CallModel, Inv1, TypeOK, Control, RunTypes, TextTypes, CallTypes,
        CountTypes, BatchPCs, InjectPCs, runVars, loopVars, toolVars, histVars
  <2>. QED
    BY <2>1, <2>2, <2>3, <2>4 DEF Inv1, TypeOK
<1>8. CASE StreamStart
  <2>1. TextTypes' /\ ctx' # <<>>
    BY <1>8 DEF StreamStart, KeepTranscript, Inv1, TypeOK, TextTypes
  <2>2. RunTypes' /\ QueueTypes' /\ CallTypes' /\ CountTypes'
    BY <1>8 DEF StreamStart, Inv1, TypeOK, RunTypes, QueueTypes, CallTypes, CountTypes,
        PCs, appVars, runVars, toolVars, histVars
  <2>3. Control'
    BY <1>8, <2>1 DEF StreamStart, Inv1, Control, BatchPCs, InjectPCs, runVars,
        toolVars, histVars
  <2>. QED
    BY <2>1, <2>2, <2>3 DEF Inv1, TypeOK
<1>9. ASSUME NEW k \in 0..MaxBatch, NEW stop \in Stops, StreamDone(k, stop)
      PROVE  Inv1'
  <2>. DEFINE calls == [i \in 1..k |-> nCalls + i]
              final == Assistant(calls, stop)
  <2>1. nCalls' \in 0..MaxCalls /\ \A i \in 1..k : nCalls + i \in Calls
    BY <1>9, MessageBounds, BoundsAssumption DEF StreamDone, Calls, Inv1, TypeOK,
        CallTypes
  <2>2. calls \in Seq(Calls)
    BY <2>1, BoundsAssumption
  <2>3. final \in Message
    BY <2>2, Constructors
  <2>4. /\ pc \in {"calling", "streaming"} /\ pc' = "answered"
        /\ ctx' = IF pc = "streaming" THEN [ctx EXCEPT ![Len(ctx)] = final]
                                      ELSE Append(ctx, final)
        /\ messages' = Append(messages, final)
        /\ batch' = (IF stop = "stop" THEN calls ELSE <<>>) /\ idx' = 0
        /\ UNCHANGED <<appVars, runVars, newMessages, pending, hasMore, skipPoll, mode,
            st,
                       owner, upd, terminate, pendingToolCalls, histVars>>
    BY <1>9 DEF StreamDone
  <2>. HIDE DEF final, calls
  <2>5. /\ messages' \in Seq(Message) /\ newMessages' \in Seq(Message)
        /\ pending' \in Seq(UserMessage)
    BY <2>3, <2>4 DEF Inv1, TypeOK, TextTypes
  <2>6. ctx \in Seq(Message \cup {Partial}) /\ (pc = "streaming" => ctx # <<>>)
    BY <2>4 DEF Inv1, TypeOK, TextTypes, Control
  <2>7. TextTypes'
    <3>1. Append(ctx, final) \in Seq(Message \cup {Partial})
      BY <2>3, <2>6
    <3>2. CASE pc = "streaming"
      <4>1. Len(ctx) \in 1..Len(ctx)
        BY <2>6, <3>2
      <4>2. [ctx EXCEPT ![Len(ctx)] = final] \in Seq(Message \cup {Partial})
        BY <2>3, <2>6, <4>1, ExceptSeq
      <4>. QED
        BY <2>4, <2>5, <3>2, <4>2 DEF Inv1, TypeOK, TextTypes
    <3>3. CASE pc # "streaming"
      BY <2>4, <2>5, <3>1, <3>3 DEF Inv1, TypeOK, TextTypes
    <3>. QED
      BY <3>2, <3>3
  <2>8. CallTypes'
    BY <2>1, <2>2, <2>4 DEF Inv1, TypeOK, CallTypes
  <2>10. Len(ctx') > 0 /\ ctx'[Len(ctx')] = final
    BY <2>4, <2>6
  <2>11. Control'
    BY <2>3, <2>4, <2>10 DEF Inv1, Control, BatchPCs, InjectPCs, runVars, histVars
  <2>12. RunTypes' /\ QueueTypes' /\ CountTypes'
    BY <2>4 DEF Inv1, TypeOK, RunTypes, QueueTypes, CountTypes, PCs, appVars, runVars,
        histVars
  <2>. QED
    BY <2>7, <2>8, <2>11, <2>12 DEF Inv1, TypeOK
<1>10. CASE Answered
  <2>1. ctx[Len(ctx)] \in Message
    BY <1>10 DEF Answered, Inv1, Control
  <2>2. newMessages' \in Seq(Message)
    BY <1>10, <2>1 DEF Answered, Report, Inv1, TypeOK, TextTypes
  <2>3. /\ pc = "answered" /\ pc' \in {"ended", "turnEnd", "tool"}
        /\ pc' = "ended" => agentEnds' = agentEnds + 1
        /\ pc' # "ended" => agentEnds' = agentEnds
        /\ pc' = "tool" => batch # <<>>
        /\ hasMore' \in BOOLEAN /\ mode' \in ToolModes
    BY <1>10 DEF Answered, EndLoop, Inv1, TypeOK, TextTypes, CallTypes
  <2>4. UNCHANGED <<appVars, runVars, ctx, pending, skipPoll, batch, idx, st, owner, upd,
                       terminate, nCalls, pendingToolCalls, nMsgs, faults, discarded,
                           messages>>
    BY <1>10 DEF Answered
  <2>5. Control' /\ agentEnds' \in 0..2
    BY <2>3, <2>4 DEF Inv1, TypeOK, CountTypes, CallTypes, Control, BatchPCs, InjectPCs,
        runVars
  <2>6. RunTypes' /\ QueueTypes' /\ TextTypes'
    BY <2>2, <2>3, <2>4 DEF Inv1, TypeOK, RunTypes, QueueTypes, TextTypes, PCs, appVars,
        runVars
  <2>7. CallTypes' /\ CountTypes'
    BY <2>3, <2>4, <2>5 DEF Inv1, TypeOK, CallTypes, CountTypes
  <2>. QED
    BY <2>5, <2>6, <2>7 DEF Inv1, TypeOK
<1>11. CASE StartCall
  <2>1. batch[idx + 1] \in Calls /\ idx' \in 1..Len(batch)
    BY <1>11 DEF StartCall, Inv1, TypeOK, CallTypes, Control
  <2>2. CallTypes' /\ Control'
    BY <1>11, <2>1 DEF StartCall, Inv1, TypeOK, RunTypes, CallTypes, Control,
        CallStates, BatchPCs, InjectPCs, runVars, loopVars, histVars
  <2>3. RunTypes' /\ QueueTypes'
    BY <1>11, <2>1, <2>2 DEF StartCall, Inv1, TypeOK, RunTypes, QueueTypes, PCs, appVars,
        runVars, loopVars, toolVars, histVars
  <2>4. TextTypes'
    BY <1>11, <2>1, <2>2 DEF StartCall, Inv1, TypeOK, TextTypes, loopVars, toolVars
  <2>5. CountTypes'
    BY <1>11, <2>1, <2>2 DEF StartCall, Inv1, TypeOK, CountTypes, CallStates, Updates,
        RunTypes, toolVars, histVars
  <2>. QED
    BY <2>1, <2>2, <2>3, <2>4, <2>5 DEF Inv1, TypeOK
<1>12. CASE PrepareImmediate
  <2>1. RunTypes' /\ QueueTypes'
    BY <1>12 DEF PrepareImmediate, Inv1, TypeOK, RunTypes, QueueTypes, PCs, appVars,
        runVars, loopVars, toolVars, histVars
  <2>2. TextTypes'
    BY <1>12 DEF PrepareImmediate, Inv1, TypeOK, TextTypes, loopVars, toolVars
  <2>3. CallTypes' /\ CountTypes'
    BY <1>12 DEF PrepareImmediate, Inv1, TypeOK, CallTypes, CountTypes, CallStates, Updates,
        RunTypes, toolVars, histVars
  <2>4. Control'
    BY <1>12 DEF PrepareImmediate, Inv1, TypeOK, Control, RunTypes, TextTypes, CallTypes,
        CountTypes, BatchPCs, InjectPCs, runVars, loopVars, toolVars, histVars
  <2>. QED
    BY <2>1, <2>2, <2>3, <2>4 DEF Inv1, TypeOK
<1>13. CASE PreparedToolCall
  <2>1. RunTypes' /\ QueueTypes'
    BY <1>13 DEF PreparedToolCall, Inv1, TypeOK, RunTypes, QueueTypes, PCs, appVars,
        runVars, loopVars, toolVars, histVars
  <2>2. TextTypes'
    BY <1>13 DEF PreparedToolCall, Inv1, TypeOK, TextTypes, loopVars, toolVars
  <2>3. CallTypes' /\ CountTypes'
    BY <1>13 DEF PreparedToolCall, Inv1, TypeOK, CallTypes, CountTypes, CallStates, Updates,
        RunTypes, toolVars, histVars
  <2>4. Control'
    BY <1>13 DEF PreparedToolCall, Inv1, TypeOK, Control, RunTypes, TextTypes, CallTypes,
        CountTypes, BatchPCs, InjectPCs, runVars, loopVars, toolVars, histVars
  <2>. QED
    BY <2>1, <2>2, <2>3, <2>4 DEF Inv1, TypeOK
<1>14. CASE PreflightDone
  <2>1. /\ st' \in [Calls -> CallStates]
        /\ pc' \in {"tool", "joining"}
        /\ (pc' = "tool" => idx < Len(batch))
    BY <1>14 DEF PreflightDone, Inv1, TypeOK, CallTypes, CallStates
  <2>2. /\ UNCHANGED <<appVars, runVars, loopVars, batch, idx, mode, owner, upd,
                       terminate, nCalls, pendingToolCalls, histVars, messages>>
        /\ pc \in {"prepared", "immediate"}
    BY <1>14 DEF PreflightDone
  <2>3. RunTypes' /\ QueueTypes' /\ TextTypes' /\ CallTypes' /\ CountTypes'
    BY <2>1, <2>2 DEF Inv1, TypeOK, RunTypes, QueueTypes, TextTypes, CallTypes,
        CountTypes, PCs, appVars, runVars, loopVars, histVars
  <2>4. Control'
    BY <2>1, <2>2 DEF Inv1, Control, BatchPCs, InjectPCs, runVars, loopVars, histVars
  <2>. QED
    BY <2>3, <2>4 DEF Inv1, TypeOK
<1>15. CASE AllDone
  <2>1. RunTypes' /\ QueueTypes'
    BY <1>15 DEF AllDone, Inv1, TypeOK, RunTypes, QueueTypes, PCs, appVars, runVars,
        loopVars, toolVars, histVars
  <2>2. TextTypes'
    BY <1>15 DEF AllDone, Inv1, TypeOK, TextTypes, loopVars, toolVars
  <2>3. CallTypes' /\ CountTypes'
    BY <1>15 DEF AllDone, Inv1, TypeOK, CallTypes, CountTypes, CallStates, Updates,
        RunTypes, toolVars, histVars
  <2>4. Control'
    BY <1>15 DEF AllDone, Inv1, TypeOK, Control, RunTypes, TextTypes, CallTypes, CountTypes,
        BatchPCs, InjectPCs, runVars, loopVars, toolVars, histVars
  <2>. QED
    BY <2>1, <2>2, <2>3, <2>4 DEF Inv1, TypeOK
<1>16. CASE NextCall
  <2>1. RunTypes' /\ QueueTypes'
    BY <1>16 DEF NextCall, ResultReported, Inv1, TypeOK, RunTypes, QueueTypes, PCs, appVars,
        runVars, loopVars, toolVars, histVars
  <2>2. TextTypes'
    BY <1>16 DEF NextCall, ResultReported, Inv1, TypeOK, TextTypes, loopVars, toolVars
  <2>3. CallTypes' /\ CountTypes'
    BY <1>16 DEF NextCall, ResultReported, Inv1, TypeOK, CallTypes, CountTypes, CallStates,
        Updates, RunTypes, toolVars, histVars
  <2>4. Control'
    BY <1>16 DEF NextCall, ResultReported, Inv1, TypeOK, Control, RunTypes, TextTypes,
        CallTypes, CountTypes, BatchPCs, InjectPCs, runVars, loopVars, toolVars, histVars
  <2>. QED
    BY <2>1, <2>2, <2>3, <2>4 DEF Inv1, TypeOK
<1>17. CASE EndBatch
  <2>1. \A i \in 1..idx : ToolResult(batch[i]) \in Message
    BY <1>17, Constructors DEF Inv1, TypeOK, CallTypes
  <2>2. Results \in Seq(Message)
    BY <1>17, <2>1 DEF Results, Inv1, TypeOK, CallTypes
  <2>3. TextTypes'
    BY <1>17, <2>2 DEF EndBatch, Report, Inv1, TypeOK, TextTypes
  <2>4. RunTypes' /\ QueueTypes'
    BY <1>17, <2>1, <2>2, <2>3 DEF EndBatch, Report, Results, Inv1, TypeOK, RunTypes,
        QueueTypes, PCs, appVars, runVars, loopVars, toolVars, histVars
  <2>5. CallTypes' /\ CountTypes'
    BY <1>17, <2>1, <2>2, <2>3 DEF EndBatch, Report, Results, Inv1, TypeOK, CallTypes,
        CountTypes, CallStates, Updates, RunTypes, toolVars, histVars
  <2>6. Control'
    BY <1>17, <2>1, <2>2, <2>3 DEF EndBatch, Report, Results, Inv1, TypeOK, Control,
        RunTypes, TextTypes, CallTypes, CountTypes, BatchPCs, InjectPCs, runVars, loopVars,
        toolVars, histVars
  <2>. QED
    BY <2>1, <2>2, <2>3, <2>4, <2>5, <2>6 DEF Inv1, TypeOK
<1>18. ASSUME NEW i \in 1..idx, ReportResult(i)
      PROVE  Inv1'
  <2>1. ToolResult(batch[i]) \in Message
    BY <1>18, Constructors DEF Inv1, TypeOK, CallTypes
  <2>2. TextTypes'
    BY <1>18, <2>1 DEF ReportResult, Inv1, TypeOK, TextTypes, loopVars
  <2>3. RunTypes' /\ QueueTypes'
    BY <1>18, <2>1, <2>2 DEF ReportResult, Inv1, TypeOK, RunTypes, QueueTypes, PCs, appVars,
        runVars, loopVars, toolVars, histVars
  <2>4. CallTypes' /\ CountTypes'
    BY <1>18, <2>1, <2>2 DEF ReportResult, Inv1, TypeOK, CallTypes, CountTypes, CallStates,
        Updates, RunTypes, toolVars, histVars
  <2>5. Control'
    BY <1>18, <2>1, <2>2 DEF ReportResult, Inv1, TypeOK, Control, RunTypes, TextTypes,
        CallTypes, CountTypes, BatchPCs, InjectPCs, runVars, loopVars, toolVars, histVars
  <2>. QED
    BY <2>1, <2>2, <2>3, <2>4, <2>5 DEF Inv1, TypeOK
<1>19. CASE CallFailed
  <2>1. discarded' \subseteq Msgs /\ TextTypes'
    BY <1>19, RunFailsTypes DEF CallFailed
  <2>2. RunTypes' /\ QueueTypes'
    BY <1>19, <2>1 DEF CallFailed, RunFails, Inv1, TypeOK, RunTypes, QueueTypes, PCs,
        appVars, runVars, loopVars, toolVars, histVars
  <2>3. CallTypes' /\ CountTypes'
    BY <1>19, <2>1 DEF CallFailed, RunFails, Inv1, TypeOK, CallTypes, CountTypes,
        CallStates, Updates, RunTypes, toolVars, histVars
  <2>4. Control'
    BY <1>19, <2>1 DEF CallFailed, RunFails, Inv1, TypeOK, Control, RunTypes, TextTypes,
        CallTypes, CountTypes, BatchPCs, InjectPCs, runVars, loopVars, toolVars, histVars
  <2>. QED
    BY <2>1, <2>2, <2>3, <2>4 DEF Inv1, TypeOK
<1>20. CASE FailureMessage
  <2>1. (IF aborted THEN "aborted" ELSE "error") \in Stops /\ <<>> \in Seq(Calls)
    BY DEF Stops
  <2>2. Assistant(<<>>, IF aborted THEN "aborted" ELSE "error") \in Message
    BY <2>1, Constructors
  <2>3. TextTypes'
    BY <1>20, <2>2 DEF FailureMessage, Inv1, TypeOK, TextTypes, loopVars
  <2>4. RunTypes' /\ QueueTypes'
    BY <1>20, <2>1, <2>2, <2>3 DEF FailureMessage, Inv1, TypeOK, RunTypes, QueueTypes, PCs,
        appVars, runVars, loopVars, toolVars, histVars
  <2>5. CallTypes' /\ CountTypes'
    BY <1>20, <2>1, <2>2, <2>3 DEF FailureMessage, Inv1, TypeOK, CallTypes, CountTypes,
        CallStates, Updates, RunTypes, toolVars, histVars
  <2>6. Control'
    BY <1>20, <2>1, <2>2, <2>3 DEF FailureMessage, Inv1, TypeOK, Control, RunTypes,
        TextTypes, CallTypes, CountTypes, BatchPCs, InjectPCs, runVars, loopVars, toolVars,
        histVars
  <2>. QED
    BY <2>1, <2>2, <2>3, <2>4, <2>5, <2>6 DEF Inv1, TypeOK
<1>21. CASE FailureEnd
  <2>1. /\ pc = "failureMessage" /\ pc' = "failureEnd" /\ agentEnds' = agentEnds + 1
        /\ UNCHANGED <<appVars, runVars, loopVars, toolVars, nMsgs, faults, discarded,
                       messages>>
    BY <1>21 DEF FailureEnd
  <2>2. agentEnds \in 0..2 /\ agentEnds <= 1
    BY <2>1 DEF Inv1, TypeOK, CountTypes, Control
  <2>3. RunTypes' /\ QueueTypes'
    BY <2>1 DEF Inv1, TypeOK, RunTypes, QueueTypes, PCs, appVars, runVars
  <2>4. TextTypes' /\ CallTypes'
    BY <2>1 DEF Inv1, TypeOK, TextTypes, CallTypes, loopVars, toolVars
  <2>5. CountTypes'
    BY <2>1, <2>2 DEF Inv1, TypeOK, CountTypes
  <2>6. Control'
    BY <2>1 DEF Inv1, Control, BatchPCs, InjectPCs, runVars, loopVars, toolVars
  <2>. QED
    BY <2>3, <2>4, <2>5, <2>6 DEF Inv1, TypeOK
<1>22. CASE finishRun
  <2>1. /\ activeRun' = 0 /\ isStreaming' = FALSE /\ pendingToolCalls' = {}
        /\ pc' = "idle" /\ aborted' = FALSE /\ agentEnds' = 0 /\ wasReset' = FALSE
        /\ ctx' = <<>> /\ newMessages' = <<>> /\ pending' = <<>>
        /\ hasMore' = FALSE /\ skipPoll' = FALSE /\ batch' = <<>> /\ idx' = 0
        /\ UNCHANGED <<appVars, runs, mode, st, owner, upd, terminate, nCalls, nMsgs,
            discarded,
                       messages>>
    BY <1>22 DEF finishRun, ClearRuntime
  <2>2. faults' \in 0..MaxFaults
    BY <1>22, BoundsAssumption DEF finishRun, Inv1, TypeOK, CountTypes
  <2>3. activeRun' \in 0..MaxRuns /\ runs' \in 0..MaxRuns /\ pc' \in PCs
    BY <2>1, BoundsAssumption DEF Inv1, TypeOK, RunTypes, PCs
  <2>4. isStreaming' \in BOOLEAN /\ aborted' \in BOOLEAN /\ wasReset' \in BOOLEAN
        /\ hasMore' \in BOOLEAN /\ skipPoll' \in BOOLEAN
    BY <2>1
  <2>5. RunTypes' /\ TextTypes'
    BY <2>1, <2>3, <2>4 DEF Inv1, TypeOK, RunTypes, TextTypes
  <2>6. QueueTypes' /\ CallTypes' /\ CountTypes' /\ Control'
    BY <2>1, <2>2, BoundsAssumption DEF Inv1, TypeOK, RunTypes, QueueTypes, CallTypes,
        CountTypes, Control, BatchPCs, InjectPCs, appVars
  <2>. QED
    BY <2>5, <2>6 DEF Inv1, TypeOK
<1>. QED
  BY <1>1, <1>2, <1>3, <1>4, <1>5, <1>6, <1>7, <1>8, <1>9, <1>10, <1>11, <1>12, <1>13,
      <1>14, <1>15, <1>16, <1>17, <1>18, <1>19, <1>20, <1>21, <1>22 DEF Loop

(* A step that only moves tool calls along preserves them.                 *)
LEMMA ToolFrame ==
    ASSUME Inv1, CallTypes',
           UNCHANGED <<appVars, runVars, loopVars, histVars, messages, pc, batch, idx>>
    PROVE  Inv1'
<1>1. RunTypes' /\ QueueTypes'
  BY DEF Inv1, TypeOK, RunTypes, QueueTypes, appVars, runVars
<1>2. TextTypes' /\ CountTypes'
  BY DEF Inv1, TypeOK, TextTypes, CountTypes, loopVars, histVars
<1>3. Control'
  BY DEF Inv1, Control, runVars, loopVars, histVars
<1>. QED
  BY <1>1, <1>2, <1>3 DEF Inv1, TypeOK

(* What a tool call does on its own preserves them.                        *)
LEMMA CallInv1 ==
    ASSUME Inv1, \E c \in Calls : Call(c) \/ CallUpdates(c) \/ CallListenerThrows(c)
    PROVE  Inv1'
<1>1. ASSUME NEW c \in Calls, UpdateHeard(c)
      PROVE  Inv1'
  <2>1. CallTypes'
    BY <1>1 DEF UpdateHeard, Inv1, TypeOK, CallTypes, Updates
  <2>2. UNCHANGED <<appVars, runVars, loopVars, histVars, messages, pc, batch, idx>>
    BY <1>1 DEF UpdateHeard
  <2>. QED
    BY <2>1, <2>2, ToolFrame
<1>2. ASSUME NEW c \in Calls, CallSettles(c)
      PROVE  Inv1'
  <2>1. CallTypes'
    BY <1>2 DEF CallSettles, Inv1, TypeOK, CallTypes, CallStates
  <2>2. UNCHANGED <<appVars, runVars, loopVars, histVars, messages, pc, batch, idx>>
    BY <1>2 DEF CallSettles
  <2>. QED
    BY <2>1, <2>2, ToolFrame
<1>3. ASSUME NEW c \in Calls, CallRejects(c)
      PROVE  Inv1'
  <2>1. CallTypes'
    BY <1>3 DEF CallRejects, Inv1, TypeOK, CallTypes, CallStates
  <2>2. UNCHANGED <<appVars, runVars, loopVars, histVars, messages, pc, batch, idx>>
    BY <1>3 DEF CallRejects
  <2>. QED
    BY <2>1, <2>2, ToolFrame
<1>4. ASSUME NEW c \in Calls, EndHeard(c)
      PROVE  Inv1'
  <2>1. CallTypes'
    BY <1>4 DEF EndHeard, Inv1, TypeOK, CallTypes, CallStates
  <2>2. UNCHANGED <<appVars, runVars, loopVars, histVars, messages, pc, batch, idx>>
    BY <1>4 DEF EndHeard
  <2>. QED
    BY <2>1, <2>2, ToolFrame
<1>5. ASSUME NEW c \in Calls, NEW term \in BOOLEAN, CallEnds(c, term)
      PROVE  Inv1'
  <2>1. CallTypes'
    BY <1>5 DEF CallEnds, Inv1, TypeOK, CallTypes, CallStates
  <2>2. UNCHANGED <<appVars, runVars, loopVars, histVars, messages, pc, batch, idx>>
    BY <1>5 DEF CallEnds
  <2>. QED
    BY <2>1, <2>2, ToolFrame
<1>6. ASSUME NEW c \in Calls, CallUpdates(c)
      PROVE  Inv1'
  <2>1. CallTypes'
    BY <1>6 DEF CallUpdates, Inv1, TypeOK, CallTypes, Updates
  <2>2. UNCHANGED <<appVars, runVars, loopVars, histVars, messages, pc, batch, idx>>
    BY <1>6 DEF CallUpdates
  <2>. QED
    BY <2>1, <2>2, ToolFrame
<1>7. ASSUME NEW c \in Calls, CallListenerThrows(c)
      PROVE  Inv1'
  <2>1. faults' \in 0..MaxFaults
    BY <1>7, BoundsAssumption DEF CallListenerThrows, Inv1, TypeOK, CountTypes
  <2>2. st' \in [Calls -> CallStates] /\ upd' \in [Calls -> Updates]
    BY <1>7 DEF CallListenerThrows, Inv1, TypeOK, CallTypes, CallStates, Updates
  <2>3. CallTypes'
    BY <1>7, <2>2 DEF CallListenerThrows, Inv1, TypeOK, CallTypes
  <2>4. RunTypes' /\ QueueTypes' /\ TextTypes' /\ CountTypes'
    BY <1>7, <2>1 DEF CallListenerThrows, Inv1, TypeOK, RunTypes, QueueTypes, TextTypes,
        CountTypes, appVars, runVars, loopVars
  <2>5. Control'
    BY <1>7 DEF CallListenerThrows, Inv1, Control, runVars, loopVars
  <2>. QED
    BY <2>3, <2>4, <2>5 DEF Inv1, TypeOK
<1>. QED
  BY <1>1, <1>2, <1>3, <1>4, <1>5, <1>6, <1>7 DEF Call

(* An exception in the loop preserves them.                                *)
LEMMA ThrowInv1 ==
    ASSUME Inv1, LoopThrows
    PROVE  Inv1'
<1>1. discarded' \subseteq Msgs /\ TextTypes'
  BY RunFailsTypes DEF LoopThrows
<1>2. RunTypes' /\ QueueTypes'
  BY DEF LoopThrows, RunFails, Inv1, TypeOK, RunTypes, QueueTypes, PCs, appVars, runVars
<1>3. CallTypes' /\ CountTypes'
  BY <1>1, BoundsAssumption DEF LoopThrows, RunFails, Inv1, TypeOK, CallTypes, CountTypes,
      toolVars
<1>4. Control'
  BY DEF LoopThrows, RunFails, Inv1, Control, BatchPCs, InjectPCs, runVars, toolVars
<1>. QED
  BY <1>1, <1>2, <1>3, <1>4 DEF Inv1, TypeOK

(* A step that changes nothing preserves them.                             *)
LEMMA StutterInv1 ==
    ASSUME Inv1, UNCHANGED vars
    PROVE  Inv1'
<1>1. RunTypes' /\ QueueTypes' /\ CountTypes'
  BY DEF vars, Inv1, TypeOK, RunTypes, QueueTypes, CountTypes, appVars, runVars, histVars
<1>2. TextTypes' /\ CallTypes'
  BY DEF vars, Inv1, TypeOK, TextTypes, CallTypes, loopVars, toolVars
<1>3. Control'
  BY DEF vars, Inv1, Control, runVars, loopVars, toolVars, histVars
<1>. QED
  BY <1>1, <1>2, <1>3 DEF Inv1, TypeOK

(* In every state of the agent the types and the control invariant hold.   *)
THEOREM Typing == Spec => []Inv1
<1>1. Inv1 /\ [Next]_vars => Inv1'
  BY AppInv1, LoopInv1, CallInv1, ThrowInv1, StutterInv1 DEF Next
<1>. QED
  BY InitInv1, <1>1, PTL DEF Spec

(* The variables of the agent always have their types. *)
THEOREM TypeCorrect == Spec => []TypeOK
BY Typing, PTL DEF Inv1

-----------------------------------------------------------------------------
(* No message given to the agent is lost: it is in a queue, in the hands   *)
(* of the loop or in the transcript, unless the application throws it away *)
(* or a run fails; and messages given in one way are delivered in order.   *)

(* A message the loop is injecting has been delivered already, although it *)
(* still heads the pending messages.                                       *)
QueueInv ==
    /\ NothingLost
    /\ pc = "injected" => Head(pending).id \in Ids(messages) \cup discarded

(* Where messages are, and where the loop is: the state QueueInv is about. *)
queueVars == <<nMsgs, messages, pending, steeringQueue, followUpQueue, discarded>>

(* An empty sequence has no user messages.                                 *)
LEMMA IdsOfEmpty == Ids(<<>>) = {}
BY DEF Ids

(* Appending adds the user message appended, if it is one.                 *)
LEMMA IdsOfAppend ==
    ASSUME NEW S, NEW s \in Seq(S), NEW m
    PROVE  Ids(Append(s, m)) = Ids(s) \cup (IF m.role = "user" THEN {m.id} ELSE {})
<1>. DEFINE t == Append(s, m)
<1>1. /\ DOMAIN s = 1..Len(s) /\ DOMAIN t = 1..(Len(s) + 1) /\ Len(s) \in Nat
      /\ \A i \in 1..Len(s) : t[i] = s[i]
      /\ t[Len(s) + 1] = m
  OBVIOUS
<1>2. ASSUME NEW x PROVE x \in Ids(t) <=> x \in Ids(s) \/ (m.role = "user" /\ x = m.id)
  BY <1>1 DEF Ids
<1>. QED
  BY <1>2

(* The user messages of a queue are those of its head and its tail.        *)
LEMMA IdsOfHeadTail ==
    ASSUME NEW s \in Seq(UserMessage), s # <<>>
    PROVE  Ids(s) = {Head(s).id} \cup Ids(Tail(s))
<1>1. /\ DOMAIN s = 1..Len(s) /\ Len(s) \in Nat /\ Len(s) > 0 /\ Head(s) = s[1]
      /\ DOMAIN Tail(s) = 1..(Len(s) - 1)
      /\ \A i \in 1..(Len(s) - 1) : Tail(s)[i] = s[i + 1]
      /\ \A i \in 1..Len(s) : s[i] \in UserMessage
  OBVIOUS
<1>2. \A i \in 1..Len(s) : s[i].role = "user"
  BY <1>1 DEF UserMessage
<1>3. ASSUME NEW i \in 1..Len(s)
      PROVE  s[i].id = Head(s).id \/ s[i].id \in Ids(Tail(s))
  <2>1. CASE i = 1
    BY <1>1, <2>1
  <2>2. CASE i # 1
    <3>1. i - 1 \in DOMAIN Tail(s) /\ Tail(s)[i - 1] = s[i]
      BY <1>1, <2>2
    <3>. QED
      BY <1>2, <3>1 DEF Ids
  <2>. QED
    BY <2>1, <2>2
<1>4. Ids(s) \subseteq {Head(s).id} \cup Ids(Tail(s))
  BY <1>1, <1>3 DEF Ids
<1>5. Head(s).id \in Ids(s)
  BY <1>1, <1>2 DEF Ids
<1>6. ASSUME NEW i \in 1..(Len(s) - 1)
      PROVE  Tail(s)[i].id \in Ids(s)
  <2>1. i + 1 \in DOMAIN s /\ Tail(s)[i] = s[i + 1]
    BY <1>1
  <2>. QED
    BY <1>1, <1>2, <2>1 DEF Ids
<1>7. Ids(Tail(s)) \subseteq Ids(s)
  BY <1>1, <1>6 DEF Ids
<1>. QED
  BY <1>4, <1>5, <1>7

(* Draining a queue divides it: what is returned and what is left.         *)
LEMMA IdsOfDrain ==
    ASSUME NEW q \in Seq(UserMessage), NEW m
    PROVE  Ids(Drained(q, m)) \cup Ids(Rest(q, m)) = Ids(q)
<1>1. CASE m = "all" \/ q = <<>>
  BY <1>1, IdsOfEmpty DEF Drained, Rest
<1>2. CASE m # "all" /\ q # <<>>
  <2>1. Head(q) \in UserMessage
    BY <1>2, UserSequences
  <2>2. Ids(<<Head(q)>>) = {Head(q).id}
    BY <2>1 DEF Ids, UserMessage
  <2>. QED
    BY <1>2, <2>2, IdsOfHeadTail DEF Drained, Rest
<1>. QED
  BY <1>1, <1>2

(* The messages of a prompt are the next numbers.                          *)
LEMMA IdsOfPrompt ==
    ASSUME NEW n \in Nat, NEW k \in Nat
    PROVE  Ids([i \in 1..k |-> User(n + i, "prompt")]) = (n + 1)..(n + k)
<1>. DEFINE s == [i \in 1..k |-> User(n + i, "prompt")]
<1>1. DOMAIN s = 1..k /\ \A i \in 1..k : s[i].role = "user" /\ s[i].id = n + i
  BY DEF User
<1>2. Ids(s) = {s[i].id : i \in 1..k}
  BY <1>1 DEF Ids
<1>. HIDE DEF s
<1>3. ASSUME NEW x \in (n + 1)..(n + k)
      PROVE  x \in Ids(s)
  <2>1. x - n \in 1..k /\ x = n + (x - n)
    OBVIOUS
  <2>2. s[x - n].id = x
    BY <1>1, <2>1
  <2>. QED
    BY <1>2, <2>1, <2>2
<1>4. \A i \in 1..k : s[i].id \in (n + 1)..(n + k)
  BY <1>1
<1>5. Ids(s) = (n + 1)..(n + k)
  BY <1>2, <1>3, <1>4
<1>. QED
  BY <1>5 DEF s

(* No message has been given at first.                                     *)
LEMMA InitQueueInv == Init => QueueInv
BY IdsOfEmpty DEF Init, NewState, QueueInv, NothingLost

(* A step that moves no message preserves the invariant.                   *)
LEMMA FrameQueueInv ==
    ASSUME QueueInv, UNCHANGED queueVars, pc' = pc \/ pc' # "injected"
    PROVE  QueueInv'
BY DEF QueueInv, NothingLost, queueVars

(* A step that adds an assistant message or a tool result.                 *)
LEMMA OtherMessageQueueInv ==
    ASSUME Inv1, QueueInv, NEW m, m.role # "user", messages' = Append(messages, m),
           UNCHANGED <<nMsgs, pending, steeringQueue, followUpQueue, discarded>>,
           pc' # "injected"
    PROVE  QueueInv'
<1>1. Ids(messages') = Ids(messages)
  BY IdsOfAppend DEF Inv1, TypeOK, TextTypes
<1>. QED
  BY <1>1 DEF QueueInv, NothingLost

(* A step that takes messages out of the steering or the follow-up queue.  *)
LEMMA DrainQueueInv ==
    ASSUME Inv1, QueueInv, pending = <<>>, UNCHANGED <<nMsgs, messages, discarded>>,
           \/ /\ pending' = Drained(steeringQueue, queueMode.steer)
              /\ steeringQueue' = Rest(steeringQueue, queueMode.steer)
              /\ UNCHANGED followUpQueue
           \/ /\ pending' = Drained(followUpQueue, queueMode.followUp)
              /\ followUpQueue' = Rest(followUpQueue, queueMode.followUp)
              /\ UNCHANGED steeringQueue,
           pc' # "injected"
    PROVE  QueueInv'
<1>1. Ids(pending') \cup Ids(steeringQueue') \cup Ids(followUpQueue')
        = Ids(steeringQueue) \cup Ids(followUpQueue)
  BY IdsOfDrain DEF Inv1, TypeOK, QueueTypes
<1>. QED
  BY <1>1, IdsOfEmpty DEF QueueInv, NothingLost

(* What the application calls preserves it.                                *)
LEMMA AppQueueInv ==
    ASSUME Inv1, QueueInv, App
    PROVE  QueueInv'
<1>. USE DEF QueueInv, NothingLost
<1>1. nMsgs \in Nat /\ messages \in Seq(Message) /\ pending \in Seq(UserMessage)
      /\ steeringQueue \in Seq(UserMessage) /\ followUpQueue \in Seq(UserMessage)
  BY MessageBounds DEF Inv1, TypeOK, CountTypes, TextTypes, QueueTypes
<1>2. \A n, via : User(n, via).role = "user" /\ User(n, via).id = n
  BY DEF User
<1>3. CASE steer
  <2>1. Ids(steeringQueue') = Ids(steeringQueue) \cup {nMsgs + 1}
    BY <1>1, <1>2, <1>3, IdsOfAppend DEF steer
  <2>2. nMsgs' = nMsgs + 1
        /\ UNCHANGED <<messages, pending, followUpQueue, discarded, pc>>
    BY <1>3 DEF steer, loopVars
  <2>3. 1..nMsgs' = 1..nMsgs \cup {nMsgs + 1}
    BY <1>1, <2>2
  <2>. QED
    BY <2>1, <2>2, <2>3
<1>4. CASE followUp
  <2>1. Ids(followUpQueue') = Ids(followUpQueue) \cup {nMsgs + 1}
    BY <1>1, <1>2, <1>4, IdsOfAppend DEF followUp
  <2>2. nMsgs' = nMsgs + 1
        /\ UNCHANGED <<messages, pending, steeringQueue, discarded, pc>>
    BY <1>4 DEF followUp, loopVars
  <2>3. 1..nMsgs' = 1..nMsgs \cup {nMsgs + 1}
    BY <1>1, <2>2
  <2>. QED
    BY <2>1, <2>2, <2>3
<1>5. CASE clearSteeringQueue \/ clearFollowUpQueue
  BY <1>5, IdsOfEmpty DEF clearSteeringQueue, clearFollowUpQueue, loopVars
<1>6. CASE setQueueMode \/ abort
  BY <1>6, FrameQueueInv DEF setQueueMode, abort, queueVars, loopVars, histVars, appVars
<1>7. CASE reset
  BY <1>7, IdsOfEmpty DEF reset, loopVars
<1>8. ASSUME NEW k \in 1..MaxPrompt, prompt(k)
      PROVE  QueueInv'
  <2>1. Ids(pending') = (nMsgs + 1)..(nMsgs + k)
    BY <1>1, <1>8, BoundsAssumption, IdsOfPrompt DEF prompt, StartRun
  <2>2. pending = <<>> /\ pc' = "prompts" /\ nMsgs' = nMsgs + k
        /\ UNCHANGED <<messages, steeringQueue, followUpQueue, discarded>>
    BY <1>8 DEF prompt, StartRun, Inv1, Control, InjectPCs
  <2>3. 1..nMsgs' = 1..nMsgs \cup (nMsgs + 1)..(nMsgs + k)
    BY <1>1, <1>8, <2>2, BoundsAssumption
  <2>. QED
    BY <2>1, <2>2, <2>3, IdsOfEmpty
<1>9. CASE continueQueued
  <2>1. pending = <<>> /\ pc' = "prompts" /\ UNCHANGED <<nMsgs, messages, discarded>>
    BY <1>9 DEF continueQueued, StartRun, Inv1, Control, InjectPCs
  <2>. QED
    BY <1>9, <2>1, DrainQueueInv DEF continueQueued, StartRun
<1>10. CASE continueTranscript
  <2>1. pending = <<>> /\ pending' = <<>> /\ pc' = "prompts"
    BY <1>10 DEF continueTranscript, StartRun, Inv1, Control, InjectPCs
  <2>. QED
    BY <1>10, <2>1, FrameQueueInv DEF continueTranscript, StartRun, queueVars
<1>. QED
  BY <1>3, <1>4, <1>5, <1>6, <1>7, <1>8, <1>9, <1>10 DEF App

(* The loop takes a message from the pending ones into the transcript.     *)
LEMMA DeliverQueueInv ==
    ASSUME Inv1, QueueInv, EmitPrompt \/ InjectMessage \/ MessageInjected
    PROVE  QueueInv'
<1>. USE DEF QueueInv, NothingLost
<1>1. /\ pending # <<>>
      /\ UNCHANGED <<nMsgs, steeringQueue, followUpQueue, discarded>>
  BY DEF EmitPrompt, InjectMessage, MessageInjected, Inv1, Control, appVars, histVars
<1>2. /\ pending \in Seq(UserMessage) /\ messages \in Seq(Message)
      /\ Head(pending).role = "user"
  <2>1. pending \in Seq(UserMessage) /\ messages \in Seq(Message)
    BY DEF Inv1, TypeOK, TextTypes
  <2>2. Head(pending) \in UserMessage
    BY <1>1, <2>1, UserSequences
  <2>. QED
    BY <2>1, <2>2 DEF UserMessage
<1>3. Ids(pending) = {Head(pending).id} \cup Ids(Tail(pending))
  BY <1>1, <1>2, IdsOfHeadTail
<1>4. Ids(Append(messages, Head(pending))) = Ids(messages) \cup {Head(pending).id}
  BY <1>2, IdsOfAppend
<1>5. CASE EmitPrompt
  BY <1>1, <1>3, <1>4, <1>5 DEF EmitPrompt
<1>6. CASE InjectMessage
  BY <1>1, <1>3, <1>4, <1>6 DEF InjectMessage, loopVars
<1>7. CASE MessageInjected
  BY <1>1, <1>3, <1>7 DEF MessageInjected
<1>. QED
  BY <1>5, <1>6, <1>7

(* A failed run throws away what it had not delivered, and nothing else.   *)
LEMMA RunFailsQueueInv ==
    ASSUME Inv1, QueueInv, RunFails
    PROVE  QueueInv'
<1>1. /\ pending' = <<>> /\ pc' = "failure"
      /\ discarded' = discarded \cup Ids(Undelivered)
      /\ UNCHANGED <<nMsgs, messages, steeringQueue, followUpQueue>>
  BY DEF RunFails, appVars
<1>2. Ids(pending) \subseteq Ids(Undelivered) \cup Ids(messages) \cup discarded
      /\ Ids(Undelivered) \subseteq Ids(pending)
  <2>1. CASE pc = "injected"
    <3>1. pending # <<>> /\ pending \in Seq(UserMessage)
      BY <2>1 DEF Inv1, TypeOK, TextTypes, Control
    <3>2. Ids(pending) = {Head(pending).id} \cup Ids(Tail(pending))
      BY <3>1, IdsOfHeadTail
    <3>. QED
      BY <2>1, <3>2 DEF QueueInv, Undelivered
  <2>2. CASE pc # "injected"
    BY <2>2 DEF Undelivered
  <2>. QED
    BY <2>1, <2>2
<1>. QED
  BY <1>1, <1>2, IdsOfEmpty DEF QueueInv, NothingLost

(* What the loop does preserves it.                                        *)
LEMMA LoopQueueInv ==
    ASSUME Inv1, QueueInv, Loop
    PROVE  QueueInv'
<1>1. CASE EmitPrompt \/ InjectMessage \/ MessageInjected
  BY <1>1, DeliverQueueInv
<1>2. CASE \/ EnterTurn \/ CallModel \/ StreamStart \/ Answered \/ StartCall
           \/ PrepareImmediate
  BY <1>2, FrameQueueInv
     DEF EnterTurn, CallModel, StreamStart, KeepTranscript, Answered, EndLoop, StartCall,
         PrepareImmediate, queueVars, appVars, loopVars, histVars
<1>3. CASE \/ PreparedToolCall \/ PreflightDone \/ AllDone \/ NextCall \/ EndBatch
           \/ FailureEnd
  BY <1>3, FrameQueueInv
     DEF PreparedToolCall, PreflightDone, AllDone, NextCall, EndBatch, FailureEnd,
         queueVars, appVars, loopVars, histVars
<1>4. CASE PollSteering
  <2>1. /\ pending = <<>> /\ pc' = "turn"
        /\ UNCHANGED <<nMsgs, messages, discarded, followUpQueue>>
    BY <1>4 DEF PollSteering, Inv1, Control, InjectPCs, histVars
  <2>2. CASE skipPoll
    BY <1>4, <2>1, <2>2, FrameQueueInv DEF PollSteering, queueVars
  <2>3. CASE ~skipPoll
    BY <1>4, <2>1, <2>3, DrainQueueInv DEF PollSteering
  <2>. QED
    BY <2>2, <2>3
<1>5. CASE PollFollowUps
  BY <1>5, DrainQueueInv DEF PollFollowUps, WouldStop
<1>6. ASSUME NEW k \in 0..MaxBatch, NEW stop \in Stops, StreamDone(k, stop)
      PROVE  QueueInv'
  <2>. DEFINE m == Assistant([i \in 1..k |-> nCalls + i], stop)
  <2>1. m.role # "user"
    BY DEF Assistant
  <2>2. /\ messages' = Append(messages, m) /\ pc' = "answered"
        /\ UNCHANGED <<nMsgs, pending, steeringQueue, followUpQueue, discarded>>
    BY <1>6 DEF StreamDone, appVars, histVars
  <2>. QED
    BY <2>1, <2>2, OtherMessageQueueInv
<1>7. ASSUME NEW i \in 1..idx, ReportResult(i)
      PROVE  QueueInv'
  <2>1. ToolResult(batch[i]).role # "user"
    BY DEF ToolResult
  <2>2. pc' # "injected"
    BY <1>7 DEF ReportResult
  <2>. QED
    BY <1>7, <2>1, <2>2, OtherMessageQueueInv DEF ReportResult, appVars, loopVars, histVars
<1>8. CASE FailureMessage
  <2>1. Assistant(<<>>, IF aborted THEN "aborted" ELSE "error").role # "user"
    BY DEF Assistant
  <2>. QED
    BY <1>8, <2>1, OtherMessageQueueInv DEF FailureMessage, appVars, loopVars, histVars
<1>9. CASE CallFailed
  BY <1>9, RunFailsQueueInv DEF CallFailed
<1>10. CASE finishRun
  <2>1. pending = <<>>
    BY <1>10 DEF finishRun, Inv1, Control, InjectPCs
  <2>. QED
    BY <1>10, <2>1, FrameQueueInv DEF finishRun, queueVars, appVars
<1>. QED
  BY <1>1, <1>2, <1>3, <1>4, <1>5, <1>6, <1>7, <1>8, <1>9, <1>10 DEF Loop

(* What a call does on its own preserves it.                               *)
LEMMA CallQueueInv ==
    ASSUME QueueInv, NEW c \in Calls,
           Call(c) \/ CallUpdates(c) \/ CallListenerThrows(c)
    PROVE  QueueInv'
BY FrameQueueInv
   DEF Call, UpdateHeard, CallSettles, CallRejects, EndHeard, CallEnds, CallUpdates,
       CallListenerThrows, queueVars, appVars, loopVars, histVars

(* The messages are where the invariant says.                              *)
LEMMA Queues == Spec => []QueueInv
<1>1. Inv1 /\ QueueInv /\ [Next]_vars => QueueInv'
  <2>. SUFFICES ASSUME Inv1, QueueInv, [Next]_vars PROVE QueueInv'
    OBVIOUS
  <2>1. CASE LoopThrows
    BY <2>1, RunFailsQueueInv DEF LoopThrows
  <2>2. CASE UNCHANGED vars
    BY <2>2, FrameQueueInv DEF vars, queueVars, appVars, loopVars, histVars
  <2>. QED
    BY <2>1, <2>2, AppQueueInv, LoopQueueInv, CallQueueInv DEF Next
<1>. QED
  BY InitQueueInv, Typing, <1>1, PTL DEF Spec

(* No message given to the agent is lost, whatever the application, the    *)
(* tools and the provider do: neither an abort nor a provider error drops  *)
(* one; only clear, reset and a run that fails do.                         *)
THEOREM NothingIsLost == Spec => []NothingLost
<1>1. QueueInv => NothingLost
  BY DEF QueueInv
<1>. QED
  BY <1>1, Queues, PTL

-----------------------------------------------------------------------------
(* Messages of one way of being given stay in order: what is in order in   *)
(* a sequence, between two sequences, and what a sequence has nothing of.  *)
Before(via, s, t) ==
    \A i \in DOMAIN s, j \in DOMAIN t :
        s[i].kind = via /\ t[j].kind = via => s[i].id < t[j].id
OfKind(s, via)  == \A i \in DOMAIN s : s[i].kind = via
Without(via, s) == \A i \in DOMAIN s : s[i].kind # via

(* A flow in three parts: the transcript, what the loop holds, a queue.    *)
Ordered(via, m, u, q) ==
    /\ InOrder(via, m) /\ InOrder(via, u) /\ InOrder(via, q)
    /\ Before(via, m, u) /\ Before(via, m, q) /\ Before(via, u, q)

InParts ==
    /\ Ordered("steer", messages, Undelivered, steeringQueue)
    /\ Ordered("followUp", messages, Undelivered, followUpQueue)
    /\ Ordered("prompt", messages, Undelivered, <<>>)

FlowInv ==
    /\ InParts
    /\ OfKind(steeringQueue, "steer") /\ OfKind(followUpQueue, "followUp")

(* A concatenation is in order when its parts and their junction are.      *)
LEMMA InOrderConcat ==
    ASSUME NEW s \in Seq(Message), NEW t \in Seq(Message), NEW via
    PROVE  InOrder(via, s \o t) <=> InOrder(via, s) /\ InOrder(via, t) /\ Before(via, s, t)
<1>. DEFINE c == s \o t
<1>1. /\ Len(s) \in Nat /\ Len(t) \in Nat /\ DOMAIN s = 1..Len(s) /\ DOMAIN t = 1..Len(t)
      /\ DOMAIN c = 1..(Len(s) + Len(t))
      /\ \A i \in 1..Len(s) : c[i] = s[i]
      /\ \A j \in 1..Len(t) : c[Len(s) + j] = t[j]
  OBVIOUS
<1>. HIDE DEF c
<1>2. ASSUME InOrder(via, c)
      PROVE  InOrder(via, s) /\ InOrder(via, t) /\ Before(via, s, t)
  <2>1. InOrder(via, s)
    BY <1>1, <1>2 DEF InOrder
  <2>2. InOrder(via, t)
    <3>1. ASSUME NEW i \in DOMAIN t, NEW j \in DOMAIN t, i < j, t[i].kind = via, t[j].kind = via
          PROVE  t[i].id < t[j].id
      <4>1. /\ Len(s) + i \in DOMAIN c /\ Len(s) + j \in DOMAIN c /\ Len(s) + i < Len(s) + j
            /\ c[Len(s) + i] = t[i] /\ c[Len(s) + j] = t[j]
        BY <1>1, <3>1
      <4>. QED
        BY <1>2, <3>1, <4>1 DEF InOrder
    <3>. QED
      BY <3>1 DEF InOrder
  <2>3. Before(via, s, t)
    <3>1. ASSUME NEW i \in DOMAIN s, NEW j \in DOMAIN t, s[i].kind = via, t[j].kind = via
          PROVE  s[i].id < t[j].id
      <4>1. /\ i \in DOMAIN c /\ Len(s) + j \in DOMAIN c /\ i < Len(s) + j
            /\ c[i] = s[i] /\ c[Len(s) + j] = t[j]
        BY <1>1, <3>1
      <4>. QED
        BY <1>2, <3>1, <4>1 DEF InOrder
    <3>. QED
      BY <3>1 DEF Before
  <2>. QED
    BY <2>1, <2>2, <2>3
<1>3. ASSUME InOrder(via, s), InOrder(via, t), Before(via, s, t)
      PROVE  InOrder(via, c)
  <2>1. ASSUME NEW i \in DOMAIN c, NEW j \in DOMAIN c, i < j, c[i].kind = via, c[j].kind = via
        PROVE  c[i].id < c[j].id
    <3>1. CASE j <= Len(s)
      <4>1. i \in DOMAIN s /\ j \in DOMAIN s /\ c[i] = s[i] /\ c[j] = s[j]
        BY <1>1, <2>1, <3>1
      <4>. QED
        BY <1>3, <2>1, <4>1 DEF InOrder
    <3>2. CASE i <= Len(s) /\ j > Len(s)
      <4>1. i \in DOMAIN s /\ c[i] = s[i]
        BY <1>1, <2>1, <3>2
      <4>2. j - Len(s) \in DOMAIN t /\ Len(s) + (j - Len(s)) = j
        BY <1>1, <2>1, <3>2
      <4>3. c[j] = t[j - Len(s)]
        BY <1>1, <4>2
      <4>. QED
        BY <1>3, <2>1, <4>1, <4>2, <4>3 DEF Before
    <3>3. CASE i > Len(s)
      <4>1. /\ i - Len(s) \in DOMAIN t /\ Len(s) + (i - Len(s)) = i
            /\ j - Len(s) \in DOMAIN t /\ Len(s) + (j - Len(s)) = j
            /\ i - Len(s) < j - Len(s)
        BY <1>1, <2>1, <3>3
      <4>2. c[i] = t[i - Len(s)] /\ c[j] = t[j - Len(s)]
        BY <1>1, <4>1
      <4>. QED
        BY <1>3, <2>1, <4>1, <4>2 DEF InOrder
    <3>4. j <= Len(s) \/ (i <= Len(s) /\ j > Len(s)) \/ i > Len(s)
      BY <1>1, <2>1
    <3>. QED
      BY <3>1, <3>2, <3>3, <3>4
  <2>. QED
    BY <2>1 DEF InOrder
<1>. QED
  BY <1>2, <1>3 DEF c

(* What comes before a third sequence, in two parts.                       *)
LEMMA BeforeConcat ==
    ASSUME NEW s \in Seq(Message), NEW t \in Seq(Message), NEW u \in Seq(Message), NEW via
    PROVE  Before(via, s \o t, u) <=> Before(via, s, u) /\ Before(via, t, u)
<1>. DEFINE c == s \o t
<1>1. /\ Len(s) \in Nat /\ Len(t) \in Nat /\ DOMAIN s = 1..Len(s) /\ DOMAIN t = 1..Len(t)
      /\ DOMAIN c = 1..(Len(s) + Len(t))
      /\ \A i \in 1..Len(s) : c[i] = s[i]
      /\ \A j \in 1..Len(t) : c[Len(s) + j] = t[j]
  OBVIOUS
<1>. HIDE DEF c
<1>2. \A i \in DOMAIN s : i \in DOMAIN c /\ c[i] = s[i]
  BY <1>1
<1>3. \A j \in DOMAIN t : Len(s) + j \in DOMAIN c /\ c[Len(s) + j] = t[j]
  BY <1>1
<1>4. ASSUME NEW i \in DOMAIN c
      PROVE  (\E j \in DOMAIN s : c[i] = s[j]) \/ (\E j \in DOMAIN t : c[i] = t[j])
  <2>1. CASE i <= Len(s)
    BY <1>1, <2>1
  <2>2. CASE i > Len(s)
    <3>1. i - Len(s) \in DOMAIN t /\ Len(s) + (i - Len(s)) = i
      BY <1>1, <2>2
    <3>. QED
      BY <1>3, <3>1
  <2>. QED
    BY <1>1, <2>1, <2>2
<1>5. Before(via, c, u) => Before(via, s, u) /\ Before(via, t, u)
  BY <1>2, <1>3 DEF Before
<1>6. Before(via, s, u) /\ Before(via, t, u) => Before(via, c, u)
  BY <1>4 DEF Before
<1>. QED
  BY <1>5, <1>6 DEF c

(* A flow is in order when its three parts and their junctions are.        *)
LEMMA FlowOrdered ==
    ASSUME NEW m \in Seq(Message), NEW u \in Seq(Message), NEW q \in Seq(Message), NEW via
    PROVE  InOrder(via, m \o u \o q) <=> Ordered(via, m, u, q)
<1>1. m \o u \in Seq(Message)
  OBVIOUS
<1>2. InOrder(via, m \o u \o q)
        <=> InOrder(via, m \o u) /\ InOrder(via, q) /\ Before(via, m \o u, q)
  BY <1>1, InOrderConcat
<1>. QED
  BY <1>2, InOrderConcat, BeforeConcat DEF Ordered

(* A sequence without such messages is in order, and before and after any. *)
LEMMA WithoutOrdered ==
    ASSUME NEW via, NEW s, Without(via, s)
    PROVE  /\ InOrder(via, s)
           /\ \A t : Before(via, s, t) /\ Before(via, t, s)
BY DEF Without, InOrder, Before

(* Nothing is in the empty sequence, and one kind has nothing of another.  *)
LEMMA WithoutCases ==
    /\ \A via : Without(via, <<>>)
    /\ \A s, kind, via : OfKind(s, kind) /\ kind # via => Without(via, s)
BY DEF Without, OfKind

(* Moving the head of what the loop holds to the transcript moves nothing  *)
(* within the flow, nor does draining a queue into its empty hands.        *)
LEMMA MovedOrdered ==
    ASSUME NEW m \in Seq(Message), NEW u \in Seq(Message), NEW q \in Seq(Message), NEW via,
           NEW n \in Seq(Message), NEW v \in Seq(Message), n \o v = m \o u,
           Ordered(via, m, u, q)
    PROVE  Ordered(via, n, v, q)
<1>1. InOrder(via, m \o u \o q)
  BY FlowOrdered
<1>2. InOrder(via, n \o v \o q)
  BY <1>1
<1>. QED
  BY <1>2, FlowOrdered

(* The same for a queue that is drained into the loop's empty hands.       *)
LEMMA DrainOrdered ==
    ASSUME NEW m \in Seq(Message), NEW q \in Seq(Message), NEW via,
           NEW u \in Seq(Message), NEW r \in Seq(Message), u \o r = q,
           Ordered(via, m, <<>>, q)
    PROVE  Ordered(via, m, u, r)
<1>1. /\ Len(u) \in Nat /\ Len(r) \in Nat /\ DOMAIN u = 1..Len(u) /\ DOMAIN r = 1..Len(r)
      /\ DOMAIN q = 1..(Len(u) + Len(r))
      /\ \A i \in 1..Len(u) : q[i] = u[i]
      /\ \A j \in 1..Len(r) : q[Len(u) + j] = r[j]
  OBVIOUS
<1>2. /\ \A i \in DOMAIN u : i \in DOMAIN q /\ q[i] = u[i]
      /\ \A j \in DOMAIN r : Len(u) + j \in DOMAIN q /\ q[Len(u) + j] = r[j]
  BY <1>1
<1>3. Before(via, m, q)
  BY DEF Ordered
<1>4. Before(via, m, u) /\ Before(via, m, r)
  BY <1>2, <1>3 DEF Before
<1>5. InOrder(via, m) /\ InOrder(via, u \o r)
  BY DEF Ordered
<1>. QED
  BY <1>4, <1>5, InOrderConcat DEF Ordered

(* A message after all of its kind may join the end of a queue.            *)
LEMMA GivenOrdered ==
    ASSUME NEW m \in Seq(Message), NEW u \in Seq(Message), NEW q \in Seq(Message), NEW via,
           NEW x \in Message, Ordered(via, m, u, q),
           Before(via, m, <<x>>), Before(via, u, <<x>>), Before(via, q, <<x>>)
    PROVE  Ordered(via, m, u, Append(q, x))
<1>1. Append(q, x) = q \o <<x>> /\ <<x>> \in Seq(Message)
  OBVIOUS
<1>2. InOrder(via, <<x>>)
  BY DEF InOrder
<1>3. InOrder(via, Append(q, x))
  <2>. DEFINE y == <<x>>
  <2>1. y \in Seq(Message) /\ InOrder(via, y) /\ Before(via, q, y)
    BY <1>1, <1>2
  <2>. HIDE DEF y
  <2>2. InOrder(via, q \o y)
    BY <2>1, InOrderConcat DEF Ordered
  <2>. QED
    BY <1>1, <2>2 DEF y
<1>4. ASSUME NEW s, Before(via, s, q), Before(via, s, <<x>>)
      PROVE  Before(via, s, Append(q, x))
  <2>1. /\ DOMAIN Append(q, x) = DOMAIN q \cup {Len(q) + 1}
        /\ \A i \in DOMAIN q : Append(q, x)[i] = q[i]
        /\ Append(q, x)[Len(q) + 1] = x /\ DOMAIN <<x>> = {1} /\ <<x>>[1] = x
    OBVIOUS
  <2>. QED
    BY <1>4, <2>1 DEF Before
<1>. QED
  BY <1>3, <1>4 DEF Ordered

(* What is not a user message may join the end of the transcript.          *)
LEMMA SaidOrdered ==
    ASSUME NEW m \in Seq(Message), NEW u \in Seq(Message), NEW q \in Seq(Message), NEW via,
           NEW x \in Message, x.kind # via, Ordered(via, m, u, q)
    PROVE  Ordered(via, Append(m, x), u, q)
<1>1. Append(m, x) = m \o <<x>> /\ <<x>> \in Seq(Message)
  OBVIOUS
<1>2. Without(via, <<x>>)
  BY DEF Without
<1>3. /\ InOrder(via, <<x>>) /\ Before(via, m, <<x>>)
      /\ Before(via, <<x>>, u) /\ Before(via, <<x>>, q)
  BY <1>2, WithoutOrdered
<1>4. ASSUME NEW y \in Seq(Message), InOrder(via, y), Before(via, m, y), Before(via, y, u),
             Before(via, y, q)
      PROVE  Ordered(via, m \o y, u, q)
  BY <1>4, InOrderConcat, BeforeConcat DEF Ordered
<1>5. Ordered(via, m \o <<x>>, u, q)
  BY <1>1, <1>3, <1>4
<1>. QED
  BY <1>1, <1>5

(* A new number is after all that were given before.                       *)
LEMMA NewAfter ==
    ASSUME NEW n \in Nat, NEW s \in Seq(Message), Ids(s) \subseteq 1..n, NEW via \in Vias,
           NEW t, \A j \in DOMAIN t : t[j].id \in Nat /\ t[j].id > n
    PROVE  Before(via, s, t)
<1>1. ASSUME NEW i \in DOMAIN s, s[i].kind = via
      PROVE  s[i].id \in 1..n
  <2>1. s[i] \in Message
    OBVIOUS
  <2>2. s[i].role = "user"
    BY <1>1, <2>1 DEF Message, UserMessage, AssistantMessage, ToolResultMessage, Vias, Stops
  <2>. QED
    BY <2>2 DEF Ids
<1>. QED
  BY <1>1 DEF Before

(* Draining a queue divides it, and neither part has another kind.         *)
LEMMA DrainKinds ==
    ASSUME NEW q \in Seq(UserMessage), NEW m, NEW kind, OfKind(q, kind)
    PROVE  /\ Drained(q, m) \o Rest(q, m) = q
           /\ OfKind(Drained(q, m), kind) /\ OfKind(Rest(q, m), kind)
<1>1. CASE m = "all" \/ q = <<>>
  BY <1>1 DEF Drained, Rest, OfKind
<1>2. CASE m # "all" /\ q # <<>>
  <2>1. /\ Len(q) \in Nat /\ Len(q) > 0 /\ DOMAIN q = 1..Len(q) /\ Head(q) = q[1]
        /\ DOMAIN Tail(q) = 1..(Len(q) - 1)
        /\ \A i \in 1..(Len(q) - 1) : Tail(q)[i] = q[i + 1]
    BY <1>2
  <2>2. OfKind(<<Head(q)>>, kind)
    BY <2>1 DEF OfKind
  <2>3. OfKind(Tail(q), kind)
    BY <2>1 DEF OfKind
  <2>4. <<Head(q)>> \o Tail(q) = q
    BY <1>2
  <2>. QED
    BY <1>2, <2>2, <2>3, <2>4 DEF Drained, Rest
<1>. QED
  BY <1>1, <1>2

(* The three parts of each flow are sequences of messages.                 *)
LEMMA FlowTypes ==
    ASSUME Inv1
    PROVE  /\ messages \in Seq(Message) /\ Undelivered \in Seq(Message)
           /\ steeringQueue \in Seq(Message) /\ followUpQueue \in Seq(Message)
           /\ <<>> \in Seq(Message)
<1>1. pc = "injected" => pending # <<>>
  BY DEF Inv1, Control
<1>2. pending \in Seq(UserMessage)
  BY DEF Inv1, TypeOK, TextTypes
<1>3. Undelivered \in Seq(UserMessage)
  BY <1>1, <1>2, UserSequences DEF Undelivered
<1>. QED
  BY <1>3, UserSequences DEF Inv1, TypeOK, TextTypes, QueueTypes

(* Every number in a flow is one that was given.                           *)
LEMMA FlowIds ==
    ASSUME Inv1, QueueInv
    PROVE  /\ Ids(messages) \subseteq 1..nMsgs /\ Ids(Undelivered) \subseteq 1..nMsgs
           /\ Ids(steeringQueue) \subseteq 1..nMsgs /\ Ids(followUpQueue) \subseteq 1..nMsgs
<1>1. Ids(Undelivered) \subseteq Ids(pending)
  <2>1. pc = "injected" => pending # <<>>
    BY DEF Inv1, Control
  <2>. QED
    BY <2>1, IdsOfHeadTail DEF Undelivered, Inv1, TypeOK, TextTypes
<1>. QED
  BY <1>1 DEF QueueInv, NothingLost

(* The properties of the run follow from the parts.                        *)
LEMMA FlowInParts ==
    ASSUME Inv1, InParts
    PROVE  DeliveredInOrder
BY FlowTypes, FlowOrdered DEF DeliveredInOrder, Flow, InParts

-----------------------------------------------------------------------------
(* Nothing is given, said or queued at first.                              *)
LEMMA InitFlowInv == Init => FlowInv
<1>. SUFFICES ASSUME Init PROVE FlowInv
  OBVIOUS
<1>1. messages = <<>> /\ Undelivered = <<>> /\ steeringQueue = <<>> /\ followUpQueue = <<>>
  BY DEF Init, NewState, Undelivered
<1>2. \A via : Ordered(via, <<>>, <<>>, <<>>)
  BY DEF Ordered, InOrder, Before
<1>. QED
  BY <1>1, <1>2 DEF FlowInv, InParts, OfKind

(* A step that moves no message.                                           *)
LEMMA FrameFlowInv ==
    ASSUME FlowInv, UNCHANGED <<messages, Undelivered, steeringQueue, followUpQueue>>
    PROVE  FlowInv'
BY DEF FlowInv, InParts

(* A step that adds an assistant message or a tool result.                 *)
LEMMA OtherMessageFlowInv ==
    ASSUME Inv1, FlowInv, NEW x \in Message, x.kind \notin Vias,
           messages' = Append(messages, x),
           UNCHANGED <<Undelivered, steeringQueue, followUpQueue>>
    PROVE  FlowInv'
<1>1. x.kind # "steer" /\ x.kind # "followUp" /\ x.kind # "prompt"
  BY DEF Vias
<1>. QED
  BY <1>1, FlowTypes, SaidOrdered DEF FlowInv, InParts

(* A step that takes messages out of the steering or the follow-up queue.  *)
LEMMA DrainFlowInv ==
    ASSUME Inv1, FlowInv, Undelivered = <<>>, UNCHANGED messages, Undelivered' = pending',
           \/ /\ pending' = Drained(steeringQueue, queueMode.steer)
              /\ steeringQueue' = Rest(steeringQueue, queueMode.steer)
              /\ UNCHANGED followUpQueue
           \/ /\ pending' = Drained(followUpQueue, queueMode.followUp)
              /\ followUpQueue' = Rest(followUpQueue, queueMode.followUp)
              /\ UNCHANGED steeringQueue
    PROVE  FlowInv'
<1>1. steeringQueue \in Seq(UserMessage) /\ followUpQueue \in Seq(UserMessage)
  BY DEF Inv1, TypeOK, QueueTypes
<1>2. ASSUME NEW q \in Seq(UserMessage), NEW m
      PROVE  Drained(q, m) \in Seq(Message) /\ Rest(q, m) \in Seq(Message)
  BY DrainTypes, UserSequences
<1>3. ASSUME NEW u, NEW q, NEW kind, NEW via, OfKind(u, kind), kind # via,
             Ordered(via, messages, <<>>, q)
      PROVE  Ordered(via, messages, u, q)
  BY <1>3, WithoutCases, WithoutOrdered DEF Ordered
<1>4. CASE /\ pending' = Drained(steeringQueue, queueMode.steer)
           /\ steeringQueue' = Rest(steeringQueue, queueMode.steer)
           /\ UNCHANGED followUpQueue
  <2>1. /\ pending' \o steeringQueue' = steeringQueue
        /\ OfKind(pending', "steer") /\ OfKind(steeringQueue', "steer")
    BY <1>1, <1>4, DrainKinds DEF FlowInv
  <2>2. pending' \in Seq(Message) /\ steeringQueue' \in Seq(Message)
    BY <1>1, <1>2, <1>4
  <2>3. Ordered("steer", messages, pending', steeringQueue')
    BY <2>1, <2>2, FlowTypes, DrainOrdered DEF FlowInv, InParts
  <2>4. /\ Ordered("followUp", messages, pending', followUpQueue)
        /\ Ordered("prompt", messages, pending', <<>>)
    BY <1>3, <2>1 DEF FlowInv, InParts
  <2>. QED
    BY <1>4, <2>1, <2>3, <2>4 DEF FlowInv, InParts
<1>5. CASE /\ pending' = Drained(followUpQueue, queueMode.followUp)
           /\ followUpQueue' = Rest(followUpQueue, queueMode.followUp)
           /\ UNCHANGED steeringQueue
  <2>1. /\ pending' \o followUpQueue' = followUpQueue
        /\ OfKind(pending', "followUp") /\ OfKind(followUpQueue', "followUp")
    BY <1>1, <1>5, DrainKinds DEF FlowInv
  <2>2. pending' \in Seq(Message) /\ followUpQueue' \in Seq(Message)
    BY <1>1, <1>2, <1>5
  <2>3. Ordered("followUp", messages, pending', followUpQueue')
    BY <2>1, <2>2, FlowTypes, DrainOrdered DEF FlowInv, InParts
  <2>4. /\ Ordered("steer", messages, pending', steeringQueue)
        /\ Ordered("prompt", messages, pending', <<>>)
    BY <1>3, <2>1 DEF FlowInv, InParts
  <2>. QED
    BY <1>5, <2>1, <2>3, <2>4 DEF FlowInv, InParts
<1>. QED
  BY <1>4, <1>5

(* A message given to a queue is numbered after all before it.             *)
LEMMA GivenFlowInv ==
    ASSUME Inv1, QueueInv, FlowInv, steer \/ followUp
    PROVE  FlowInv'
<1>1. nMsgs \in Nat /\ nMsgs < MaxMsgs /\ MaxMsgs \in Nat
  BY MessageBounds DEF steer, followUp, Inv1, TypeOK, CountTypes
<1>2. ASSUME NEW via \in Vias
      PROVE  /\ User(nMsgs + 1, via) \in Message /\ User(nMsgs + 1, via).kind = via
             /\ \A j \in DOMAIN <<User(nMsgs + 1, via)>> :
                   <<User(nMsgs + 1, via)>>[j].id = nMsgs + 1
  BY <1>1, Constructors DEF User, Msgs
<1>3. ASSUME NEW via \in Vias, NEW s \in Seq(Message), Ids(s) \subseteq 1..nMsgs
      PROVE  Before(via, s, <<User(nMsgs + 1, via)>>)
  <2>1. \A j \in DOMAIN <<User(nMsgs + 1, via)>> :
            /\ <<User(nMsgs + 1, via)>>[j].id \in Nat
            /\ <<User(nMsgs + 1, via)>>[j].id > nMsgs
    BY <1>1, <1>2
  <2>. QED
    BY <1>1, <1>3, <2>1, NewAfter
<1>4. ASSUME NEW via \in Vias, NEW q \in Seq(Message), Ids(q) \subseteq 1..nMsgs,
             OfKind(q, via), Ordered(via, messages, Undelivered, q)
      PROVE  /\ Ordered(via, messages, Undelivered, Append(q, User(nMsgs + 1, via)))
             /\ OfKind(Append(q, User(nMsgs + 1, via)), via)
  <2>1. Ordered(via, messages, Undelivered, Append(q, User(nMsgs + 1, via)))
    BY <1>2, <1>3, <1>4, FlowTypes, FlowIds, GivenOrdered
  <2>2. OfKind(Append(q, User(nMsgs + 1, via)), via)
    <3>. DEFINE x == User(nMsgs + 1, via)
    <3>1. x \in Message /\ x.kind = via
      BY <1>2
    <3>. HIDE DEF x
    <3>2. /\ DOMAIN Append(q, x) = DOMAIN q \cup {Len(q) + 1}
          /\ \A i \in DOMAIN q : Append(q, x)[i] = q[i]
          /\ Append(q, x)[Len(q) + 1] = x
      BY <1>4, <3>1
    <3>3. OfKind(Append(q, x), via)
      BY <1>4, <3>1, <3>2 DEF OfKind
    <3>. QED
      BY <3>3 DEF x
  <2>. QED
    BY <2>1, <2>2
<1>5. UNCHANGED <<messages, Undelivered>>
  BY DEF steer, followUp, Undelivered, loopVars
<1>6. CASE steer
  BY <1>4, <1>5, <1>6, FlowTypes, FlowIds DEF steer, FlowInv, InParts, Vias
<1>7. CASE followUp
  BY <1>4, <1>5, <1>7, FlowTypes, FlowIds DEF followUp, FlowInv, InParts, Vias
<1>. QED
  BY <1>6, <1>7

(* What is thrown away leaves the rest in order.                           *)
LEMMA DiscardFlowInv ==
    ASSUME FlowInv,
           messages' \in {messages, <<>>}, Undelivered' \in {Undelivered, <<>>},
           steeringQueue' \in {steeringQueue, <<>>}, followUpQueue' \in {followUpQueue, <<>>}
    PROVE  FlowInv'
<1>1. ASSUME NEW via, NEW m, NEW u, NEW q, Ordered(via, m, u, q)
      PROVE  \A n \in {m, <<>>}, v \in {u, <<>>}, r \in {q, <<>>} : Ordered(via, n, v, r)
  BY <1>1, WithoutCases, WithoutOrdered DEF Ordered
<1>2. OfKind(steeringQueue', "steer") /\ OfKind(followUpQueue', "followUp")
  BY DEF FlowInv, OfKind
<1>. QED
  BY <1>1, <1>2 DEF FlowInv, InParts

(* A prompt comes when the loop holds nothing, numbered after all before.  *)
LEMMA PromptFlowInv ==
    ASSUME Inv1, QueueInv, FlowInv, NEW k \in 1..MaxPrompt, prompt(k)
    PROVE  FlowInv'
<1>. DEFINE p == [i \in 1..k |-> User(nMsgs + i, "prompt")]
<1>1. /\ pc' = "prompts" /\ pending' = p
      /\ UNCHANGED <<messages, steeringQueue, followUpQueue>>
      /\ nMsgs \in Nat /\ k \in Nat /\ nMsgs + k <= MaxMsgs /\ MaxMsgs \in Nat
  BY BoundsAssumption, MessageBounds DEF prompt, StartRun, Inv1, TypeOK, CountTypes
<1>2. /\ DOMAIN p = 1..k
      /\ \A i \in 1..k : p[i].kind = "prompt" /\ p[i].id = nMsgs + i
  BY DEF User
<1>. HIDE DEF p
<1>3. OfKind(p, "prompt") /\ InOrder("prompt", p)
  BY <1>1, <1>2 DEF OfKind, InOrder
<1>4. Before("prompt", messages, p)
  <2>1. \A j \in DOMAIN p : p[j].id \in Nat /\ p[j].id > nMsgs
    BY <1>1, <1>2
  <2>2. "prompt" \in Vias
    BY DEF Vias
  <2>. QED
    BY <1>1, <2>1, <2>2, FlowTypes, FlowIds, NewAfter
<1>5. Undelivered' = p
  BY <1>1 DEF Undelivered
<1>6. Without("steer", p) /\ Without("followUp", p)
  BY <1>3, WithoutCases
<1>7. /\ Ordered("steer", messages, p, steeringQueue)
      /\ Ordered("followUp", messages, p, followUpQueue)
  BY <1>6, WithoutOrdered DEF FlowInv, InParts, Ordered
<1>8. Ordered("prompt", messages, p, <<>>)
  BY <1>3, <1>4, WithoutCases, WithoutOrdered DEF FlowInv, InParts, Ordered
<1>. QED
  BY <1>1, <1>5, <1>7, <1>8 DEF FlowInv, InParts

(* What the application calls preserves it.                                *)
LEMMA AppFlowInv ==
    ASSUME Inv1, QueueInv, FlowInv, App
    PROVE  FlowInv'
<1>1. CASE clearSteeringQueue \/ clearFollowUpQueue \/ reset
  <2>1. UNCHANGED Undelivered
    BY <1>1 DEF clearSteeringQueue, clearFollowUpQueue, reset, Undelivered, loopVars
  <2>. QED
    BY <1>1, <2>1, DiscardFlowInv DEF clearSteeringQueue, clearFollowUpQueue, reset
<1>2. CASE setQueueMode \/ abort
  <2>1. UNCHANGED <<messages, Undelivered, steeringQueue, followUpQueue>>
    BY <1>2 DEF setQueueMode, abort, Undelivered, loopVars, appVars
  <2>. QED
    BY <2>1, FrameFlowInv
<1>3. CASE continueQueued \/ continueTranscript
  <2>1. /\ Undelivered = <<>> /\ Undelivered' = pending' /\ UNCHANGED messages
    BY <1>3 DEF continueQueued, continueTranscript, StartRun, Undelivered, Inv1, Control,
                InjectPCs
  <2>2. CASE continueQueued
    BY <2>1, <2>2, DrainFlowInv DEF continueQueued, StartRun
  <2>3. CASE continueTranscript
    <3>1. UNCHANGED <<messages, Undelivered, steeringQueue, followUpQueue>>
      BY <2>1, <2>3 DEF continueTranscript, StartRun
    <3>. QED
      BY <3>1, FrameFlowInv
  <2>. QED
    BY <1>3, <2>2, <2>3
<1>. QED
  BY <1>1, <1>2, <1>3, GivenFlowInv, PromptFlowInv DEF App

(* Delivery moves the head of what the loop holds to the transcript.       *)
LEMMA DeliverFlowInv ==
    ASSUME Inv1, Inv1', FlowInv, EmitPrompt \/ InjectMessage \/ MessageInjected
    PROVE  FlowInv'
<1>1. /\ pending \in Seq(UserMessage) /\ pending # <<>>
      /\ UNCHANGED <<steeringQueue, followUpQueue>>
  BY DEF EmitPrompt, InjectMessage, MessageInjected, Inv1, Control, TypeOK, TextTypes, appVars
<1>2. messages' \in Seq(Message) /\ Undelivered' \in Seq(Message)
  <2>1. messages' \in Seq(Message) /\ pending' \in Seq(UserMessage)
    BY DEF Inv1, TypeOK, TextTypes
  <2>2. pc' = "injected" => pending' # <<>>
    BY DEF Inv1, Control
  <2>. QED
    BY <2>1, <2>2, UserSequences DEF Undelivered
<1>3. messages' \o Undelivered' = messages \o Undelivered
  <2>1. /\ Head(pending) \in Message /\ Tail(pending) \in Seq(Message)
        /\ messages \in Seq(Message) /\ pending \in Seq(Message)
    BY <1>1, FlowTypes, UserSequences
  <2>2. Append(messages, Head(pending)) \o Tail(pending) = messages \o pending
    BY <1>1, <2>1
  <2>3. CASE EmitPrompt
    BY <2>2, <2>3 DEF EmitPrompt, Undelivered
  <2>4. CASE InjectMessage
    BY <2>2, <2>4 DEF InjectMessage, Undelivered, loopVars
  <2>5. CASE MessageInjected
    BY <2>5 DEF MessageInjected, Undelivered
  <2>. QED
    BY <2>3, <2>4, <2>5
<1>. QED
  BY <1>1, <1>2, <1>3, FlowTypes, MovedOrdered DEF FlowInv, InParts

(* A failed run throws away what it had not delivered.                     *)
LEMMA RunFailsFlowInv ==
    ASSUME FlowInv, RunFails
    PROVE  FlowInv'
<1>1. Undelivered' = <<>> /\ UNCHANGED <<messages, steeringQueue, followUpQueue>>
  BY DEF RunFails, Undelivered, appVars
<1>. QED
  BY <1>1, DiscardFlowInv

(* What the loop does preserves it.                                        *)
LEMMA LoopFlowInv ==
    ASSUME Inv1, Inv1', FlowInv, Loop
    PROVE  FlowInv'
<1>1. CASE EmitPrompt \/ InjectMessage \/ MessageInjected
  BY <1>1, DeliverFlowInv
<1>2. CASE \/ EnterTurn \/ CallModel \/ StreamStart \/ Answered \/ StartCall
           \/ PrepareImmediate \/ PreparedToolCall \/ PreflightDone
  <2>1. UNCHANGED <<messages, Undelivered, steeringQueue, followUpQueue>>
    BY <1>2 DEF EnterTurn, CallModel, StreamStart, KeepTranscript, Answered, EndLoop,
                StartCall, PrepareImmediate, PreparedToolCall, PreflightDone, Undelivered,
                appVars, loopVars
  <2>. QED
    BY <2>1, FrameFlowInv
<1>3. CASE AllDone \/ NextCall \/ EndBatch \/ FailureEnd
  <2>1. UNCHANGED <<messages, Undelivered, steeringQueue, followUpQueue>>
    BY <1>3 DEF AllDone, NextCall, ResultReported, EndBatch, FailureEnd, Undelivered,
                appVars, loopVars
  <2>. QED
    BY <2>1, FrameFlowInv
<1>4. CASE PollSteering \/ PollFollowUps
  <2>1. /\ pending = <<>> /\ Undelivered = <<>> /\ Undelivered' = pending'
        /\ UNCHANGED messages
    BY <1>4 DEF PollSteering, PollFollowUps, WouldStop, Undelivered, Inv1, Control, InjectPCs
  <2>2. CASE PollSteering /\ skipPoll
    <3>1. UNCHANGED <<messages, Undelivered, steeringQueue, followUpQueue>>
      BY <2>1, <2>2 DEF PollSteering
    <3>. QED
      BY <3>1, FrameFlowInv
  <2>3. CASE PollSteering /\ ~skipPoll
    BY <2>1, <2>3, DrainFlowInv DEF PollSteering
  <2>4. CASE PollFollowUps
    BY <2>1, <2>4, DrainFlowInv DEF PollFollowUps
  <2>. QED
    BY <1>4, <2>2, <2>3, <2>4
<1>5. ASSUME NEW k \in 0..MaxBatch, NEW stop \in Stops, StreamDone(k, stop)
      PROVE  FlowInv'
  <2>. DEFINE calls == [i \in 1..k |-> nCalls + i]
  <2>1. /\ nCalls + k <= MaxCalls /\ k \in Nat /\ nCalls \in Nat /\ MaxCalls \in Nat
    BY <1>5, BoundsAssumption, MessageBounds DEF StreamDone, Inv1, TypeOK, CallTypes
  <2>2. calls \in Seq(Calls)
    BY <2>1 DEF Calls
  <2>3. Assistant(calls, stop) \in Message /\ Assistant(calls, stop).kind \notin Vias
    BY <2>2, Constructors DEF Assistant, Stops, Vias
  <2>4. /\ messages' = Append(messages, Assistant(calls, stop))
        /\ UNCHANGED <<Undelivered, steeringQueue, followUpQueue>>
    BY <1>5 DEF StreamDone, Undelivered, appVars
  <2>. QED
    BY <2>3, <2>4, OtherMessageFlowInv
<1>6. ASSUME NEW i \in 1..idx, ReportResult(i)
      PROVE  FlowInv'
  <2>1. batch[i] \in Calls
    BY DEF Inv1, TypeOK, CallTypes
  <2>2. ToolResult(batch[i]) \in Message /\ ToolResult(batch[i]).kind \notin Vias
    BY <2>1, Constructors DEF ToolResult, Vias
  <2>3. /\ messages' = Append(messages, ToolResult(batch[i]))
        /\ UNCHANGED <<Undelivered, steeringQueue, followUpQueue>>
    BY <1>6 DEF ReportResult, Undelivered, appVars, loopVars
  <2>. QED
    BY <2>2, <2>3, OtherMessageFlowInv
<1>7. CASE FailureMessage
  <2>. DEFINE stop == IF aborted THEN "aborted" ELSE "error"
  <2>1. <<>> \in Seq(Calls) /\ stop \in Stops
    BY DEF Stops
  <2>. HIDE DEF stop
  <2>2. Assistant(<<>>, stop) \in Message /\ Assistant(<<>>, stop).kind \notin Vias
    BY <2>1, Constructors DEF Assistant, Stops, Vias
  <2>3. /\ messages' = Append(messages, Assistant(<<>>, stop))
        /\ UNCHANGED <<Undelivered, steeringQueue, followUpQueue>>
    BY <1>7 DEF FailureMessage, Undelivered, appVars, loopVars, stop
  <2>. QED
    BY <2>2, <2>3, OtherMessageFlowInv
<1>8. CASE CallFailed
  BY <1>8, RunFailsFlowInv DEF CallFailed
<1>9. CASE finishRun
  <2>1. UNCHANGED <<messages, Undelivered, steeringQueue, followUpQueue>>
    BY <1>9 DEF finishRun, Undelivered, Inv1, Control, InjectPCs, appVars
  <2>. QED
    BY <2>1, FrameFlowInv
<1>. QED
  BY <1>1, <1>2, <1>3, <1>4, <1>5, <1>6, <1>7, <1>8, <1>9 DEF Loop

(* Messages given in the same way reach the transcript in the order they   *)
(* were given, and none twice, for any number of them and any queue modes. *)
THEOREM DeliveryInOrder == Spec => []DeliveredInOrder
<1>1. Inv1 /\ Inv1' /\ QueueInv /\ FlowInv /\ [Next]_vars => FlowInv'
  <2>. SUFFICES ASSUME Inv1, Inv1', QueueInv, FlowInv, [Next]_vars PROVE FlowInv'
    OBVIOUS
  <2>1. CASE LoopThrows
    BY <2>1, RunFailsFlowInv DEF LoopThrows
  <2>2. CASE \/ UNCHANGED vars
             \/ \E c \in Calls : Call(c) \/ CallUpdates(c) \/ CallListenerThrows(c)
    <3>1. UNCHANGED <<messages, Undelivered, steeringQueue, followUpQueue>>
      BY <2>2 DEF Call, UpdateHeard, CallSettles, CallRejects, EndHeard, CallEnds, CallUpdates,
                  CallListenerThrows, Undelivered, vars, appVars, loopVars
    <3>. QED
      BY <3>1, FrameFlowInv
  <2>. QED
    BY <2>1, <2>2, AppFlowInv, LoopFlowInv DEF Next
<1>2. Inv1 /\ FlowInv => DeliveredInOrder
  BY FlowInParts DEF FlowInv
<1>. QED
  BY InitFlowInv, Typing, Queues, <1>1, <1>2, PTL DEF Spec

-----------------------------------------------------------------------------
(***************************************************************************)
(* state.pendingToolCalls is what listeners and user interfaces show as    *)
(* running.  It stays exact through concurrent calls, aborts, failed runs  *)
(* whose tools still execute, and runs started after them.                 *)
(***************************************************************************)

(* A call belongs to a run that was started, and the call the loop is      *)
(* preparing has neither begun to execute nor ended.                       *)
Ownership ==
    /\ \A c \in Calls : st[c] # "none" => owner[c] \in 1..runs
    /\ pc = "prepare" => st[batch[idx]] = "starting"

CallInv == Ownership /\ PendingIsInProgress

(* The calls that count as in progress, as PendingIsInProgress has them.   *)
Current == {c \in Calls : owner[c] = activeRun /\ st[c] \in NotEnded}

(* The state CallInv is about: most steps leave it alone.                  *)
callVars == <<activeRun, runs, wasReset, st, owner, batch, idx, pendingToolCalls>>

(* No call is pending at first.                                            *)
LEMMA InitCallInv == Init => CallInv
BY DEF Init, NewState, CallInv, Ownership, PendingIsInProgress, NotEnded

(* A step that does not touch the calls preserves the invariant.           *)
LEMMA FrameCallInv ==
    ASSUME CallInv, UNCHANGED callVars, pc' = pc \/ pc' # "prepare"
    PROVE  CallInv'
BY DEF CallInv, Ownership, PendingIsInProgress, callVars

(* A step in which one call changes its state, staying in progress or      *)
(* leaving pendingToolCalls as it ends, preserves the invariant.           *)
LEMMA ChangeCallInv ==
    ASSUME Inv1, CallInv, NEW c \in Calls, NEW s \in CallStates \ {"none", "starting"},
           st[c] # "none", st' = [st EXCEPT ![c] = s],
           UNCHANGED <<activeRun, runs, wasReset, owner, batch, idx>>,
           \/ st[c] \in NotEnded /\ s \in NotEnded /\ UNCHANGED pendingToolCalls
           \/ st[c] \notin NotEnded /\ s \notin NotEnded /\ UNCHANGED pendingToolCalls
           \/ s \notin NotEnded /\ pendingToolCalls' = pendingToolCalls \ {c},
           pc' # "prepare" \/ (pc' = pc /\ st[c] # "starting")
    PROVE  CallInv'
<1>1. st' \in [Calls -> CallStates] /\ st'[c] = s
      /\ \A d \in Calls : d # c => st'[d] = st[d]
  BY DEF Inv1, TypeOK, CallTypes
<1>2. \A d \in Calls : st'[d] # "none" => owner'[d] \in 1..runs'
  BY <1>1 DEF CallInv, Ownership
<1>3. pc' = "prepare" => batch[idx] \in Calls
  BY DEF Inv1, TypeOK, CallTypes, Control, BatchPCs
<1>4. pc' = "prepare" => st'[batch'[idx']] = "starting"
  BY <1>1, <1>3 DEF CallInv, Ownership
<1>5. PendingIsInProgress'
  BY <1>1 DEF CallInv, PendingIsInProgress
<1>. QED
  BY <1>2, <1>4, <1>5 DEF CallInv, Ownership

(* No call that still runs belongs to a run that is only starting.         *)
LEMMA StartRunCallInv ==
    ASSUME Inv1, CallInv, NEW prompts, NEW skip, StartRun(prompts, skip)
    PROVE  CallInv'
<1>1. /\ activeRun = 0 /\ activeRun' = runs + 1 /\ runs' = runs + 1 /\ runs \in Nat
      /\ UNCHANGED <<st, owner, pendingToolCalls>> /\ pc' = "prompts"
  BY BoundsAssumption DEF StartRun, toolVars, Inv1, TypeOK, RunTypes
<1>2. \A c \in Calls : st[c] # "none" => owner[c] # runs + 1 /\ owner[c] \in 1..(runs + 1)
  BY <1>1 DEF CallInv, Ownership
<1>3. /\ pendingToolCalls' = {}
      /\ \A c \in Calls : ~(owner'[c] = activeRun' /\ st'[c] \in NotEnded)
  BY <1>1, <1>2 DEF CallInv, PendingIsInProgress, NotEnded
<1>. QED
  BY <1>1, <1>2, <1>3 DEF CallInv, Ownership, PendingIsInProgress

(* What the application calls preserves the invariant.                     *)
LEMMA AppCallInv ==
    ASSUME Inv1, CallInv, App
    PROVE  CallInv'
<1>1. CASE \/ steer \/ followUp \/ clearSteeringQueue \/ clearFollowUpQueue
           \/ setQueueMode \/ abort
  BY <1>1, FrameCallInv
     DEF steer, followUp, clearSteeringQueue, clearFollowUpQueue, setQueueMode, abort,
         callVars, runVars, toolVars
<1>2. CASE reset
  BY <1>2 DEF reset, CallInv, Ownership, PendingIsInProgress
<1>3. CASE continueQueued \/ continueTranscript \/ \E k \in 1..MaxPrompt : prompt(k)
  BY <1>3, StartRunCallInv DEF continueQueued, continueTranscript, prompt
<1>. QED
  BY <1>1, <1>2, <1>3 DEF App

(* Starting and preparing calls preserves it.                              *)
LEMMA BatchCallInv ==
    ASSUME Inv1, CallInv,
           StartCall \/ PrepareImmediate \/ PreparedToolCall \/ PreflightDone
    PROVE  CallInv'
<1>1. CASE StartCall
  <2>. DEFINE c == batch[idx + 1]
  <2>1. /\ c \in Calls /\ batch' = batch /\ idx' = idx + 1
        /\ activeRun \in 1..runs
    BY <1>1, BoundsAssumption DEF StartCall, Inv1, TypeOK, RunTypes, CallTypes, Control
  <2>2. /\ st' = [st EXCEPT ![c] = "starting"] /\ owner' = [owner EXCEPT ![c] = activeRun]
        /\ pendingToolCalls' = pendingToolCalls \cup {c}
        /\ UNCHANGED <<activeRun, runs, wasReset>>
    BY <1>1 DEF StartCall, runVars
  <2>. HIDE DEF c
  <2>3. /\ st'[c] = "starting" /\ owner'[c] = activeRun
        /\ \A d \in Calls : d # c => st'[d] = st[d] /\ owner'[d] = owner[d]
    BY <2>1, <2>2 DEF Inv1, TypeOK, CallTypes
  <2>4. Ownership'
    BY <2>1, <2>2, <2>3 DEF CallInv, Ownership, c
  <2>5. PendingIsInProgress'
    BY <2>1, <2>2, <2>3 DEF CallInv, PendingIsInProgress, NotEnded
  <2>. QED
    BY <2>4, <2>5 DEF CallInv
<1>2. CASE PrepareImmediate
  <2>1. batch[idx] \in Calls /\ st[batch[idx]] = "starting"
    BY <1>2 DEF PrepareImmediate, Inv1, TypeOK, CallTypes, Control, BatchPCs, CallInv,
                Ownership
  <2>. QED
    BY <1>2, <2>1, ChangeCallInv DEF PrepareImmediate, CallStates, NotEnded, runVars
<1>3. CASE PreparedToolCall
  <2>1. batch[idx] \in Calls /\ st[batch[idx]] = "starting"
    BY <1>3 DEF PreparedToolCall, Inv1, TypeOK, CallTypes, Control, BatchPCs, CallInv,
                Ownership
  <2>. QED
    BY <1>3, <2>1, ChangeCallInv DEF PreparedToolCall, CallStates, NotEnded, runVars
<1>4. CASE PreflightDone
  <2>1. /\ UNCHANGED <<activeRun, runs, wasReset, owner, batch, idx, pendingToolCalls>>
        /\ pc' # "prepare"
    BY <1>4 DEF PreflightDone, runVars
  <2>2. \A d \in Calls : st'[d] = st[d] \/ (st[d] = "ready" /\ st'[d] = "executing")
    BY <1>4 DEF PreflightDone
  <2>3. Ownership'
    BY <2>1, <2>2 DEF CallInv, Ownership
  <2>4. PendingIsInProgress'
    BY <2>1, <2>2 DEF CallInv, PendingIsInProgress, NotEnded
  <2>. QED
    BY <2>3, <2>4 DEF CallInv
<1>. QED
  BY <1>1, <1>2, <1>3, <1>4

(* The rest of the loop preserves it.                                      *)
LEMMA LoopCallInv ==
    ASSUME Inv1, CallInv, Loop
    PROVE  CallInv'
<1>1. CASE \/ EmitPrompt \/ PollSteering \/ EnterTurn \/ PollFollowUps \/ InjectMessage
           \/ MessageInjected \/ CallModel \/ StreamStart
  BY <1>1, FrameCallInv
     DEF EmitPrompt, PollSteering, EnterTurn, PollFollowUps, InjectMessage, MessageInjected,
         CallModel, StreamStart, callVars, runVars, toolVars
<1>2. CASE \/ Answered \/ AllDone \/ NextCall \/ EndBatch \/ CallFailed \/ FailureMessage
           \/ FailureEnd
  BY <1>2, FrameCallInv
     DEF Answered, EndLoop, AllDone, NextCall, ResultReported, EndBatch, CallFailed, RunFails,
         FailureMessage, FailureEnd, callVars, runVars, toolVars
<1>3. CASE \E k \in 0..MaxBatch, stop \in Stops : StreamDone(k, stop)
  BY <1>3 DEF StreamDone, CallInv, Ownership, PendingIsInProgress, runVars
<1>4. CASE StartCall \/ PrepareImmediate \/ PreparedToolCall \/ PreflightDone
  BY <1>4, BatchCallInv
<1>5. ASSUME NEW i \in 1..idx, ReportResult(i)
      PROVE  CallInv'
  <2>1. batch[i] \in Calls
    BY <1>5 DEF Inv1, TypeOK, CallTypes
  <2>. QED
    BY <1>5, <2>1, ChangeCallInv DEF ReportResult, CallStates, NotEnded, runVars
<1>6. CASE finishRun
  BY <1>6 DEF finishRun, ClearRuntime, CallInv, Ownership, PendingIsInProgress
<1>. QED
  BY <1>1, <1>2, <1>3, <1>4, <1>5, <1>6 DEF Loop

(* So does what a call does on its own.                                    *)
LEMMA CallCallInv ==
    ASSUME Inv1, CallInv, NEW c \in Calls,
           Call(c) \/ CallUpdates(c) \/ CallListenerThrows(c)
    PROVE  CallInv'
<1>1. CASE UpdateHeard(c) \/ CallUpdates(c)
  BY <1>1, FrameCallInv DEF UpdateHeard, CallUpdates, callVars, runVars
<1>2. CASE CallSettles(c) \/ CallRejects(c) \/ EndHeard(c)
  BY <1>2, ChangeCallInv
     DEF CallSettles, CallRejects, EndHeard, CallStates, NotEnded, runVars
<1>3. CASE \E term \in BOOLEAN : CallEnds(c, term)
  BY <1>3, ChangeCallInv DEF CallEnds, CallStates, NotEnded, runVars
<1>4. CASE CallListenerThrows(c)
  <2>1. CASE UNCHANGED st
    BY <1>4, <2>1, FrameCallInv DEF CallListenerThrows, callVars, runVars
  <2>2. CASE st[c] = "ended" /\ st' = [st EXCEPT ![c] = "failed"]
    BY <1>4, <2>2, ChangeCallInv DEF CallListenerThrows, CallStates, NotEnded, runVars
  <2>. QED
    BY <1>4, <2>1, <2>2 DEF CallListenerThrows
<1>. QED
  BY <1>1, <1>2, <1>3, <1>4 DEF Call

(* In every state of the agent the invariant of the calls holds.           *)
LEMMA CallInvariant == Spec => []CallInv
<1>1. Inv1 /\ CallInv /\ [Next]_vars => CallInv'
  <2>. SUFFICES ASSUME Inv1, CallInv, [Next]_vars PROVE CallInv'
    OBVIOUS
  <2>1. CASE LoopThrows
    BY <2>1, FrameCallInv DEF LoopThrows, RunFails, callVars, runVars, toolVars
  <2>2. CASE UNCHANGED vars
    BY <2>2, FrameCallInv DEF vars, callVars, runVars, toolVars
  <2>. QED
    BY <2>1, <2>2, AppCallInv, LoopCallInv, CallCallInv DEF Next
<1>. QED
  BY InitCallInv, Typing, <1>1, PTL DEF Spec

(* What the agent shows as running tool calls is right: empty when no run  *)
(* is active, never a call of another run, and in a run that was not reset *)
(* exactly the calls between their start and end events.                   *)
THEOREM PendingCorrect == Spec => []PendingIsInProgress
BY CallInvariant, PTL DEF CallInv

-----------------------------------------------------------------------------
(* The calls of a batch.                                                   *)

(* Calls are numbered as they are made.  Those the loop has not come to    *)
(* are untouched, and no update comes from a call that does not execute.   *)
Numbered ==
    /\ \A i \in DOMAIN batch : batch[i] <= nCalls
    /\ \A i, j \in DOMAIN batch : i < j => batch[i] < batch[j]

Untouched ==
    /\ \A c \in Calls : c > nCalls => st[c] = "none"
    /\ \A i \in DOMAIN batch : i > idx => st[batch[i]] = "none"
    /\ \A c \in Calls : upd[c] # "none" => st[c] \notin {"none", "starting", "ready"}

(* Where the loop is says how the batch is executed, or that there is none.*)
ModeControl ==
    /\ pc \in {"prepared", "immediate", "reporting"} => mode = "parallel"
    /\ pc = "reported" => mode = "sequential"
    /\ pc \in {"idle", "prompts"} => batch = <<>>

BatchInv == Numbered /\ Untouched /\ ModeControl /\ UpdatesPrecedeEnd

batchVars == <<batch, idx, nCalls, st, upd>>

(* There is no call at first.                                              *)
LEMMA InitBatchInv == Init => BatchInv
BY DEF Init, BatchInv, Numbered, Untouched, ModeControl, UpdatesPrecedeEnd

(* A step that touches no call preserves the invariant.                    *)
LEMMA FrameBatchInv ==
    ASSUME BatchInv, UNCHANGED batchVars, ModeControl'
    PROVE  BatchInv'
BY DEF BatchInv, Numbered, Untouched, UpdatesPrecedeEnd, batchVars

(* A step in which a call that was started goes on preserves it.           *)
LEMMA ChangeBatchInv ==
    ASSUME Inv1, BatchInv, NEW c \in Calls, NEW s \in CallStates \ {"none", "starting"},
           st[c] # "none", st' = [st EXCEPT ![c] = s],
           UNCHANGED <<batch, idx, nCalls, upd>>, ModeControl',
           s = "ready" => st[c] = "starting",
           upd[c] = "listening" => s \in {"executing", "settled"}
    PROVE  BatchInv'
<1>1. st'[c] = s /\ \A d \in Calls : d # c => st'[d] = st[d]
  BY DEF Inv1, TypeOK, CallTypes
<1>2. \A i \in DOMAIN batch : batch[i] \in Calls
  BY DEF Inv1, TypeOK, CallTypes
<1>3. Numbered' /\ UpdatesPrecedeEnd'
  BY <1>1 DEF BatchInv, Numbered, UpdatesPrecedeEnd
<1>4. Untouched'
  BY <1>1, <1>2 DEF BatchInv, Untouched
<1>. QED
  BY <1>3, <1>4 DEF BatchInv

(* What the application calls preserves it.                                *)
LEMMA AppBatchInv ==
    ASSUME Inv1, BatchInv, App
    PROVE  BatchInv'
<1>1. CASE \/ steer \/ followUp \/ clearSteeringQueue \/ clearFollowUpQueue
           \/ setQueueMode \/ abort \/ reset
  BY <1>1, FrameBatchInv
     DEF steer, followUp, clearSteeringQueue, clearFollowUpQueue, setQueueMode, abort, reset,
         batchVars, toolVars, BatchInv, ModeControl
<1>2. ASSUME NEW prompts, NEW skip, StartRun(prompts, skip)
      PROVE  BatchInv'
  <2>1. pc = "idle" /\ pc' = "prompts" /\ UNCHANGED batchVars /\ batch' = batch
    BY <1>2 DEF StartRun, toolVars, batchVars, Inv1, Control
  <2>. QED
    BY <2>1, FrameBatchInv DEF BatchInv, ModeControl
<1>. QED
  BY <1>1, <1>2 DEF App, continueQueued, continueTranscript, prompt

(* Starting and preparing calls preserves it.                              *)
LEMMA PrepareBatchInv ==
    ASSUME Inv1, CallInv, BatchInv,
           StartCall \/ PrepareImmediate \/ PreparedToolCall \/ PreflightDone
    PROVE  BatchInv'
<1>. USE ToolModesAssumption
<1>1. CASE StartCall
  <2>. DEFINE c == batch[idx + 1]
  <2>1. /\ c \in Calls /\ idx + 1 \in DOMAIN batch /\ idx \in Nat
        /\ \A i \in DOMAIN batch : i \in Nat /\ batch[i] \in Calls
    BY <1>1 DEF StartCall, Inv1, TypeOK, CallTypes, Control
  <2>2. /\ st' = [st EXCEPT ![c] = "starting"] /\ idx' = idx + 1
        /\ UNCHANGED <<batch, nCalls, upd>> /\ pc' = "prepare"
    BY <1>1 DEF StartCall
  <2>3. st[c] = "none" /\ c <= nCalls
    BY <2>1 DEF BatchInv, Untouched, Numbered
  <2>. HIDE DEF c
  <2>4. st'[c] = "starting" /\ \A d \in Calls : d # c => st'[d] = st[d]
    BY <2>1, <2>2 DEF Inv1, TypeOK, CallTypes
  <2>5. \A d \in Calls : d > nCalls => st'[d] = "none"
    BY <2>1, <2>3, <2>4 DEF BatchInv, Untouched, Calls, Inv1, TypeOK, CallTypes
  <2>6. ASSUME NEW i \in DOMAIN batch, i > idx + 1
        PROVE  st'[batch[i]] = "none"
    <3>1. batch[i] # c
      BY <2>1, <2>6 DEF BatchInv, Numbered, Calls, c
    <3>. QED
      BY <2>1, <2>4, <2>6, <3>1 DEF BatchInv, Untouched
  <2>7. upd[c] = "none"
    BY <2>1, <2>3 DEF BatchInv, Untouched
  <2>8. Numbered' /\ Untouched'
    BY <2>1, <2>2, <2>4, <2>5, <2>6, <2>7 DEF BatchInv, Numbered, Untouched
  <2>9. ModeControl' /\ UpdatesPrecedeEnd'
    BY <2>1, <2>2, <2>4, <2>7 DEF BatchInv, ModeControl, UpdatesPrecedeEnd
  <2>. QED
    BY <2>8, <2>9 DEF BatchInv
<1>2. CASE PrepareImmediate \/ PreparedToolCall
  <2>1. batch[idx] \in Calls /\ st[batch[idx]] = "starting"
    BY <1>2 DEF PrepareImmediate, PreparedToolCall, Inv1, TypeOK, CallTypes, Control,
                BatchPCs, CallInv, Ownership
  <2>2. upd[batch[idx]] = "none"
    BY <2>1 DEF BatchInv, Untouched
  <2>3. ModeControl'
    BY <1>2 DEF PrepareImmediate, PreparedToolCall, ModeControl
  <2>4. \E s \in {"ended", "ready", "executing"} : st' = [st EXCEPT ![batch[idx]] = s]
    BY <1>2 DEF PrepareImmediate, PreparedToolCall
  <2>5. UNCHANGED <<batch, idx, nCalls, upd>>
    BY <1>2 DEF PrepareImmediate, PreparedToolCall
  <2>. QED
    BY <2>1, <2>2, <2>3, <2>4, <2>5, ChangeBatchInv DEF CallStates
<1>3. CASE PreflightDone
  <2>1. /\ UNCHANGED <<batch, idx, nCalls, upd>>
        /\ pc' \in {"tool", "joining"}
    BY <1>3 DEF PreflightDone
  <2>2. \A d \in Calls : st'[d] = st[d] \/ (st[d] = "ready" /\ st'[d] = "executing")
    BY <1>3 DEF PreflightDone
  <2>3. \A i \in DOMAIN batch : batch[i] \in Calls
    BY DEF Inv1, TypeOK, CallTypes
  <2>4. Numbered' /\ ModeControl'
    BY <2>1 DEF BatchInv, Numbered, ModeControl
  <2>5. Untouched' /\ UpdatesPrecedeEnd'
    BY <2>1, <2>2, <2>3 DEF BatchInv, Untouched, UpdatesPrecedeEnd
  <2>. QED
    BY <2>4, <2>5 DEF BatchInv
<1>. QED
  BY <1>1, <1>2, <1>3

(* A new answer of the model brings calls nobody has seen.                 *)
LEMMA AnswerBatchInv ==
    ASSUME Inv1, BatchInv, NEW k \in 0..MaxBatch, NEW stop \in Stops, StreamDone(k, stop)
    PROVE  BatchInv'
<1>. DEFINE calls == [i \in 1..k |-> nCalls + i]
<1>1. /\ k \in Nat /\ nCalls \in Nat
      /\ batch' = (IF stop = "stop" THEN calls ELSE <<>>) /\ idx' = 0
      /\ nCalls' = nCalls + k /\ UNCHANGED <<st, upd>> /\ pc' = "answered"
  BY BoundsAssumption, MessageBounds DEF StreamDone, Inv1, TypeOK, CallTypes
<1>2. /\ DOMAIN batch' \subseteq 1..k
      /\ \A i \in DOMAIN batch' : batch'[i] = nCalls + i
  BY <1>1
<1>3. nCalls + k <= MaxCalls
  BY DEF StreamDone
<1>. HIDE DEF calls
<1>4. Numbered'
  BY <1>1, <1>2 DEF Numbered
<1>5. \A i \in DOMAIN batch' : batch'[i] \in Calls /\ batch'[i] > nCalls
  BY <1>1, <1>2, <1>3, MessageBounds DEF Calls
<1>6. Untouched'
  BY <1>1, <1>5 DEF BatchInv, Untouched, Calls
<1>7. ModeControl' /\ UpdatesPrecedeEnd'
  BY <1>1 DEF BatchInv, ModeControl, UpdatesPrecedeEnd
<1>. QED
  BY <1>4, <1>6, <1>7 DEF BatchInv

(* So does the rest of the loop.                                           *)
LEMMA LoopBatchInv ==
    ASSUME Inv1, CallInv, BatchInv, Loop
    PROVE  BatchInv'
<1>1. CASE \/ EmitPrompt \/ PollSteering \/ EnterTurn \/ PollFollowUps \/ InjectMessage
           \/ MessageInjected \/ CallModel \/ StreamStart
  BY <1>1, FrameBatchInv
     DEF EmitPrompt, PollSteering, EnterTurn, PollFollowUps, InjectMessage, MessageInjected,
         CallModel, StreamStart, batchVars, toolVars, BatchInv, ModeControl
<1>2. CASE \/ Answered \/ AllDone \/ NextCall \/ EndBatch \/ CallFailed \/ FailureMessage
           \/ FailureEnd
  BY <1>2, FrameBatchInv
     DEF Answered, EndLoop, AllDone, NextCall, ResultReported, EndBatch, CallFailed, RunFails,
         FailureMessage, FailureEnd, batchVars, toolVars, BatchInv, ModeControl
<1>3. CASE \E k \in 0..MaxBatch, stop \in Stops : StreamDone(k, stop)
  BY <1>3, AnswerBatchInv
<1>4. CASE StartCall \/ PrepareImmediate \/ PreparedToolCall \/ PreflightDone
  BY <1>4, PrepareBatchInv
<1>5. ASSUME NEW i \in 1..idx, ReportResult(i)
      PROVE  BatchInv'
  <2>1. batch[i] \in Calls /\ st[batch[i]] = "done"
    BY <1>5 DEF ReportResult, Inv1, TypeOK, CallTypes
  <2>2. ModeControl'
    BY <1>5 DEF ReportResult, BatchInv, ModeControl
  <2>3. upd[batch[i]] # "listening"
    BY <2>1 DEF BatchInv, UpdatesPrecedeEnd
  <2>. QED
    BY <1>5, <2>1, <2>2, <2>3, ChangeBatchInv DEF ReportResult, CallStates
<1>6. CASE finishRun
  BY <1>6 DEF finishRun, BatchInv, Numbered, Untouched, ModeControl, UpdatesPrecedeEnd
<1>. QED
  BY <1>1, <1>2, <1>3, <1>4, <1>5, <1>6 DEF Loop

(* A call ends only when its updates were heard or one was refused.        *)
LEMMA CallBatchInv ==
    ASSUME Inv1, BatchInv, NEW c \in Calls,
           Call(c) \/ CallUpdates(c) \/ CallListenerThrows(c)
    PROVE  BatchInv'
<1>1. ModeControl'
  BY DEF Call, UpdateHeard, CallSettles, CallRejects, EndHeard, CallEnds, CallUpdates,
         CallListenerThrows, BatchInv, ModeControl
<1>2. ASSUME NEW u \in Updates, upd' = [upd EXCEPT ![c] = u], UNCHANGED st,
             st[c] \notin {"none", "starting", "ready"},
             u = "listening" => st[c] = "executing",
             UNCHANGED <<batch, idx, nCalls>>
      PROVE  BatchInv'
  <2>1. upd'[c] = u /\ \A d \in Calls : d # c => upd'[d] = upd[d]
    BY <1>2 DEF Inv1, TypeOK, CallTypes
  <2>. QED
    BY <1>1, <1>2, <2>1 DEF BatchInv, Numbered, Untouched, UpdatesPrecedeEnd
<1>3. CASE UpdateHeard(c) \/ CallUpdates(c)
  BY <1>2, <1>3 DEF UpdateHeard, CallUpdates, BatchInv, Untouched, Updates
<1>4. CASE CallSettles(c) \/ CallRejects(c) \/ EndHeard(c)
  <2>1. upd[c] = "listening" => CallSettles(c)
    BY <1>4 DEF CallRejects, EndHeard, BatchInv, UpdatesPrecedeEnd
  <2>. QED
    BY <1>1, <1>4, <2>1, ChangeBatchInv DEF CallSettles, CallRejects, EndHeard, CallStates
<1>5. CASE \E term \in BOOLEAN : CallEnds(c, term)
  BY <1>1, <1>5, ChangeBatchInv DEF CallEnds, UpdatesHeard, CallStates
<1>6. CASE CallListenerThrows(c)
  <2>1. CASE upd[c] = "listening" /\ upd' = [upd EXCEPT ![c] = "rejected"] /\ UNCHANGED st
    BY <1>2, <1>6, <2>1 DEF CallListenerThrows, BatchInv, Untouched, Updates
  <2>2. CASE st[c] = "ended" /\ st' = [st EXCEPT ![c] = "failed"] /\ UNCHANGED upd
    BY <1>1, <1>6, <2>2, ChangeBatchInv
       DEF CallListenerThrows, CallStates, BatchInv, UpdatesPrecedeEnd
  <2>. QED
    BY <1>6, <2>1, <2>2 DEF CallListenerThrows
<1>. QED
  BY <1>3, <1>4, <1>5, <1>6 DEF Call

(* In every state the calls of the batch are numbered and those to come    *)
(* are untouched.                                                          *)
LEMMA BatchesCorrect == Spec => [](CallInv /\ BatchInv)
<1>1. Inv1 /\ CallInv /\ BatchInv /\ [Next]_vars => BatchInv'
  <2>. SUFFICES ASSUME Inv1, CallInv, BatchInv, [Next]_vars PROVE BatchInv'
    OBVIOUS
  <2>1. CASE LoopThrows
    BY <2>1, FrameBatchInv
       DEF LoopThrows, RunFails, batchVars, toolVars, BatchInv, ModeControl
  <2>2. CASE UNCHANGED vars
    BY <2>2, FrameBatchInv DEF vars, batchVars, toolVars, BatchInv, ModeControl
  <2>. QED
    BY <2>1, <2>2, AppBatchInv, LoopBatchInv, CallBatchInv DEF Next
<1>. QED
  BY InitCallInv, InitBatchInv, Typing, CallInvariant, <1>1, PTL DEF Spec

(* No progress update of a tool is still being heard when its call ends:   *)
(* tool_execution_end is the last event of a call.                         *)
THEOREM UpdatesAreHeardFirst == Spec => []UpdatesPrecedeEnd
BY BatchesCorrect, PTL DEF BatchInv

-----------------------------------------------------------------------------
(* Results are added in source order: the calls with a result are the      *)
(* first ones of the batch, and how many they are follows from where the   *)
(* loop is.                                                                *)

TurnPCs == {"turn", "inject", "injected", "calling", "streaming", "turnEnd", "ended"}

Sequential(n) == IF mode = "sequential" THEN n ELSE 0

ReportControl ==
    /\ pc = "tool" => nReported = Sequential(idx)
    /\ pc \in {"prepare", "joining"} => nReported = Sequential(idx - 1)
    /\ pc \in {"prepared", "immediate", "answered"} => nReported = 0
    /\ pc = "reported" => nReported = idx
    /\ pc \in TurnPCs => nReported = idx
    /\ pc \in TurnPCs \cup {"reporting"} \/ (pc = "joining" /\ mode = "parallel")
          => idx = Len(batch) \/ aborted
    /\ pc = "answered" /\ ctx[Len(ctx)].kind # "stop" => batch = <<>>

ReportInv ==
    /\ nReported \in 0..idx
    /\ Reported = 1..nReported
    /\ ReportControl

(* What ReportInv is about.                                                *)
reportVars == <<batch, idx, mode, st, aborted>>

(* Numbers from 1 to n are n.                                              *)
LEMMA CardinalityOfInitial == \A n \in Nat : Cardinality(1..n) = n
BY FS_Interval

(* There is no result at first.                                            *)
LEMMA InitReportInv == Init => ReportInv
<1>. SUFFICES ASSUME Init PROVE ReportInv
  OBVIOUS
<1>1. Reported = {} /\ pc = "idle" /\ idx = 0
  BY DEF Init, Reported
<1>2. nReported = 0
  BY <1>1, FS_EmptySet DEF nReported
<1>. QED
  BY <1>1, <1>2 DEF ReportInv, ReportControl, TurnPCs

(* A step in which no result is added.                                     *)
LEMMA SameReported ==
    ASSUME batch' = batch,
           \A i \in DOMAIN batch : st'[batch[i]] = "reported" <=> st[batch[i]] = "reported"
    PROVE  Reported' = Reported /\ nReported' = nReported
BY DEF Reported, nReported

(* Only a new answer, the end of the run and a result change which calls   *)
(* have one.                                                               *)
LEMMA StepReported ==
    ASSUME Inv1, CallInv, BatchInv, [Next]_vars
    PROVE  \/ Reported' = Reported /\ nReported' = nReported /\ batch' = batch
           \/ \E k \in 0..MaxBatch, stop \in Stops : StreamDone(k, stop)
           \/ \E i \in 1..idx : ReportResult(i)
           \/ finishRun
<1>. DEFINE Same ==
        batch' = batch /\ \A d \in Calls : st'[d] = "reported" <=> st[d] = "reported"
<1>1. ASSUME Same
      PROVE  Reported' = Reported /\ nReported' = nReported /\ batch' = batch
  <2>1. \A i \in DOMAIN batch : batch[i] \in Calls
    BY DEF Inv1, TypeOK, CallTypes
  <2>. QED
    BY <1>1, <2>1, SameReported
<1>2. ASSUME App PROVE Same
  BY <1>2 DEF App, steer, followUp, clearSteeringQueue, clearFollowUpQueue, setQueueMode,
              abort, reset, continueQueued, continueTranscript, prompt, StartRun, toolVars
<1>3. ASSUME \/ EmitPrompt \/ PollSteering \/ EnterTurn \/ PollFollowUps \/ InjectMessage
             \/ MessageInjected \/ CallModel \/ StreamStart \/ Answered
      PROVE  Same
  BY <1>3 DEF EmitPrompt, PollSteering, EnterTurn, PollFollowUps, InjectMessage,
              MessageInjected, CallModel, StreamStart, Answered, toolVars
<1>4. ASSUME \/ AllDone \/ NextCall \/ EndBatch \/ CallFailed \/ FailureMessage \/ FailureEnd
             \/ LoopThrows \/ UNCHANGED vars
      PROVE  Same
  BY <1>4 DEF AllDone, NextCall, EndBatch, CallFailed, RunFails, FailureMessage, FailureEnd,
              LoopThrows, vars, toolVars
<1>5. ASSUME StartCall PROVE Same
  <2>1. batch[idx + 1] \in Calls /\ st[batch[idx + 1]] = "none"
    BY <1>5 DEF StartCall, Inv1, TypeOK, CallTypes, Control, BatchInv, Untouched
  <2>. QED
    BY <1>5, <2>1 DEF StartCall, Inv1, TypeOK, CallTypes
<1>6. ASSUME PrepareImmediate \/ PreparedToolCall PROVE Same
  <2>1. batch[idx] \in Calls /\ st[batch[idx]] = "starting"
    BY <1>6 DEF PrepareImmediate, PreparedToolCall, Inv1, TypeOK, CallTypes, Control,
                BatchPCs, CallInv, Ownership
  <2>. QED
    BY <1>6, <2>1 DEF PrepareImmediate, PreparedToolCall, Inv1, TypeOK, CallTypes
<1>7. ASSUME PreflightDone PROVE Same
  BY <1>7 DEF PreflightDone
<1>8. ASSUME NEW c \in Calls, Call(c) \/ CallUpdates(c) \/ CallListenerThrows(c)
      PROVE  Same
  <2>1. batch' = batch
    BY <1>8 DEF Call, UpdateHeard, CallSettles, CallRejects, EndHeard, CallEnds, CallUpdates,
                CallListenerThrows
  <2>2. \/ st' = st
        \/ /\ st[c] # "reported"
           /\ \E s \in CallStates \ {"reported"} : st' = [st EXCEPT ![c] = s]
    BY <1>8 DEF Call, UpdateHeard, CallSettles, CallRejects, EndHeard, CallEnds, CallUpdates,
                CallListenerThrows, CallStates
  <2>. QED
    BY <2>1, <2>2 DEF Inv1, TypeOK, CallTypes
<1>. QED
  BY <1>1, <1>2, <1>3, <1>4, <1>5, <1>6, <1>7, <1>8 DEF Next, Loop

(* A step that changes neither keeps the invariant if the control fits.    *)
LEMMA FrameReportInv ==
    ASSUME Inv1, ReportInv, Reported' = Reported, nReported' = nReported,
           idx' \in {idx, idx + 1}, ReportControl'
    PROVE  ReportInv'
<1>1. idx \in Nat
  BY DEF Inv1, TypeOK, CallTypes
<1>. QED
  BY <1>1 DEF ReportInv

(* What the application calls preserves it.                                *)
LEMMA AppReportInv ==
    ASSUME Inv1, BatchInv, ReportInv, App, Reported' = Reported, nReported' = nReported
    PROVE  ReportInv'
<1>1. CASE \/ steer \/ followUp \/ clearSteeringQueue \/ clearFollowUpQueue
           \/ setQueueMode \/ abort \/ reset
  <2>1. /\ UNCHANGED <<batch, idx, mode, pc, ctx>>
        /\ aborted => aborted'
    BY <1>1
       DEF steer, followUp, clearSteeringQueue, clearFollowUpQueue, setQueueMode, abort, reset,
           runVars, toolVars, loopVars
  <2>. QED
    BY <2>1, FrameReportInv DEF ReportInv, ReportControl, Sequential
<1>2. ASSUME NEW prompts, NEW skip, StartRun(prompts, skip)
      PROVE  ReportInv'
  <2>1. pc' = "prompts" /\ idx' = idx
    BY <1>2 DEF StartRun, toolVars
  <2>. QED
    BY <2>1, FrameReportInv DEF ReportControl, TurnPCs
<1>. QED
  BY <1>1, <1>2 DEF App, continueQueued, continueTranscript, prompt

(* A result is added for the first call of the batch without one.          *)
LEMMA NextResult ==
    ASSUME Inv1, BatchInv, ReportInv, NEW i \in 1..idx, ReportResult(i)
    PROVE  /\ i = nReported + 1
           /\ nReported' = nReported + 1
           /\ Reported' = 1..nReported'
<1>1. /\ idx \in Nat /\ DOMAIN batch = 1..Len(batch) /\ Len(batch) \in Nat /\ idx <= Len(batch)
      /\ nReported \in Nat /\ nReported <= idx
      /\ \A j \in DOMAIN batch : batch[j] \in Calls
  BY DEF Inv1, TypeOK, CallTypes, ReportInv
<1>2. \A j \in DOMAIN batch : st[batch[j]] = "reported" <=> j \in 1..nReported
  BY DEF ReportInv, Reported
<1>3. /\ st[batch[i]] = "done" /\ \A j \in 1..(i - 1) : st[batch[j]] = "reported"
      /\ st' = [st EXCEPT ![batch[i]] = "reported"] /\ batch' = batch
  BY DEF ReportResult, SourceOrder
<1>4. i \notin 1..nReported
  BY <1>1, <1>2, <1>3
<1>5. i = nReported + 1
  <2>1. CASE i = 1
    BY <1>1, <1>4, <2>1
  <2>2. CASE i # 1
    <3>1. i - 1 \in DOMAIN batch /\ i - 1 \in 1..(i - 1)
      BY <1>1, <2>2
    <3>2. i - 1 \in 1..nReported
      BY <1>2, <1>3, <3>1
    <3>. QED
      BY <1>1, <1>4, <3>2
  <2>. QED
    BY <2>1, <2>2
<1>6. ASSUME NEW j \in DOMAIN batch
      PROVE  st'[batch[j]] = "reported" <=> j \in 1..(nReported + 1)
  <2>1. CASE j = i
    BY <1>1, <1>3, <1>5, <2>1 DEF Inv1, TypeOK, CallTypes
  <2>2. CASE j # i
    <3>1. batch[j] # batch[i]
      BY <1>1, <2>2 DEF BatchInv, Numbered, Calls
    <3>2. st'[batch[j]] = st[batch[j]]
      BY <1>1, <1>3, <3>1 DEF Inv1, TypeOK, CallTypes
    <3>. QED
      BY <1>1, <1>2, <1>5, <2>2, <3>2
  <2>. QED
    BY <2>1, <2>2
<1>7. Reported' = 1..(nReported + 1)
  BY <1>1, <1>3, <1>5, <1>6 DEF Reported
<1>8. nReported' = nReported + 1
  BY <1>1, <1>7, CardinalityOfInitial DEF nReported
<1>. QED
  BY <1>5, <1>7, <1>8

(* Results of a batch leave those before them in the order of the source.  *)
LEMMA ResultReportInv ==
    ASSUME Inv1, BatchInv, ReportInv, NEW i \in 1..idx, ReportResult(i)
    PROVE  ReportInv'
<1>1. i = nReported + 1 /\ nReported' = nReported + 1 /\ Reported' = 1..nReported'
  BY NextResult
<1>2. /\ UNCHANGED <<idx, batch, mode, aborted>> /\ idx \in Nat /\ nReported \in Nat
      /\ \/ pc' = "reported" /\ i = idx
         \/ pc = "reporting" /\ pc' = "reporting"
  BY DEF ReportResult, Inv1, TypeOK, CallTypes, ReportInv, runVars
<1>. QED
  BY <1>1, <1>2 DEF ReportInv, ReportControl, TurnPCs

(* At the end of a batch every call that was started has its result.       *)
LEMMA AllReported ==
    ASSUME Inv1, ReportInv, EndBatch
    PROVE  nReported = idx
<1>1. /\ idx \in Nat /\ idx <= Len(batch) /\ Len(batch) \in Nat
      /\ DOMAIN batch = 1..Len(batch) /\ nReported \in 0..idx
  BY DEF Inv1, TypeOK, CallTypes, ReportInv
<1>2. CASE pc = "reported"
  BY <1>2 DEF ReportInv, ReportControl
<1>3. CASE \A i \in 1..idx : st[batch[i]] = "reported"
  <2>1. \A i \in 1..idx : i \in Reported
    BY <1>1, <1>3 DEF Reported
  <2>2. \A i \in 1..idx : i \in 1..nReported
    BY <2>1 DEF ReportInv
  <2>. QED
    BY <1>1, <2>2
<1>. QED
  BY <1>2, <1>3 DEF EndBatch

(* Going through a batch preserves it.                                     *)
LEMMA BatchReportInv ==
    ASSUME Inv1, BatchInv, ReportInv, Reported' = Reported, nReported' = nReported,
           \/ StartCall \/ PrepareImmediate \/ PreparedToolCall \/ PreflightDone
           \/ AllDone \/ NextCall \/ EndBatch
    PROVE  ReportInv'
<1>. USE DEF ReportControl, TurnPCs, Sequential
<1>1. CASE StartCall
  <2>1. /\ idx' = idx + 1 /\ idx \in Nat /\ mode' = mode /\ pc = "tool" /\ pc' = "prepare"
    BY <1>1 DEF StartCall, Inv1, TypeOK, CallTypes
  <2>2. ReportControl'
    BY <2>1 DEF ReportInv
  <2>. QED
    BY <2>1, <2>2, FrameReportInv
<1>2. CASE PrepareImmediate \/ PreparedToolCall
  <2>1. /\ UNCHANGED <<idx, mode>> /\ pc = "prepare"
        /\ \/ pc' = "joining" /\ mode # "parallel"
           \/ pc' \in {"prepared", "immediate"} /\ mode = "parallel"
    BY <1>2 DEF PrepareImmediate, PreparedToolCall
  <2>. QED
    BY <2>1, FrameReportInv DEF ReportInv
<1>3. CASE PreflightDone
  <2>1. /\ UNCHANGED <<batch, idx, mode>> /\ pc \in {"prepared", "immediate"}
        /\ pc' = "tool" \/ (pc' = "joining" /\ (idx = Len(batch) \/ aborted'))
    BY <1>3 DEF PreflightDone, runVars, Inv1, TypeOK, CallTypes
  <2>. QED
    BY <2>1, FrameReportInv DEF ReportInv, BatchInv, ModeControl
<1>4. CASE AllDone \/ NextCall
  <2>1. /\ UNCHANGED <<batch, idx, mode, aborted>>
        /\ \/ pc = "joining" /\ mode = "parallel" /\ pc' = "reporting"
           \/ pc = "reported" /\ pc' = "tool"
    BY <1>4 DEF AllDone, NextCall, ResultReported, toolVars, runVars
  <2>. QED
    BY <2>1, FrameReportInv DEF ReportInv, BatchInv, ModeControl
<1>5. CASE EndBatch
  <2>1. UNCHANGED <<batch, idx, aborted>> /\ pc' = "turnEnd"
    BY <1>5 DEF EndBatch, toolVars, runVars
  <2>2. nReported = idx
    BY <1>5, AllReported
  <2>3. idx = Len(batch) \/ aborted
    BY <1>5 DEF EndBatch, ReportInv
  <2>. QED
    BY <2>1, <2>2, <2>3, FrameReportInv
<1>. QED
  BY <1>1, <1>2, <1>3, <1>4, <1>5

(* So does the rest of the loop.                                           *)
LEMMA LoopReportInv ==
    ASSUME Inv1, BatchInv, ReportInv, Loop, Reported' = Reported, nReported' = nReported
    PROVE  ReportInv' \/ finishRun \/ \E k \in 0..MaxBatch, stop \in Stops : StreamDone(k, stop)
<1>. USE DEF ReportControl, TurnPCs
<1>1. CASE \/ EmitPrompt \/ PollSteering \/ EnterTurn \/ PollFollowUps \/ InjectMessage
           \/ MessageInjected \/ CallModel \/ StreamStart
  <2>1. /\ UNCHANGED <<batch, idx, aborted>>
        /\ pc' \in TurnPCs \cup {"prompts"} /\ pc \in TurnPCs \cup {"prompts"}
    BY <1>1
       DEF EmitPrompt, PollSteering, EnterTurn, PollFollowUps, InjectMessage,
           MessageInjected, CallModel, StreamStart, toolVars, runVars
  <2>2. pc = "prompts" => nReported = 0 /\ idx = 0 /\ Len(batch) = 0
    BY DEF BatchInv, ModeControl, ReportInv, Inv1, TypeOK, CallTypes
  <2>. QED
    BY <2>1, <2>2, FrameReportInv DEF ReportInv
<1>2. CASE Answered
  <2>1. /\ pc = "answered" /\ UNCHANGED <<batch, idx, aborted>>
        /\ \/ ctx[Len(ctx)].kind # "stop" /\ pc' = "ended"
           \/ batch = <<>> /\ pc' = "turnEnd"
           \/ pc' = "tool"
    BY <1>2 DEF Answered, EndLoop, runVars
  <2>2. idx = 0 /\ nReported = 0 /\ (ctx[Len(ctx)].kind # "stop" => batch = <<>>)
    BY <2>1 DEF Inv1, Control, ReportInv
  <2>. QED
    BY <2>1, <2>2, FrameReportInv DEF Sequential
<1>3. CASE CallFailed \/ FailureMessage \/ FailureEnd
  <2>1. idx' = idx /\ pc' \in {"failure", "failureMessage", "failureEnd"}
    BY <1>3 DEF CallFailed, RunFails, FailureMessage, FailureEnd, toolVars
  <2>. QED
    BY <2>1, FrameReportInv
<1>4. ASSUME NEW i \in 1..idx, ReportResult(i)
      PROVE  ReportInv'
  BY <1>4, ResultReportInv
<1>. QED
  BY <1>1, <1>2, <1>3, <1>4, BatchReportInv DEF Loop

(* A new answer has no results.                                            *)
LEMMA AnswerReportInv ==
    ASSUME Inv1, BatchInv, NEW k \in 0..MaxBatch, NEW stop \in Stops, StreamDone(k, stop)
    PROVE  ReportInv'
<1>. DEFINE calls == [i \in 1..k |-> nCalls + i]
            final == Assistant(calls, stop)
<1>1. /\ batch' = (IF stop = "stop" THEN calls ELSE <<>>) /\ idx' = 0 /\ st' = st
      /\ pc' = "answered" /\ ctx \in Seq(Message \cup {Partial})
      /\ nCalls + k <= MaxCalls /\ k \in Nat /\ nCalls \in Nat
  BY BoundsAssumption, MessageBounds DEF StreamDone, Inv1, TypeOK, TextTypes, CallTypes
<1>2. \A i \in DOMAIN batch' : batch'[i] \in Calls /\ batch'[i] > nCalls
  BY <1>1, MessageBounds DEF Calls
<1>3. Reported' = {}
  BY <1>1, <1>2 DEF Reported, BatchInv, Untouched
<1>4. nReported' = 0
  BY <1>3, FS_EmptySet DEF nReported
<1>5. calls \in Seq(Calls)
  BY <1>1, MessageBounds DEF Calls
<1>6. final \in Message
  BY <1>5, Constructors
<1>7. ctx'[Len(ctx')] = final
  <2>1. ctx # <<>> => ctx'[Len(ctx')] = final
    BY <1>1, <1>6 DEF StreamDone
  <2>2. pc = "calling" => ctx'[Len(ctx')] = final
    BY <1>1, <1>6 DEF StreamDone
  <2>. QED
    BY <2>1, <2>2 DEF StreamDone, Inv1, Control
<1>8. final.kind = stop
  BY DEF Assistant
<1>9. ReportControl'
  BY <1>1, <1>4, <1>7, <1>8 DEF ReportControl, TurnPCs
<1>10. nReported' \in 0..idx' /\ Reported' = 1..nReported'
  BY <1>1, <1>3, <1>4
<1>. QED
  BY <1>9, <1>10 DEF ReportInv

(* After a run there is no batch.                                          *)
LEMMA FinishReportInv ==
    ASSUME finishRun
    PROVE  ReportInv'
<1>1. batch' = <<>> /\ idx' = 0 /\ pc' = "idle"
  BY DEF finishRun
<1>2. Reported' = {}
  BY <1>1 DEF Reported
<1>3. nReported' = 0
  BY <1>2, FS_EmptySet DEF nReported
<1>. QED
  BY <1>1, <1>2, <1>3 DEF ReportInv, ReportControl, TurnPCs

(* Calls on their own report no result.                                    *)
LEMMA CallReportInv ==
    ASSUME Inv1, ReportInv, NEW c \in Calls,
           Call(c) \/ CallUpdates(c) \/ CallListenerThrows(c),
           Reported' = Reported, nReported' = nReported
    PROVE  ReportInv'
<1>1. UNCHANGED <<batch, idx, mode, aborted, pc, ctx>>
  BY DEF Call, UpdateHeard, CallSettles, CallRejects, EndHeard, CallEnds, CallUpdates,
         CallListenerThrows, runVars, loopVars
<1>. QED
  BY <1>1, FrameReportInv DEF ReportInv, ReportControl, Sequential

(* In every state the calls with a result are the first of the batch.      *)
LEMMA ResultsInOrder == Spec => [](Inv1 /\ CallInv /\ BatchInv /\ ReportInv)
<1>1. Inv1 /\ CallInv /\ BatchInv /\ ReportInv /\ [Next]_vars => ReportInv'
  <2>. SUFFICES ASSUME Inv1, CallInv, BatchInv, ReportInv, [Next]_vars PROVE ReportInv'
    OBVIOUS
  <2>1. CASE \/ \E k \in 0..MaxBatch, stop \in Stops : StreamDone(k, stop)
             \/ \E i \in 1..idx : ReportResult(i)
             \/ finishRun
    BY <2>1, AnswerReportInv, ResultReportInv, FinishReportInv
  <2>2. CASE Reported' = Reported /\ nReported' = nReported
    <3>1. CASE LoopThrows
      <4>1. idx' = idx /\ pc' = "failure"
        BY <3>1 DEF LoopThrows, RunFails, toolVars
      <4>. QED
        BY <2>2, <4>1, FrameReportInv DEF ReportControl, TurnPCs
    <3>2. CASE UNCHANGED vars
      <4>1. UNCHANGED <<batch, idx, mode, aborted, pc, ctx>>
        BY <3>2 DEF vars, toolVars, runVars, loopVars
      <4>. QED
        BY <2>2, <4>1, FrameReportInv DEF ReportInv, ReportControl, Sequential
    <3>. QED
      BY <2>1, <2>2, <3>1, <3>2, AppReportInv, LoopReportInv, CallReportInv DEF Next
  <2>. QED
    BY <2>1, <2>2, StepReported
<1>. QED
  BY InitReportInv, Typing, BatchesCorrect, <1>1, PTL DEF Spec

-----------------------------------------------------------------------------
(* What holds until something is thrown.                                   *)

(* Calls belong to the run that made them, and while nothing was thrown a  *)
(* call that has not come to its end is one the loop waits for.            *)
QuietInv ==
    /\ pc \in BatchPCs \cup {"tool"} => \A i \in 1..idx : owner[batch[i]] = activeRun
    /\ faults = 0 =>
         /\ pc \notin Failing
         /\ \A c \in Calls : upd[c] # "rejected" /\ st[c] \notin {"rejected", "failed"}
         /\ \A c \in Calls : st[c] \notin {"none", "done", "reported"} =>
               pc \in BatchPCs \cup {"tool"} /\ \E i \in 1..idx : batch[i] = c

(* Nothing was thrown and no call was made at first.                       *)
LEMMA InitQuietInv == Init => QuietInv
BY DEF Init, QuietInv, BatchPCs, Failing

(* A step that leaves the calls and their run alone.                       *)
LEMMA FrameQuietInv ==
    ASSUME QuietInv, UNCHANGED <<activeRun, batch, idx, st, owner, upd>>,
           faults' = 0 => faults = 0,
           pc' \in BatchPCs \cup {"tool"} => pc \in BatchPCs \cup {"tool"},
           pc \in BatchPCs \cup {"tool"} =>
               pc' \in BatchPCs \cup {"tool"} \/ \A i \in 1..idx : st[batch[i]] = "reported",
           faults' = 0 => pc' \notin Failing
    PROVE  QuietInv'
BY DEF QuietInv

(* What the application calls preserves it: no call is under way when a    *)
(* run starts.                                                             *)
LEMMA AppQuietInv ==
    ASSUME Inv1, QuietInv, App
    PROVE  QuietInv'
<1>1. CASE \/ steer \/ followUp \/ clearSteeringQueue \/ clearFollowUpQueue
           \/ setQueueMode \/ abort \/ reset
  <2>1. UNCHANGED <<activeRun, batch, idx, st, owner, upd, faults, pc>>
    BY <1>1
       DEF steer, followUp, clearSteeringQueue, clearFollowUpQueue, setQueueMode, abort, reset,
           runVars, toolVars, histVars
  <2>. QED
    BY <2>1, FrameQuietInv DEF QuietInv
<1>2. ASSUME NEW prompts, NEW skip, StartRun(prompts, skip)
      PROVE  QuietInv'
  <2>1. /\ UNCHANGED <<batch, idx, st, owner, upd, faults>>
        /\ pc = "idle" /\ pc' = "prompts"
    BY <1>2 DEF StartRun, toolVars, Inv1, Control
  <2>. QED
    BY <2>1 DEF QuietInv, BatchPCs, Failing
<1>. QED
  BY <1>1, <1>2 DEF App, continueQueued, continueTranscript, prompt

(* A step of a call the loop waits for, or of any after an exception.      *)
LEMMA ChangeQuietInv ==
    ASSUME Inv1, QuietInv, NEW c \in Calls, NEW s \in CallStates, st[c] # "none",
           st' = [st EXCEPT ![c] = s],
           UNCHANGED <<activeRun, batch, idx, owner, upd, faults>>,
           s \in {"rejected", "failed"} => faults # 0,
           s \in {"done", "reported"} \/ (st[c] \notin {"none", "done", "reported"}),
           pc \in BatchPCs \cup {"tool"} => pc' \in BatchPCs \cup {"tool"},
           pc' \in BatchPCs \cup {"tool"} => pc \in BatchPCs \cup {"tool"},
           pc' = pc \/ pc' \notin Failing
    PROVE  QuietInv'
<1>1. st'[c] = s /\ \A d \in Calls : d # c => st'[d] = st[d]
  BY DEF Inv1, TypeOK, CallTypes
<1>2. pc' \in BatchPCs \cup {"tool"} => \A i \in 1..idx' : owner'[batch'[i]] = activeRun'
  BY DEF QuietInv
<1>3. faults = 0 => /\ pc' \notin Failing
                    /\ \A d \in Calls : upd'[d] # "rejected"
                                          /\ st'[d] \notin {"rejected", "failed"}
  BY <1>1 DEF QuietInv
<1>4. ASSUME faults = 0, NEW d \in Calls, st'[d] \notin {"none", "done", "reported"}
      PROVE  pc' \in BatchPCs \cup {"tool"} /\ \E i \in 1..idx' : batch'[i] = d
  <2>1. st[d] \notin {"none", "done", "reported"}
    BY <1>1, <1>4
  <2>. QED
    BY <1>4, <2>1 DEF QuietInv
<1>. QED
  BY <1>2, <1>3, <1>4 DEF QuietInv

(* Going through a batch preserves it.                                     *)
LEMMA BatchQuietInv ==
    ASSUME Inv1, CallInv, BatchInv, ReportInv, QuietInv,
           \/ StartCall \/ PrepareImmediate \/ PreparedToolCall \/ PreflightDone
           \/ AllDone \/ NextCall \/ EndBatch \/ \E i \in 1..idx : ReportResult(i)
    PROVE  QuietInv'
<1>1. CASE StartCall
  <2>. DEFINE c == batch[idx + 1]
  <2>1. /\ c \in Calls /\ idx \in Nat /\ idx + 1 \in DOMAIN batch /\ st[c] = "none"
        /\ \A i \in DOMAIN batch : batch[i] \in Calls
        /\ 1..(idx + 1) \subseteq DOMAIN batch
    BY <1>1 DEF StartCall, Inv1, TypeOK, CallTypes, Control, BatchInv, Untouched
  <2>2. /\ st' = [st EXCEPT ![c] = "starting"] /\ owner' = [owner EXCEPT ![c] = activeRun]
        /\ idx' = idx + 1 /\ UNCHANGED <<activeRun, batch, upd, faults>>
        /\ pc = "tool" /\ pc' = "prepare"
    BY <1>1 DEF StartCall, runVars, histVars
  <2>. HIDE DEF c
  <2>3. /\ st'[c] = "starting" /\ owner'[c] = activeRun
        /\ \A d \in Calls : d # c => st'[d] = st[d] /\ owner'[d] = owner[d]
    BY <2>1, <2>2 DEF Inv1, TypeOK, CallTypes
  <2>4. \A i \in 1..idx' : owner'[batch'[i]] = activeRun'
    BY <2>1, <2>2, <2>3 DEF QuietInv, c
  <2>5. faults = 0 => \A d \in Calls : /\ upd'[d] # "rejected"
                                       /\ st'[d] \notin {"rejected", "failed"}
    BY <2>2, <2>3 DEF QuietInv
  <2>6. ASSUME faults = 0, NEW d \in Calls, st'[d] \notin {"none", "done", "reported"}
        PROVE  \E i \in 1..idx' : batch'[i] = d
    <3>1. CASE d = c
      BY <2>1, <2>2, <3>1 DEF c
    <3>2. CASE d # c
      <4>1. PICK i \in 1..idx : batch[i] = d
        BY <2>3, <2>6, <3>2 DEF QuietInv
      <4>. QED
        BY <2>1, <2>2, <4>1
    <3>. QED
      BY <3>1, <3>2
  <2>. QED
    BY <2>2, <2>4, <2>5, <2>6 DEF QuietInv, BatchPCs, Failing
<1>2. CASE PrepareImmediate \/ PreparedToolCall
  <2>1. batch[idx] \in Calls /\ st[batch[idx]] = "starting"
    BY <1>2 DEF PrepareImmediate, PreparedToolCall, Inv1, TypeOK, CallTypes, Control,
                BatchPCs, CallInv, Ownership
  <2>2. /\ UNCHANGED <<activeRun, batch, idx, owner, upd, faults>> /\ pc = "prepare"
        /\ pc' \in {"joining", "prepared", "immediate"}
        /\ \E s \in {"ended", "ready", "executing"} : st' = [st EXCEPT ![batch[idx]] = s]
    BY <1>2 DEF PrepareImmediate, PreparedToolCall, runVars, histVars
  <2>. QED
    BY <2>1, <2>2, ChangeQuietInv DEF CallStates, BatchPCs, Failing
<1>3. CASE PreflightDone
  <2>1. /\ UNCHANGED <<activeRun, batch, idx, owner, upd, faults>>
        /\ pc \in {"prepared", "immediate"} /\ pc' \in {"tool", "joining"}
    BY <1>3 DEF PreflightDone, runVars, histVars
  <2>2. \A d \in Calls : st'[d] = st[d] \/ (st[d] = "ready" /\ st'[d] = "executing")
    BY <1>3 DEF PreflightDone
  <2>. QED
    BY <2>1, <2>2 DEF QuietInv, BatchPCs, Failing
<1>4. CASE AllDone \/ NextCall
  <2>1. /\ UNCHANGED <<activeRun, batch, idx, st, owner, upd, faults>>
        /\ pc \in BatchPCs /\ pc' \in BatchPCs \cup {"tool"} /\ pc' \notin Failing
    BY <1>4
       DEF AllDone, NextCall, ResultReported, toolVars, runVars, histVars, BatchPCs, Failing
  <2>. QED
    BY <2>1, FrameQuietInv
<1>5. CASE EndBatch
  <2>1. UNCHANGED <<activeRun, batch, idx, st, owner, upd, faults>> /\ pc' = "turnEnd"
    BY <1>5 DEF EndBatch, toolVars, runVars, histVars
  <2>2. \A i \in 1..idx : st[batch[i]] = "reported"
    <3>1. Reported = 1..idx
      BY <1>5, AllReported DEF ReportInv
    <3>. QED
      BY <3>1 DEF Reported
  <2>. QED
    BY <2>1, <2>2, FrameQuietInv DEF BatchPCs, Failing
<1>6. ASSUME NEW i \in 1..idx, ReportResult(i)
      PROVE  QuietInv'
  <2>1. batch[i] \in Calls /\ st[batch[i]] = "done"
    BY <1>6 DEF ReportResult, Inv1, TypeOK, CallTypes
  <2>2. /\ UNCHANGED <<activeRun, batch, idx, owner, upd, faults>>
        /\ st' = [st EXCEPT ![batch[i]] = "reported"]
        /\ pc \in {"joining", "reporting"} /\ pc' \in {"reported", "reporting"}
    BY <1>6 DEF ReportResult, runVars, histVars
  <2>. QED
    BY <2>1, <2>2, ChangeQuietInv DEF CallStates, BatchPCs, Failing
<1>. QED
  BY <1>1, <1>2, <1>3, <1>4, <1>5, <1>6

(* So does the rest of the loop: without an exception no call fails.       *)
LEMMA LoopQuietInv ==
    ASSUME Inv1, CallInv, BatchInv, ReportInv, QuietInv, Loop
    PROVE  QuietInv'
<1>. USE DEF BatchPCs, Failing
<1>1. CASE \/ EmitPrompt \/ PollSteering \/ EnterTurn \/ PollFollowUps \/ InjectMessage
           \/ MessageInjected \/ CallModel \/ StreamStart
  <2>1. /\ UNCHANGED <<activeRun, batch, idx, st, owner, upd, faults>>
        /\ pc' \in TurnPCs \cup {"prompts"} /\ pc \in TurnPCs \cup {"prompts"}
    BY <1>1
       DEF EmitPrompt, PollSteering, EnterTurn, PollFollowUps, InjectMessage,
           MessageInjected, CallModel, StreamStart, toolVars, runVars, histVars, TurnPCs
  <2>. QED
    BY <2>1, FrameQuietInv DEF TurnPCs
<1>2. CASE Answered
  <2>1. /\ UNCHANGED <<activeRun, batch, idx, st, owner, upd, faults>>
        /\ pc = "answered" /\ pc' \in {"ended", "turnEnd", "tool"}
    BY <1>2 DEF Answered, EndLoop, runVars
  <2>2. idx = 0
    BY <2>1 DEF Inv1, Control
  <2>. QED
    BY <2>1, <2>2 DEF QuietInv
<1>3. CASE FailureMessage \/ FailureEnd
  <2>1. /\ UNCHANGED <<activeRun, batch, idx, st, owner, upd, faults>>
        /\ pc' \in Failing /\ pc \in Failing
    BY <1>3 DEF FailureMessage, FailureEnd, toolVars, runVars, histVars
  <2>. QED
    BY <2>1, FrameQuietInv DEF QuietInv
<1>4. CASE CallFailed
  <2>1. /\ UNCHANGED <<activeRun, batch, idx, st, owner, upd, faults>>
        /\ pc' = "failure" /\ JoinRejects /\ pc \in {"joining", "immediate"}
    BY <1>4 DEF CallFailed, RunFails, toolVars, runVars
  <2>2. Awaited \subseteq Calls
    BY <2>1 DEF Awaited, Inv1, TypeOK, CallTypes, Control
  <2>3. faults # 0
    BY <2>1, <2>2 DEF JoinRejects, QuietInv
  <2>. QED
    BY <2>1, <2>3 DEF QuietInv
<1>5. ASSUME NEW k \in 0..MaxBatch, NEW stop \in Stops, StreamDone(k, stop)
      PROVE  QuietInv'
  BY <1>5 DEF StreamDone, QuietInv, runVars, histVars
<1>6. CASE finishRun
  <2>1. /\ UNCHANGED <<st, owner, upd>> /\ pc' = "idle"
        /\ faults' = 0 => faults = 0 /\ pc \notin BatchPCs \cup {"tool"}
    BY <1>6, BoundsAssumption DEF finishRun, Inv1, TypeOK, CountTypes
  <2>. QED
    BY <2>1 DEF QuietInv
<1>. QED
  BY <1>1, <1>2, <1>3, <1>4, <1>5, <1>6, BatchQuietInv DEF Loop

(* Calls on their own go from one state to the next.                       *)
LEMMA CallQuietInv ==
    ASSUME Inv1, QuietInv, NEW c \in Calls,
           Call(c) \/ CallUpdates(c) \/ CallListenerThrows(c)
    PROVE  QuietInv'
<1>1. CASE UpdateHeard(c) \/ CallUpdates(c)
  <2>1. /\ UNCHANGED <<activeRun, batch, idx, st, owner, faults, pc>>
        /\ \A d \in Calls : upd'[d] = "rejected" =>
              upd[d] = "rejected" \/ (activeRun = 0 /\ st[c] = "executing")
    BY <1>1
       DEF UpdateHeard, CallUpdates, runVars, histVars, Inv1, TypeOK, CallTypes
  <2>2. activeRun = 0 => pc = "idle"
    BY DEF Inv1, Control
  <2>. QED
    BY <2>1, <2>2 DEF QuietInv, BatchPCs
<1>2. CASE CallSettles(c) \/ EndHeard(c) \/ CallRejects(c)
  <2>1. /\ UNCHANGED <<activeRun, batch, idx, owner, upd, faults, pc>>
        /\ st[c] \in {"executing", "settled", "ended"}
        /\ \E s \in {"settled", "rejected", "done"} :
              /\ st' = [st EXCEPT ![c] = s]
              /\ s = "rejected" => upd[c] = "rejected"
    BY <1>2 DEF CallSettles, CallRejects, EndHeard, runVars, histVars
  <2>2. upd[c] = "rejected" => faults # 0
    BY DEF QuietInv
  <2>. QED
    BY <2>1, <2>2, ChangeQuietInv DEF CallStates
<1>3. CASE \E term \in BOOLEAN : CallEnds(c, term)
  <2>1. /\ UNCHANGED <<activeRun, batch, idx, owner, upd, faults, pc>>
        /\ st[c] = "settled"
        /\ st' = [st EXCEPT ![c] = IF activeRun = 0 THEN "failed" ELSE "ended"]
    BY <1>3 DEF CallEnds, runVars, histVars
  <2>2. activeRun = 0 => faults # 0
    BY <2>1 DEF QuietInv, Inv1, Control, BatchPCs
  <2>. QED
    BY <2>1, <2>2, ChangeQuietInv DEF CallStates
<1>4. CASE CallListenerThrows(c)
  <2>1. /\ UNCHANGED <<activeRun, batch, idx, owner, pc>>
        /\ faults' # 0
    BY <1>4, BoundsAssumption DEF CallListenerThrows, runVars, Inv1, TypeOK, CountTypes
  <2>. QED
    BY <2>1 DEF QuietInv
<1>. QED
  BY <1>1, <1>2, <1>3, <1>4 DEF Call

(* Exceptions are counted.                                                 *)
LEMMA FaultsGrow ==
    ASSUME Inv1, [Next]_vars, faults' = 0
    PROVE  faults = 0
<1>1. faults \in Nat
  BY BoundsAssumption DEF Inv1, TypeOK, CountTypes
<1>2. ASSUME faults' = faults + 1 PROVE FALSE
  BY <1>1, <1>2
<1>3. CASE App
  BY <1>3 DEF App, steer, followUp, clearSteeringQueue, clearFollowUpQueue, setQueueMode,
              abort, reset, continueQueued, continueTranscript, prompt, StartRun, histVars
<1>4. CASE Loop
  <2>1. CASE \/ EmitPrompt \/ PollSteering \/ EnterTurn \/ PollFollowUps \/ InjectMessage
             \/ MessageInjected \/ CallModel \/ StreamStart \/ Answered \/ StartCall
    BY <2>1 DEF EmitPrompt, PollSteering, EnterTurn, PollFollowUps, InjectMessage,
                MessageInjected, CallModel, StreamStart, Answered, StartCall, histVars
  <2>2. CASE \/ PrepareImmediate \/ PreparedToolCall \/ PreflightDone \/ AllDone \/ NextCall
             \/ EndBatch \/ CallFailed \/ FailureMessage \/ FailureEnd \/ finishRun
    BY <1>2, <2>2 DEF PrepareImmediate, PreparedToolCall, PreflightDone, AllDone, NextCall,
                      EndBatch, CallFailed, FailureMessage, FailureEnd, finishRun, histVars
  <2>3. CASE \/ \E k \in 0..MaxBatch, stop \in Stops : StreamDone(k, stop)
             \/ \E i \in 1..idx : ReportResult(i)
    BY <2>3 DEF StreamDone, ReportResult, histVars
  <2>. QED
    BY <1>4, <2>1, <2>2, <2>3 DEF Loop
<1>5. ASSUME NEW c \in Calls, Call(c) \/ CallUpdates(c) \/ CallListenerThrows(c)
      PROVE  faults = 0
  BY <1>2, <1>5 DEF Call, UpdateHeard, CallSettles, CallRejects, EndHeard, CallEnds,
                    CallUpdates, CallListenerThrows, histVars
<1>6. CASE LoopThrows
  BY <1>2, <1>6 DEF LoopThrows
<1>7. CASE UNCHANGED vars
  BY <1>7 DEF vars, histVars
<1>. QED
  BY <1>3, <1>4, <1>5, <1>6, <1>7 DEF Next

(* In every state calls belong to their run, and to the active one until   *)
(* something throws.                                                       *)
LEMMA CallsOfRuns == Spec => [](Inv1 /\ QuietInv)
<1>1. Inv1 /\ CallInv /\ BatchInv /\ ReportInv /\ QuietInv /\ [Next]_vars => QuietInv'
  <2>. SUFFICES ASSUME Inv1, CallInv, BatchInv, ReportInv, QuietInv, [Next]_vars
                PROVE  QuietInv'
    OBVIOUS
  <2>1. CASE LoopThrows
    <3>1. pc' = "failure" /\ faults' # 0
      BY <2>1, BoundsAssumption DEF LoopThrows, RunFails, Inv1, TypeOK, CountTypes
    <3>. QED
      BY <3>1 DEF QuietInv, BatchPCs
  <2>2. CASE UNCHANGED vars
    <3>1. UNCHANGED <<activeRun, batch, idx, st, owner, upd, faults, pc>>
      BY <2>2 DEF vars, toolVars, runVars, histVars
    <3>. QED
      BY <3>1, FrameQuietInv DEF QuietInv
  <2>. QED
    BY <2>1, <2>2, AppQuietInv, LoopQuietInv, CallQuietInv DEF Next
<1>. QED
  BY InitQuietInv, Typing, BatchesCorrect, ResultsInOrder, <1>1, PTL DEF Spec

(* As long as nothing was thrown, tool_execution_end is said only of calls *)
(* of the active run, before its agent_end.                                *)
THEOREM ToolEventsBelong == Spec => ToolEventsOfActiveRun
<1>1. Inv1 /\ QuietInv /\ [Next]_vars =>
        [\A c \in Calls : faults' = 0 /\ st[c] = "settled" /\ st'[c] = "ended" =>
             owner[c] = activeRun /\ agentEnds = 0]_vars
  <2>. SUFFICES ASSUME Inv1, QuietInv, [Next]_vars, NEW c \in Calls, faults' = 0,
                       st[c] = "settled", st'[c] = "ended"
                PROVE  owner[c] = activeRun /\ agentEnds = 0
    OBVIOUS
  <2>1. faults = 0
    BY FaultsGrow
  <2>2. pc \in BatchPCs \cup {"tool"} /\ \E i \in 1..idx : batch[i] = c
    BY <2>1 DEF QuietInv
  <2>. QED
    BY <2>2 DEF QuietInv, Inv1, Control, BatchPCs
<1>. QED
  BY CallsOfRuns, <1>1, PTL DEF Spec, ToolEventsOfActiveRun

(* As long as nothing was thrown, agent_end is the last event of a run: the *)
(* transcript does not grow after it and there is no second agent_end.     *)
THEOREM AgentEndFinal == Spec => AgentEndIsFinal
<1>1. Inv1 /\ QuietInv /\ [Next]_vars =>
        [faults' = 0 /\ agentEnds = 1 =>
             agentEnds' <= 1 /\ Len(messages') <= Len(messages)]_vars
  <2>. SUFFICES ASSUME Inv1, QuietInv, [Next]_vars, faults' = 0, agentEnds = 1
                PROVE  agentEnds' <= 1 /\ Len(messages') <= Len(messages)
    OBVIOUS
  <2>1. faults = 0
    BY FaultsGrow
  <2>2. pc = "ended" /\ activeRun # 0
    BY <2>1 DEF QuietInv, Inv1, Control, Failing
  <2>3. Len(messages) \in Nat /\ Len(<<>>) = 0
    BY DEF Inv1, TypeOK, TextTypes
  <2>4. CASE App
    <3>1. ASSUME NEW prompts, NEW skip, StartRun(prompts, skip)
          PROVE  FALSE
      BY <2>2, <3>1 DEF StartRun
    <3>2. \/ steer \/ followUp \/ clearSteeringQueue \/ clearFollowUpQueue \/ setQueueMode
          \/ abort \/ reset
      BY <2>4, <3>1 DEF App, continueQueued, continueTranscript, prompt
    <3>3. agentEnds' = agentEnds /\ messages' \in {messages, <<>>}
      BY <3>2 DEF steer, followUp, clearSteeringQueue, clearFollowUpQueue, setQueueMode,
                  abort, reset, histVars
    <3>. QED
      BY <2>3, <3>3
  <2>5. CASE Loop
    <3>1. finishRun
      BY <2>2, <2>5
         DEF Loop, EmitPrompt, PollSteering, EnterTurn, PollFollowUps, InjectMessage,
             MessageInjected, CallModel, StreamStart, StreamDone, Answered, StartCall,
             PrepareImmediate, PreparedToolCall, PreflightDone, AllDone, NextCall,
             ResultReported, EndBatch, ReportResult, CallFailed, FailureMessage, FailureEnd
    <3>. QED
      BY <2>3, <3>1 DEF finishRun
  <2>6. ASSUME NEW c \in Calls, Call(c) \/ CallUpdates(c) \/ CallListenerThrows(c)
        PROVE  agentEnds' <= 1 /\ Len(messages') <= Len(messages)
    BY <2>3, <2>6 DEF Call, UpdateHeard, CallSettles, CallRejects, EndHeard, CallEnds,
                      CallUpdates, CallListenerThrows, histVars
  <2>7. CASE LoopThrows
    BY <2>1, <2>7, BoundsAssumption DEF LoopThrows, Inv1, TypeOK, CountTypes
  <2>8. CASE UNCHANGED vars
    BY <2>3, <2>8 DEF vars, histVars
  <2>. QED
    BY <2>4, <2>5, <2>6, <2>7, <2>8 DEF Next
<1>. QED
  BY CallsOfRuns, <1>1, PTL DEF Spec, AgentEndIsFinal

-----------------------------------------------------------------------------
(* The transcript: the context of the loop and what agent_end reports      *)
(* agree with it, and the agent implements the abstract transcript.        *)

-----------------------------------------------------------------------------
(* Sequences.                                                              *)

(* Moving the first element of t to the end of s keeps their concatenation.*)
LEMMA MoveHead ==
    ASSUME NEW S, NEW s \in Seq(S), NEW t \in Seq(S), t # <<>>
    PROVE  Append(s, Head(t)) \o Tail(t) = s \o t
OBVIOUS

(* A prefix without the last element, and the last element replaced.       *)
LEMMA FrontOfAppend ==
    ASSUME NEW S, NEW s \in Seq(S), NEW m \in S
    PROVE  SubSeq(Append(s, m), 1, Len(Append(s, m)) - 1) = s
OBVIOUS

(* A sequence is its front with its last element; a new last element       *)
(* replaces it.                                                            *)
LEMMA FrontAndLast ==
    ASSUME NEW S, NEW s \in Seq(S), s # <<>>, NEW m \in S
    PROVE  /\ SubSeq(s, 1, Len(s) - 1) \in Seq(S)
           /\ Append(SubSeq(s, 1, Len(s) - 1), s[Len(s)]) = s
           /\ Append(SubSeq(s, 1, Len(s) - 1), m) = [s EXCEPT ![Len(s)] = m]
<1>. DEFINE f == SubSeq(s, 1, Len(s) - 1)
<1>1. /\ f \in Seq(S) /\ Len(f) = Len(s) - 1 /\ Len(s) \in Nat \ {0}
      /\ \A i \in 1..(Len(s) - 1) : f[i] = s[i]
  <2>1. PICK n \in Nat : Len(s) = n + 1
    <3>1. Len(s) - 1 \in Nat /\ Len(s) = Len(s) - 1 + 1
      OBVIOUS
    <3>. QED
      BY <3>1
  <2>2. \A i \in 1..n : s[i] \in S
    BY <2>1
  <2>3. f = SubSeq(s, 1, n)
    BY <2>1
  <2>4. /\ SubSeq(s, 1, n) \in Seq(S) /\ Len(SubSeq(s, 1, n)) = n
        /\ \A i \in 1..n : SubSeq(s, 1, n)[i] = s[i]
    BY <2>2
  <2>. HIDE DEF f
  <2>. QED
    BY <2>1, <2>3, <2>4
<1>. HIDE DEF f
<1>2. ASSUME NEW x \in S
      PROVE  /\ Append(f, x) \in Seq(S) /\ Len(Append(f, x)) = Len(s)
             /\ \A i \in 1..Len(s) : Append(f, x)[i] = IF i = Len(s) THEN x ELSE s[i]
  BY <1>1
<1>3. Append(f, s[Len(s)]) = s
  BY <1>1, <1>2, SeqEqual
<1>4. /\ [s EXCEPT ![Len(s)] = m] \in Seq(S) /\ Len([s EXCEPT ![Len(s)] = m]) = Len(s)
      /\ \A i \in 1..Len(s) : [s EXCEPT ![Len(s)] = m][i] = IF i = Len(s) THEN m ELSE s[i]
  BY <1>1
<1>5. Append(f, m) = [s EXCEPT ![Len(s)] = m]
  <2>1. \A i \in 1..Len(s) : Append(f, m)[i] = [s EXCEPT ![Len(s)] = m][i]
    BY <1>2, <1>4
  <2>2. Append(f, m) \in Seq(S) /\ Len(Append(f, m)) = Len(s)
    BY <1>2
  <2>. QED
    BY <1>4, <2>1, <2>2, SeqEqual
<1>. QED
  BY <1>1, <1>3, <1>5 DEF f

(* What is said at the end of both keeps one a suffix of the other.        *)
LEMMA SuffixConcat ==
    ASSUME NEW S, NEW s \in Seq(S), NEW t \in Seq(S), NEW u \in Seq(S), Suffix(s, t)
    PROVE  Suffix(s \o u, t \o u)
<1>. DEFINE a == s \o u
            b == t \o u
            c == SubSeq(b, Len(b) - Len(a) + 1, Len(b))
<1>1. Len(a) = Len(s) + Len(u) /\ Len(b) = Len(t) + Len(u) /\ Len(s) <= Len(t)
  BY DEF Suffix
<1>2. \A i \in 1..Len(s) : s[i] = t[i + Len(t) - Len(s)]
  BY DEF Suffix
<1>3. a \in Seq(S) /\ b \in Seq(S)
  OBVIOUS
<1>4. c \in Seq(S) /\ Len(c) = Len(a)
        /\ \A i \in 1..Len(a) : c[i] = b[i + Len(b) - Len(a)]
  <2>. HIDE DEF a, b
  <2>1. Len(a) \in Nat /\ Len(b) \in Nat /\ Len(a) <= Len(b)
    BY <1>1, <1>3
  <2>2. \A i \in (Len(b) - Len(a) + 1)..Len(b) : b[i] \in S
    BY <1>3, <2>1
  <2>3. /\ c \in Seq(S)
        /\ Len(c) = IF Len(b) - Len(a) + 1 <= Len(b) THEN Len(b) - (Len(b) - Len(a) + 1) + 1 ELSE 0
        /\ \A i \in 1..(Len(b) - (Len(b) - Len(a) + 1) + 1) : c[i] = b[Len(b) - Len(a) + 1 + i - 1]
    BY <2>1, <2>2, SubSeqProperties
  <2>4. Len(b) - (Len(b) - Len(a) + 1) + 1 = Len(a)
    BY <2>1
  <2>5. \A i \in 1..Len(a) : Len(b) - Len(a) + 1 + i - 1 = i + Len(b) - Len(a)
    BY <2>1
  <2>. HIDE DEF c
  <2>. QED
    BY <2>1, <2>3, <2>4, <2>5
<1>5. ASSUME NEW i \in 1..Len(a) PROVE a[i] = c[i]
  <2>1. CASE i <= Len(s)
    BY <1>1, <1>2, <1>4, <2>1
  <2>2. CASE i > Len(s)
    BY <1>1, <1>4, <2>2
  <2>3. i <= Len(s) \/ i > Len(s)
    BY <1>1
  <2>. HIDE DEF a, b, c
  <2>. QED
    BY <2>1, <2>2, <2>3
<1>6. a = c
  BY <1>3, <1>4, <1>5, SeqEqual
<1>. QED
  BY <1>1, <1>6 DEF Suffix

(* A sequence is a suffix of what it is appended to.                       *)
LEMMA SuffixOfConcat ==
    ASSUME NEW S, NEW s \in Seq(S), NEW t \in Seq(S)
    PROVE  Suffix(s, t \o s)
<1>1. Suffix(<<>>, t)
  BY DEF Suffix
<1>2. <<>> \in Seq(S) /\ <<>> \o s = s
  OBVIOUS
<1>3. Suffix(<<>> \o s, t \o s)
  BY <1>1, <1>2, SuffixConcat
<1>. QED
  BY <1>2, <1>3

-----------------------------------------------------------------------------
(* The context of the loop and the transcript.                             *)

(* Results that are in the transcript and not yet in the context.          *)
ResultsSoFar == [i \in 1..nReported |-> ToolResult(batch[i])]

(* The context without the answer that is being streamed or reported.      *)
Said == IF pc \in {"streaming", "answered"} THEN SubSeq(ctx, 1, Len(ctx) - 1) ELSE ctx

(* Where the loop is says what messages the context is behind or ahead.    *)
SameText ==
    /\ pc = "prompts" => ctx = messages \o pending
    /\ pc = "injected" => messages = Append(ctx, Head(pending))
    /\ pc \in {"turn", "inject", "calling", "streaming", "turnEnd", "ended"} => messages = Said
    /\ pc = "answered" => messages = ctx
    /\ pc \in BatchPCs \cup {"tool"} => messages = ctx \o ResultsSoFar

TextInv ==
    /\ pc \notin {"idle"} \cup Failing => Suffix(newMessages, Said)
    /\ ~wasReset => SameText

(* What the text of a conversation consists of.                            *)
Text == Message \cup {Partial}

(* Transcript, loop context, new and pending messages are texts.           *)
LEMMA TextSequences ==
    ASSUME Inv1
    PROVE  /\ ctx \in Seq(Text) /\ messages \in Seq(Text) /\ newMessages \in Seq(Text)
           /\ pending \in Seq(Text)
           /\ messages \in Seq(Message) /\ newMessages \in Seq(Message)
<1>1. /\ ctx \in Seq(Text) /\ messages \in Seq(Message) /\ newMessages \in Seq(Message)
      /\ pending \in Seq(UserMessage)
  BY DEF Inv1, TypeOK, TextTypes, Text
<1>2. Message \subseteq Text /\ UserMessage \subseteq Text
  BY Constructors DEF Text
<1>3. messages \in Seq(Text) /\ newMessages \in Seq(Text) /\ pending \in Seq(Text)
  BY <1>1, <1>2
<1>. QED
  BY <1>1, <1>3

(* No run, no text.                                                        *)
LEMMA InitTextInv == Init => TextInv
BY DEF Init, TextInv, SameText, BatchPCs

(* A step of the loop that only moves on to where the same is said of the  *)
(* text.                                                                   *)
LEMMA FrameTextInv ==
    ASSUME TextInv, UNCHANGED <<ctx, messages, newMessages, Said>>,
           wasReset' = wasReset,
           pc # "idle" /\ pc \notin Failing,
           ~wasReset => SameText'
    PROVE  TextInv'
BY DEF TextInv

(* Only where the loop is, and the results of a batch, are left to check.  *)
LEMMA FailTextInv ==
    ASSUME pc' \in {"idle"} \cup Failing
    PROVE  TextInv'
BY DEF TextInv, SameText, Failing, BatchPCs

(* Starting a run: the context is the transcript and the prompts.          *)
LEMMA StartTextInv ==
    ASSUME Inv1, NEW prompts \in Seq(UserMessage), NEW skip, StartRun(prompts, skip)
    PROVE  TextInv'
<1>1. /\ pc' = "prompts" /\ pending' = prompts /\ messages' = messages
      /\ ctx' = messages \o prompts /\ newMessages' = prompts
  BY DEF StartRun
<1>2. messages \in Seq(Text) /\ prompts \in Seq(Text)
  BY TextSequences, Constructors DEF Text
<1>3. Suffix(newMessages', ctx')
  BY <1>1, <1>2, SuffixOfConcat
<1>4. Said' = ctx'
  BY <1>1 DEF Said
<1>5. Suffix(newMessages', Said')
  BY <1>3, <1>4
<1>6. SameText'
  BY <1>1 DEF SameText, BatchPCs
<1>. QED
  BY <1>5, <1>6 DEF TextInv

(* What the application calls preserves it.                                *)
LEMMA AppTextInv ==
    ASSUME Inv1, TextInv, App, batch' = batch, nReported' = nReported
    PROVE  TextInv'
<1>1. CASE \/ steer \/ followUp \/ clearSteeringQueue \/ clearFollowUpQueue
           \/ setQueueMode \/ abort
  <2>1. UNCHANGED <<ctx, messages, newMessages, pending, pc, wasReset>>
    BY <1>1
       DEF steer, followUp, clearSteeringQueue, clearFollowUpQueue, setQueueMode, abort,
           runVars, loopVars, histVars
  <2>2. ResultsSoFar' = ResultsSoFar /\ Said' = Said
    BY <2>1 DEF ResultsSoFar, Said
  <2>. QED
    BY <2>1, <2>2 DEF TextInv, SameText
<1>2. CASE reset
  <2>1. UNCHANGED <<ctx, newMessages, pc>> /\ wasReset' = (activeRun # 0)
    BY <1>2 DEF reset, loopVars
  <2>2. Said' = Said
    BY <2>1 DEF Said
  <2>3. pc = "idle" \/ wasReset'
    BY <2>1 DEF Inv1, Control
  <2>. QED
    BY <2>1, <2>2, <2>3, FailTextInv DEF TextInv
<1>3. ASSUME NEW k \in 1..MaxPrompt, prompt(k)
      PROVE  TextInv'
  <2>1. \A i \in 1..k : User(nMsgs + i, "prompt") \in UserMessage
    BY <1>3, MessageBounds, BoundsAssumption, Constructors
    DEF prompt, Msgs, Vias, Inv1, TypeOK, CountTypes
  <2>2. [i \in 1..k |-> User(nMsgs + i, "prompt")] \in Seq(UserMessage)
    BY <2>1, BoundsAssumption
  <2>. QED
    BY <1>3, <2>2, StartTextInv DEF prompt
<1>4. CASE continueQueued
  BY <1>4, StartTextInv, DrainTypes DEF continueQueued, Inv1, TypeOK, QueueTypes
<1>5. CASE continueTranscript
  <2>1. <<>> \in Seq(UserMessage)
    OBVIOUS
  <2>. QED
    BY <1>5, <2>1, StartTextInv DEF continueTranscript
<1>. QED
  BY <1>1, <1>2, <1>3, <1>4, <1>5 DEF App

(* Prompts and injected messages come into the transcript before the       *)
(* context, or leave a context that has them already.                      *)
LEMMA InjectTextInv ==
    ASSUME Inv1, TextInv, EmitPrompt \/ InjectMessage \/ MessageInjected
    PROVE  TextInv'
<1>. USE DEF Failing, BatchPCs
<1>1. CASE EmitPrompt
  <2>1. /\ pc = "prompts" /\ pc' = "prompts" /\ pending # <<>>
        /\ UNCHANGED <<ctx, newMessages, wasReset>>
        /\ messages' = Append(messages, Head(pending)) /\ pending' = Tail(pending)
    BY <1>1 DEF EmitPrompt, runVars
  <2>2. messages' \o pending' = messages \o pending
    BY <2>1, TextSequences, MoveHead
  <2>3. Said' = Said
    BY <2>1 DEF Said
  <2>. QED
    BY <2>1, <2>2, <2>3 DEF TextInv, SameText
<1>2. CASE InjectMessage
  <2>1. /\ pc = "inject" /\ pc' = "injected"
        /\ UNCHANGED <<ctx, newMessages, pending, wasReset>>
        /\ messages' = Append(messages, Head(pending))
    BY <1>2 DEF InjectMessage, runVars, loopVars
  <2>2. Said = ctx /\ Said' = ctx
    BY <2>1 DEF Said
  <2>. QED
    BY <2>1, <2>2 DEF TextInv, SameText
<1>3. CASE MessageInjected
  <2>. DEFINE m == Head(pending)
  <2>1. /\ pc = "injected" /\ pc' = "inject" /\ UNCHANGED <<messages, wasReset>>
        /\ ctx' = Append(ctx, m) /\ newMessages' = newMessages \o <<m>>
    BY <1>3 DEF MessageInjected, Report, runVars
  <2>2. m \in Text
    BY <2>1, UserSequences DEF Inv1, TypeOK, TextTypes, Control, Text
  <2>3. Said = ctx /\ Said' = ctx'
    BY <2>1 DEF Said
  <2>. HIDE DEF m
  <2>4. ctx' = ctx \o <<m>> /\ <<m>> \in Seq(Text)
    BY <2>1, <2>2, TextSequences
  <2>5. Suffix(newMessages, ctx)
    BY <2>1, <2>3 DEF TextInv
  <2>6. Suffix(newMessages', Said')
    BY <2>1, <2>3, <2>4, <2>5, SuffixConcat, TextSequences
  <2>7. ~wasReset => messages' = Said'
    BY <2>1, <2>3 DEF TextInv, SameText, m
  <2>. QED
    BY <2>1, <2>6, <2>7 DEF TextInv, SameText
<1>. QED
  BY <1>1, <1>2, <1>3

(* Between its turns the loop says nothing.                                *)
LEMMA TurnTextInv ==
    ASSUME Inv1, TextInv, PollSteering \/ EnterTurn \/ PollFollowUps \/ CallModel
    PROVE  TextInv'
<1>1. /\ UNCHANGED <<ctx, messages, newMessages, wasReset>>
      /\ pc \in {"turnEnd", "turn", "inject"} \/ (pc = "prompts" /\ pending = <<>>)
      /\ pc' \in {"turn", "inject", "calling", "ended"}
  BY DEF PollSteering, EnterTurn, PollFollowUps, CallModel, runVars, loopVars
<1>2. Said = ctx /\ Said' = ctx
  BY <1>1 DEF Said
<1>3. messages \o <<>> = messages
  BY TextSequences
<1>4. ~wasReset => messages = ctx
  BY <1>1, <1>2, <1>3 DEF TextInv, SameText
<1>5. ~wasReset => SameText'
  BY <1>1, <1>2, <1>4 DEF SameText, BatchPCs
<1>. QED
  BY <1>1, <1>2, <1>5, FrameTextInv DEF Failing

(* An answer of the model is in the context while it is streamed, and in   *)
(* the transcript when it is complete.                                     *)
LEMMA StreamTextInv ==
    ASSUME Inv1, TextInv,
           StreamStart \/ \E k \in 0..MaxBatch, stop \in Stops : StreamDone(k, stop)
    PROVE  TextInv'
<1>1. CASE StreamStart
  <2>1. /\ pc = "calling" /\ pc' = "streaming" /\ ctx' = Append(ctx, Partial)
        /\ UNCHANGED <<messages, newMessages, wasReset>>
    BY <1>1 DEF StreamStart, KeepTranscript, runVars
  <2>2. Said = ctx /\ Said' = SubSeq(ctx', 1, Len(ctx') - 1)
    BY <2>1 DEF Said
  <2>3. Said' = ctx
    BY <2>1, <2>2, TextSequences, FrontOfAppend DEF Text
  <2>. QED
    BY <2>1, <2>2, <2>3 DEF TextInv, SameText, Failing, BatchPCs
<1>2. ASSUME NEW k \in 0..MaxBatch, NEW stop \in Stops, StreamDone(k, stop)
      PROVE  TextInv'
  <2>. DEFINE calls == [i \in 1..k |-> nCalls + i]
              final == Assistant(calls, stop)
  <2>1. /\ pc \in {"calling", "streaming"} /\ pc' = "answered"
        /\ ctx' = IF pc = "streaming" THEN [ctx EXCEPT ![Len(ctx)] = final]
                                      ELSE Append(ctx, final)
        /\ messages' = Append(messages, final)
        /\ UNCHANGED <<newMessages, wasReset>>
    BY <1>2 DEF StreamDone, runVars
  <2>2. final \in Text
    <3>1. /\ nCalls + k <= MaxCalls /\ k \in Nat /\ nCalls \in Nat
      BY <1>2, BoundsAssumption, MessageBounds DEF StreamDone, Inv1, TypeOK, CallTypes
    <3>2. calls \in Seq(Calls)
      BY <3>1, MessageBounds DEF Calls
    <3>. QED
      BY <3>2, Constructors DEF Text
  <2>. HIDE DEF final
  <2>3. Said \in Seq(Text) /\ ctx' = Append(Said, final)
    <3>1. CASE pc = "calling"
      BY <2>1, <3>1, TextSequences DEF Said
    <3>2. CASE pc = "streaming"
      <4>1. ctx \in Seq(Text) /\ ctx # <<>>
        BY <3>2, TextSequences DEF Inv1, Control
      <4>. QED
        BY <2>1, <2>2, <3>2, <4>1, FrontAndLast DEF Said
    <3>. QED
      BY <2>1, <3>1, <3>2
  <2>4. Said' = Said
    BY <2>1, <2>2, <2>3, FrontOfAppend DEF Said
  <2>5. ~wasReset => messages = Said
    BY <2>1 DEF TextInv, SameText
  <2>. QED
    BY <2>1, <2>3, <2>4, <2>5 DEF TextInv, SameText, Failing, BatchPCs
<1>. QED
  BY <1>1, <1>2

(* The answer is reported, and the batch has no results yet.               *)
LEMMA AnsweredTextInv ==
    ASSUME Inv1, ReportInv, TextInv, Answered, nReported' = nReported
    PROVE  TextInv'
<1>. DEFINE m == ctx[Len(ctx)]
<1>1. /\ pc = "answered" /\ pc' \in {"ended", "turnEnd", "tool"}
      /\ newMessages' = newMessages \o <<m>>
      /\ UNCHANGED <<ctx, messages, wasReset>>
  BY DEF Answered, EndLoop, Report, runVars
<1>2. ctx \in Seq(Text) /\ ctx # <<>> /\ m \in Text
  BY <1>1, TextSequences DEF Inv1, Control, Text
<1>. HIDE DEF m
<1>3. Said \in Seq(Text) /\ Append(Said, m) = ctx
  BY <1>1, <1>2, FrontAndLast DEF Said, m
<1>4. Append(Said, m) = Said \o <<m>> /\ <<m>> \in Seq(Text)
  BY <1>2, <1>3
<1>5. Said' = ctx
  BY <1>1 DEF Said
<1>6. Suffix(newMessages, Said)
  BY <1>1 DEF TextInv, Failing
<1>7. Suffix(newMessages', Said')
  BY <1>1, <1>3, <1>4, <1>5, <1>6, SuffixConcat, TextSequences
<1>8. nReported' = 0
  BY <1>1 DEF ReportInv, ReportControl
<1>9. ResultsSoFar' = <<>>
  BY <1>8 DEF ResultsSoFar
<1>10. ctx \o <<>> = ctx
  BY <1>2
<1>11. ~wasReset => SameText'
  BY <1>1, <1>5, <1>9, <1>10 DEF TextInv, SameText, BatchPCs
<1>. QED
  BY <1>1, <1>7, <1>11 DEF TextInv

(* A batch adds its results one by one to the transcript and at its end    *)
(* all of them to the context.                                             *)
LEMMA BatchTextInv ==
    ASSUME Inv1, BatchInv, ReportInv, TextInv, batch' = batch, nReported' = nReported,
           \/ StartCall \/ PrepareImmediate \/ PreparedToolCall \/ PreflightDone
           \/ AllDone \/ NextCall
    PROVE  TextInv'
<1>. USE DEF BatchPCs
<1>1. /\ UNCHANGED <<ctx, messages, newMessages, wasReset>>
      /\ pc \in BatchPCs \cup {"tool"} /\ pc' \in BatchPCs \cup {"tool"}
  BY DEF StartCall, PrepareImmediate, PreparedToolCall, PreflightDone, AllDone, NextCall,
         ResultReported, runVars, loopVars
<1>2. ResultsSoFar' = ResultsSoFar /\ Said' = Said
  BY <1>1 DEF ResultsSoFar, Said
<1>3. ~wasReset => SameText'
  BY <1>1, <1>2 DEF TextInv, SameText
<1>. QED
  BY <1>1, <1>2, <1>3, FrameTextInv DEF Failing

(* A result goes to the transcript, and is one of the results so far.      *)
LEMMA ResultTextInv ==
    ASSUME Inv1, BatchInv, ReportInv, TextInv, NEW i \in 1..idx, ReportResult(i)
    PROVE  TextInv'
<1>. USE DEF BatchPCs
<1>1. /\ UNCHANGED <<ctx, newMessages, wasReset, batch>>
      /\ messages' = Append(messages, ToolResult(batch[i]))
      /\ pc \in BatchPCs /\ pc' \in BatchPCs
  BY DEF ReportResult, runVars, loopVars
<1>2. i = nReported + 1 /\ nReported' = nReported + 1 /\ nReported \in Nat
  BY NextResult DEF ReportInv, Inv1, TypeOK, CallTypes
<1>3. ToolResult(batch[i]) \in Text /\ \A j \in 1..nReported : ToolResult(batch[j]) \in Text
  BY <1>2, Constructors DEF Inv1, TypeOK, CallTypes, ReportInv, Text
<1>4. ResultsSoFar \in Seq(Text)
  BY <1>2, <1>3 DEF ResultsSoFar
<1>5. ResultsSoFar' = Append(ResultsSoFar, ToolResult(batch[i]))
  BY <1>1, <1>2, <1>3 DEF ResultsSoFar
<1>6. ctx \o ResultsSoFar' = Append(ctx \o ResultsSoFar, ToolResult(batch[i]))
  BY <1>3, <1>4, <1>5, TextSequences
<1>7. Said' = Said
  BY <1>1 DEF Said
<1>. QED
  BY <1>1, <1>6, <1>7 DEF TextInv, SameText, Failing

(* The end of a batch adds all its results to the loop context.            *)
LEMMA EndBatchTextInv ==
    ASSUME Inv1, ReportInv, TextInv, EndBatch
    PROVE  TextInv'
<1>1. /\ UNCHANGED <<messages, wasReset>> /\ pc' = "turnEnd"
      /\ ctx' = ctx \o Results /\ newMessages' = newMessages \o Results
      /\ pc \in BatchPCs
  BY DEF EndBatch, Report, runVars, BatchPCs
<1>2. nReported = idx /\ idx \in Nat
  BY AllReported DEF Inv1, TypeOK, CallTypes
<1>3. Results = ResultsSoFar
  BY <1>2 DEF Results, ResultsSoFar
<1>4. \A j \in 1..idx : ToolResult(batch[j]) \in Text
  BY Constructors DEF Inv1, TypeOK, CallTypes, Text
<1>5. Results \in Seq(Text)
  BY <1>2, <1>4 DEF Results
<1>6. Said = ctx /\ Said' = ctx'
  BY <1>1 DEF Said, BatchPCs
<1>7. Suffix(newMessages, ctx)
  BY <1>1, <1>6 DEF TextInv, Failing, BatchPCs
<1>8. Suffix(newMessages', Said')
  BY <1>1, <1>5, <1>6, <1>7, SuffixConcat, TextSequences
<1>9. ~wasReset => messages' = Said'
  BY <1>1, <1>3, <1>6 DEF TextInv, SameText
<1>. QED
  BY <1>1, <1>8, <1>9 DEF TextInv, SameText, BatchPCs

(* In every state context, transcript and report agree as far as the loop  *)
(* has come.                                                               *)
LEMMA TextsAgree == Spec => []TextInv
<1>1. Inv1 /\ CallInv /\ BatchInv /\ ReportInv /\ TextInv /\ [Next]_vars => TextInv'
  <2>. SUFFICES ASSUME Inv1, CallInv, BatchInv, ReportInv, TextInv, [Next]_vars
                PROVE  TextInv'
    OBVIOUS
  <2>1. CASE \/ StreamStart \/ (\E k \in 0..MaxBatch, stop \in Stops : StreamDone(k, stop))
             \/ (\E i \in 1..idx : ReportResult(i)) \/ EndBatch
    BY <2>1, StreamTextInv, ResultTextInv, EndBatchTextInv
  <2>2. CASE finishRun \/ CallFailed \/ FailureMessage \/ FailureEnd \/ LoopThrows
    <3>1. pc' \in {"idle"} \cup Failing
      BY <2>2
         DEF finishRun, CallFailed, FailureMessage, FailureEnd, LoopThrows, RunFails, Failing
    <3>. QED
      BY <3>1, FailTextInv
  <2>3. CASE EmitPrompt \/ InjectMessage \/ MessageInjected
    BY <2>3, InjectTextInv
  <2>4. CASE PollSteering \/ EnterTurn \/ PollFollowUps \/ CallModel
    BY <2>4, TurnTextInv
  <2>5. CASE batch' = batch /\ nReported' = nReported
    <3>1. CASE App
      BY <2>5, <3>1, AppTextInv
    <3>2. CASE Answered
      BY <2>5, <3>2, AnsweredTextInv
    <3>3. CASE \/ StartCall \/ PrepareImmediate \/ PreparedToolCall \/ PreflightDone
               \/ AllDone \/ NextCall
      BY <2>5, <3>3, BatchTextInv
    <3>4. CASE \/ UNCHANGED vars
               \/ \E c \in Calls : Call(c) \/ CallUpdates(c) \/ CallListenerThrows(c)
      <4>1. UNCHANGED <<ctx, messages, newMessages, pending, pc, wasReset>>
        BY <3>4
           DEF vars, Call, UpdateHeard, CallSettles, CallRejects, EndHeard, CallEnds,
               CallUpdates, CallListenerThrows, runVars, loopVars, toolVars
      <4>2. Said' = Said /\ ResultsSoFar' = ResultsSoFar
        BY <2>5, <4>1 DEF Said, ResultsSoFar
      <4>. QED
        BY <4>1, <4>2 DEF TextInv, SameText
    <3>. QED
      BY <2>1, <2>2, <2>3, <2>4, <3>1, <3>2, <3>3, <3>4 DEF Next, Loop
  <2>. QED
    BY <2>1, <2>2, <2>5, StepReported
<1>. QED
  BY InitTextInv, Typing, ResultsInOrder, <1>1, PTL DEF Spec

(* The model is called with exactly the transcript the application sees,   *)
(* whatever was streamed, answered by tools or injected before.            *)
THEOREM ContextCorrect == Spec => []ContextIsTranscript
<1>1. TextInv => ContextIsTranscript
  BY DEF TextInv, SameText, Said, ContextIsTranscript
<1>. QED
  BY TextsAgree, <1>1, PTL

(* The messages that agent_end reports are those the run added at the end  *)
(* of the transcript.                                                      *)
THEOREM ReportCorrect == Spec => []AgentEndReportsRun
<1>1. TextInv => AgentEndReportsRun
  BY DEF TextInv, SameText, Said, AgentEndReportsRun, Failing
<1>. QED
  BY TextsAgree, <1>1, PTL

-----------------------------------------------------------------------------
(* The agent implements the abstract transcript.                           *)

(* The open calls stay the same when no result is added.                   *)
LEMMA OpenSame ==
    ASSUME batch' = batch, nReported' = nReported,
           pc \in {"failureMessage", "failureEnd"} <=> pc' \in {"failureMessage", "failureEnd"}
    PROVE  OpenCalls' = OpenCalls
BY DEF OpenCalls

(* Between turns, and at the end of a run, no call is open unless the run  *)
(* was aborted.                                                            *)
LEMMA TurnOpen ==
    ASSUME Inv1, BatchInv, ReportInv, pc \in TurnPCs \cup {"prompts"}
    PROVE  Active /\ (OpenCalls = <<>> \/ Broken)
<1>1. Active
  BY DEF Active, Inv1, Control, TurnPCs
<1>2. batch \in Seq(Calls) /\ idx \in Nat /\ Len(batch) \in Nat
  BY DEF Inv1, TypeOK, CallTypes
<1>3. CASE nReported = Len(batch)
  <2>1. SubSeq(batch, nReported + 1, Len(batch)) = <<>>
    BY <1>2, <1>3, SubSeqEmpty
  <2>. QED
    BY <1>1, <2>1 DEF OpenCalls
<1>4. CASE pc = "prompts"
  <2>1. nReported = Len(batch)
    BY <1>4 DEF BatchInv, ModeControl, ReportInv, Inv1, TypeOK, CallTypes
  <2>. QED
    BY <1>3, <2>1
<1>5. CASE pc \in TurnPCs /\ aborted
  BY <1>1, <1>5 DEF Broken
<1>. QED
  BY <1>1, <1>3, <1>4, <1>5 DEF ReportInv, ReportControl

(* The initial states correspond.                                          *)
LEMMA InitTranscript == Init => T!TInit
<1>. SUFFICES ASSUME Init PROVE T!TInit
  OBVIOUS
<1>1. messages = <<>> /\ Active = FALSE /\ Broken = FALSE
  BY DEF Init, NewState, Active, Broken
<1>2. batch = <<>> /\ pc = "idle"
  BY DEF Init
<1>3. nReported = 0
  BY <1>2, FS_EmptySet DEF nReported, Reported
<1>4. OpenCalls = <<>>
  BY <1>2, <1>3 DEF OpenCalls
<1>. QED
  BY <1>1, <1>4 DEF T!TInit

(* The transcript's words are the agent's: both take them from Messages.   *)
LEMMA SameWords ==
    /\ T!UserMessage = UserMessage /\ T!Calls = Calls /\ T!Stops = Stops
    /\ \A calls, stop : T!Assistant(calls, stop) = Assistant(calls, stop)
    /\ \A c : T!ToolResult(c) = ToolResult(c)
BY DEF T!UserMessage, UserMessage, T!Msgs, Msgs, T!Vias, Vias, T!Calls, Calls, T!Stops, Stops,
       T!Assistant, Assistant, T!ToolResult, ToolResult

(* Each of these steps is one of the abstract transcript or leaves it      *)
(* alone.                                                                  *)
LEMMA StayTranscript ==
    ASSUME UNCHANGED <<messages, OpenCalls, Active, Broken>>
    PROVE  UNCHANGED T!tvars
BY DEF T!tvars

(* The run goes on: neither its end nor its failure.                       *)
LEMMA GoesOn ==
    ASSUME Inv1, UNCHANGED <<activeRun, aborted>>, pc' \notin Failing, pc \notin Failing
    PROVE  Active' = Active /\ Broken' = Broken
BY DEF Active, Broken

(* The application begins runs, breaks them off and clears the transcript. *)
LEMMA AppTranscript ==
    ASSUME Inv1, BatchInv, ReportInv, App, batch' = batch, nReported' = nReported
    PROVE  [T!TNext]_(T!tvars)
<1>1. CASE steer \/ followUp \/ clearSteeringQueue \/ clearFollowUpQueue \/ setQueueMode
  <2>1. UNCHANGED <<messages, activeRun, aborted, pc>>
    BY <1>1 DEF steer, followUp, clearSteeringQueue, clearFollowUpQueue, setQueueMode,
                runVars, histVars
  <2>2. UNCHANGED <<messages, OpenCalls, Active, Broken>>
    BY <2>1, OpenSame DEF Active, Broken
  <2>. QED
    BY <2>2, StayTranscript
<1>2. CASE abort
  <2>1. activeRun # 0 /\ aborted' = TRUE /\ UNCHANGED <<activeRun, messages, pc>>
    BY <1>2 DEF abort
  <2>2. Active /\ Active' = Active /\ Broken' = TRUE /\ OpenCalls' = OpenCalls
    BY <2>1, OpenSame DEF Active, Broken
  <2>3. T!Break
    BY <2>1, <2>2 DEF T!Break
  <2>. QED
    BY <2>3 DEF T!TNext
<1>3. CASE reset
  <2>1. messages' = <<>> /\ UNCHANGED <<activeRun, aborted, pc>>
    BY <1>3 DEF reset
  <2>2. Active' = Active /\ Broken' = Broken /\ OpenCalls' = OpenCalls
    BY <2>1, OpenSame DEF Active, Broken
  <2>3. T!Clear
    BY <2>1, <2>2 DEF T!Clear
  <2>. QED
    BY <2>3 DEF T!TNext
<1>4. ASSUME NEW prompts, NEW skip, StartRun(prompts, skip)
      PROVE  T!Begin
  <2>1. /\ activeRun = 0 /\ activeRun' # 0 /\ aborted' = FALSE /\ messages' = messages
        /\ pc = "idle" /\ pc' = "prompts"
    BY <1>4, BoundsAssumption DEF StartRun, Inv1, TypeOK, RunTypes, Control
  <2>2. ~Active /\ Active' = TRUE /\ Broken' = FALSE
    BY <2>1 DEF Active, Broken, Failing
  <2>3. batch' = <<>>
    BY <2>1 DEF BatchInv, ModeControl
  <2>4. nReported' = 0
    BY <2>3 DEF ReportInv, Inv1, TypeOK, CallTypes
  <2>5. OpenCalls' = <<>>
    BY <2>1, <2>3, <2>4 DEF OpenCalls
  <2>. QED
    BY <2>1, <2>2, <2>5 DEF T!Begin
<1>. QED
  BY <1>1, <1>2, <1>3, <1>4
     DEF App, continueQueued, continueTranscript, prompt, T!TNext

(* A user message is said when no call is open.                            *)
LEMMA UserTranscript ==
    ASSUME Inv1, BatchInv, ReportInv, EmitPrompt \/ InjectMessage,
           batch' = batch, nReported' = nReported
    PROVE  [T!TNext]_(T!tvars)
<1>1. /\ pc \in {"prompts", "inject"} /\ pc' \in {"prompts", "injected"}
      /\ messages' = Append(messages, Head(pending)) /\ pending # <<>>
      /\ UNCHANGED <<activeRun, aborted>>
  BY DEF EmitPrompt, InjectMessage, runVars
<1>2. Head(pending) \in UserMessage
  BY <1>1, UserSequences DEF Inv1, TypeOK, TextTypes
<1>3. Active' = Active /\ Broken' = Broken /\ OpenCalls' = OpenCalls
  BY <1>1, GoesOn, OpenSame DEF Failing
<1>4. T!MayContinue
  BY <1>1, TurnOpen DEF T!MayContinue, TurnPCs
<1>5. T!SayUser(Head(pending))
  BY <1>1, <1>3, <1>4 DEF T!SayUser
<1>. QED
  BY <1>2, <1>5, SameWords DEF T!TNext

(* An answer of the model is said when no call is open and opens its own.  *)
LEMMA AnswerTranscript ==
    ASSUME Inv1, BatchInv, ReportInv, ReportInv', NEW k \in 0..MaxBatch, NEW stop \in Stops,
           StreamDone(k, stop)
    PROVE  [T!TNext]_(T!tvars)
<1>. DEFINE calls == [i \in 1..k |-> nCalls + i]
<1>1. /\ pc \in {"calling", "streaming"} /\ pc' = "answered"
      /\ batch' = (IF stop = "stop" THEN calls ELSE <<>>) /\ idx' = 0
      /\ messages' = Append(messages, Assistant(calls, stop))
      /\ UNCHANGED <<activeRun, aborted>>
      /\ nCalls + k <= MaxCalls /\ k \in Nat /\ nCalls \in Nat /\ MaxCalls \in Nat
  BY BoundsAssumption, MessageBounds DEF StreamDone, Inv1, TypeOK, CallTypes, runVars
<1>2. calls \in [1..k -> Calls] /\ k \in 0..MaxCalls
  BY <1>1 DEF Calls
<1>3. calls \in T!Batches
  BY <1>2, SameWords DEF T!Batches
<1>4. calls \in Seq(Calls)
  BY <1>2
<1>. HIDE DEF calls
<1>5. nReported' = 0
  BY <1>1 DEF ReportInv, ReportControl
<1>6. OpenCalls' = (IF stop = "stop" THEN calls ELSE <<>>)
  <2>1. batch' \in Seq(Calls)
    BY <1>1, <1>4
  <2>2. SubSeq(batch', 1, Len(batch')) = batch'
    BY <2>1
  <2>. QED
    BY <1>1, <1>5, <2>2 DEF OpenCalls
<1>7. Active' = Active /\ Broken' = Broken
  BY <1>1, GoesOn DEF Failing
<1>8. T!MayContinue
  BY <1>1, TurnOpen DEF T!MayContinue, TurnPCs
<1>9. T!SayAssistant(calls, stop)
  BY <1>1, <1>6, <1>7, <1>8, SameWords DEF T!SayAssistant
<1>. QED
  BY <1>3, <1>9, SameWords DEF T!TNext

(* A result answers the first open call.                                   *)
LEMMA ResultTranscript ==
    ASSUME Inv1, BatchInv, ReportInv, NEW i \in 1..idx, ReportResult(i)
    PROVE  [T!TNext]_(T!tvars)
<1>1. /\ pc \in {"joining", "reporting"} /\ pc' \in {"reported", "reporting"}
      /\ messages' = Append(messages, ToolResult(batch[i]))
      /\ UNCHANGED <<activeRun, aborted, batch>>
  BY DEF ReportResult, runVars
<1>2. /\ i = nReported + 1 /\ nReported' = nReported + 1 /\ nReported \in Nat
      /\ batch \in Seq(Calls) /\ i <= Len(batch) /\ Len(batch) \in Nat
  BY NextResult DEF ReportInv, Inv1, TypeOK, CallTypes
<1>3. OpenCalls = SubSeq(batch, i, Len(batch)) /\ OpenCalls' = SubSeq(batch, i + 1, Len(batch))
  BY <1>1, <1>2 DEF OpenCalls
<1>4. /\ OpenCalls # <<>> /\ Head(OpenCalls) = batch[i]
      /\ Tail(OpenCalls) = SubSeq(batch, i + 1, Len(batch))
  <2>1. i \in 1..Len(batch) /\ Len(batch) \in i..Len(batch)
    BY <1>2
  <2>2. i \in Int /\ i >= 1 /\ \A j \in i..Len(batch) : batch[j] \in Calls
    BY <1>2
  <2>3. OpenCalls # <<>>
    <3>1. Len(SubSeq(batch, i, Len(batch))) = (IF i <= Len(batch) THEN Len(batch) - i + 1 ELSE 0)
      BY <1>2, <2>2, SubSeqProperties
    <3>2. Len(OpenCalls) = Len(batch) - i + 1
      BY <1>2, <1>3, <3>1
    <3>. QED
      BY <1>2, <3>2, EmptySeq
  <2>4. /\ Head(SubSeq(batch, i, Len(batch))) = batch[i]
        /\ Tail(SubSeq(batch, i, Len(batch))) = SubSeq(batch, i + 1, Len(batch))
    BY <1>2, <2>1, HeadTailOfSubSeq
  <2>. QED
    BY <1>3, <2>3, <2>4
<1>5. Active /\ Active' = Active /\ Broken' = Broken
  BY <1>1, GoesOn DEF Failing, Active, Inv1, Control
<1>6. T!Answer
  BY <1>1, <1>3, <1>4, <1>5, SameWords DEF T!Answer
<1>. QED
  BY <1>6 DEF T!TNext

(* An exception breaks the run, and its message ends what was said.        *)
LEMMA FailTranscript ==
    ASSUME Inv1, BatchInv, ReportInv, CallFailed \/ LoopThrows \/ FailureMessage,
           batch' = batch, nReported' = nReported
    PROVE  [T!TNext]_(T!tvars)
<1>1. CASE CallFailed \/ LoopThrows
  <2>1. /\ pc \notin {"idle"} \cup Failing /\ pc' = "failure"
        /\ UNCHANGED <<activeRun, aborted, messages>>
    BY <1>1 DEF CallFailed, LoopThrows, RunFails, runVars, Failing
  <2>2. Active /\ Active' = Active /\ Broken' = TRUE /\ OpenCalls' = OpenCalls
    BY <2>1, OpenSame DEF Active, Broken, Failing, Inv1, Control
  <2>3. T!Break
    BY <2>1, <2>2 DEF T!Break
  <2>. QED
    BY <2>3 DEF T!TNext
<1>2. CASE FailureMessage
  <2>. DEFINE stop == IF aborted THEN "aborted" ELSE "error"
  <2>1. /\ pc = "failure" /\ pc' = "failureMessage"
        /\ messages' = Append(messages, Assistant(<<>>, stop))
        /\ UNCHANGED <<activeRun, aborted>>
    BY <1>2 DEF FailureMessage, runVars
  <2>2. stop \in Stops /\ stop # "stop"
    BY DEF Stops
  <2>3. <<>> \in T!Batches
    <3>1. <<>> \in [1..0 -> Calls] /\ 0 \in 0..MaxCalls
      BY MessageBounds
    <3>. QED
      BY <3>1 DEF T!Batches
  <2>4. Active /\ Active' = Active /\ Broken /\ Broken' = Broken /\ OpenCalls' = <<>>
    BY <2>1 DEF Active, Broken, Failing, Inv1, Control, OpenCalls
  <2>. HIDE DEF stop
  <2>5. T!SayAssistant(<<>>, stop)
    BY <2>1, <2>2, <2>4, SameWords DEF T!SayAssistant, T!MayContinue
  <2>. QED
    BY <2>2, <2>3, <2>5, SameWords DEF T!TNext
<1>. QED
  BY <1>1, <1>2

(* The end of a run closes what is open.                                   *)
LEMMA FinishTranscript ==
    ASSUME Inv1, BatchInv, ReportInv, finishRun
    PROVE  [T!TNext]_(T!tvars)
<1>1. /\ pc \in {"ended"} \cup Failing /\ pc' = "idle" /\ activeRun' = 0
      /\ messages' = messages /\ batch' = <<>>
  BY DEF finishRun, Failing
<1>2. Active' = FALSE /\ Broken' = FALSE
  BY <1>1 DEF Active, Broken
<1>3. nReported' = 0
  BY <1>1, FS_EmptySet DEF nReported, Reported
<1>4. OpenCalls' = <<>>
  BY <1>1, <1>3 DEF OpenCalls
<1>5. T!MayContinue
  <2>1. CASE pc = "ended"
    BY <2>1, TurnOpen DEF T!MayContinue, TurnPCs
  <2>2. CASE pc \in Failing
    BY <2>2 DEF T!MayContinue, Active, Broken, Failing, Inv1, Control
  <2>. QED
    BY <1>1, <2>1, <2>2
<1>6. T!End
  BY <1>1, <1>2, <1>4, <1>5 DEF T!End
<1>. QED
  BY <1>6 DEF T!TNext

(* The rest of the agent's steps leave what the transcript promises alone. *)
LEMMA QuietTranscript ==
    ASSUME Inv1, batch' = batch, nReported' = nReported,
           \/ PollSteering \/ EnterTurn \/ PollFollowUps \/ MessageInjected \/ CallModel
           \/ StreamStart \/ Answered \/ StartCall \/ PrepareImmediate \/ PreparedToolCall
           \/ PreflightDone \/ AllDone \/ NextCall \/ EndBatch \/ FailureEnd
           \/ UNCHANGED vars
           \/ \E c \in Calls : Call(c) \/ CallUpdates(c) \/ CallListenerThrows(c)
    PROVE  [T!TNext]_(T!tvars)
<1>1. UNCHANGED <<messages, activeRun, aborted>>
  <2>1. CASE \/ PollSteering \/ EnterTurn \/ PollFollowUps \/ MessageInjected \/ CallModel
             \/ StreamStart \/ Answered \/ StartCall \/ PrepareImmediate
    BY <2>1 DEF PollSteering, EnterTurn, PollFollowUps, MessageInjected, CallModel,
                StreamStart, KeepTranscript, Answered, StartCall, PrepareImmediate, runVars
  <2>2. CASE \/ PreparedToolCall \/ PreflightDone \/ AllDone \/ NextCall \/ EndBatch
             \/ FailureEnd \/ UNCHANGED vars
    BY <2>2 DEF PreparedToolCall, PreflightDone, AllDone, NextCall, EndBatch, FailureEnd,
                vars, runVars
  <2>3. CASE \E c \in Calls : Call(c) \/ CallUpdates(c) \/ CallListenerThrows(c)
    BY <2>3 DEF Call, UpdateHeard, CallSettles, CallRejects, EndHeard, CallEnds, CallUpdates,
                CallListenerThrows, runVars
  <2>. QED
    BY <2>1, <2>2, <2>3
<1>2. /\ pc \in Failing <=> pc' \in Failing
      /\ pc \in {"failureMessage", "failureEnd"} <=> pc' \in {"failureMessage", "failureEnd"}
  <2>1. CASE \/ PollSteering \/ EnterTurn \/ PollFollowUps \/ MessageInjected \/ CallModel
             \/ StreamStart \/ Answered \/ StartCall \/ PrepareImmediate
    BY <2>1 DEF PollSteering, EnterTurn, PollFollowUps, MessageInjected, CallModel,
                StreamStart, Answered, EndLoop, StartCall, PrepareImmediate, Failing
  <2>2. CASE \/ PreparedToolCall \/ PreflightDone \/ AllDone \/ NextCall \/ EndBatch
             \/ FailureEnd \/ UNCHANGED vars
    BY <2>2 DEF PreparedToolCall, PreflightDone, AllDone, NextCall, ResultReported, EndBatch,
                FailureEnd, vars, Failing
  <2>3. CASE \E c \in Calls : Call(c) \/ CallUpdates(c) \/ CallListenerThrows(c)
    BY <2>3 DEF Call, UpdateHeard, CallSettles, CallRejects, EndHeard, CallEnds, CallUpdates,
                CallListenerThrows
  <2>. QED
    BY <2>1, <2>2, <2>3
<1>3. UNCHANGED <<messages, OpenCalls, Active, Broken>>
  BY <1>1, <1>2, OpenSame DEF Active, Broken
<1>. QED
  BY <1>3, StayTranscript

(* The agent implements the transcript: what is said and when, the order   *)
(* of the results and what an abort or an exception allows, for any number *)
(* of runs, messages, calls and exceptions.                                *)
THEOREM AgentImplementsTranscript == Spec => ImplementsTranscript
<1>1. Inv1 /\ CallInv /\ BatchInv /\ ReportInv /\ ReportInv' /\ [Next]_vars
        => [T!TNext]_(T!tvars)
  <2>. SUFFICES ASSUME Inv1, CallInv, BatchInv, ReportInv, ReportInv', [Next]_vars
                PROVE  [T!TNext]_(T!tvars)
    OBVIOUS
  <2>1. CASE \/ \E k \in 0..MaxBatch, stop \in Stops : StreamDone(k, stop)
             \/ \E i \in 1..idx : ReportResult(i)
             \/ finishRun
    BY <2>1, AnswerTranscript, ResultTranscript, FinishTranscript
  <2>2. CASE batch' = batch /\ nReported' = nReported
    <3>1. CASE App
      BY <2>2, <3>1, AppTranscript
    <3>2. CASE EmitPrompt \/ InjectMessage
      BY <2>2, <3>2, UserTranscript
    <3>3. CASE CallFailed \/ LoopThrows \/ FailureMessage
      BY <2>2, <3>3, FailTranscript
    <3>. QED
      BY <2>1, <2>2, <3>1, <3>2, <3>3, QuietTranscript DEF Next, Loop
  <2>. QED
    BY <2>1, <2>2, StepReported
<1>. QED
  BY InitTranscript, ResultsInOrder, <1>1, PTL DEF Spec, ImplementsTranscript, T!TSpec
=============================================================================
