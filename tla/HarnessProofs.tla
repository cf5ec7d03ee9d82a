--------------------------- MODULE HarnessProofs ---------------------------
(***************************************************************************)
(* Types of the harness; and, while operations start one after another:    *)
(* the harness is free again when an operation is over, however it failed, *)
(* abort returns only then, and each session write that waits while the    *)
(* harness is busy reaches the session once, in order.                     *)
(***************************************************************************)
EXTENDS AgentHarness, SequenceTheorems, TLAPS

Fields == DOMAIN NewOp
Shape == /\ DOMAIN op = Operations
         /\ \A o \in Operations : DOMAIN op[o] = Fields
         /\ started \in Nat

(* Where a turn's call is before its abort controller exists, and after.   *)
EarlyPCs == {"snapshot", "start", "nextTurn", "hook"}
LoopPCs  == {"steer", "steerUpdate", "followUp", "followUpUpdate", "request", "response",
             "turnEnd", "settling", "finally"} \cup PersistPCs \cup FlushPCs
StructuralPCs == {"summarize", "announce"}

(* What the place of one call says of the harness.                         *)
Control(o) ==
    /\ op[o].pc \in PCs
    /\ op[o].pc \in EarlyPCs \cup LoopPCs => op[o].kind = "turn" /\ runPromise = o
    /\ op[o].pc \in EarlyPCs \cup StructuralPCs => runAbortController = 0
    /\ op[o].pc \in StructuralPCs => op[o].kind \in Structural /\ runPromise = 0
    /\ op[o].pc = "settling" \/ (op[o].pc = "lastFlush" /\ ~op[o].error) => phase = "idle"
    /\ op[o].pc = "finally" => op[o].error

Free == phase = "idle" /\ runPromise = 0 /\ runAbortController = 0

(* One operation at a time, and those not started yet have no state.       *)
Alone ==
    /\ \A o \in Operations : op[o].pc # "none" => o <= started
    /\ \A o, p \in Operations : Active(o) /\ Active(p) => o = p

BusyInv == Shape /\ (\A o \in Operations : Control(o)) /\ Alone /\ Released

(* What a step of an active call leaves alone, and what it ends with.      *)
Others(o) == /\ DOMAIN op' = Operations
             /\ \A p \in Operations : p # o => op'[p] = op[p]
             /\ UNCHANGED <<abortCall, started>>
Ended(o)  == /\ DOMAIN op'[o] = Fields /\ op'[o].kind = op[o].kind
             /\ Active(o) /\ op'[o].pc # "none"
             /\ Control(o)'
             /\ op'[o].pc = "done" => Free'

-----------------------------------------------------------------------------
(* What throws in the loop is reported, or ends the call if the report does. *)
LEMMA FailedCall ==
    ASSUME NEW c, DOMAIN c = Fields
    PROVE  /\ DOMAIN Failed(c) = Fields /\ Failed(c).kind = c.kind
           /\ Failed(c).pc \in {"output", "lastFlush"}
           /\ Failed(c).pc = "lastFlush" => Failed(c).error
BY DEF Failed, Fields, NewOp

LEMMA FailsBusy ==
    ASSUME NEW o \in Operations, Shape, Control(o), op[o].pc \in LoopPCs, Fails(o),
           UNCHANGED <<core, abortCall, started>>
    PROVE  Others(o) /\ Ended(o)
<1>1. /\ DOMAIN op' = Operations /\ op'[o] = Failed(op[o])
      /\ \A p \in Operations : p # o => op'[p] = op[p]
  BY DEF Fails, Shape
<1>. QED
  BY <1>1, FailedCall DEF Shape, Control, Others, Ended, Active, core, EarlyPCs, LoopPCs,
     StructuralPCs, PCs, PersistPCs, FlushPCs

(* The answer of the model changes no more of its call than this.          *)
LEMMA ResponseEffect ==
    ASSUME NEW o \in DOMAIN op, DOMAIN op[o] = Fields, Response(o)
    PROVE  /\ DOMAIN op' = DOMAIN op /\ \A p \in DOMAIN op : p # o => op'[p] = op[p]
           /\ DOMAIN op'[o] = Fields /\ op'[o].pc = "output"
           /\ \A f \in {"kind", "error"} :
                 op'[o][f] = op[o][f]
BY SMTT(30) DEF Response, Fields, NewOp

LEMMA StepBusy ==
    ASSUME NEW o \in Operations, Shape, Control(o), Step(o)
    PROVE  Others(o) /\ Ended(o)
<1>. USE DEF Shape, Control, Others, Ended, Active, Free, core, counts, EarlyPCs, LoopPCs,
   StructuralPCs, PCs, PersistPCs, FlushPCs, Fields, NewOp, Goto
<1>1. CASE Summarize(o)
  BY <1>1 DEF Summarize
<1>2. CASE Announce(o)
  BY <1>2 DEF Announce
<1>3. CASE Snapshot(o)
  BY <1>3 DEF Snapshot
<1>4. CASE StartThrows(o)
  BY <1>4 DEF StartThrows, Rejected
<1>5. CASE TakeNextTurn(o)
  BY <1>5 DEF TakeNextTurn
<1>6. CASE NextTurnTaken(o)
  BY <1>6 DEF NextTurnTaken, Rejected
<1>7. CASE BeforeAgentStart(o)
  <2>1. CASE Goto(o, "done") /\ Rejected(o)
    BY <1>7, <2>1 DEF BeforeAgentStart, Rejected
  <2>2. CASE op' = [op EXCEPT ![o].context = @ \o op[o].messages, ![o].pc = "prompts"]
    BY <1>7, <2>2 DEF BeforeAgentStart
  <2>. QED
    BY <1>7, <2>1, <2>2 DEF BeforeAgentStart
<1>8. CASE MessageEnd(o)
  <2>1. CASE Fails(o)
    BY <1>8, <2>1, FailsBusy DEF MessageEnd
  <2>2. CASE ~Fails(o)
    BY <1>8, <2>2 DEF MessageEnd
  <2>. QED
    BY <2>1, <2>2
<1>9. CASE MessagesEnded(o)
  BY <1>9 DEF MessagesEnded
<1>10. CASE DrainQueues(o)
  <2>1. CASE Fails(o)
    BY <1>10, <2>1, FailsBusy DEF DrainQueues, Drain, Drained
  <2>2. CASE Drain(o, "steer", "steerUpdate", steerQueue)
    <3>1. PICK n \in {1, Len(steerQueue)} :
             op' = [op EXCEPT ![o].holding = SubSeq(steerQueue, 1, n), ![o].dead = FALSE,
                              ![o].pc = "steerUpdate"]
      BY <2>2 DEF Drain
    <3>. QED
      BY ZenonT(60), <1>10, <2>2, <3>1 DEF DrainQueues, Drain
  <2>3. CASE Drain(o, "followUp", "followUpUpdate", followUpQueue)
    <3>1. PICK n \in {1, Len(followUpQueue)} :
             op' = [op EXCEPT ![o].holding = SubSeq(followUpQueue, 1, n), ![o].dead = FALSE,
                              ![o].pc = "followUpUpdate"]
      BY <2>3 DEF Drain
    <3>. QED
      BY ZenonT(60), <1>10, <2>3, <3>1 DEF DrainQueues, Drain
  <2>4. CASE /\ op[o].pc \in {"steerUpdate", "followUpUpdate"}
             /\ op' = [op EXCEPT ![o].messages = op[o].holding, ![o].holding = <<>>,
                                 ![o].context = @ \o op[o].holding, ![o].pc = "pending"]
    BY <1>10, <2>4 DEF DrainQueues
  <2>. QED
    BY <1>10, <2>1, <2>2, <2>3, <2>4 DEF DrainQueues, Drained
<1>11. CASE NothingQueued(o)
  BY <1>11 DEF NothingQueued
<1>12. CASE Request(o)
  <2>1. CASE Fails(o)
    BY <1>12, <2>1, FailsBusy DEF Request
  <2>2. CASE ~Fails(o)
    BY <1>12, <2>2 DEF Request
  <2>. QED
    BY <2>1, <2>2
<1>13. CASE Response(o)
  <2>1. op[o].pc = "response" /\ UNCHANGED <<core, abortCall, started>>
    BY <1>13 DEF Response
  <2>. QED
    BY <1>13, <2>1, ResponseEffect
<1>14. CASE TurnEnd(o)
  BY <1>14 DEF TurnEnd
<1>15. CASE Flush(o)
  BY <1>15 DEF Flush
<1>16. CASE Flushed(o)
  <2>1. CASE Fails(o)
    BY <1>16, <2>1, FailsBusy DEF Flushed, FlushFails
  <2>2. CASE ~Fails(o)
    BY <1>16, <2>2 DEF Flushed, FlushFails
  <2>. QED
    BY <2>1, <2>2
<1>17. CASE SavePoint(o)
  <2>1. CASE Fails(o)
    BY <1>17, <2>1, FailsBusy DEF SavePoint, FlushedAll
  <2>2. CASE ~Fails(o)
    BY <1>17, <2>2 DEF SavePoint, FlushedAll
  <2>. QED
    BY <2>1, <2>2
<1>18. CASE PrepareNextTurn(o)
  <2>1. CASE Fails(o)
    BY <1>18, <2>1, FailsBusy DEF PrepareNextTurn, FlushedAll
  <2>2. CASE ~Fails(o)
    BY <1>18, <2>2 DEF PrepareNextTurn, FlushedAll
  <2>. QED
    BY <2>1, <2>2
<1>19. CASE AgentEnd(o)
  BY <1>19 DEF AgentEnd, FlushedAll
<1>20. CASE Settled(o)
  <2>1. CASE Fails(o)
    BY <1>20, <2>1, FailsBusy DEF Settled
  <2>2. CASE ~Fails(o)
    BY <1>20, <2>2 DEF Settled
  <2>. QED
    BY <2>1, <2>2
<1>21. CASE Finally(o)
  BY <1>21 DEF Finally, Rejected, FlushedAll
<1>. QED
  BY <1>1, <1>2, <1>3, <1>4, <1>5, <1>6, <1>7, <1>8, <1>9, <1>10, <1>11, <1>12, <1>13, <1>14,
     <1>15, <1>16, <1>17, <1>18, <1>19, <1>20, <1>21 DEF Step

-----------------------------------------------------------------------------
(* An operation starts when no other is active.                            *)
LEMMA StartBusy ==
    ASSUME Reentrant = FALSE, BusyInv, NEW kind, NEW c, Start(kind),
           op' = [op EXCEPT ![started + 1] = c], DOMAIN c = Fields,
           \/ c.pc = "snapshot" /\ c.kind = "turn" /\ runPromise' = started + 1
           \/ c.pc = "summarize" /\ c.kind \in Structural /\ UNCHANGED runPromise,
           UNCHANGED runAbortController
    PROVE  BusyInv' /\ op[started + 1].pc = "none"
<1>1. PICK new \in Operations : new = started + 1
  BY BoundsAssumption DEF Start, Operations, BusyInv, Shape
<1>2. started' = new /\ new \in Nat /\ \A o \in Operations : ~Active(o)
  BY <1>1 DEF Start, BusyInv, Shape
<1>3. op[new].pc = "none"
  BY <1>1, <1>2 DEF BusyInv, Alone, Active, Shape, Operations
<1>4. Shape' /\ op'[new] = c /\ \A p \in Operations : p # new => op'[p] = op[p]
  BY <1>1, <1>2 DEF BusyInv, Shape
<1>5. Free
  BY <1>2 DEF BusyInv, Released, Free
<1>6. \A p \in Operations : p # new => Control(p)'
  BY <1>2, <1>4 DEF BusyInv, Control, Active, EarlyPCs, LoopPCs, StructuralPCs, PersistPCs, FlushPCs
<1>7. Control(new)'
  BY <1>1, <1>4, <1>5 DEF Free, Control, PCs, EarlyPCs, LoopPCs, StructuralPCs, PersistPCs, FlushPCs
<1>8. Active(new)' /\ \A p \in Operations : Active(p)' => p = new
  BY <1>2, <1>4 DEF Active
<1>9. Alone'
  BY <1>1, <1>2, <1>4, <1>8 DEF BusyInv, Alone, Shape, Operations
<1>. QED
  BY <1>1, <1>3, <1>4, <1>6, <1>7, <1>8, <1>9 DEF BusyInv, Released

(* A step of the active call.                                              *)
LEMMA OperationBusy ==
    ASSUME BusyInv, NEW o \in Operations, Others(o), Ended(o)
    PROVE  BusyInv'
<1>1. Shape' /\ started' = started
  BY DEF BusyInv, Shape, Others, Ended
<1>2. \A p \in Operations : p # o => ~Active(p) /\ ~Active(p)' /\ op'[p] = op[p]
  BY DEF BusyInv, Alone, Others, Ended, Active
<1>3. \A p \in Operations : p # o => Control(p)'
  BY <1>2 DEF BusyInv, Control, Active, EarlyPCs, LoopPCs, StructuralPCs, PersistPCs, FlushPCs
<1>4. Alone'
  BY <1>1, <1>2 DEF BusyInv, Alone, Ended, Active
<1>5. Released'
  BY <1>2 DEF Released, Ended, Free, Active
<1>. QED
  BY <1>1, <1>3, <1>4, <1>5 DEF BusyInv, Ended

(* Nothing that BusyInv is about changes but the signal of a call.         *)
LEMMA SignalBusy ==
    ASSUME BusyInv, UNCHANGED <<core, started>>, DOMAIN op' = Operations,
           \A o \in Operations : /\ DOMAIN op'[o] = DOMAIN op[o] /\ op'[o].pc = op[o].pc
                                 /\ op'[o].kind = op[o].kind /\ op'[o].error = op[o].error
    PROVE  BusyInv'
<1>1. Shape' /\ Alone'
  BY DEF BusyInv, Shape, Alone, Active
<1>2. \A o \in Operations : Control(o)'
  BY DEF BusyInv, Control, core
<1>3. Released'
  BY DEF BusyInv, Released, Active, core
<1>. QED
  BY <1>1, <1>2, <1>3 DEF BusyInv

LEMMA InitBusy == Init => BusyInv
BY BoundsAssumption DEF Init, BusyInv, Shape, Control, Alone, Released, Active, Fields, NewOp, PCs,
   EarlyPCs, LoopPCs, StructuralPCs, PersistPCs, FlushPCs, Operations

LEMMA NextBusy == ASSUME Reentrant = FALSE, BusyInv, [Next]_vars PROVE BusyInv'
<1>1. CASE prompt
  <2>. DEFINE c == [NewOp EXCEPT !.pc = "snapshot", !.messages = <<Item("prompt")>>]
  <2>1. DOMAIN c = Fields /\ c.pc = "snapshot" /\ c.kind = "turn"
    BY DEF NewOp, Fields
  <2>. QED
    BY <1>1, <2>1, StartBusy DEF prompt
<1>2. ASSUME NEW kind \in Structural, structural(kind) PROVE BusyInv'
  <2>. DEFINE c == [NewOp EXCEPT !.pc = "summarize", !.kind = kind]
  <2>1. DOMAIN c = Fields /\ c.pc = "summarize" /\ c.kind = kind
    BY DEF NewOp, Fields
  <2>. QED
    BY <1>2, <2>1, StartBusy DEF structural
<1>3. ASSUME NEW o \in Operations, Step(o) PROVE BusyInv'
  BY <1>3, StepBusy, OperationBusy DEF BusyInv
<1>4. CASE abort
  BY <1>4, SignalBusy DEF abort, BusyInv, Shape, Fields, NewOp
<1>5. CASE UNCHANGED <<core, started, op>>
  BY <1>5, SignalBusy DEF BusyInv, Shape
<1>6. CASE steer \/ followUp \/ nextTurn \/ write \/ UNCHANGED vars
  BY <1>5, <1>6 DEF steer, followUp, nextTurn, write, vars, counts
<1>7. CASE (\E item \in direct : DirectWritten(item)) \/ AbortWaits \/ Aborted
  BY <1>5, <1>7 DEF DirectWritten, AbortWaits, Aborted, counts
<1>. QED
  BY <1>1, <1>2, <1>3, <1>4, <1>6, <1>7 DEF Next, App

(* The harness is free whenever no operation is active, whichever listener,*)
(* hook, snapshot or append throws: prompt's catch and finally and that of *)
(* executeTurn leave no phase, run promise or controller behind.           *)
THEOREM AlwaysReleased == ASSUME Reentrant = FALSE PROVE Spec => []Released
<1>1. BusyInv /\ [Next]_vars => BusyInv'
  BY NextBusy
<1>. QED
  BY InitBusy, <1>1, PTL DEF Spec, BusyInv

-----------------------------------------------------------------------------
(* The runs that an abort is for have been started; those that are active  *)
(* are the one it waits for.                                               *)
AbortInv ==
    /\ DOMAIN abortCall = {"at", "of", "during"}
    /\ abortCall.at # "none" => \A o \in abortCall.during :
          /\ o \in Operations /\ op[o].pc # "none"
          /\ Active(o) => op[o].kind = "turn" /\ (abortCall.at = "waiting" => abortCall.of = o)

(* A call that has been started stays what it is, and none is reactivated. *)
Kept == \A o \in Operations : op[o].pc # "none" =>
            op'[o].pc # "none" /\ op'[o].kind = op[o].kind /\ (Active(o)' => Active(o))

LEMMA KeptAbort ==
    ASSUME AbortInv, Kept, UNCHANGED abortCall
    PROVE  AbortInv'
BY DEF AbortInv, Kept

LEMMA NextKept ==
    ASSUME Reentrant = FALSE, BusyInv, [Next]_vars
    PROVE  Kept
<1>1. ASSUME NEW kind, NEW c, Start(kind), op' = [op EXCEPT ![started + 1] = c] PROVE Kept
  <2>1. PICK new \in Operations : new = started + 1
    BY <1>1, BoundsAssumption DEF Start, Operations, BusyInv, Shape
  <2>2. \A o \in Operations : ~Active(o)
    BY <1>1 DEF Start
  <2>3. op[new].pc = "none"
    BY <2>1, <2>2 DEF BusyInv, Alone, Active, Shape, Operations
  <2>. QED
    BY <1>1, <2>1, <2>3 DEF Kept, BusyInv, Shape, Active
<1>2. CASE prompt
  BY <1>1, <1>2 DEF prompt
<1>3. ASSUME NEW kind \in Structural, structural(kind) PROVE Kept
  BY <1>1, <1>3 DEF structural
<1>4. ASSUME NEW o \in Operations, Step(o) PROVE Kept
  BY <1>4, StepBusy DEF BusyInv, Others, Ended, Kept, Active
<1>5. CASE abort
  BY <1>5 DEF abort, Kept, BusyInv, Shape, Active, Fields, NewOp
<1>6. CASE UNCHANGED op
  BY <1>6 DEF Kept, Active
<1>7. CASE steer \/ followUp \/ nextTurn \/ write \/ UNCHANGED vars
  BY <1>6, <1>7 DEF steer, followUp, nextTurn, write, vars
<1>8. CASE (\E item \in direct : DirectWritten(item)) \/ AbortWaits \/ Aborted
  BY <1>6, <1>8 DEF DirectWritten, AbortWaits, Aborted
<1>. QED
  BY <1>2, <1>3, <1>4, <1>5, <1>7, <1>8 DEF Next, App

LEMMA NextAbort ==
    ASSUME Reentrant = FALSE, BusyInv, AbortInv, [Next]_vars
    PROVE  AbortInv' /\ (abortCall.at = "waiting" /\ abortCall'.at = "none" => Aborted)
<1>. Kept
  BY NextKept
<1>1. CASE UNCHANGED abortCall
  BY <1>1, KeptAbort
<1>2. CASE abort
  <2>1. /\ abortCall.at = "none"
        /\ abortCall' = [at |-> "update", of |-> 0,
                         during |-> {o \in Operations : Active(o) /\ op[o].kind = "turn"}]
    BY <1>2 DEF abort
  <2>2. \A o \in Operations : Active(o) => op[o].pc # "none"
    BY DEF Active
  <2>. QED
    BY <2>1, <2>2 DEF AbortInv, Kept
<1>3. CASE AbortWaits
  <2>1. /\ abortCall.at = "update" /\ UNCHANGED op
        /\ abortCall' = [abortCall EXCEPT !.at = "waiting", !.of = runPromise]
    BY <1>3 DEF AbortWaits
  <2>2. \A o \in Operations : Active(o) /\ op[o].kind = "turn" => runPromise = o
    BY DEF BusyInv, Control, Active, PCs, EarlyPCs, LoopPCs, StructuralPCs, PersistPCs, FlushPCs,
       Structural
  <2>3. /\ DOMAIN abortCall' = {"at", "of", "during"} /\ abortCall'.during = abortCall.during
        /\ abortCall'.of = runPromise /\ abortCall'.at = "waiting"
    BY <2>1 DEF AbortInv
  <2>. QED
    BY <2>1, <2>2, <2>3 DEF AbortInv, Active
<1>4. CASE Aborted
  BY <1>4 DEF Aborted, AbortInv
<1>5. CASE prompt \/ steer \/ followUp \/ nextTurn \/ write \/ UNCHANGED vars
  BY <1>1, <1>5 DEF prompt, steer, followUp, nextTurn, write, vars
<1>6. CASE \E kind \in Structural : structural(kind)
  BY <1>1, <1>6 DEF structural
<1>7. ASSUME NEW o \in Operations, Step(o) PROVE UNCHANGED abortCall
  BY <1>7, StepBusy DEF BusyInv, Others
<1>8. CASE \E item \in direct : DirectWritten(item)
  BY <1>1, <1>8 DEF DirectWritten
<1>. QED
  BY <1>1, <1>2, <1>3, <1>4, <1>5, <1>6, <1>7, <1>8 DEF Next, App

(* abort returns only when the runs that were active when it was called    *)
(* are over, though it reads the run's promise after an await, when the    *)
(* run may have ended and the promise may be gone.                         *)
THEOREM AbortWaitsForRuns == ASSUME Reentrant = FALSE PROVE Spec => AbortIsBarrier
<1>1. BusyInv /\ [Next]_vars => BusyInv'
  BY NextBusy
<1>2. Init => AbortInv
  BY DEF Init, AbortInv
<1>3. BusyInv /\ AbortInv /\ [Next]_vars => AbortInv'
  BY NextAbort
<1>4. BusyInv /\ AbortInv /\ [Next]_vars =>
         [abortCall.at = "waiting" /\ abortCall'.at = "none" =>
             \A o \in abortCall.during : ~Active(o)]_vars
  <2>. SUFFICES ASSUME BusyInv, AbortInv, [Next]_vars, abortCall.at = "waiting",
                       abortCall'.at = "none", NEW o \in abortCall.during, Active(o)
                PROVE  FALSE
    OBVIOUS
  <2>1. Waited(abortCall.of)
    BY NextAbort DEF Aborted
  <2>2. abortCall.of = o /\ o # 0
    BY DEF AbortInv, Operations
  <2>. QED
    BY <2>1, <2>2 DEF Waited, Active
<1>. QED
  BY InitBusy, <1>1, <1>2, <1>3, <1>4, PTL DEF Spec, AbortIsBarrier

-----------------------------------------------------------------------------
Writes   == {item \in Items : item.kind = "write"}
Messages == {item \in Items : item.kind # "write"}

(* Where a call holds what it has read from a queue.                       *)
HoldPCs == {"nextTurn", "steerUpdate", "followUpUpdate"}

OpTypes(o) ==
    /\ DOMAIN op[o] = Fields /\ op[o].pc \in PCs /\ op[o].kind \in {"turn"} \cup Structural
    /\ op[o].context \in Seq(Items) /\ op[o].messages \in Seq(Messages)
    /\ op[o].holding \in Seq(Items)
    /\ op[o].pc \in HoldPCs => op[o].holding \in Seq(Messages)
    /\ op[o].pc \notin HoldPCs \cup FlushPCs => op[o].holding = <<>>

SessionTypes == session \in Seq(Items) /\ pendingSessionWrites \in Seq(Writes)
QueueTypes ==
    /\ steerQueue \in Seq(Messages) /\ followUpQueue \in Seq(Messages)
    /\ nextTurnQueue \in Seq(Messages)
AppTypes == given \in Seq(Items) /\ direct \subseteq Messages /\ cleared \subseteq Items
CoreTypes ==
    /\ phase \in {"idle", "turn"} \cup Structural
    /\ runPromise \in 0..MaxOperations /\ runAbortController \in 0..MaxOperations
    /\ abortCall.at \in {"none", "update", "waiting"} /\ abortCall.of \in 0..MaxOperations
    /\ DOMAIN abortCall = {"at", "of", "during"}
CountTypes ==
    /\ made \in 0..MaxMade /\ started \in 0..MaxOperations
    /\ aborts \in 0..MaxAborts /\ faults \in 0..MaxFaults

TypeInv == /\ DOMAIN op = Operations /\ \A o \in Operations : OpTypes(o)
           /\ SessionTypes /\ QueueTypes /\ AppTypes /\ CoreTypes /\ CountTypes

-----------------------------------------------------------------------------
(* What the application and the loop make.                                 *)
LEMMA Made ==
    ASSUME made \in 0..MaxMade, made < MaxMade
    PROVE  /\ Item("write") \in Writes
           /\ \A kind \in Kinds \ {"write"} : Item(kind) \in Messages
           /\ made + 1 \in 0..MaxMade
BY BoundsAssumption DEF Item, Items, Kinds, Writes, Messages

LEMMA Outs ==
    \A kind \in {"assistant", "toolResult", "failure", "structural"} : Output(kind) \in Messages
BY DEF Output, Items, Messages, Kinds

LEMMA OutputSequences ==
    /\ \A output \in Outputs : output \in Seq(Messages)
    /\ <<Output("failure")>> \in Seq(Messages)
BY Outs DEF Outputs

LEMMA ItemSets == Messages \subseteq Items /\ Writes \subseteq Items
                /\ Seq(Messages) \subseteq Seq(Items) /\ Seq(Writes) \subseteq Seq(Items)
BY DEF Messages, Writes

LEMMA Parts ==
    ASSUME NEW S, NEW s \in Seq(S), NEW n \in {1, Len(s)}, s # <<>>
    PROVE  SubSeq(s, 1, n) \in Seq(S) /\ SubSeq(s, n + 1, Len(s)) \in Seq(S)
OBVIOUS

(* What a step of a call may do to the session and to the pending writes.  *)
Unchanged  == UNCHANGED <<session, pendingSessionWrites>>
Message    == \E item \in Messages : session' = Append(session, item)
      /\ UNCHANGED pendingSessionWrites
FlushedOne(o) ==
    /\ op[o].pc \in FlushPCs /\ op[o].holding # <<>>
    /\ session' = Append(session, Head(op[o].holding))
    /\ pendingSessionWrites' = IF pendingSessionWrites # <<>> THEN Tail(pendingSessionWrites)
                               ELSE pendingSessionWrites

Effect(o) == Unchanged \/ Message \/ FlushedOne(o)

OwnTypes(o) == /\ DOMAIN op' = Operations
               /\ \A p \in Operations : p # o => op'[p] = op[p]
               /\ OpTypes(o)' /\ QueueTypes' /\ Effect(o)

LEMMA FailsTypes ==
    ASSUME NEW o \in Operations, TypeInv, Fails(o)
    PROVE  /\ DOMAIN op' = Operations /\ \A p \in Operations : p # o => op'[p] = op[p]
           /\ OpTypes(o)'
<1>1. /\ DOMAIN op' = Operations /\ op'[o] = Failed(op[o])
      /\ \A p \in Operations : p # o => op'[p] = op[p]
  BY DEF Fails, TypeInv
<1>2. /\ DOMAIN op[o] = Fields /\ op[o].kind \in {"turn"} \cup Structural
      /\ op[o].context \in Seq(Items) /\ op[o].messages \in Seq(Messages)
  BY DEF TypeInv, OpTypes
<1>3. /\ DOMAIN Failed(op[o]) = Fields /\ Failed(op[o]).kind = op[o].kind
      /\ Failed(op[o]).pc \in {"output", "lastFlush"}
      /\ Failed(op[o]).context = op[o].context /\ Failed(op[o]).holding = <<>>
      /\ Failed(op[o]).messages \in {op[o].messages, <<Output("failure")>>}
  BY <1>2 DEF Failed, Fields, NewOp
<1>. QED
  <2>1. Failed(op[o]).messages \in Seq(Messages) /\ <<>> \in Seq(Items)
    <3>1. <<>> \in Seq(Items) /\ <<Output("failure")>> \in Seq(Messages)
      BY OutputSequences
    <3>. QED
      BY <1>2, <1>3, <3>1
  <2>. QED
    BY <1>1, <1>2, <1>3, <2>1 DEF OpTypes, PCs, PersistPCs, FlushPCs, HoldPCs

(* Steps that only move on.                                                *)
LEMMA GotoTypes ==
    ASSUME NEW o \in Operations, TypeInv, NEW pc \in PCs \ HoldPCs, Goto(o, pc),
           pc \in FlushPCs \/ op[o].holding = <<>>
    PROVE  /\ DOMAIN op' = Operations /\ \A p \in Operations : p # o => op'[p] = op[p]
           /\ OpTypes(o)'
BY DEF Goto, TypeInv, OpTypes, Fields, NewOp

LEMMA ResponseTypes ==
    ASSUME NEW o \in Operations, TypeInv, Response(o)
    PROVE  /\ DOMAIN op' = Operations /\ \A p \in Operations : p # o => op'[p] = op[p]
           /\ OpTypes(o)' /\ UNCHANGED <<queues, session, pendingSessionWrites>>
<1>1. /\ DOMAIN op = Operations /\ DOMAIN op[o] = Fields
      /\ op[o].kind \in {"turn"} \cup Structural /\ op[o].context \in Seq(Items)
      /\ op[o].pc = "response" /\ op[o].holding = <<>>
  BY DEF TypeInv, OpTypes, Response, HoldPCs, FlushPCs
<1>2. PICK output \in Outputs :
         op'[o].messages = output /\ op'[o].context = op[o].context \o output
  BY SMTT(30), <1>1 DEF Response, Fields, NewOp
<1>3. output \in Seq(Messages) /\ op[o].context \o output \in Seq(Items)
  BY <1>1, OutputSequences, ItemSets
<1>4. /\ DOMAIN op' = Operations /\ \A p \in Operations : p # o => op'[p] = op[p]
      /\ DOMAIN op'[o] = Fields /\ op'[o].kind = op[o].kind /\ op'[o].pc = "output"
      /\ op'[o].holding = <<>>
  BY SMTT(30), <1>1 DEF Response, Fields, NewOp
<1>5. <<>> \in Seq(Items)
  OBVIOUS
<1>6. UNCHANGED <<queues, session, pendingSessionWrites>>
  BY DEF Response
<1>. QED
  BY <1>1, <1>2, <1>3, <1>4, <1>5, <1>6 DEF OpTypes, PCs, PersistPCs, HoldPCs, queues

LEMMA StepTypes ==
    ASSUME NEW o \in Operations, TypeInv, Step(o)
    PROVE  OwnTypes(o)
<1>. USE DEF core, queues, counts, TypeInv, OpTypes, OwnTypes, QueueTypes, SessionTypes, Effect,
   Unchanged, Message, FlushedOne, PCs, PersistPCs, FlushPCs, HoldPCs, Goto, Fields, NewOp
<1>1. CASE Summarize(o)
  <2>1. CASE Goto(o, "done") /\ UNCHANGED session
    BY ZenonT(60), <1>1, <2>1, GotoTypes DEF Summarize
  <2>2. CASE session' = Append(session, Output("structural")) /\ Goto(o, "announce")
    BY ZenonT(60), <1>1, <2>2, GotoTypes, Outs DEF Summarize
  <2>. QED
    BY <1>1, <2>1, <2>2 DEF Summarize
<1>2. CASE Announce(o)
  BY <1>2, ItemSets, Outs DEF Announce
<1>3. CASE Snapshot(o)
  BY <1>3, ItemSets, Outs DEF Snapshot
<1>4. CASE StartThrows(o)
  BY <1>4, ItemSets, Outs DEF StartThrows, Rejected
<1>5. CASE TakeNextTurn(o)
  BY <1>5, ItemSets, Outs DEF TakeNextTurn
<1>6. CASE NextTurnTaken(o)
  BY <1>6, ItemSets, Outs DEF NextTurnTaken, Rejected
<1>7. CASE BeforeAgentStart(o)
  <2>1. CASE Goto(o, "done")
    BY ZenonT(60), <1>7, <2>1, GotoTypes DEF BeforeAgentStart
  <2>2. CASE op' = [op EXCEPT ![o].context = @ \o op[o].messages, ![o].pc = "prompts"]
    <3>1. op[o].context \o op[o].messages \in Seq(Items)
      BY ItemSets
    <3>. QED
      BY ZenonT(60), <1>7, <2>2, <3>1 DEF BeforeAgentStart
  <2>. QED
    BY <1>7, <2>1, <2>2 DEF BeforeAgentStart
<1>8. CASE MessageEnd(o)
  <2>1. CASE Fails(o)
    BY <1>8, <2>1, FailsTypes DEF MessageEnd
  <2>2. CASE op' = [op EXCEPT ![o].messages = Tail(@)]
    <3>1. Head(op[o].messages) \in Messages /\ Tail(op[o].messages) \in Seq(Messages)
      BY <1>8 DEF MessageEnd
    <3>. QED
      BY <1>8, <2>2, <3>1 DEF MessageEnd
  <2>. QED
    BY <1>8, <2>1, <2>2 DEF MessageEnd
<1>9. CASE MessagesEnded(o)
  BY <1>9, ItemSets, Outs DEF MessagesEnded
<1>10. CASE DrainQueues(o)
  <2>1. CASE /\ Fails(o) /\ op[o].pc \in {"steerUpdate", "followUpUpdate"}
    <3>1. op[o].holding \o steerQueue \in Seq(Messages)
          /\ op[o].holding \o followUpQueue \in Seq(Messages)
      BY <2>1
    <3>2. QueueTypes'
      BY <1>10, <2>1, <3>1 DEF DrainQueues, Drain, Drained, RolledBack
    <3>. QED
      BY <1>10, <2>1, <3>2, FailsTypes DEF DrainQueues
  <2>2. CASE Drain(o, "steer", "steerUpdate", steerQueue) /\ UNCHANGED followUpQueue
    <3>1. PICK n \in {1, Len(steerQueue)} :
             /\ steerQueue' = SubSeq(steerQueue, n + 1, Len(steerQueue))
             /\ op' = [op EXCEPT ![o].holding = SubSeq(steerQueue, 1, n), ![o].dead = FALSE,
                                 ![o].pc = "steerUpdate"]
      BY <2>2 DEF Drain
    <3>2. SubSeq(steerQueue, 1, n) \in Seq(Messages) /\ SubSeq(steerQueue, 1, n) \in Seq(Items)
      BY <2>2, Parts, ItemSets DEF Drain
    <3>3. steerQueue' \in Seq(Messages)
      BY <2>2, <3>1, Parts DEF Drain
    <3>4. OpTypes(o)' /\ DOMAIN op' = Operations /\ \A p \in Operations : p # o => op'[p] = op[p]
      BY <3>1, <3>2
    <3>. QED
      BY <1>10, <2>2, <3>3, <3>4 DEF DrainQueues, Drain
  <2>3. CASE Drain(o, "followUp", "followUpUpdate", followUpQueue) /\ UNCHANGED steerQueue
    <3>1. PICK n \in {1, Len(followUpQueue)} :
             /\ followUpQueue' = SubSeq(followUpQueue, n + 1, Len(followUpQueue))
             /\ op' = [op EXCEPT ![o].holding = SubSeq(followUpQueue, 1, n), ![o].dead = FALSE,
                                 ![o].pc = "followUpUpdate"]
      BY <2>3 DEF Drain
    <3>2. SubSeq(followUpQueue, 1, n) \in Seq(Messages)
          /\ SubSeq(followUpQueue, 1, n) \in Seq(Items)
      BY <2>3, Parts, ItemSets DEF Drain
    <3>3. followUpQueue' \in Seq(Messages)
      BY <2>3, <3>1, Parts DEF Drain
    <3>4. OpTypes(o)' /\ DOMAIN op' = Operations /\ \A p \in Operations : p # o => op'[p] = op[p]
      BY <3>1, <3>2
    <3>. QED
      BY <1>10, <2>3, <3>3, <3>4 DEF DrainQueues, Drain
  <2>4. CASE /\ op[o].pc \in {"steerUpdate", "followUpUpdate"} /\ UNCHANGED queues
             /\ op' = [op EXCEPT ![o].messages = op[o].holding, ![o].holding = <<>>,
                                 ![o].context = @ \o op[o].holding, ![o].pc = "pending"]
    <3>1. op[o].context \o op[o].holding \in Seq(Items) /\ op[o].holding \in Seq(Messages)
      BY <2>4
    <3>. QED
      BY <1>10, <2>4, <3>1 DEF DrainQueues
  <2>. QED
    BY <1>10, <2>1, <2>2, <2>3, <2>4 DEF DrainQueues, Drained
<1>11. CASE NothingQueued(o)
  <2>1. op[o].holding = <<>>
    BY <1>11 DEF NothingQueued
  <2>. QED
    BY ZenonT(60), <1>11, <2>1, GotoTypes DEF NothingQueued
<1>12. CASE Request(o)
  <2>1. CASE Fails(o)
    BY <1>12, <2>1, FailsTypes DEF Request
  <2>2. CASE op' = [op EXCEPT ![o].stopping = op[o].aborted, ![o].pc = "response"]
    BY <1>12, <2>2 DEF Request
  <2>. QED
    BY <1>12, <2>1, <2>2 DEF Request
<1>13. CASE Response(o)
  BY <1>13, ResponseTypes
<1>14. CASE TurnEnd(o)
  <2>1. CASE Goto(o, "turnFlush")
    BY <1>14, <2>1, GotoTypes DEF TurnEnd
  <2>2. CASE op' = [op EXCEPT ![o].eventError = TRUE, ![o].pc = "turnFlush"]
    BY <1>14, <2>2 DEF TurnEnd
  <2>. QED
    BY <1>14, <2>1, <2>2 DEF TurnEnd
<1>15. CASE Flush(o)
  BY <1>15, ItemSets, Outs DEF Flush
<1>16. CASE Flushed(o)
  <2>. PICK appended \in BOOLEAN :
          /\ Shifted(o, appended)
          /\ IF appended
             THEN /\ session' = Append(session, Head(op[o].holding))
                  /\ op' = [op EXCEPT ![o].holding = <<>>] /\ UNCHANGED faults
             ELSE Throws("append") /\ FlushFails(o) /\ UNCHANGED session
    BY <1>16 DEF Flushed
  <2>1. CASE appended
    <3>1. /\ op[o].pc \in FlushPCs /\ op' = [op EXCEPT ![o].holding = <<>>] /\ UNCHANGED queues
          /\ FlushedOne(o)
      BY <1>16, <2>1 DEF Flushed, Shifted
    <3>2. DOMAIN op' = Operations /\ (\A p \in Operations : p # o => op'[p] = op[p]) /\ OpTypes(o)'
      BY <3>1
    <3>. QED
      BY <3>1, <3>2
  <2>2. CASE ~appended /\ op[o].pc = "lastFlush"
    BY <1>16, <2>2 DEF Flushed, Shifted, FlushFails
  <2>3. CASE ~appended /\ op[o].pc # "lastFlush"
    BY <1>16, <2>3, FailsTypes DEF Flushed, Shifted, FlushFails
  <2>. QED
    BY <2>1, <2>2, <2>3
<1>17. CASE SavePoint(o)
  <2>1. CASE Fails(o)
    BY <1>17, <2>1, FailsTypes DEF SavePoint, FlushedAll
  <2>2. CASE Goto(o, "endFlush") \/ Goto(o, "nextFlush")
    BY ZenonT(60), <1>17, <2>2, GotoTypes DEF SavePoint, FlushedAll
  <2>. QED
    BY <1>17, <2>1, <2>2 DEF SavePoint
<1>18. CASE PrepareNextTurn(o)
  <2>1. CASE Fails(o)
    BY <1>18, <2>1, FailsTypes DEF PrepareNextTurn, FlushedAll, NextContext
  <2>2. CASE ~Fails(o)
    BY <1>18, <2>2, ItemSets, Outs DEF PrepareNextTurn, FlushedAll, NextContext
  <2>. QED
    BY <2>1, <2>2
<1>19. CASE AgentEnd(o)
  BY <1>19, ItemSets, Outs DEF AgentEnd, FlushedAll
<1>20. CASE Settled(o)
  <2>1. CASE Fails(o)
    BY <1>20, <2>1, FailsTypes DEF Settled
  <2>2. CASE ~Fails(o)
    BY ZenonT(60), <1>20, <2>2, ItemSets, Outs DEF Settled
  <2>. QED
    BY <2>1, <2>2
<1>21. CASE Finally(o)
  BY <1>21, ItemSets, Outs DEF Finally, Rejected, FlushedAll
<1>. QED
  BY <1>1, <1>2, <1>3, <1>4, <1>5, <1>6, <1>7, <1>8, <1>9, <1>10, <1>11, <1>12, <1>13, <1>14,
     <1>15, <1>16, <1>17, <1>18, <1>19, <1>20, <1>21 DEF Step

-----------------------------------------------------------------------------
(* What a step of a call may do to the rest of the harness.                *)
CoreStep(o) ==
    /\ phase' \in {phase, "idle"} /\ runPromise' \in {runPromise, 0}
    /\ runAbortController' \in {runAbortController, o, 0}
    /\ faults' = faults \/ (faults < MaxFaults /\ faults' = faults + 1)
    /\ UNCHANGED <<abortCall, counts, direct, given, cleared>>

LEMMA StepCore ==
    ASSUME NEW o \in Operations, Step(o)
    PROVE  CoreStep(o)
BY DEF Step, CoreStep, core, counts, Throws, Rejected, Summarize, Announce, Snapshot, StartThrows,
   TakeNextTurn, NextTurnTaken, BeforeAgentStart, MessageEnd, MessagesEnded, DrainQueues,
      NothingQueued, Request, Response, TurnEnd, Flush, Flushed, SavePoint, PrepareNextTurn,
         AgentEnd, Settled, Finally, Drained, Drain

LEMMA EffectTypes ==
    ASSUME NEW o \in Operations, TypeInv, Effect(o)
    PROVE  SessionTypes'
<1>1. session \in Seq(Items) /\ pendingSessionWrites \in Seq(Writes) /\ op[o].holding \in Seq(Items)
  BY DEF TypeInv, SessionTypes, OpTypes
<1>2. CASE Unchanged
  BY <1>1, <1>2 DEF Unchanged, SessionTypes
<1>3. CASE Message
  BY <1>1, <1>3, ItemSets DEF Message, SessionTypes
<1>4. CASE FlushedOne(o)
  BY <1>1, <1>4 DEF FlushedOne, SessionTypes
<1>. QED
  BY <1>2, <1>3, <1>4 DEF Effect

LEMMA OperationTypeInv ==
    ASSUME NEW o \in Operations, TypeInv, Step(o)
    PROVE  TypeInv'
<1>1. OwnTypes(o) /\ CoreStep(o)
  BY StepTypes, StepCore
<1>2. DOMAIN op' = Operations /\ QueueTypes' /\ SessionTypes' /\ \A p \in Operations : OpTypes(p)'
  BY <1>1, EffectTypes DEF OwnTypes, TypeInv, OpTypes
<1>3. AppTypes' /\ CoreTypes' /\ CountTypes'
  BY <1>1, BoundsAssumption DEF CoreStep, TypeInv, AppTypes, CoreTypes, CountTypes, counts,
     Operations
<1>. QED
  BY <1>2, <1>3 DEF TypeInv

(* The call of an operation that starts.                                   *)
LEMMA StartTypeInv ==
    ASSUME TypeInv, NEW kind, NEW c, Start(kind), op' = [op EXCEPT ![started + 1] = c],
           DOMAIN c = Fields, c.pc \in PCs, c.kind \in {"turn"} \cup Structural,
           c.context = <<>>, c.holding = <<>>, c.messages \in Seq(Messages),
           c.pc \notin HoldPCs
    PROVE  /\ DOMAIN op' = Operations /\ \A o \in Operations : OpTypes(o)'
           /\ started' \in 0..MaxOperations /\ phase' = kind /\ started + 1 \in 0..MaxOperations
<1>1. PICK new \in Operations : new = started + 1
  BY BoundsAssumption DEF Start, Operations, TypeInv, CountTypes
<1>2. /\ DOMAIN op' = Operations /\ op'[new] = c
      /\ \A p \in Operations : p # new => op'[p] = op[p]
  BY <1>1 DEF TypeInv
<1>3. <<>> \in Seq(Items)
  OBVIOUS
<1>4. OpTypes(new)'
  BY <1>2, <1>3 DEF OpTypes
<1>. QED
  BY <1>1, <1>2, <1>4 DEF TypeInv, OpTypes, Operations, Start

LEMMA InitTypeInv == Init => TypeInv
<1>. SUFFICES ASSUME Init PROVE TypeInv
  OBVIOUS
<1>1. \A S : <<>> \in Seq(S)
  OBVIOUS
<1>2. DOMAIN op = Operations /\ \A o \in Operations : OpTypes(o)
  BY <1>1 DEF Init, OpTypes, NewOp, Fields, PCs, HoldPCs, FlushPCs
<1>. QED
  BY <1>1, <1>2, BoundsAssumption
     DEF Init, TypeInv, SessionTypes, QueueTypes, AppTypes, CoreTypes, CountTypes

(* The application's calls, but for those that start an operation.         *)
LEMMA AppTypeInv ==
    ASSUME TypeInv, steer \/ followUp \/ nextTurn \/ write
    PROVE  TypeInv'
<1>1. made \in 0..MaxMade /\ made < MaxMade /\ made' = made + 1
  BY DEF TypeInv, CountTypes, steer, followUp, nextTurn, write, Make
<1>2. /\ Item("write") \in Writes /\ made + 1 \in 0..MaxMade
      /\ \A kind \in {"steer", "followUp", "nextTurn", "direct"} : Item(kind) \in Messages
  BY <1>1, Made DEF Kinds
<1>3. DOMAIN op' = Operations /\ \A o \in Operations : OpTypes(o)'
  BY DEF TypeInv, OpTypes, steer, followUp, nextTurn, write
<1>4. CoreTypes' /\ CountTypes'
  BY <1>1, <1>2 DEF TypeInv, CoreTypes, CountTypes, steer, followUp, nextTurn, write, core
<1>5. /\ \A s \in Seq(Messages), item \in Messages : Append(s, item) \in Seq(Messages)
      /\ \A s \in Seq(Items), item \in Items : Append(s, item) \in Seq(Items)
      /\ \A s \in Seq(Writes), item \in Writes : Append(s, item) \in Seq(Writes)
  OBVIOUS
<1>6. QueueTypes'
  BY <1>2, <1>5 DEF TypeInv, QueueTypes, steer, followUp, nextTurn, write, queues
<1>7. SessionTypes'
  BY <1>2, <1>5 DEF TypeInv, SessionTypes, steer, followUp, nextTurn, write, QueueWrite
<1>8. AppTypes'
  BY <1>2, <1>5, ItemSets DEF TypeInv, AppTypes, steer, followUp, nextTurn, write, QueueWrite
<1>. QED
  BY <1>3, <1>4, <1>6, <1>7, <1>8 DEF TypeInv

LEMMA NextTypeInv == TypeInv /\ [Next]_vars => TypeInv'
<1>. SUFFICES ASSUME TypeInv, [Next]_vars PROVE TypeInv'
  OBVIOUS
<1>1. CASE prompt
  <2>. DEFINE c == [NewOp EXCEPT !.pc = "snapshot", !.messages = <<Item("prompt")>>]
  <2>1. /\ made \in 0..MaxMade /\ made < MaxMade /\ made' = made + 1
        /\ started \in 0..MaxOperations
    BY <1>1 DEF TypeInv, CountTypes, prompt, Make
  <2>2. /\ DOMAIN c = Fields /\ c.pc = "snapshot" /\ c.kind = "turn" /\ c.context = <<>>
        /\ c.holding = <<>> /\ c.messages = <<Item("prompt")>>
    BY DEF NewOp, Fields
  <2>3. Item("prompt") \in Messages /\ made + 1 \in 0..MaxMade
    BY <2>1, Made DEF Kinds
  <2>4. /\ DOMAIN op' = Operations /\ \A o \in Operations : OpTypes(o)'
        /\ started' \in 0..MaxOperations /\ phase' = "turn" /\ started + 1 \in 0..MaxOperations
    <3>1. c.messages \in Seq(Messages) /\ Start("turn") /\ op' = [op EXCEPT ![started + 1] = c]
      BY <1>1, <2>2, <2>3 DEF prompt
    <3>2. c.pc \in PCs /\ c.pc \notin HoldPCs
      BY <2>2 DEF PCs, HoldPCs
    <3>. HIDE DEF c
    <3>. QED
      BY <2>2, <3>1, <3>2, StartTypeInv
  <2>5. CoreTypes' /\ CountTypes'
    BY <1>1, <2>1, <2>3, <2>4 DEF prompt, TypeInv, CoreTypes, CountTypes
  <2>. QED
    BY <1>1, <2>4, <2>5 DEF prompt, TypeInv, SessionTypes, QueueTypes, AppTypes, queues
<1>2. ASSUME NEW kind \in Structural, structural(kind) PROVE TypeInv'
  <2>. DEFINE c == [NewOp EXCEPT !.pc = "summarize", !.kind = kind]
  <2>1. /\ DOMAIN c = Fields /\ c.pc = "summarize" /\ c.kind = kind /\ c.context = <<>>
        /\ c.holding = <<>> /\ c.messages = <<>> /\ <<>> \in Seq(Messages)
    BY DEF NewOp, Fields
  <2>2. /\ DOMAIN op' = Operations /\ \A o \in Operations : OpTypes(o)'
        /\ started' \in 0..MaxOperations /\ phase' = kind
    BY <1>2, <2>1, StartTypeInv DEF structural, PCs, HoldPCs
  <2>3. CoreTypes' /\ CountTypes'
    BY <1>2, <2>2 DEF structural, TypeInv, CoreTypes, CountTypes
  <2>. QED
    BY <1>2, <2>2, <2>3 DEF structural, TypeInv, SessionTypes, QueueTypes, AppTypes, queues
<1>3. CASE abort
  <2>1. DOMAIN op' = Operations /\ \A o \in Operations : OpTypes(o)'
    BY ZenonT(60), <1>3 DEF abort, TypeInv, OpTypes, Fields, NewOp
  <2>2. QueueTypes' /\ SessionTypes'
    <3>1. <<>> \in Seq(Messages)
      OBVIOUS
    <3>. QED
      BY <1>3, <3>1 DEF abort, TypeInv, QueueTypes, SessionTypes
  <2>3. AppTypes'
    <3>1. \A s \in Seq(Messages) : ToSet(s) \subseteq Messages
      BY DEF ToSet
    <3>. QED
      BY <1>3, <3>1, ItemSets DEF abort, TypeInv, AppTypes, QueueTypes
  <2>4. CoreTypes' /\ CountTypes'
    <3>1. /\ DOMAIN abortCall' = {"at", "of", "during"}
          /\ abortCall'.at = "update" /\ abortCall'.of = 0
      BY <1>3 DEF abort
    <3>2. aborts' \in 0..MaxAborts /\ UNCHANGED <<core, made, started, faults>>
      <4>1. /\ aborts < MaxAborts /\ aborts' = aborts + 1
            /\ UNCHANGED <<core, made, started, faults>>
        BY <1>3 DEF abort, core
      <4>. QED
        BY <4>1, BoundsAssumption DEF TypeInv, CountTypes
    <3>. QED
      BY <3>1, <3>2, BoundsAssumption DEF TypeInv, CoreTypes, CountTypes, core
  <2>. QED
    BY <2>1, <2>2, <2>3, <2>4 DEF TypeInv
<1>4. CASE \E item \in direct : DirectWritten(item)
  <2>. PICK item \in direct : DirectWritten(item)
    BY <1>4
  <2>1. item \in Items /\ session' \in Seq(Items) /\ direct' \subseteq Messages
    BY ItemSets DEF DirectWritten, TypeInv, AppTypes, SessionTypes
  <2>2. DOMAIN op' = Operations /\ \A o \in Operations : OpTypes(o)'
    BY DEF DirectWritten, TypeInv, OpTypes
  <2>. QED
    BY <2>1, <2>2 DEF DirectWritten, TypeInv, SessionTypes, QueueTypes, AppTypes, CoreTypes,
       CountTypes, core, queues, counts
<1>5. CASE AbortWaits \/ Aborted \/ UNCHANGED vars
  <2>1. DOMAIN op' = Operations /\ \A o \in Operations : OpTypes(o)'
    BY <1>5 DEF AbortWaits, Aborted, vars, TypeInv, OpTypes
  <2>2. SessionTypes' /\ QueueTypes' /\ AppTypes' /\ CountTypes'
    BY <1>5 DEF AbortWaits, Aborted, vars, TypeInv, SessionTypes, QueueTypes, AppTypes,
       CountTypes, core, queues, counts
  <2>3. CoreTypes'
    BY <1>5 DEF AbortWaits, Aborted, vars, TypeInv, CoreTypes, core
  <2>. QED
    BY <2>1, <2>2, <2>3 DEF TypeInv
<1>. QED
  BY <1>1, <1>2, <1>3, <1>4, <1>5, AppTypeInv, OperationTypeInv DEF Next, App

(* The three queues hold messages only, and what waits for a flush is      *)
(* session writes only: a flush never appends a message that was to be     *)
(* delivered, a drain never delivers a write.                              *)
KindsApart ==
    /\ \A queue \in {steerQueue, followUpQueue, nextTurnQueue} : queue \in Seq(Messages)
    /\ pendingSessionWrites \in Seq(Writes)

(* The harness's variables always have their types, reentrant or not, and  *)
(* messages and session writes never share a queue.                        *)
THEOREM HarnessTypeCorrect == Spec => [](TypeOK /\ KindsApart)
<1>1. TypeInv => TypeOK
  BY ItemSets DEF TypeInv, TypeOK, OpTypes, SessionTypes, QueueTypes, AppTypes, CoreTypes,
     CountTypes
<1>2. TypeInv => KindsApart
  BY DEF TypeInv, KindsApart, SessionTypes, QueueTypes
<1>. QED
  BY InitTypeInv, NextTypeInv, <1>1, <1>2, PTL DEF Spec

-----------------------------------------------------------------------------
(* A call that is flushing holds the first of the pending writes.          *)
Flushing(o) ==
    op[o].pc \in FlushPCs /\ op[o].holding # <<>> =>
        pendingSessionWrites # <<>> /\ op[o].holding = <<Head(pendingSessionWrites)>>

(* Writes are numbered in the order they were made in.                     *)
WriteInv ==
    /\ WritesKept
    /\ \A i \in DOMAIN given : given[i].n <= made
    /\ \A o \in Operations : Flushing(o)

(* The three lemmas below say what happens to WritesKept when the session  *)
(* gets a message, a write is flushed, and a write is queued.              *)
LEMMA MessageKept ==
    ASSUME TypeInv, WritesKept, NEW item \in Messages, session' = Append(session, item),
           UNCHANGED <<pendingSessionWrites, given>>
    PROVE  WritesKept'
<1>1. /\ session \in Seq(Items) /\ DOMAIN session = 1..Len(session) /\ Len(session) \in Nat
      /\ DOMAIN session' = 1..(Len(session) + 1)
      /\ \A i \in 1..Len(session) : session'[i] = session[i]
      /\ session'[Len(session) + 1] = item /\ item.kind # "write"
  BY DEF TypeInv, SessionTypes, Messages
<1>2. Written' = Written /\ \A i \in Written : session'[i] = session[i]
  BY <1>1 DEF Written
<1>3. WritesInOrder'
  BY <1>2 DEF WritesKept, WritesInOrder
<1>4. {session'[i] : i \in Written'} = {session[i] : i \in Written}
  BY <1>2
<1>. QED
  BY <1>3, <1>4 DEF WritesKept

LEMMA FlushKept ==
    ASSUME TypeInv, WritesKept, pendingSessionWrites # <<>>,
           session' = Append(session, Head(pendingSessionWrites)),
           pendingSessionWrites' = Tail(pendingSessionWrites), UNCHANGED given
    PROVE  WritesKept'
<1>. DEFINE p == pendingSessionWrites
            last == Len(session) + 1
<1>1. /\ session \in Seq(Items) /\ DOMAIN session = 1..Len(session) /\ Len(session) \in Nat
      /\ DOMAIN session' = 1..last
      /\ \A i \in 1..Len(session) : session'[i] = session[i]
      /\ session'[last] = p[1]
  BY DEF TypeInv, SessionTypes
<1>2. /\ p \in Seq(Writes) /\ DOMAIN p = 1..Len(p) /\ Len(p) \in Nat \ {0}
      /\ DOMAIN p' = 1..(Len(p) - 1) /\ \A j \in 1..(Len(p) - 1) : p'[j] = p[j + 1]
      /\ p[1] \in Writes /\ \A j \in DOMAIN p : p[j].n \in Nat
  BY BoundsAssumption DEF TypeInv, SessionTypes, Writes, Items
<1>3. Written' = Written \cup {last} /\ \A i \in Written : i \in 1..Len(session)
  BY <1>1, <1>2 DEF Written, Writes
<1>4. WritesInOrder'
  <2>1. \A i, j \in Written' : i < j => session'[i].n < session'[j].n
    BY <1>1, <1>2, <1>3 DEF WritesKept, WritesInOrder
  <2>2. \A i, j \in DOMAIN p' : i < j => p'[i].n < p'[j].n
    <3>. TAKE i, j \in DOMAIN p'
    <3>1. i + 1 \in DOMAIN p /\ j + 1 \in DOMAIN p /\ (i < j => i + 1 < j + 1)
      BY <1>2
    <3>2. p'[i] = p[i + 1] /\ p'[j] = p[j + 1]
      BY <1>2
    <3>. QED
      BY <3>1, <3>2 DEF WritesKept, WritesInOrder
  <2>3. \A i \in Written', j \in DOMAIN p' : session'[i].n < p'[j].n
    <3>. TAKE i \in Written', j \in DOMAIN p'
    <3>1. j + 1 \in DOMAIN p /\ 1 \in DOMAIN p /\ 1 < j + 1 /\ p'[j] = p[j + 1]
      BY <1>2
    <3>2. CASE i = last
      BY <1>1, <3>1, <3>2 DEF WritesKept, WritesInOrder
    <3>3. CASE i # last
      <4>1. i \in Written /\ session'[i] = session[i]
        BY <1>1, <1>3, <3>3
      <4>. QED
        BY <3>1, <4>1 DEF WritesKept, WritesInOrder
    <3>. QED
      BY <3>2, <3>3
  <2>. QED
    BY <2>1, <2>2, <2>3 DEF WritesInOrder
<1>5. ToSet(p) = {p[1]} \cup ToSet(p')
  <2>1. \A j \in DOMAIN p : j = 1 \/ (j - 1 \in DOMAIN p' /\ p'[j - 1] = p[j])
    BY <1>2
  <2>2. \A j \in DOMAIN p' : j + 1 \in DOMAIN p /\ p'[j] = p[j + 1]
    BY <1>2
  <2>3. 1 \in DOMAIN p
    BY <1>2
  <2>4. ASSUME NEW x \in ToSet(p) PROVE x = p[1] \/ x \in ToSet(p')
    <3>1. PICK j \in DOMAIN p : x = p[j]
      BY DEF ToSet
    <3>2. j = 1 \/ (j - 1 \in DOMAIN p' /\ p'[j - 1] = x)
      BY <2>1, <3>1
    <3>. QED
      BY Zenon, <3>1, <3>2 DEF ToSet
  <2>5. ToSet(p') \subseteq ToSet(p) /\ p[1] \in ToSet(p)
    BY <2>2, <2>3 DEF ToSet
  <2>. QED
    BY <2>4, <2>5
<1>6. {session'[i] : i \in Written'} = {session[i] : i \in Written} \cup {p[1]}
  BY <1>1, <1>3
<1>. QED
  BY <1>4, <1>5, <1>6 DEF WritesKept

LEMMA GivenOther ==
    ASSUME TypeInv, WritesKept, NEW item \in Messages, given' = Append(given, item),
           UNCHANGED <<session, pendingSessionWrites>>
    PROVE  WritesKept'
<1>1. /\ given \in Seq(Items) /\ DOMAIN given = 1..Len(given) /\ Len(given) \in Nat
      /\ DOMAIN given' = 1..(Len(given) + 1)
      /\ \A i \in 1..Len(given) : given'[i] = given[i]
      /\ given'[Len(given) + 1] = item /\ item.kind # "write"
  BY DEF TypeInv, AppTypes, Messages
<1>2. {g \in ToSet(given') : g.kind = "write"} = {g \in ToSet(given) : g.kind = "write"}
  BY <1>1 DEF ToSet
<1>3. WritesInOrder' /\ Written' = Written
  BY DEF WritesKept, WritesInOrder, Written
<1>. QED
  BY <1>2, <1>3 DEF WritesKept

LEMMA QueueKept ==
    ASSUME TypeInv, WriteInv, NEW item \in Writes, item.n = made + 1, QueueWrite(item)
    PROVE  WritesKept'
<1>. DEFINE p == pendingSessionWrites
<1>1. /\ p \in Seq(Writes) /\ DOMAIN p = 1..Len(p) /\ Len(p) \in Nat
      /\ DOMAIN p' = 1..(Len(p) + 1) /\ p'[Len(p) + 1] = item
      /\ \A i \in 1..Len(p) : p'[i] = p[i]
  BY DEF TypeInv, SessionTypes, QueueWrite
<1>2. /\ given \in Seq(Items) /\ DOMAIN given = 1..Len(given) /\ Len(given) \in Nat
      /\ DOMAIN given' = 1..(Len(given) + 1) /\ given'[Len(given) + 1] = item
      /\ \A i \in 1..Len(given) : given'[i] = given[i]
  BY DEF TypeInv, AppTypes, QueueWrite
<1>3. made \in Nat /\ \A g \in ToSet(given) : g.n <= made /\ g.n \in Nat
  BY <1>2, BoundsAssumption DEF TypeInv, CountTypes, WriteInv, ToSet, Items
<1>4. /\ \A i \in Written : session[i].n \in Nat /\ session[i].n < item.n
      /\ \A j \in DOMAIN p : p[j].n \in Nat /\ p[j].n < item.n
  <2>1. \A i \in Written : session[i] \in ToSet(given)
    BY DEF WriteInv, WritesKept
  <2>2. \A j \in DOMAIN p : p[j] \in ToSet(given)
    BY DEF WriteInv, WritesKept, ToSet
  <2>. QED
    BY <2>1, <2>2, <1>3
<1>5. Written' = Written /\ UNCHANGED session
  BY DEF QueueWrite, Written
<1>6. WritesInOrder'
  BY <1>1, <1>4, <1>5 DEF WriteInv, WritesKept, WritesInOrder
<1>7. ToSet(p') = ToSet(p) \cup {item} /\ ToSet(given') = ToSet(given) \cup {item}
  BY <1>1, <1>2 DEF ToSet
<1>. QED
  BY <1>5, <1>6, <1>7 DEF WriteInv, WritesKept, Writes

-----------------------------------------------------------------------------
(* Only Flush lets a flushing call hold something.                         *)
LEMMA FailsHolds ==
    ASSUME NEW o \in Operations, TypeInv, Fails(o)
    PROVE  op'[o].holding = <<>>
BY DEF Fails, Failed, TypeInv, OpTypes, Fields, NewOp

LEMMA StepHolds ==
    ASSUME NEW o \in Operations, TypeInv, Step(o), op'[o].pc \in FlushPCs
    PROVE  op'[o].holding = <<>> \/ Flush(o)
<1>. USE DEF TypeInv, OpTypes, PersistPCs, FlushPCs, HoldPCs, Goto, Fields, NewOp
<1>1. CASE Summarize(o)
  BY <1>1 DEF Summarize
<1>2. CASE Announce(o)
  BY <1>2 DEF Announce
<1>3. CASE Snapshot(o)
  BY <1>3 DEF Snapshot
<1>4. CASE StartThrows(o)
  BY <1>4 DEF StartThrows, Rejected
<1>5. CASE TakeNextTurn(o)
  BY <1>5 DEF TakeNextTurn
<1>6. CASE NextTurnTaken(o)
  BY <1>6 DEF NextTurnTaken, Rejected
<1>7. CASE BeforeAgentStart(o)
  <2>1. CASE Goto(o, "done")
    BY <2>1
  <2>2. CASE op' = [op EXCEPT ![o].context = @ \o op[o].messages, ![o].pc = "prompts"]
    BY <1>7, <2>2 DEF BeforeAgentStart
  <2>. QED
    BY Zenon, <1>7, <2>1, <2>2 DEF BeforeAgentStart
<1>8. CASE MessageEnd(o)
  BY ZenonT(60), <1>8, FailsHolds DEF MessageEnd
<1>9. CASE MessagesEnded(o)
  BY <1>9 DEF MessagesEnded
<1>10. CASE DrainQueues(o)
  <2>1. CASE Fails(o)
    BY <2>1, FailsHolds
  <2>2. CASE Drain(o, "steer", "steerUpdate", steerQueue)
        \/ Drain(o, "followUp", "followUpUpdate", followUpQueue)
    BY <2>2 DEF Drain
  <2>3. CASE op' = [op EXCEPT ![o].messages = op[o].holding, ![o].holding = <<>>,
                              ![o].context = @ \o op[o].holding, ![o].pc = "pending"]
    BY <2>3
  <2>. QED
    BY <1>10, <2>1, <2>2, <2>3 DEF DrainQueues, Drained
<1>11. CASE NothingQueued(o)
  BY <1>11 DEF NothingQueued
<1>12. CASE Request(o)
  BY <1>12, FailsHolds DEF Request
<1>13. CASE Response(o)
  BY <1>13 DEF Response
<1>14. CASE TurnEnd(o)
  BY <1>14 DEF TurnEnd
<1>15. CASE Flush(o)
  BY <1>15
<1>16. CASE Flushed(o)
  BY <1>16, FailsHolds DEF Flushed, FlushFails
<1>17. CASE SavePoint(o)
  BY <1>17, FailsHolds DEF SavePoint, FlushedAll
<1>18. CASE PrepareNextTurn(o)
  BY <1>18, FailsHolds DEF PrepareNextTurn, FlushedAll
<1>19. CASE AgentEnd(o)
  BY <1>19 DEF AgentEnd, FlushedAll
<1>20. CASE Settled(o)
  BY <1>20, FailsHolds DEF Settled
<1>21. CASE Finally(o)
  BY <1>21 DEF Finally, Rejected, FlushedAll
<1>. QED
  BY <1>1, <1>2, <1>3, <1>4, <1>5, <1>6, <1>7, <1>8, <1>9, <1>10, <1>11, <1>12, <1>13, <1>14,
     <1>15, <1>16, <1>17, <1>18, <1>19, <1>20, <1>21 DEF Step

LEMMA OperationWriteInv ==
    ASSUME NEW o \in Operations, TypeInv, BusyInv, WriteInv, Step(o)
    PROVE  WriteInv'
<1>1. OwnTypes(o) /\ CoreStep(o)
  BY StepTypes, StepCore
<1>2. UNCHANGED <<given, made>>
  BY <1>1 DEF CoreStep, counts
<1>3. WritesKept'
  <2>1. CASE Unchanged
    BY <1>2, <2>1 DEF Unchanged, WriteInv, WritesKept, WritesInOrder, Written
  <2>2. CASE Message
    BY <1>2, <2>2, MessageKept DEF Message, WriteInv
  <2>3. CASE FlushedOne(o)
    <3>1. pendingSessionWrites # <<>> /\ Head(op[o].holding) = Head(pendingSessionWrites)
      BY <2>3 DEF FlushedOne, WriteInv, Flushing
    <3>. QED
      BY <1>2, <2>3, <3>1, FlushKept DEF FlushedOne, WriteInv
  <2>. QED
    BY <1>1, <2>1, <2>2, <2>3 DEF OwnTypes, Effect
<1>4. Flushing(o)'
  <2>1. CASE op'[o].holding = <<>>
    BY <2>1 DEF Flushing
  <2>2. CASE Flush(o)
    BY <2>2 DEF Flush, Flushing, TypeInv, OpTypes, Fields, NewOp
  <2>. QED
    BY <2>1, <2>2, StepHolds DEF Flushing
<1>5. ASSUME NEW p \in Operations, p # o PROVE Flushing(p)'
  <2>1. op'[p] = op[p] /\ ~Active(p)
    BY <1>1, <1>5, StepBusy DEF OwnTypes, BusyInv, Alone, Ended
  <2>2. op'[p].pc \notin FlushPCs
    BY <2>1 DEF Active, FlushPCs
  <2>. QED
    BY <2>2 DEF Flushing
<1>. QED
  BY <1>2, <1>3, <1>4, <1>5 DEF WriteInv

(* A step that starts no flush and changes no write keeps the invariant.   *)
LEMMA OtherWriteInv ==
    ASSUME TypeInv, WriteInv, WritesKept', UNCHANGED <<given, made>> \/
               (made \in Nat /\ made' = made + 1 /\ (UNCHANGED given \/
                    \E item \in Items : item.n = made + 1 /\ given' = Append(given, item))),
           \/ UNCHANGED pendingSessionWrites
           \/ \E item : pendingSessionWrites' = Append(pendingSessionWrites, item),
           \A o \in Operations : op'[o].pc \in FlushPCs => op'[o].pc = op[o].pc /\
                                                        op'[o].holding = op[o].holding
    PROVE  WriteInv'
<1>1. /\ given \in Seq(Items) /\ pendingSessionWrites \in Seq(Writes)
      /\ made \in Nat /\ \A i \in DOMAIN given : given[i].n \in Nat
  BY BoundsAssumption DEF TypeInv, AppTypes, SessionTypes, CountTypes, Items
<1>2. \A i \in DOMAIN given' : given'[i].n <= made'
  <2>1. CASE UNCHANGED given
    BY <1>1, <2>1 DEF WriteInv
  <2>2. ASSUME NEW item \in Items, item.n = made + 1, made' = made + 1, given' = Append(given, item)
        PROVE  \A i \in DOMAIN given' : given'[i].n <= made'
    BY <1>1, <2>2 DEF WriteInv
  <2>. QED
    BY <2>1, <2>2
<1>3. \A o \in Operations : Flushing(o)'
  <2>1. pendingSessionWrites # <<>> =>
            /\ pendingSessionWrites' # <<>>
            /\ Head(pendingSessionWrites') = Head(pendingSessionWrites)
    BY <1>1
  <2>. QED
    BY <2>1 DEF WriteInv, Flushing
<1>. QED
  BY <1>2, <1>3 DEF WriteInv

LEMMA InitWriteInv == Init => WriteInv
BY DEF Init, WriteInv, WritesKept, WritesInOrder, Written, Flushing, ToSet, NewOp, FlushPCs

LEMMA NextWriteInv ==
    ASSUME TypeInv, BusyInv, WriteInv, [Next]_vars
    PROVE  WriteInv'
<1>1. made \in Nat /\ (made < MaxMade => /\ Item("write") \in Writes
                      /\ \A kind \in Kinds \ {"write"} : Item(kind) \in Messages)
  BY Made, BoundsAssumption DEF TypeInv, CountTypes
<1>2. \A kind : Item(kind).n = made + 1
  BY DEF Item
<1>3. ASSUME UNCHANGED <<session, pendingSessionWrites, given>> PROVE WritesKept'
  BY <1>3 DEF WriteInv, WritesKept, WritesInOrder, Written
<1>4. ASSUME NEW kind, NEW c, Start(kind), op' = [op EXCEPT ![started + 1] = c],
             c.pc \notin FlushPCs
      PROVE  \A o \in Operations : op'[o].pc \in FlushPCs => op'[o] = op[o]
  BY <1>4 DEF TypeInv
<1>5. CASE prompt
  <2>1. op' = [op EXCEPT ![started + 1] =
        [NewOp EXCEPT !.pc = "snapshot", !.messages = <<Item("prompt")>>]]
        /\ Start("turn")
    BY <1>5 DEF prompt
  <2>2. [NewOp EXCEPT !.pc = "snapshot", !.messages = <<Item("prompt")>>].pc \notin FlushPCs
    BY DEF NewOp, FlushPCs
  <2>3. \A o \in Operations : op'[o].pc \in FlushPCs => op'[o] = op[o]
    BY <1>4, <2>1, <2>2
  <2>. QED
    BY <1>1, <1>3, <1>5, <2>3, OtherWriteInv DEF prompt, Make
<1>6. ASSUME NEW kind \in Structural, structural(kind) PROVE WriteInv'
  <2>1. op' = [op EXCEPT ![started + 1] = [NewOp EXCEPT !.pc = "summarize", !.kind = kind]]
        /\ Start(kind)
    BY <1>6 DEF structural
  <2>2. [NewOp EXCEPT !.pc = "summarize", !.kind = kind].pc \notin FlushPCs
    BY DEF NewOp, FlushPCs
  <2>3. \A o \in Operations : op'[o].pc \in FlushPCs => op'[o] = op[o]
    BY <1>4, <2>1, <2>2
  <2>. QED
    BY <1>3, <1>6, <2>3, OtherWriteInv DEF structural
<1>7. CASE steer \/ followUp \/ nextTurn
  <2>1. PICK kind \in {"steer", "followUp", "nextTurn"} :
           /\ given' = Append(given, Item(kind)) /\ made < MaxMade /\ made' = made + 1
           /\ UNCHANGED <<session, pendingSessionWrites, op>>
    BY <1>7 DEF steer, followUp, nextTurn, Make
  <2>2. Item(kind) \in Messages
    BY <1>1, <2>1 DEF Kinds
  <2>3. WritesKept'
    BY <2>1, <2>2, GivenOther DEF WriteInv
  <2>. QED
    BY <1>1, <1>2, <2>1, <2>2, <2>3, ItemSets, OtherWriteInv
<1>8. CASE write
  <2>1. made < MaxMade /\ made' = made + 1 /\ UNCHANGED op
    BY <1>8 DEF write, Make
  <2>2. CASE phase = "idle"
    BY <1>1, <1>3, <1>8, <2>1, <2>2, OtherWriteInv DEF write
  <2>3. CASE phase # "idle"
    <3>1. QueueWrite(Item("write")) /\ Item("write") \in Writes
      BY <1>1, <1>8, <2>1, <2>3 DEF write
    <3>2. WritesKept'
      BY <1>2, <3>1, QueueKept
    <3>. QED
      BY <1>1, <1>2, <2>1, <3>1, <3>2, ItemSets, OtherWriteInv DEF QueueWrite
  <2>. QED
    BY <2>2, <2>3
<1>9. CASE abort
  <2>1. \A o \in Operations : op'[o].pc = op[o].pc /\ op'[o].holding = op[o].holding
    BY <1>9 DEF abort, TypeInv, OpTypes, Fields, NewOp
  <2>. QED
    BY <1>3, <1>9, <2>1, OtherWriteInv DEF abort
<1>10. ASSUME NEW item \in direct, DirectWritten(item) PROVE WriteInv'
  <2>1. WritesKept'
    BY <1>10, MessageKept DEF DirectWritten, TypeInv, AppTypes, WriteInv
  <2>. QED
    BY <1>10, <2>1, OtherWriteInv DEF DirectWritten, counts
<1>11. CASE AbortWaits \/ Aborted \/ UNCHANGED vars
  BY <1>3, <1>11, OtherWriteInv DEF AbortWaits, Aborted, vars, counts
<1>. QED
  BY <1>5, <1>6, <1>7, <1>8, <1>9, <1>10, <1>11, OperationWriteInv DEF Next, App

(* While operations start one after another, every session write queued    *)
(* during one reaches the session once and in order, and stays queued      *)
(* until it does: whichever flush appends it, and whatever throws.         *)
THEOREM WritesAreKept == ASSUME Reentrant = FALSE PROVE Spec => []WritesKept
<1>1. BusyInv /\ [Next]_vars => BusyInv'
  BY NextBusy
<1>2. TypeInv /\ BusyInv /\ WriteInv /\ [Next]_vars => WriteInv'
  BY NextWriteInv
<1>3. WriteInv => WritesKept
  BY DEF WriteInv
<1>. QED
  BY InitBusy, InitTypeInv, InitWriteInv, NextTypeInv, <1>1, <1>2, <1>3, PTL DEF Spec

-----------------------------------------------------------------------------
(***************************************************************************)
(* While operations of the harness start one after another: a request is   *)
(* sent the session itself, tool results follow the message that called    *)
(* for them, and no message that was queued is lost.                       *)
(***************************************************************************)

(* What a prompt and the queues feed to a run, and what a run puts out.    *)
Prompts == {item \in Messages : item.kind = "prompt"}
Queued  == {item \in Messages : item.kind \in {"steer", "followUp", "nextTurn"}}
FromApp == {item \in Messages : item.kind \in {"prompt", "steer", "followUp", "nextTurn"}}
Assistant == Output("assistant")
Result    == Output("toolResult")
Failure   == <<Output("failure")>>
Answers   == {<<>>, Failure, <<Assistant>>, <<Assistant, Result>>, <<Result>>}

(* Where a call's messages are the application's, where its context is the *)
(* session, and where the harness is busy unless the run is failing.       *)
UpdatePCs == {"steerUpdate", "followUpUpdate"}
AppPCs   == EarlyPCs \cup {"prompts", "pending"}
FreshPCs == {"start", "nextTurn", "hook", "steer", "followUp", "request"} \cup UpdatePCs
FailPCs  == {"output", "turnEnd", "turnFlush", "endFlush", "settling", "lastFlush", "finally",
             "done"}
BusyPCs  == AppPCs \cup FreshPCs
            \cup {"output", "response", "turnEnd", "turnFlush", "nextFlush", "endFlush"}

-----------------------------------------------------------------------------
(* The steps of a call, by what they do to its messages and to the session.*)

Becomes(o, pc, context, messages, holding, failing) ==
    /\ op'[o].pc = pc /\ op'[o].context = context /\ op'[o].messages = messages
    /\ op'[o].holding = holding /\ op'[o].failing = failing

Onward(from, to) ==
    \/ from \in {"summarize", "announce", "start", "hook", "lastFlush", "finally"} /\ to = "done"
    \/ from = "nextTurn" /\ to = "hook"
    \/ from = "prompts" /\ to = "steer"
    \/ from = "pending" /\ to = "request"
    \/ from = "output" /\ to = "turnEnd"
    \/ from = "steer" /\ to \in {"request", "followUp"}
    \/ from = "followUp" /\ to = "endFlush"
    \/ from = "request" /\ to = "response"
    \/ from = "turnEnd" /\ to = "turnFlush"
    \/ from = "turnFlush" /\ to \in {"endFlush", "nextFlush"}
    \/ from = "endFlush" /\ to = "settling"
    \/ from = "settling" /\ to = "lastFlush"

Moves(o) ==
    /\ Onward(op[o].pc, op'[o].pc)
    /\ Becomes(o, op'[o].pc, op[o].context, op[o].messages, <<>>, op[o].failing)
    /\ op[o].pc = "nextTurn" \/ op[o].holding = <<>>
    /\ op[o].pc \in PersistPCs => op[o].messages = <<>>
    /\ op'[o].pc = "nextFlush" => ~op[o].failing
    /\ op[o].pc = "hook" /\ op'[o].pc = "done" => "hook" \in Faults
    /\ UNCHANGED <<session, queues>>

Persists(o) ==
    /\ op[o].pc \in PersistPCs /\ op[o].messages # <<>>
    /\ session' = Append(session, Head(op[o].messages))

Reports(o) ==
    /\ op[o].pc \in LoopPCs
    /\ \/ /\ op[o].failing
          /\ Becomes(o, "lastFlush", op[o].context, op[o].messages, <<>>, op[o].failing)
       \/ ~op[o].failing /\ Becomes(o, "output", op[o].context, Failure, <<>>, TRUE)
    /\ UNCHANGED session \/ Persists(o)
    /\ IF op[o].pc \in UpdatePCs THEN "update" \in Faults ELSE UNCHANGED queues

Saves(o) ==
    /\ Persists(o) /\ UNCHANGED queues
    /\ Becomes(o, op[o].pc, op[o].context, Tail(op[o].messages), <<>>, op[o].failing)

Takes(o) ==
    /\ op[o].pc = "start" /\ op'[o].pc \in {"hook", "nextTurn"}
    /\ Becomes(o, op'[o].pc, op[o].context, nextTurnQueue \o op[o].messages, nextTurnQueue,
               op[o].failing)
    /\ nextTurnQueue' = <<>> /\ UNCHANGED <<session, steerQueue, followUpQueue>>

Returns(o) ==
    /\ op[o].pc = "nextTurn" /\ op'[o].pc = "done" /\ "update" \in Faults
    /\ op'[o].failing = op[o].failing /\ UNCHANGED session

Enters(o) ==
    /\ op[o].pc = "hook" /\ UNCHANGED <<session, queues>>
    /\ Becomes(o, "prompts", op[o].context \o op[o].messages, op[o].messages, <<>>, op[o].failing)

Reads(o, from, to, queue) ==
    /\ op[o].pc = from
    /\ \E n \in {1, Len(queue)} :
          /\ queue # <<>> /\ queue' = SubSeq(queue, n + 1, Len(queue))
          /\ Becomes(o, to, op[o].context, op[o].messages, SubSeq(queue, 1, n), op[o].failing)
    /\ UNCHANGED <<session, nextTurnQueue>>

Feeds(o) ==
    /\ op[o].pc \in UpdatePCs /\ UNCHANGED <<session, queues>>
    /\ Becomes(o, "pending", op[o].context \o op[o].holding, op[o].holding, <<>>, op[o].failing)

Answered(o) ==
    /\ op[o].pc = "response" /\ op'[o].pc = "output" /\ op'[o].messages \in Outputs
    /\ op'[o].holding = <<>> /\ op'[o].failing = op[o].failing /\ UNCHANGED <<session, queues>>

Refreshes(o) ==
    /\ \/ op[o].pc = "snapshot" /\ op'[o].pc = "start"
       \/ op[o].pc = "nextFlush" /\ op'[o].pc = "steer"
    /\ Becomes(o, op'[o].pc, session, op[o].messages, <<>>, op[o].failing)
    /\ UNCHANGED <<session, queues>>

(* A flush, or its failure, which ends executeTurn.                        *)
Flushes(o) ==
    /\ op[o].pc \in FlushPCs /\ UNCHANGED queues
    /\ Becomes(o, op'[o].pc, op[o].context, op[o].messages, op'[o].holding, op[o].failing)
    /\ \/ op'[o].pc = op[o].pc
       \/ op[o].pc = "lastFlush" /\ op'[o].pc = "finally" /\ UNCHANGED session
    /\ \/ UNCHANGED session
       \/ op[o].holding # <<>> /\ session' = Append(session, Head(op[o].holding))

Announces(o) ==
    /\ op[o].pc = "summarize" /\ UNCHANGED queues
    /\ Becomes(o, "announce", op[o].context, op[o].messages, <<>>, op[o].failing)
    /\ session' = Append(session, Output("structural"))

Shapes(o) ==
    \/ Moves(o) \/ Reports(o) \/ Saves(o) \/ Takes(o) \/ Returns(o) \/ Enters(o)
    \/ (Reads(o, "steer", "steerUpdate", steerQueue) /\ UNCHANGED followUpQueue)
    \/ (Reads(o, "followUp", "followUpUpdate", followUpQueue) /\ UNCHANGED steerQueue)
    \/ Feeds(o) \/ Answered(o) \/ Refreshes(o) \/ Flushes(o) \/ Announces(o)

(* What throws in the loop.                                                *)
LEMMA FailsReports ==
    ASSUME NEW o \in Operations, TypeInv, Fails(o), op[o].pc \in LoopPCs,
           UNCHANGED session \/ Persists(o),
           IF op[o].pc \in UpdatePCs THEN "update" \in Faults ELSE UNCHANGED queues
    PROVE  Shapes(o)
<1>1. /\ op'[o] = Failed(op[o]) /\ DOMAIN op[o] = Fields
  BY DEF Fails, TypeInv, OpTypes
<1>2. CASE op[o].failing
  <2>. DEFINE c == op[o]
  <2>1. op'[o] = [c EXCEPT !.pc = "lastFlush", !.error = TRUE, !.holding = <<>>]
    BY <1>1, <1>2 DEF Failed
  <2>2. DOMAIN c = Fields
    BY <1>1
  <2>. HIDE DEF c
  <2>3. /\ op'[o].pc = "lastFlush" /\ op'[o].context = c.context /\ op'[o].holding = <<>>
        /\ op'[o].messages = c.messages /\ op'[o].failing = c.failing
    BY <2>1, <2>2 DEF Fields, NewOp
  <2>4. Becomes(o, "lastFlush", op[o].context, op[o].messages, <<>>, op[o].failing)
    BY <2>3 DEF Becomes, c
  <2>. QED
    BY <1>2, <2>4 DEF Shapes, Reports
<1>3. CASE ~op[o].failing
  <2>1. Becomes(o, "output", op[o].context, Failure, <<>>, TRUE)
    BY <1>1, <1>3 DEF Failed, Becomes, Fields, NewOp, Failure
  <2>. QED
    BY <1>3, <2>1 DEF Shapes, Reports
<1>. QED
  BY <1>2, <1>3

(* What only moves on.                                                     *)
LEMMA GotoMoves ==
    ASSUME NEW o \in Operations, TypeInv, NEW to, Goto(o, to), Onward(op[o].pc, to),
           op[o].holding = <<>>, op[o].pc \in PersistPCs => op[o].messages = <<>>,
           to = "nextFlush" => ~op[o].failing,
           op[o].pc = "hook" /\ to = "done" => "hook" \in Faults,
           UNCHANGED <<session, queues>>
    PROVE  Shapes(o)
<1>1. op'[o] = [op[o] EXCEPT !.pc = to] /\ DOMAIN op[o] = Fields
  BY DEF Goto, TypeInv, OpTypes
<1>2. Becomes(o, to, op[o].context, op[o].messages, <<>>, op[o].failing)
  BY <1>1 DEF Becomes, Fields, NewOp
<1>3. op'[o].pc = to
  BY <1>2 DEF Becomes
<1>. QED
  BY <1>2, <1>3 DEF Shapes, Moves

LEMMA NothingHeld ==
    ASSUME NEW o \in Operations, TypeInv, op[o].pc \notin HoldPCs \cup FlushPCs
    PROVE  op[o].holding = <<>>
BY DEF TypeInv, OpTypes

LEMMA StepShapes ==
    ASSUME NEW o \in Operations, TypeInv, Step(o)
    PROVE  Shapes(o)
<1>. DOMAIN op = Operations /\ DOMAIN op[o] = Fields
  BY DEF TypeInv, OpTypes
<1>1. CASE Summarize(o)
  <2>1. op[o].pc = "summarize" /\ op[o].holding = <<>> /\ UNCHANGED queues
    BY <1>1, NothingHeld DEF Summarize, HoldPCs, FlushPCs
  <2>2. CASE Goto(o, "done") /\ UNCHANGED session
    BY <2>1, <2>2, GotoMoves DEF Onward, PersistPCs
  <2>3. CASE session' = Append(session, Output("structural")) /\ Goto(o, "announce")
    <3>1. Becomes(o, "announce", op[o].context, op[o].messages, <<>>, op[o].failing)
      BY <2>1, <2>3 DEF Goto, Becomes, Fields, NewOp
    <3>. QED
      BY <2>1, <2>3, <3>1 DEF Shapes, Announces
  <2>. QED
    BY <1>1, <2>2, <2>3 DEF Summarize
<1>2. CASE Announce(o)
  <2>1. op[o].pc = "announce" /\ op[o].holding = <<>> /\ UNCHANGED <<session, queues>>
        /\ Goto(o, "done")
    BY <1>2, NothingHeld DEF Announce, HoldPCs, FlushPCs
  <2>. QED
    BY <2>1, GotoMoves DEF Onward, PersistPCs
<1>3. CASE Snapshot(o)
  <2>1. op[o].pc = "snapshot" /\ op[o].holding = <<>> /\ UNCHANGED <<session, queues>>
    BY <1>3, NothingHeld DEF Snapshot, HoldPCs, FlushPCs
  <2>2. Becomes(o, "start", session, op[o].messages, <<>>, op[o].failing)
    BY <1>3, <2>1 DEF Snapshot, Becomes, Fields, NewOp
  <2>. QED
    BY <2>1, <2>2 DEF Shapes, Refreshes, Becomes
<1>4. CASE StartThrows(o)
  <2>1. op[o].pc = "start" /\ op[o].holding = <<>> /\ UNCHANGED <<session, queues>>
        /\ Goto(o, "done")
    BY <1>4, NothingHeld DEF StartThrows, HoldPCs, FlushPCs
  <2>. QED
    BY <2>1, GotoMoves DEF Onward, PersistPCs
<1>5. CASE TakeNextTurn(o)
  <2>1. /\ op[o].pc = "start" /\ nextTurnQueue' = <<>>
        /\ UNCHANGED <<session, steerQueue, followUpQueue>>
    BY <1>5 DEF TakeNextTurn
  <2>2. /\ op'[o].context = op[o].context /\ op'[o].messages = nextTurnQueue \o op[o].messages
        /\ op'[o].holding = nextTurnQueue /\ op'[o].failing = op[o].failing
        /\ op'[o].pc \in {"hook", "nextTurn"}
    BY <1>5 DEF TakeNextTurn, Fields, NewOp
  <2>. QED
    BY <2>1, <2>2 DEF Shapes, Takes, Becomes
<1>6. CASE NextTurnTaken(o)
  <2>1. op[o].pc = "nextTurn" /\ UNCHANGED session
    BY <1>6 DEF NextTurnTaken
  <2>2. CASE op' = [op EXCEPT ![o].holding = <<>>, ![o].pc = "hook"] /\ UNCHANGED nextTurnQueue
    <3>1. Becomes(o, "hook", op[o].context, op[o].messages, <<>>, op[o].failing)
      BY <2>2 DEF Becomes, Fields, NewOp
    <3>2. UNCHANGED queues
      BY <1>6, <2>2 DEF NextTurnTaken, queues
    <3>. QED
      BY <2>1, <3>1, <3>2 DEF Shapes, Moves, Onward, Becomes, PersistPCs
  <2>3. CASE Throws("update") /\ op' = [op EXCEPT ![o].holding = <<>>, ![o].pc = "done"]
    <3>1. op'[o].pc = "done" /\ op'[o].failing = op[o].failing /\ "update" \in Faults
      BY <2>3 DEF Fields, NewOp, Throws
    <3>. QED
      BY <2>1, <3>1 DEF Shapes, Returns
  <2>. QED
    BY <1>6, <2>2, <2>3 DEF NextTurnTaken
<1>7. CASE BeforeAgentStart(o)
  <2>1. op[o].pc = "hook" /\ op[o].holding = <<>> /\ UNCHANGED <<session, queues>>
    BY <1>7, NothingHeld DEF BeforeAgentStart, HoldPCs, FlushPCs
  <2>2. CASE Throws("hook") /\ Goto(o, "done")
    BY <2>1, <2>2, GotoMoves DEF Onward, PersistPCs, Throws
  <2>3. CASE op' = [op EXCEPT ![o].context = @ \o op[o].messages, ![o].pc = "prompts"]
    <3>1. Becomes(o, "prompts", op[o].context \o op[o].messages, op[o].messages, <<>>,
                  op[o].failing)
      BY <2>1, <2>3 DEF Becomes, Fields, NewOp
    <3>. QED
      BY <2>1, <3>1 DEF Shapes, Enters
  <2>. QED
    BY <1>7, <2>2, <2>3 DEF BeforeAgentStart
<1>8. CASE MessageEnd(o)
  <2>1. /\ op[o].pc \in PersistPCs /\ op[o].messages # <<>> /\ UNCHANGED queues
        /\ UNCHANGED session \/ Persists(o)
    BY <1>8 DEF MessageEnd, Persists
  <2>2. op[o].pc \in LoopPCs /\ op[o].pc \notin UpdatePCs /\ op[o].holding = <<>>
    BY <2>1, NothingHeld DEF LoopPCs, UpdatePCs, PersistPCs, HoldPCs, FlushPCs
  <2>3. CASE Fails(o)
    BY <2>1, <2>2, <2>3, FailsReports
  <2>4. CASE Persists(o) /\ op' = [op EXCEPT ![o].messages = Tail(@)]
    <3>1. Becomes(o, op[o].pc, op[o].context, Tail(op[o].messages), <<>>, op[o].failing)
      BY <2>2, <2>4 DEF Becomes, Fields, NewOp
    <3>. QED
      BY <2>1, <2>4, <3>1 DEF Shapes, Saves
  <2>. QED
    BY <1>8, <2>1, <2>3, <2>4 DEF MessageEnd, Persists
<1>9. CASE MessagesEnded(o)
  <2>1. /\ op[o].pc \in PersistPCs /\ op[o].messages = <<>> /\ UNCHANGED <<session, queues>>
    BY <1>9 DEF MessagesEnded
  <2>2. op[o].holding = <<>>
    BY <2>1, NothingHeld DEF PersistPCs, HoldPCs, FlushPCs
  <2>3. CASE op[o].pc = "prompts"
    BY <1>9, <2>1, <2>2, <2>3, GotoMoves DEF MessagesEnded, Onward
  <2>4. CASE op[o].pc = "pending"
    BY <1>9, <2>1, <2>2, <2>4, GotoMoves DEF MessagesEnded, Onward
  <2>5. CASE op[o].pc = "output"
    BY <1>9, <2>1, <2>2, <2>5, GotoMoves DEF MessagesEnded, Onward
  <2>. QED
    BY <2>1, <2>3, <2>4, <2>5 DEF PersistPCs
<1>10. CASE DrainQueues(o)
  <2>1. UNCHANGED <<session, nextTurnQueue>>
    BY <1>10 DEF DrainQueues
  <2>2. CASE Drain(o, "steer", "steerUpdate", steerQueue) /\ UNCHANGED followUpQueue
    <3>1. PICK n \in {1, Len(steerQueue)} :
             /\ steerQueue' = SubSeq(steerQueue, n + 1, Len(steerQueue))
             /\ op' = [op EXCEPT ![o].holding = SubSeq(steerQueue, 1, n), ![o].dead = FALSE,
                                 ![o].pc = "steerUpdate"]
      BY <2>2 DEF Drain
    <3>. DEFINE first == SubSeq(steerQueue, 1, n)
    <3>2. Becomes(o, "steerUpdate", op[o].context, op[o].messages, first, op[o].failing)
      <4>. HIDE DEF first
      <4>1. op' = [op EXCEPT ![o].holding = first, ![o].dead = FALSE, ![o].pc = "steerUpdate"]
        BY <3>1 DEF first
      <4>. QED
        BY <4>1 DEF Becomes, Fields, NewOp
    <3>3. Reads(o, "steer", "steerUpdate", steerQueue)
      BY <2>1, <2>2, <3>1, <3>2 DEF Reads, Drain
    <3>. QED
      BY <2>2, <3>3 DEF Shapes
  <2>3. CASE Drain(o, "followUp", "followUpUpdate", followUpQueue) /\ UNCHANGED steerQueue
    <3>1. PICK n \in {1, Len(followUpQueue)} :
             /\ followUpQueue' = SubSeq(followUpQueue, n + 1, Len(followUpQueue))
             /\ op' = [op EXCEPT ![o].holding = SubSeq(followUpQueue, 1, n), ![o].dead = FALSE,
                                 ![o].pc = "followUpUpdate"]
      BY <2>3 DEF Drain
    <3>. DEFINE first == SubSeq(followUpQueue, 1, n)
    <3>2. Becomes(o, "followUpUpdate", op[o].context, op[o].messages, first, op[o].failing)
      <4>. HIDE DEF first
      <4>1. op' = [op EXCEPT ![o].holding = first, ![o].dead = FALSE, ![o].pc = "followUpUpdate"]
        BY <3>1 DEF first
      <4>. QED
        BY <4>1 DEF Becomes, Fields, NewOp
    <3>3. Reads(o, "followUp", "followUpUpdate", followUpQueue)
      BY <2>1, <2>3, <3>1, <3>2 DEF Reads, Drain
    <3>. QED
      BY <2>3, <3>3 DEF Shapes
  <2>4. CASE op[o].pc \in UpdatePCs /\ Throws("update") /\ Fails(o)
    <3>1. op[o].pc \in LoopPCs /\ "update" \in Faults
      BY <2>4 DEF LoopPCs, UpdatePCs, Throws
    <3>. QED
      BY <2>1, <2>4, <3>1, FailsReports
  <2>5. CASE /\ op[o].pc \in UpdatePCs /\ UNCHANGED queues
             /\ op' = [op EXCEPT ![o].messages = op[o].holding, ![o].holding = <<>>,
                                 ![o].context = @ \o op[o].holding, ![o].pc = "pending"]
    <3>1. Becomes(o, "pending", op[o].context \o op[o].holding, op[o].holding, <<>>, op[o].failing)
      BY <2>5 DEF Becomes, Fields, NewOp
    <3>. QED
      BY <2>1, <2>5, <3>1 DEF Shapes, Feeds
  <2>. QED
    BY <1>10, <2>2, <2>3, <2>4, <2>5 DEF DrainQueues, Drained, UpdatePCs, queues
<1>11. CASE NothingQueued(o)
  <2>1. op[o].pc \in {"steer", "followUp"} /\ UNCHANGED <<session, queues>>
    BY <1>11 DEF NothingQueued
  <2>2. op[o].holding = <<>>
    BY <2>1, NothingHeld DEF HoldPCs, FlushPCs
  <2>3. \/ op[o].pc = "steer" /\ (Goto(o, "request") \/ Goto(o, "followUp"))
        \/ op[o].pc = "followUp" /\ Goto(o, "endFlush")
    BY <1>11 DEF NothingQueued
  <2>. QED
    BY <2>1, <2>2, <2>3, GotoMoves DEF Onward, PersistPCs
<1>12. CASE Request(o)
  <2>1. op[o].pc = "request" /\ UNCHANGED <<session, queues>>
    BY <1>12 DEF Request
  <2>2. op[o].holding = <<>> /\ op[o].pc \in LoopPCs /\ op[o].pc \notin UpdatePCs
    BY <2>1, NothingHeld DEF HoldPCs, FlushPCs, LoopPCs, UpdatePCs
  <2>3. CASE Fails(o)
    BY <2>1, <2>2, <2>3, FailsReports
  <2>4. CASE op' = [op EXCEPT ![o].stopping = op[o].aborted, ![o].pc = "response"]
    <3>1. Becomes(o, "response", op[o].context, op[o].messages, <<>>, op[o].failing)
      BY <2>2, <2>4 DEF Becomes, Fields, NewOp
    <3>. QED
      BY <2>1, <2>2, <3>1 DEF Shapes, Moves, Onward, Becomes, PersistPCs
  <2>. QED
    BY <1>12, <2>3, <2>4 DEF Request
<1>13. CASE Response(o)
  <2>1. op[o].pc = "response" /\ UNCHANGED <<session, queues>>
    BY <1>13 DEF Response
  <2>2. op'[o].pc = "output" /\ op'[o].holding = <<>>
    BY <1>13, ResponseTypes, ResponseEffect DEF OpTypes, HoldPCs, FlushPCs
  <2>3. op'[o].failing = op[o].failing /\ op'[o].messages \in Outputs
    BY SMTT(30), <1>13 DEF Response, Fields, NewOp
  <2>. QED
    BY <2>1, <2>2, <2>3 DEF Shapes, Answered
<1>14. CASE TurnEnd(o)
  <2>1. op[o].pc = "turnEnd" /\ UNCHANGED <<session, queues>>
    BY <1>14 DEF TurnEnd
  <2>2. op[o].holding = <<>>
    BY <2>1, NothingHeld DEF HoldPCs, FlushPCs
  <2>3. CASE Goto(o, "turnFlush")
    BY <2>1, <2>2, <2>3, GotoMoves DEF Onward, PersistPCs
  <2>4. CASE op' = [op EXCEPT ![o].eventError = TRUE, ![o].pc = "turnFlush"]
    <3>1. Becomes(o, "turnFlush", op[o].context, op[o].messages, <<>>, op[o].failing)
      BY <2>2, <2>4 DEF Becomes, Fields, NewOp
    <3>. QED
      BY <2>1, <2>2, <3>1 DEF Shapes, Moves, Onward, Becomes, PersistPCs
  <2>. QED
    BY <1>14, <2>3, <2>4 DEF TurnEnd
<1>15. CASE Flush(o)
  <2>1. op[o].pc \in FlushPCs /\ UNCHANGED <<session, queues>>
    BY <1>15 DEF Flush
  <2>2. Becomes(o, op[o].pc, op[o].context, op[o].messages, op'[o].holding, op[o].failing)
    BY <1>15 DEF Flush, Becomes, Fields, NewOp
  <2>. QED
    BY <2>1, <2>2 DEF Shapes, Flushes, Becomes
<1>16. CASE Flushed(o)
  <2>1. op[o].pc \in FlushPCs /\ op[o].holding # <<>> /\ UNCHANGED queues
    BY <1>16 DEF Flushed
  <2>2. CASE /\ session' = Append(session, Head(op[o].holding))
             /\ op' = [op EXCEPT ![o].holding = <<>>]
    <3>1. Becomes(o, op[o].pc, op[o].context, op[o].messages, <<>>, op[o].failing)
      BY <2>2 DEF Becomes, Fields, NewOp
    <3>. QED
      BY <2>1, <2>2, <3>1 DEF Shapes, Flushes, Becomes
  <2>3. CASE UNCHANGED session /\ op[o].pc = "lastFlush" /\ FlushFails(o)
    <3>1. Becomes(o, "finally", op[o].context, op[o].messages, <<>>, op[o].failing)
      BY <2>3 DEF FlushFails, Becomes, Fields, NewOp
    <3>. QED
      BY <2>1, <2>3, <3>1 DEF Shapes, Flushes, Becomes
  <2>4. CASE UNCHANGED session /\ Fails(o)
    <3>1. op[o].pc \in LoopPCs /\ op[o].pc \notin UpdatePCs
      BY <2>1 DEF LoopPCs, UpdatePCs, FlushPCs
    <3>. QED
      BY <2>1, <2>4, <3>1, FailsReports
  <2>. QED
    BY <1>16, <2>2, <2>3, <2>4 DEF Flushed, FlushFails
<1>17. CASE SavePoint(o)
  <2>1. op[o].pc = "turnFlush" /\ op[o].holding = <<>> /\ UNCHANGED <<session, queues>>
    BY <1>17 DEF SavePoint, FlushedAll
  <2>2. CASE Fails(o)
    <3>1. op[o].pc \in LoopPCs /\ op[o].pc \notin UpdatePCs
      BY <2>1 DEF LoopPCs, UpdatePCs, FlushPCs
    <3>. QED
      BY <2>1, <2>2, <3>1, FailsReports
  <2>3. CASE Goto(o, IF op[o].failing \/ op[o].stopping THEN "endFlush" ELSE "nextFlush")
    <3>1. CASE Goto(o, "endFlush")
      BY <2>1, <3>1, GotoMoves DEF Onward, PersistPCs
    <3>2. CASE Goto(o, "nextFlush") /\ ~op[o].failing
      BY <2>1, <3>2, GotoMoves DEF Onward, PersistPCs
    <3>. QED
      BY <2>3, <3>1, <3>2
  <2>. QED
    BY <1>17, <2>2, <2>3 DEF SavePoint
<1>18. CASE PrepareNextTurn(o)
  <2>1. op[o].pc = "nextFlush" /\ op[o].holding = <<>> /\ UNCHANGED <<session, queues>>
    BY <1>18 DEF PrepareNextTurn, FlushedAll
  <2>2. CASE Fails(o)
    <3>1. op[o].pc \in LoopPCs /\ op[o].pc \notin UpdatePCs
      BY <2>1 DEF LoopPCs, UpdatePCs, FlushPCs
    <3>. QED
      BY <2>1, <2>2, <3>1, FailsReports
  <2>3. CASE op' = [op EXCEPT ![o].context = session, ![o].pc = "steer"]
    <3>1. Becomes(o, "steer", session, op[o].messages, <<>>, op[o].failing)
      BY <2>1, <2>3 DEF Becomes, Fields, NewOp
    <3>. QED
      BY <2>1, <3>1 DEF Shapes, Refreshes, Becomes
  <2>. QED
    BY <1>18, <2>2, <2>3 DEF PrepareNextTurn, NextContext
<1>19. CASE AgentEnd(o)
  <2>1. /\ op[o].pc = "endFlush" /\ op[o].holding = <<>> /\ UNCHANGED <<session, queues>>
        /\ Goto(o, "settling")
    BY <1>19 DEF AgentEnd, FlushedAll
  <2>. QED
    BY <2>1, GotoMoves DEF Onward, PersistPCs
<1>20. CASE Settled(o)
  <2>1. op[o].pc = "settling" /\ UNCHANGED <<session, queues>>
    BY <1>20 DEF Settled
  <2>2. op[o].holding = <<>> /\ op[o].pc \in LoopPCs /\ op[o].pc \notin UpdatePCs
    BY <2>1, NothingHeld DEF HoldPCs, FlushPCs, LoopPCs, UpdatePCs
  <2>3. CASE Fails(o)
    BY <2>1, <2>2, <2>3, FailsReports
  <2>4. CASE Goto(o, "lastFlush")
    BY <2>1, <2>2, <2>4, GotoMoves DEF Onward, PersistPCs
  <2>. QED
    BY <1>20, <2>3, <2>4 DEF Settled
<1>21. CASE Finally(o)
  <2>1. /\ op[o].pc \in {"finally", "lastFlush"} /\ UNCHANGED <<session, queues>>
        /\ Goto(o, "done") /\ (op[o].pc = "lastFlush" => op[o].holding = <<>>)
    BY <1>21 DEF Finally, FlushedAll
  <2>2. op[o].holding = <<>>
    BY <2>1, NothingHeld DEF HoldPCs, FlushPCs
  <2>. QED
    BY <2>1, <2>2, GotoMoves DEF Onward, PersistPCs
<1>. QED
  BY <1>1, <1>2, <1>3, <1>4, <1>5, <1>6, <1>7, <1>8, <1>9, <1>10, <1>11, <1>12, <1>13, <1>14,
     <1>15, <1>16, <1>17, <1>18, <1>19, <1>20, <1>21 DEF Step

-----------------------------------------------------------------------------
(* What a call's place says of its messages, and when the harness is busy. *)
CallInv(o) ==
    /\ op[o].failing => op[o].pc \in FailPCs /\ op[o].messages \in {<<>>, Failure}
    /\ op[o].pc \in BusyPCs /\ ~op[o].failing => phase # "idle"
    /\ op[o].pc \in {"snapshot", "start"} => op[o].messages \in Seq(Prompts)
    /\ op[o].pc \in AppPCs => op[o].messages \in Seq(FromApp)
    /\ op[o].pc \notin AppPCs \cup {"done"} => op[o].messages \in Answers
    /\ op[o].pc \in HoldPCs => op[o].holding \in Seq(Queued)
    /\ op[o].pc = "nextTurn" => ToSet(op[o].holding) \subseteq ToSet(op[o].messages)

(* What the queues hold, and that nothing is written directly meanwhile.   *)
QueuesInv ==
    /\ steerQueue \in Seq(Queued) /\ followUpQueue \in Seq(Queued) /\ nextTurnQueue \in Seq(Queued)
    /\ given \in Seq(Queued \cup Writes)
    /\ phase # "idle" => direct = {}
    /\ \A item \in direct : item.kind = "direct"

RunInv == (\A o \in Operations : CallInv(o)) /\ QueuesInv

LEMMA AppSets ==
    /\ Prompts \subseteq FromApp /\ Queued \subseteq FromApp
    /\ Seq(Prompts) \subseteq Seq(FromApp) /\ Seq(Queued) \subseteq Seq(FromApp)
    /\ <<>> \in Seq(Prompts) /\ <<>> \in Seq(Queued)
BY DEF Prompts, Queued, FromApp

LEMMA StepPhase ==
    ASSUME NEW o \in Operations, TypeInv, Step(o)
    PROVE  phase' = phase \/ op'[o].pc \in {"done", "settling"}
<1>. USE DEF TypeInv, OpTypes, Fields, NewOp, Goto
<1>1. CASE UNCHANGED phase
  BY <1>1
<1>2. CASE Summarize(o)
  BY <1>2 DEF Summarize
<1>3. CASE Announce(o) \/ StartThrows(o) \/ AgentEnd(o) \/ Finally(o)
  BY <1>3 DEF Announce, StartThrows, AgentEnd, Finally
<1>4. CASE NextTurnTaken(o)
  BY <1>4 DEF NextTurnTaken, core
<1>5. CASE BeforeAgentStart(o)
  BY ZenonT(60), <1>5 DEF BeforeAgentStart
<1>. QED
  BY <1>1, <1>2, <1>3, <1>4, <1>5 DEF Step, core, Snapshot, TakeNextTurn, MessageEnd,
     MessagesEnded, DrainQueues, NothingQueued, Request, Response, TurnEnd, Flush, Flushed,
     SavePoint, PrepareNextTurn, Settled

(* The queues after a step of a call.                                      *)
QueueAfter(o, queue) ==
    \/ queue' = queue \/ queue' = <<>>
    \/ \E n \in {1, Len(queue)} : queue # <<>> /\ queue' = SubSeq(queue, n + 1, Len(queue))
    \/ op[o].pc \in HoldPCs /\ queue' = op[o].holding \o queue

LEMMA StepQueues ==
    ASSUME NEW o \in Operations, Step(o)
    PROVE  QueueAfter(o, steerQueue) /\ QueueAfter(o, followUpQueue) /\ QueueAfter(o, nextTurnQueue)
<1>1. CASE UNCHANGED queues
  BY <1>1 DEF queues, QueueAfter
<1>2. CASE TakeNextTurn(o)
  BY <1>2 DEF TakeNextTurn, QueueAfter
<1>3. CASE NextTurnTaken(o)
  BY <1>3 DEF NextTurnTaken, QueueAfter, HoldPCs
<1>4. CASE DrainQueues(o)
  <2>1. UNCHANGED nextTurnQueue
    BY <1>4 DEF DrainQueues
  <2>2. QueueAfter(o, steerQueue)
    BY <1>4 DEF DrainQueues, Drain, Drained, RolledBack, QueueAfter, HoldPCs
  <2>3. QueueAfter(o, followUpQueue)
    BY <1>4 DEF DrainQueues, Drain, Drained, RolledBack, QueueAfter, HoldPCs
  <2>. QED
    BY <2>1, <2>2, <2>3 DEF QueueAfter
<1>. QED
  BY <1>1, <1>2, <1>3, <1>4 DEF Step, Summarize, Announce, Snapshot, StartThrows,
     BeforeAgentStart, MessageEnd, MessagesEnded, NothingQueued, Request, Response, TurnEnd,
     Flush, Flushed, SavePoint, PrepareNextTurn, AgentEnd, Settled, Finally

LEMMA AfterQueued ==
    ASSUME NEW o \in Operations, CallInv(o), NEW queue, NEW next, queue \in Seq(Queued),
           \/ next = queue \/ next = <<>>
           \/ \E n \in {1, Len(queue)} : queue # <<>> /\ next = SubSeq(queue, n + 1, Len(queue))
           \/ op[o].pc \in HoldPCs /\ next = op[o].holding \o queue
    PROVE  next \in Seq(Queued)
<1>1. CASE \E n \in {1, Len(queue)} : queue # <<>> /\ next = SubSeq(queue, n + 1, Len(queue))
  BY <1>1, Parts
<1>2. CASE op[o].pc \in HoldPCs /\ next = op[o].holding \o queue
  BY <1>2 DEF CallInv
<1>. QED
  BY <1>1, <1>2, AppSets

LEMMA AnswerTails ==
    ASSUME NEW answer \in Answers, answer # <<>>
    PROVE  Tail(answer) \in Answers /\ (answer = Failure => Tail(answer) = <<>>)
<1>. DEFINE f == Output("failure")
            a == Assistant
            r == Result
<1>1. /\ answer \in {<<f>>, <<a>>, <<a, r>>, <<r>>} /\ Failure = <<f>>
      /\ Answers = {<<>>, <<f>>, <<a>>, <<a, r>>, <<r>>}
  BY DEF Answers, Failure
<1>. HIDE DEF f, a, r
<1>2. Tail(<<f>>) = <<>> /\ Tail(<<a>>) = <<>> /\ Tail(<<r>>) = <<>> /\ Tail(<<a, r>>) = <<r>>
  OBVIOUS
<1>. QED
  BY <1>1, <1>2

(* The call that takes a step.                                             *)
LEMMA ShapeCall ==
    ASSUME NEW o \in Operations, TypeInv, RunInv, Shapes(o),
           phase' = phase \/ op'[o].pc \in {"done", "settling"}
    PROVE  CallInv(o)'
<1>. DEFINE c == op[o]
            d == op'[o]
<1>. USE DEF RunInv, CallInv
<1>. USE DEF EarlyPCs, AppPCs, FreshPCs, BusyPCs, FailPCs, HoldPCs, UpdatePCs, PersistPCs, FlushPCs
<1>1. CASE Moves(o)
  <2>1. d.context = c.context /\ d.messages = c.messages /\ d.failing = c.failing
    BY <1>1 DEF Moves, Becomes
  <2>2. d.failing => d.pc \in FailPCs
    BY <1>1, <2>1 DEF Moves, Onward
  <2>3. d.pc \in BusyPCs /\ ~d.failing => phase' # "idle"
    BY <1>1, <2>1 DEF Moves, Onward
  <2>4. d.pc \in AppPCs => d.pc = "hook" /\ c.pc = "nextTurn"
    BY <1>1 DEF Moves, Onward
  <2>5. d.pc \notin AppPCs \cup {"done"} => d.messages \in Answers
    BY <1>1, <2>1 DEF Moves, Onward, Answers
  <2>6. d.pc \notin HoldPCs
    BY <1>1 DEF Moves, Onward
  <2>. QED
    BY <2>1, <2>2, <2>3, <2>4, <2>5, <2>6
<1>2. CASE Reports(o)
  BY <1>2 DEF Reports, Becomes, Answers
<1>3. CASE Saves(o)
  <2>1. d.pc = c.pc /\ d.messages = Tail(c.messages) /\ d.failing = c.failing
        /\ c.pc \in PersistPCs /\ c.messages # <<>>
    BY <1>3 DEF Saves, Becomes, Persists
  <2>2. c.messages \in Seq(FromApp) => Tail(c.messages) \in Seq(FromApp)
    BY <2>1
  <2>3. c.messages \in Answers =>
            Tail(c.messages) \in Answers /\ (c.messages = Failure => Tail(c.messages) = <<>>)
    BY <2>1, AnswerTails
  <2>. QED
    BY <2>1, <2>2, <2>3
<1>4. CASE Takes(o)
  <2>1. /\ c.pc = "start" /\ d.pc \in {"hook", "nextTurn"} /\ d.holding = nextTurnQueue
        /\ d.messages = nextTurnQueue \o c.messages /\ d.failing = c.failing
    BY <1>4 DEF Takes, Becomes
  <2>2. /\ nextTurnQueue \in Seq(Queued) /\ nextTurnQueue \in Seq(FromApp)
        /\ c.messages \in Seq(FromApp)
    BY <2>1, AppSets DEF QueuesInv
  <2>3. d.messages \in Seq(FromApp) /\ ToSet(nextTurnQueue) \subseteq ToSet(d.messages)
    BY <2>1, <2>2 DEF ToSet
  <2>. QED
    BY <2>1, <2>2, <2>3
<1>5. CASE Returns(o)
  BY <1>5 DEF Returns
<1>6. CASE Enters(o)
  BY <1>6 DEF Enters, Becomes
<1>7. CASE Reads(o, "steer", "steerUpdate", steerQueue)
  <2>. PICK n \in {1, Len(steerQueue)} : /\ steerQueue # <<>>
          /\ Becomes(o, "steerUpdate", c.context, c.messages, SubSeq(steerQueue, 1, n), c.failing)
    BY <1>7 DEF Reads
  <2>1. SubSeq(steerQueue, 1, n) \in Seq(Queued)
    BY Parts DEF QueuesInv
  <2>. QED
    BY <1>7, <2>1 DEF Reads, Becomes
<1>8. CASE Reads(o, "followUp", "followUpUpdate", followUpQueue)
  <2>. PICK n \in {1, Len(followUpQueue)} : /\ followUpQueue # <<>>
          /\ Becomes(o, "followUpUpdate", c.context, c.messages, SubSeq(followUpQueue, 1, n),
                     c.failing)
    BY <1>8 DEF Reads
  <2>1. SubSeq(followUpQueue, 1, n) \in Seq(Queued)
    BY Parts DEF QueuesInv
  <2>. QED
    BY <1>8, <2>1 DEF Reads, Becomes
<1>9. CASE Feeds(o)
  BY <1>9, AppSets DEF Feeds, Becomes
<1>10. CASE Answered(o)
  BY <1>10 DEF Answered, Outputs, Answers, Assistant, Result
<1>11. CASE Refreshes(o)
  BY <1>11 DEF Refreshes, Becomes
<1>12. CASE Flushes(o)
  BY <1>12 DEF Flushes, Becomes
<1>13. CASE Announces(o)
  BY <1>13 DEF Announces, Becomes
<1>. QED
  BY <1>1, <1>2, <1>3, <1>4, <1>5, <1>6, <1>7, <1>8, <1>9, <1>10, <1>11, <1>12, <1>13 DEF Shapes

(* Calls that are not the one that takes the step.                         *)
LEMMA RestingCall ==
    ASSUME NEW o \in Operations, CallInv(o), op'[o] = op[o], ~Active(o)
    PROVE  CallInv(o)'
BY DEF CallInv, Active, BusyPCs, AppPCs, FreshPCs, EarlyPCs, UpdatePCs

LEMMA OperationRun ==
    ASSUME NEW o \in Operations, TypeInv, BusyInv, RunInv, Step(o)
    PROVE  RunInv'
<1>1. Others(o) /\ Ended(o) /\ CoreStep(o)
  BY StepBusy, StepCore DEF BusyInv
<1>2. CallInv(o)'
  BY StepShapes, StepPhase, ShapeCall
<1>3. ASSUME NEW p \in Operations, p # o PROVE CallInv(p)'
  BY <1>1, <1>3, RestingCall DEF BusyInv, Alone, Others, Ended, RunInv
<1>4. /\ steerQueue' \in Seq(Queued) /\ followUpQueue' \in Seq(Queued)
      /\ nextTurnQueue' \in Seq(Queued)
  BY StepQueues, AfterQueued DEF QueueAfter, RunInv, QueuesInv
<1>5. QueuesInv'
  BY <1>1, <1>4 DEF CoreStep, RunInv, QueuesInv
<1>. QED
  BY <1>2, <1>3, <1>5 DEF RunInv

LEMMA InitRun == Init => RunInv
<1>. SUFFICES ASSUME Init PROVE RunInv
  OBVIOUS
<1>1. \A S : <<>> \in Seq(S)
  OBVIOUS
<1>2. \A o \in Operations : CallInv(o)
  BY DEF Init, NewOp, CallInv, AppPCs, BusyPCs, FreshPCs, EarlyPCs, UpdatePCs, HoldPCs, Answers,
     PersistPCs, FlushPCs
<1>. QED
  BY <1>1, <1>2 DEF Init, RunInv, QueuesInv

(* The call of an operation that starts.                                   *)
LEMMA StartRun ==
    ASSUME Reentrant = FALSE, TypeInv, BusyInv, RunInv, NEW kind, NEW c, Start(kind),
           op' = [op EXCEPT ![started + 1] = c], kind # "idle",
           c.failing = FALSE, \/ c.pc = "snapshot" /\ c.messages \in Seq(Prompts)
                              \/ c.pc = "summarize" /\ c.messages = <<>>,
           UNCHANGED <<queues, given, direct>>
    PROVE  RunInv'
<1>1. PICK new \in Operations : new = started + 1
  BY BoundsAssumption DEF Start, Operations, TypeInv, CountTypes
<1>2. op'[new] = c /\ \A p \in Operations : p # new => op'[p] = op[p]
  BY <1>1 DEF TypeInv
<1>3. phase' = kind /\ direct = {} /\ \A p \in Operations : ~Active(p)
  BY DEF Start
<1>4. CallInv(new)'
  BY <1>2, <1>3, AppSets DEF CallInv, AppPCs, BusyPCs, FreshPCs, EarlyPCs, UpdatePCs, HoldPCs,
     Answers, PersistPCs, FlushPCs
<1>5. \A p \in Operations : p # new => CallInv(p)'
  BY <1>2, <1>3, RestingCall DEF RunInv
<1>6. QueuesInv'
  BY <1>3 DEF RunInv, QueuesInv, queues
<1>. QED
  BY <1>4, <1>5, <1>6 DEF RunInv

LEMMA NextRun ==
    ASSUME Reentrant = FALSE, TypeInv, BusyInv, RunInv, [Next]_vars
    PROVE  RunInv'
<1>1. CASE prompt
  <2>. DEFINE c == [NewOp EXCEPT !.pc = "snapshot", !.messages = <<Item("prompt")>>]
  <2>1. made \in 0..MaxMade /\ made < MaxMade
    BY <1>1 DEF TypeInv, CountTypes, prompt, Make
  <2>2. Item("prompt") \in Prompts
    BY <2>1, Made DEF Kinds, Prompts, Item
  <2>3. c.failing = FALSE /\ c.pc = "snapshot" /\ c.messages = <<Item("prompt")>>
    BY DEF NewOp
  <2>4. c.messages \in Seq(Prompts)
    BY <2>2, <2>3
  <2>5. Start("turn") /\ op' = [op EXCEPT ![started + 1] = c] /\ UNCHANGED <<queues, given, direct>>
    BY <1>1 DEF prompt
  <2>. HIDE DEF c
  <2>. QED
    BY <2>3, <2>4, <2>5, StartRun
<1>2. ASSUME NEW kind \in Structural, structural(kind) PROVE RunInv'
  <2>. DEFINE c == [NewOp EXCEPT !.pc = "summarize", !.kind = kind]
  <2>1. c.failing = FALSE /\ c.pc = "summarize" /\ c.messages = <<>>
    BY DEF NewOp
  <2>2. Start(kind) /\ op' = [op EXCEPT ![started + 1] = c] /\ UNCHANGED <<queues, given, direct>>
    BY <1>2 DEF structural
  <2>3. kind # "idle"
    BY DEF Structural
  <2>. HIDE DEF c
  <2>. QED
    BY <2>1, <2>2, <2>3, StartRun
<1>3. ASSUME NEW o \in Operations, Step(o) PROVE RunInv'
  BY <1>3, OperationRun
<1>4. CASE steer \/ followUp \/ nextTurn \/ write
  <2>1. made \in 0..MaxMade /\ made < MaxMade
    BY <1>4 DEF TypeInv, CountTypes, steer, followUp, nextTurn, write, Make
  <2>2. /\ \A kind \in {"steer", "followUp", "nextTurn"} : Item(kind) \in Queued
        /\ Item("write") \in Writes
    BY <2>1, Made DEF Queued, Kinds, Item
  <2>3. /\ \A s \in Seq(Queued), item \in Queued : Append(s, item) \in Seq(Queued)
        /\ \A s \in Seq(Queued \cup Writes), item \in Queued \cup Writes :
              Append(s, item) \in Seq(Queued \cup Writes)
    OBVIOUS
  <2>4. UNCHANGED <<op, phase>> /\ \A o \in Operations : CallInv(o)'
    BY <1>4 DEF RunInv, CallInv, steer, followUp, nextTurn, write, core
  <2>5. (phase' # "idle" => direct' = {}) /\ \A item \in direct' : item.kind = "direct"
    BY <1>4, <2>4 DEF RunInv, QueuesInv, steer, followUp, nextTurn, write, QueueWrite, Item
  <2>6. QueuesInv'
    BY <1>4, <2>2, <2>3, <2>5 DEF RunInv, QueuesInv, steer, followUp, nextTurn, write, queues,
       QueueWrite
  <2>. QED
    BY <2>4, <2>6 DEF RunInv
<1>5. CASE abort
  <2>1. \A o \in Operations : /\ op'[o].pc = op[o].pc /\ op'[o].holding = op[o].holding
                              /\ op'[o].messages = op[o].messages
                              /\ op'[o].failing = op[o].failing
    BY <1>5 DEF abort, TypeInv, OpTypes, Fields, NewOp
  <2>2. /\ UNCHANGED <<phase, nextTurnQueue, given, direct>>
        /\ steerQueue' = <<>> /\ followUpQueue' = <<>>
    BY <1>5 DEF abort, core
  <2>3. \A o \in Operations : CallInv(o)'
    BY <2>1, <2>2 DEF RunInv, CallInv
  <2>. QED
    BY <2>2, <2>3, AppSets DEF RunInv, QueuesInv
<1>6. CASE (\E item \in direct : DirectWritten(item)) \/ AbortWaits \/ Aborted \/ UNCHANGED vars
  <2>1. /\ UNCHANGED <<op, phase, queues, given>> /\ (phase # "idle" => direct' = {})
        /\ direct' \subseteq direct
    BY <1>6 DEF DirectWritten, AbortWaits, Aborted, vars, core, RunInv, QueuesInv
  <2>2. \A o \in Operations : CallInv(o)'
    BY <2>1 DEF RunInv, CallInv
  <2>. QED
    BY <2>1, <2>2 DEF RunInv, QueuesInv, queues
<1>. QED
  BY <1>1, <1>2, <1>3, <1>4, <1>5, <1>6 DEF Next, App

-----------------------------------------------------------------------------
(* A request's context is the session.                                     *)
ContextOf(o) ==
    /\ op[o].pc \in FreshPCs => op[o].context = session
    /\ op[o].pc \in {"prompts", "pending"} => op[o].context = session \o op[o].messages

ContextInv == \A o \in Operations : ContextOf(o)

(* Persisting the first message leaves what is to be persisted the same.   *)
LEMMA PersistedFirst ==
    ASSUME NEW S, NEW s \in Seq(S), NEW m \in Seq(S), m # <<>>
    PROVE  s \o m = Append(s, Head(m)) \o Tail(m)
<1>. DEFINE k == Len(s)
            n == Len(m)
            t == Append(s, Head(m))
            u == Tail(m)
<1>1. k \in Nat /\ n \in Nat \ {0} /\ Len(t) = k + 1 /\ Len(u) = n - 1 /\ Head(m) = m[1]
  OBVIOUS
<1>2. /\ t \in Seq(S) /\ u \in Seq(S)
      /\ \A i \in 1..k : t[i] = s[i]
      /\ t[k + 1] = m[1] /\ \A i \in 1..(n - 1) : u[i] = m[i + 1]
  BY <1>1
<1>. HIDE DEF t, u
<1>3. s \o m \in Seq(S) /\ t \o u \in Seq(S) /\ Len(s \o m) = k + n /\ Len(t \o u) = k + n
  <2>1. s \o m \in Seq(S) /\ Len(s \o m) = k + n
    OBVIOUS
  <2>2. t \o u \in Seq(S) /\ Len(t \o u) = Len(t) + Len(u)
    BY <1>2
  <2>3. (k + 1) + (n - 1) = k + n
    BY <1>1
  <2>. HIDE DEF k, n
  <2>. QED
    BY <1>1, <2>1, <2>2, <2>3
<1>4. ASSUME NEW i \in 1..(k + n) PROVE (s \o m)[i] = (t \o u)[i]
  <2>1. CASE i \in 1..k
    BY <1>1, <1>2, <2>1
  <2>2. CASE i = k + 1
    BY <1>1, <1>2, <2>2
  <2>3. CASE i \in (k + 2)..(k + n)
    <3>1. (s \o m)[i] = m[i - k]
      BY <1>1, <2>3
    <3>2. (t \o u)[i] = u[i - (k + 1)]
      BY <1>1, <1>2, <2>3
    <3>3. i - (k + 1) \in 1..(n - 1) /\ (i - (k + 1)) + 1 = i - k
      BY <1>1, <2>3
    <3>. QED
      BY <1>2, <3>1, <3>2, <3>3
  <2>. QED
    BY <1>1, <2>1, <2>2, <2>3
<1>5. s \o m = t \o u
  BY <1>1, <1>3, <1>4, SeqEqual
<1>. QED
  BY <1>5 DEF t, u

LEMMA EmptyLast == ASSUME NEW S, NEW s \in Seq(S) PROVE s \o <<>> = s
OBVIOUS

LEMMA ShapeContext ==
    ASSUME NEW o \in Operations, TypeInv, ContextOf(o), Shapes(o)
    PROVE  ContextOf(o)'
<1>. DEFINE c == op[o]
            d == op'[o]
<1>. USE DEF ContextOf, FreshPCs, UpdatePCs, PersistPCs, FlushPCs
<1>0. session \in Seq(Items) /\ c.messages \in Seq(Items) /\ session \o <<>> = session
  BY ItemSets, EmptyLast DEF TypeInv, SessionTypes, OpTypes
<1>1. CASE Moves(o)
  <2>1. d.context = c.context /\ session' = session /\ (c.pc \in PersistPCs => c.messages = <<>>)
    BY <1>1 DEF Moves, Becomes
  <2>2. d.pc \notin {"prompts", "pending"}
    BY <1>1 DEF Moves, Onward
  <2>3. d.pc \in FreshPCs => c.pc \in {"nextTurn", "prompts", "pending", "steer"}
    BY <1>1 DEF Moves, Onward
  <2>. QED
    BY <1>0, <2>1, <2>2, <2>3
<1>2. CASE Reports(o)
  BY <1>2 DEF Reports, Becomes
<1>3. CASE Saves(o)
  <2>1. /\ d.pc = c.pc /\ d.context = c.context /\ d.messages = Tail(c.messages)
        /\ c.pc \in PersistPCs /\ c.messages # <<>>
        /\ session' = Append(session, Head(c.messages))
    BY <1>3 DEF Saves, Becomes, Persists
  <2>2. session \o c.messages = session' \o d.messages
    BY <1>0, <2>1, PersistedFirst
  <2>. QED
    BY <2>1, <2>2
<1>4. CASE Takes(o)
  BY <1>4 DEF Takes, Becomes
<1>5. CASE Returns(o)
  BY <1>5 DEF Returns
<1>6. CASE Enters(o)
  BY <1>6 DEF Enters, Becomes
<1>7. CASE Reads(o, "steer", "steerUpdate", steerQueue)
      \/ Reads(o, "followUp", "followUpUpdate", followUpQueue)
  BY <1>7 DEF Reads, Becomes
<1>8. CASE Feeds(o)
  BY <1>8 DEF Feeds, Becomes
<1>9. CASE Answered(o)
  BY <1>9 DEF Answered
<1>10. CASE Refreshes(o)
  BY <1>10 DEF Refreshes, Becomes
<1>11. CASE Flushes(o)
  BY <1>11 DEF Flushes, Becomes
<1>12. CASE Announces(o)
  BY <1>12 DEF Announces, Becomes
<1>. QED
  BY <1>1, <1>2, <1>3, <1>4, <1>5, <1>6, <1>7, <1>8, <1>9, <1>10, <1>11, <1>12 DEF Shapes

LEMMA RestingContext ==
    ASSUME NEW o \in Operations, op'[o] = op[o], ~Active(o)
    PROVE  ContextOf(o)'
BY DEF ContextOf, Active, FreshPCs, UpdatePCs

(* A new operation's call has no context yet.                              *)
LEMMA StartsAlone ==
    ASSUME Reentrant = FALSE, TypeInv, NEW kind, NEW c, Start(kind),
           op' = [op EXCEPT ![started + 1] = c]
    PROVE  \E new \in Operations : /\ op'[new] = c
                                   /\ \A p \in Operations : p # new => op'[p] = op[p] /\ ~Active(p)
<1>1. PICK new \in Operations : new = started + 1
  BY BoundsAssumption DEF Start, Operations, TypeInv, CountTypes
<1>. QED
  BY <1>1 DEF TypeInv, Start

LEMMA NextContextInv ==
    ASSUME Reentrant = FALSE, TypeInv, BusyInv, RunInv, ContextInv, [Next]_vars
    PROVE  ContextInv'
<1>1. ASSUME NEW kind, NEW c, Start(kind), op' = [op EXCEPT ![started + 1] = c],
             c.pc \in {"snapshot", "summarize"}
      PROVE  ContextInv'
  <2>1. PICK new \in Operations :
           op'[new] = c /\ \A p \in Operations : p # new => op'[p] = op[p] /\ ~Active(p)
    BY <1>1, StartsAlone
  <2>2. ContextOf(new)'
    BY <1>1, <2>1 DEF ContextOf, FreshPCs, UpdatePCs
  <2>. QED
    BY <2>1, <2>2, RestingContext DEF ContextInv
<1>2. CASE prompt
  <2>1. [NewOp EXCEPT !.pc = "snapshot", !.messages = <<Item("prompt")>>].pc = "snapshot"
    BY DEF NewOp
  <2>. QED
    BY <1>1, <1>2, <2>1 DEF prompt
<1>3. ASSUME NEW kind \in Structural, structural(kind) PROVE ContextInv'
  <2>1. [NewOp EXCEPT !.pc = "summarize", !.kind = kind].pc = "summarize"
    BY DEF NewOp
  <2>. QED
    BY <1>1, <1>3, <2>1 DEF structural
<1>4. ASSUME NEW o \in Operations, Step(o) PROVE ContextInv'
  <2>1. Others(o) /\ Ended(o)
    BY <1>4, StepBusy DEF BusyInv
  <2>2. ContextOf(o)'
    BY <1>4, StepShapes, ShapeContext DEF ContextInv
  <2>3. \A p \in Operations : p # o => ContextOf(p)'
    BY <2>1, RestingContext DEF Others, Ended, BusyInv, Alone
  <2>. QED
    BY <2>2, <2>3 DEF ContextInv
<1>5. CASE UNCHANGED <<op, session>>
  BY <1>5 DEF ContextInv, ContextOf
<1>6. CASE steer \/ followUp \/ nextTurn \/ write \/ AbortWaits \/ Aborted \/ UNCHANGED vars
  BY <1>5, <1>6 DEF steer, followUp, nextTurn, write, QueueWrite, AbortWaits, Aborted, vars
<1>7. CASE abort
  <2>1. \A o \in Operations : /\ op'[o].pc = op[o].pc /\ op'[o].context = op[o].context
                              /\ op'[o].messages = op[o].messages
    BY <1>7 DEF abort, TypeInv, OpTypes, Fields, NewOp
  <2>. QED
    BY <1>7, <2>1 DEF abort, ContextInv, ContextOf
<1>8. CASE \E item \in direct : DirectWritten(item)
  <2>1. phase = "idle" /\ UNCHANGED op
    BY <1>8 DEF DirectWritten, RunInv, QueuesInv
  <2>2. \A o \in Operations : op[o].pc \notin FreshPCs \cup {"prompts", "pending"}
    BY <2>1 DEF RunInv, CallInv, BusyPCs, FreshPCs, AppPCs, FailPCs, UpdatePCs
  <2>. QED
    BY <2>1, <2>2 DEF ContextInv, ContextOf
<1>. QED
  BY <1>2, <1>3, <1>4, <1>6, <1>7, <1>8 DEF Next, App

LEMMA InitContext == Init => ContextInv
BY DEF Init, ContextInv, ContextOf, NewOp, FreshPCs, UpdatePCs

(* A provider is sent exactly what the session holds: whatever was taken   *)
(* from the queues, put out in earlier turns or written meanwhile, and     *)
(* whatever threw.                                                         *)
THEOREM RequestsSendTheSession == ASSUME Reentrant = FALSE PROVE Spec => []ContextIsSession
<1>1. BusyInv /\ [Next]_vars => BusyInv'
  BY NextBusy
<1>2. TypeInv /\ BusyInv /\ RunInv /\ [Next]_vars => RunInv'
  BY NextRun
<1>3. TypeInv /\ BusyInv /\ RunInv /\ ContextInv /\ [Next]_vars => ContextInv'
  BY NextContextInv
<1>4. ContextInv => ContextIsSession
  BY DEF ContextInv, ContextOf, ContextIsSession, FreshPCs
<1>. QED
  BY InitBusy, InitTypeInv, InitRun, InitContext, NextTypeInv, <1>1, <1>2, <1>3, <1>4, PTL DEF Spec

-----------------------------------------------------------------------------
(* A tool's result that is still to be persisted follows what asked for it.*)
ResultOf(o) ==
    op[o].pc = "output" /\ op[o].messages = <<Result>> =>
        Len(session) > 0 /\ session[Len(session)].kind = "assistant"

ResultInv == ToolResultsFollow /\ \A o \in Operations : ResultOf(o)

LEMMA AppendFollows ==
    ASSUME ToolResultsFollow, session \in Seq(Items), NEW item \in Items,
           session' = Append(session, item),
           item.kind = "toolResult" => Len(session) > 0 /\ session[Len(session)].kind = "assistant"
    PROVE  ToolResultsFollow' /\ Len(session') > 0 /\ session'[Len(session')] = item
<1>. DEFINE n == Len(session)
<1>1. /\ n \in Nat /\ DOMAIN session = 1..n /\ DOMAIN session' = 1..(n + 1)
      /\ Len(session') = n + 1 /\ session'[n + 1] = item
      /\ \A i \in 1..n : session'[i] = session[i]
  OBVIOUS
<1>2. ASSUME NEW i \in DOMAIN session', session'[i].kind = "toolResult"
      PROVE  i > 1 /\ session'[i - 1].kind = "assistant"
  <2>1. CASE i = n + 1
    <3>1. n > 0 /\ session[n].kind = "assistant"
      BY <1>1, <1>2, <2>1
    <3>2. i - 1 = n /\ i > 1 /\ n \in 1..n
      BY <1>1, <2>1, <3>1
    <3>. HIDE DEF n
    <3>. QED
      BY <1>1, <3>1, <3>2
  <2>2. CASE i # n + 1
    <3>1. i \in 1..n /\ session[i].kind = "toolResult"
      BY <1>1, <1>2, <2>2
    <3>2. i > 1 /\ session[i - 1].kind = "assistant"
      BY <1>1, <3>1 DEF ToolResultsFollow
    <3>3. i - 1 \in 1..n
      BY <1>1, <3>1, <3>2
    <3>. QED
      BY <1>1, <3>2, <3>3
  <2>. QED
    BY <2>1, <2>2
<1>. QED
  BY <1>1, <1>2 DEF ToolResultsFollow

LEMMA SecondOf ==
    ASSUME NEW S, NEW m \in Seq(S), NEW r, m # <<>>, Tail(m) = <<r>>
    PROVE  2 \in DOMAIN m /\ m[2] = r
<1>1. Len(m) \in Nat /\ DOMAIN m = 1..Len(m) /\ Len(m) # 0
  BY EmptySeq, LenProperties
<1>2. Len(<<r>>) = 1 /\ <<r>>[1] = r
  OBVIOUS
<1>3. Len(Tail(m)) = Len(m) - 1 /\ (1 \in 1..(Len(m) - 1) => Tail(m)[1] = m[2])
  OBVIOUS
<1>4. Len(m) - 1 = 1 /\ Tail(m)[1] = r
  BY <1>2, <1>3
<1>5. ASSUME NEW n \in Nat, n - 1 = 1 PROVE n = 2 /\ 1 \in 1..(n - 1) /\ 2 \in 1..n
  BY <1>5
<1>. QED
  BY <1>1, <1>3, <1>4, <1>5

(* What a run persists.                                                    *)
LEMMA PersistedHead ==
    ASSUME NEW o \in Operations, TypeInv, RunInv, Persists(o)
    PROVE  /\ Head(op[o].messages) \in Items
           /\ Head(op[o].messages).kind = "toolResult" =>
                  op[o].pc = "output" /\ op[o].messages = <<Result>>
           /\ Tail(op[o].messages) = <<Result>> => Head(op[o].messages).kind = "assistant"
<1>. DEFINE m == op[o].messages
<1>1. m \in Seq(Messages) /\ m # <<>> /\ op[o].pc \in PersistPCs
  BY DEF TypeInv, OpTypes, Persists
<1>2. Head(m) \in Items
  BY <1>1, ItemSets
<1>3. CASE m \in Seq(FromApp)
  <2>1. Head(m) \in FromApp /\ \A i \in DOMAIN m : m[i].kind # "toolResult"
    BY <1>1, <1>3 DEF FromApp
  <2>2. Tail(m) # <<Result>>
    <3>. DEFINE r == Result
    <3>. SUFFICES ASSUME Tail(m) = <<r>> PROVE FALSE
      OBVIOUS
    <3>. HIDE DEF r
    <3>1. 2 \in DOMAIN m /\ m[2] = r
      BY <1>1, SecondOf
    <3>. QED
      BY <1>1, <2>1, <3>1 DEF r, Result, Output
  <2>. QED
    BY <1>2, <2>1, <2>2 DEF FromApp
<1>4. CASE m \notin Seq(FromApp)
  <2>1. op[o].pc = "output" /\ m \in Answers
    BY <1>1, <1>4 DEF RunInv, CallInv, AppPCs, EarlyPCs, PersistPCs
  <2>. DEFINE f == Output("failure")
              a == Assistant
              r == Result
  <2>2. m \in {<<f>>, <<a>>, <<a, r>>, <<r>>} /\ f.kind = "failure" /\ a.kind = "assistant"
        /\ r.kind = "toolResult"
    BY <1>1, <2>1 DEF Answers, Failure, Output, Assistant, Result
  <2>. HIDE DEF f, a, r
  <2>3. Head(m).kind = "toolResult" => m = <<r>>
    BY <2>2
  <2>4. Tail(m) = <<r>> => Head(m) = a
    <3>1. /\ Tail(<<f>>) = <<>> /\ Tail(<<a>>) = <<>> /\ Tail(<<r>>) = <<>> /\ <<>> # <<r>>
          /\ Head(<<a, r>>) = a
      OBVIOUS
    <3>. HIDE DEF m
    <3>. QED
      BY <2>2, <3>1
  <2>. QED
    BY <1>2, <2>1, <2>2, <2>3, <2>4 DEF r
<1>. QED
  BY <1>3, <1>4

LEMMA ShapeResults ==
    ASSUME NEW o \in Operations, TypeInv, WriteInv, RunInv, ResultInv, Shapes(o)
    PROVE  ToolResultsFollow' /\ ResultOf(o)'
<1>0. session \in Seq(Items) /\ ToolResultsFollow /\ ResultOf(o)
  BY DEF TypeInv, SessionTypes, ResultInv
<1>1. UNCHANGED session => ToolResultsFollow'
  BY <1>0 DEF ToolResultsFollow
<1>2. Persists(o) => /\ ToolResultsFollow' /\ Len(session') > 0
                     /\ session'[Len(session')] = Head(op[o].messages)
  <2>. SUFFICES ASSUME Persists(o)
                PROVE  ToolResultsFollow' /\ Len(session') > 0
                       /\ session'[Len(session')] = Head(op[o].messages)
    OBVIOUS
  <2>. DEFINE item == Head(op[o].messages)
  <2>1. item \in Items /\ session' = Append(session, item)
    BY PersistedHead DEF Persists
  <2>2. item.kind = "toolResult" =>
            Len(session) > 0 /\ session[Len(session)].kind = "assistant"
    BY <1>0, PersistedHead DEF ResultOf
  <2>. HIDE DEF item
  <2>3. ToolResultsFollow' /\ Len(session') > 0 /\ session'[Len(session')] = item
    BY <1>0, <2>1, <2>2, AppendFollows
  <2>. QED
    BY <2>3 DEF item
<1>3. CASE op'[o].pc # "output" /\ (UNCHANGED session \/ Persists(o))
  BY <1>1, <1>2, <1>3 DEF ResultOf
<1>4. CASE Reports(o)
  <2>1. <<Result>> # Failure
    BY DEF Result, Failure, Output
  <2>. QED
    BY <1>1, <1>2, <1>4, <2>1 DEF Reports, Becomes, ResultOf
<1>5. CASE Saves(o)
  <2>1. op'[o].pc = op[o].pc /\ op'[o].messages = Tail(op[o].messages) /\ Persists(o)
    BY <1>5 DEF Saves, Becomes
  <2>. QED
    BY <1>2, <2>1, PersistedHead DEF ResultOf
<1>6. CASE Answered(o)
  <2>. DEFINE a == Assistant
              r == Result
  <2>1. op'[o].messages \in {<<a>>, <<a, r>>} /\ a # r /\ UNCHANGED session
    BY <1>6 DEF Answered, Outputs, Assistant, Result, Output
  <2>. HIDE DEF a, r
  <2>2. op'[o].messages # <<r>>
    BY <2>1
  <2>. QED
    BY <1>1, <2>1, <2>2 DEF ResultOf, r
<1>7. CASE Announces(o)
  <2>1. Output("structural") \in Items /\ Output("structural").kind # "toolResult"
    BY Outs, ItemSets DEF Output
  <2>2. session' = Append(session, Output("structural")) /\ op'[o].pc = "announce"
    BY <1>7 DEF Announces, Becomes
  <2>. QED
    BY <1>0, <2>1, <2>2, AppendFollows DEF ResultOf
<1>8. CASE Flushes(o) /\ op[o].holding # <<>> /\ session' = Append(session, Head(op[o].holding))
  <2>1. op[o].pc \in FlushPCs /\ op'[o].pc \in FlushPCs
    BY <1>8 DEF Flushes, FlushPCs
  <2>2. Head(op[o].holding) \in Writes
    <3>1. pendingSessionWrites # <<>> /\ op[o].holding = <<Head(pendingSessionWrites)>>
      BY <1>8, <2>1 DEF WriteInv, Flushing
    <3>2. Head(pendingSessionWrites) \in Writes
      BY <3>1 DEF TypeInv, SessionTypes
    <3>. QED
      BY <3>1, <3>2
  <2>3. Head(op[o].holding) \in Items /\ Head(op[o].holding).kind # "toolResult"
    BY <2>2 DEF Writes
  <2>. QED
    BY <1>0, <1>8, <2>1, <2>3, AppendFollows DEF ResultOf, FlushPCs
<1>9. CASE Flushes(o) /\ UNCHANGED session
  BY <1>1, <1>9 DEF Flushes, ResultOf, FlushPCs
<1>10. CASE Moves(o)
  BY <1>3, <1>10 DEF Moves, Onward
<1>11. CASE Takes(o) \/ Returns(o) \/ Enters(o) \/ Feeds(o) \/ Refreshes(o)
  BY <1>3, <1>11 DEF Takes, Returns, Enters, Feeds, Refreshes, Becomes
<1>12. CASE Reads(o, "steer", "steerUpdate", steerQueue)
       \/ Reads(o, "followUp", "followUpUpdate", followUpQueue)
  BY <1>3, <1>12 DEF Reads, Becomes
<1>. QED
  BY <1>4, <1>5, <1>6, <1>7, <1>8, <1>9, <1>10, <1>11, <1>12 DEF Shapes, Flushes

LEMMA RestingResults ==
    ASSUME NEW o \in Operations, op'[o] = op[o], ~Active(o), PersistPCs \subseteq PCs
    PROVE  ResultOf(o)'
BY DEF ResultOf, Active

LEMMA NextResults ==
    ASSUME Reentrant = FALSE, TypeInv, BusyInv, WriteInv, RunInv, ResultInv, [Next]_vars
    PROVE  ResultInv'
<1>. PersistPCs \subseteq PCs
  BY DEF PCs
<1>1. ASSUME NEW kind, NEW c, Start(kind), op' = [op EXCEPT ![started + 1] = c],
             c.pc \in {"snapshot", "summarize"}, UNCHANGED session
      PROVE  ResultInv'
  <2>1. PICK new \in Operations :
           op'[new] = c /\ \A p \in Operations : p # new => op'[p] = op[p] /\ ~Active(p)
    BY <1>1, StartsAlone
  <2>2. ResultOf(new)' /\ ToolResultsFollow'
    BY <1>1, <2>1 DEF ResultOf, ResultInv, ToolResultsFollow
  <2>. QED
    BY <2>1, <2>2, RestingResults DEF ResultInv
<1>2. CASE prompt
  <2>1. [NewOp EXCEPT !.pc = "snapshot", !.messages = <<Item("prompt")>>].pc = "snapshot"
    BY DEF NewOp
  <2>. QED
    BY <1>1, <1>2, <2>1 DEF prompt
<1>3. ASSUME NEW kind \in Structural, structural(kind) PROVE ResultInv'
  <2>1. [NewOp EXCEPT !.pc = "summarize", !.kind = kind].pc = "summarize"
    BY DEF NewOp
  <2>. QED
    BY <1>1, <1>3, <2>1 DEF structural
<1>4. ASSUME NEW o \in Operations, Step(o) PROVE ResultInv'
  <2>1. Others(o) /\ Ended(o)
    BY <1>4, StepBusy DEF BusyInv
  <2>2. ToolResultsFollow' /\ ResultOf(o)'
    BY <1>4, StepShapes, ShapeResults
  <2>3. \A p \in Operations : p # o => ResultOf(p)'
    BY <2>1, RestingResults DEF Others, Ended, BusyInv, Alone
  <2>. QED
    BY <2>2, <2>3 DEF ResultInv
<1>5. CASE UNCHANGED <<op, session>>
  BY <1>5 DEF ResultInv, ResultOf, ToolResultsFollow
<1>6. CASE steer \/ followUp \/ nextTurn \/ write \/ AbortWaits \/ Aborted \/ UNCHANGED vars
  BY <1>5, <1>6 DEF steer, followUp, nextTurn, write, QueueWrite, AbortWaits, Aborted, vars
<1>7. CASE abort
  <2>1. \A o \in Operations : op'[o].pc = op[o].pc /\ op'[o].messages = op[o].messages
    BY <1>7 DEF abort, TypeInv, OpTypes, Fields, NewOp
  <2>. QED
    BY <1>7, <2>1 DEF abort, ResultInv, ResultOf, ToolResultsFollow
<1>8. ASSUME NEW item \in direct, DirectWritten(item) PROVE ResultInv'
  <2>1. phase = "idle" /\ UNCHANGED op /\ session' = Append(session, item)
    BY <1>8 DEF DirectWritten, RunInv, QueuesInv
  <2>2. ASSUME NEW o \in Operations, op[o].pc = "output" PROVE op[o].messages # <<Result>>
    <3>1. op[o].messages \in {<<>>, Failure}
      BY <2>1, <2>2 DEF RunInv, CallInv, BusyPCs
    <3>2. <<Result>> # Failure
      BY DEF Result, Failure, Output
    <3>3. <<Result>> # <<>>
      OBVIOUS
    <3>. QED
      BY Zenon, <3>1, <3>2, <3>3
  <2>3. ToolResultsFollow'
    <3>1. item \in Items /\ item.kind # "toolResult" /\ session \in Seq(Items)
      BY <1>8 DEF TypeInv, AppTypes, SessionTypes, Messages, RunInv, QueuesInv
    <3>. QED
      BY <2>1, <3>1, AppendFollows DEF ResultInv
  <2>. QED
    BY <2>1, <2>2, <2>3 DEF ResultInv, ResultOf
<1>. QED
  BY <1>2, <1>3, <1>4, <1>6, <1>7, <1>8 DEF Next, App

LEMMA InitResults == Init => ResultInv
BY DEF Init, ResultInv, ResultOf, ToolResultsFollow, NewOp

(* A tool's result comes right after the message that called for it: the   *)
(* writes that wait for the end of the turn, the queues and what is written*)
(* directly never come between, whatever throws.                           *)
THEOREM ResultsFollowCalls == ASSUME Reentrant = FALSE PROVE Spec => []ToolResultsFollow
<1>1. BusyInv /\ [Next]_vars => BusyInv'
  BY NextBusy
<1>2. TypeInv /\ BusyInv /\ WriteInv /\ [Next]_vars => WriteInv'
  BY NextWriteInv
<1>3. TypeInv /\ BusyInv /\ RunInv /\ [Next]_vars => RunInv'
  BY NextRun
<1>4. TypeInv /\ BusyInv /\ WriteInv /\ RunInv /\ ResultInv /\ [Next]_vars => ResultInv'
  BY NextResults
<1>5. ResultInv => ToolResultsFollow
  BY DEF ResultInv
<1>. QED
  BY InitBusy, InitTypeInv, InitWriteInv, InitRun, InitResults, NextTypeInv,
     <1>1, <1>2, <1>3, <1>4, <1>5, PTL DEF Spec

-----------------------------------------------------------------------------
(* Whether a call has a message: it may be failing with it in its context. *)
Has(o, item) ==
    \/ Active(o) /\ item \in ToSet(op[o].holding) \cup ToSet(op[o].messages)
    \/ op[o].failing /\ item \in ToSet(op[o].context)

Accounted(o, item) == Has(o, item) \/ item \in InQueues \/ item \in ToSet(session)

LEMMA InUnion ==
    ASSUME NEW g, NEW S, NEW x
    PROVE  x \in UNION {g[o] : o \in S} <=> \E o \in S : x \in g[o]
OBVIOUS

LEMMA RunsOf ==
    ASSUME NEW calls, NEW x,
           NEW actives \in SUBSET Operations, NEW failings \in SUBSET Operations
    PROVE  x \in (UNION {ToSet(calls[o].holding) \cup ToSet(calls[o].messages) : o \in actives})
                 \cup (UNION {ToSet(calls[o].context) : o \in failings})
           <=> \/ \E o \in actives : x \in ToSet(calls[o].holding) \cup ToSet(calls[o].messages)
               \/ \E o \in failings : x \in ToSet(calls[o].context)
<1>. DEFINE g == [o \in Operations |-> ToSet(calls[o].holding) \cup ToSet(calls[o].messages)]
            h == [o \in Operations |-> ToSet(calls[o].context)]
<1>1. \A o \in actives : g[o] = ToSet(calls[o].holding) \cup ToSet(calls[o].messages)
  OBVIOUS
<1>2. \A o \in failings : h[o] = ToSet(calls[o].context)
  OBVIOUS
<1>. DEFINE held  == {ToSet(calls[o].holding) \cup ToSet(calls[o].messages) : o \in actives}
            known == {ToSet(calls[o].context) : o \in failings}
<1>3. {g[o] : o \in actives} = held
  BY <1>1
<1>4. {h[o] : o \in failings} = known
  BY <1>2
<1>. HIDE DEF held, known
<1>5. x \in UNION held <=>
          \E o \in actives : x \in ToSet(calls[o].holding) \cup ToSet(calls[o].messages)
  <2>. HIDE DEF g
  <2>1. x \in UNION {g[o] : o \in actives} <=> \E o \in actives : x \in g[o]
    BY InUnion
  <2>. QED
    BY <1>1, <1>3, <2>1
<1>6. x \in UNION known <=> \E o \in failings : x \in ToSet(calls[o].context)
  <2>. HIDE DEF h
  <2>1. x \in UNION {h[o] : o \in failings} <=> \E o \in failings : x \in h[o]
    BY InUnion
  <2>. QED
    BY <1>2, <1>4, <2>1
<1>7. x \in (UNION held) \cup (UNION known) <=> x \in UNION held \/ x \in UNION known
  OBVIOUS
<1>8. x \in (UNION held) \cup (UNION known)
         <=> \/ \E o \in actives : x \in ToSet(calls[o].holding) \cup ToSet(calls[o].messages)
             \/ \E o \in failings : x \in ToSet(calls[o].context)
  BY Zenon, <1>5, <1>6, <1>7
<1>. QED
  BY Zenon, <1>8 DEF held, known

LEMMA RunsHave ==
    ASSUME NEW item
    PROVE  /\ item \in WithRuns <=> \E o \in Operations : Has(o, item)
           /\ item \in WithRuns' <=> \E o \in Operations : Has(o, item)'
<1>1. item \in WithRuns <=>
         \/ \E o \in {p \in Operations : Active(p)} :
               item \in ToSet(op[o].holding) \cup ToSet(op[o].messages)
         \/ \E o \in {p \in Operations : op[p].failing} : item \in ToSet(op[o].context)
  BY RunsOf DEF WithRuns
<1>2. item \in WithRuns' <=>
         \/ \E o \in {p \in Operations : Active(p)'} :
               item \in ToSet(op'[o].holding) \cup ToSet(op'[o].messages)
         \/ \E o \in {p \in Operations : op'[p].failing} : item \in ToSet(op'[o].context)
  BY RunsOf DEF WithRuns
<1>. QED
  BY Zenon, <1>1, <1>2 DEF Has

LEMMA SetOfConcat ==
    ASSUME NEW S, NEW s \in Seq(S), NEW t \in Seq(S), NEW x
    PROVE  x \in ToSet(s \o t) <=> x \in ToSet(s) \/ x \in ToSet(t)
<1>. DEFINE u == s \o t
            k == Len(s)
            n == Len(t)
<1>1. /\ DOMAIN s = 1..k /\ DOMAIN t = 1..n /\ DOMAIN u = 1..(k + n) /\ k \in Nat /\ n \in Nat
  OBVIOUS
<1>2. \A i \in 1..(k + n) : u[i] = IF i <= k THEN s[i] ELSE t[i - k]
  BY ConcatProperties
<1>. HIDE DEF u, k, n
<1>3. ASSUME NEW i \in DOMAIN u
      PROVE  (i \in DOMAIN s /\ u[i] = s[i]) \/ (i - k \in DOMAIN t /\ u[i] = t[i - k])
  BY <1>1, <1>2
<1>4. ASSUME NEW j \in DOMAIN t PROVE \E i \in DOMAIN u : u[i] = t[j]
  <2>. DEFINE i == k + j
  <2>1. i \in 1..(k + n) /\ ~(i <= k) /\ i - k = j
    BY <1>1
  <2>. HIDE DEF i
  <2>. QED
    BY <1>1, <1>2, <2>1
<1>5. ASSUME NEW i \in DOMAIN s PROVE i \in DOMAIN u /\ u[i] = s[i]
  BY <1>1, <1>2
<1>6. x \in ToSet(u) <=> x \in ToSet(s) \/ x \in ToSet(t)
  BY <1>3, <1>4, <1>5 DEF ToSet
<1>. QED
  BY <1>6 DEF u

LEMMA SetOfAppend ==
    ASSUME NEW S, NEW s \in Seq(S), NEW item \in S
    PROVE  ToSet(Append(s, item)) = ToSet(s) \cup {item}
<1>. DEFINE n == Len(s)
            t == Append(s, item)
<1>1. /\ n \in Nat /\ DOMAIN s = 1..n /\ DOMAIN t = 1..(n + 1) /\ t[n + 1] = item
      /\ \A i \in 1..n : t[i] = s[i]
  OBVIOUS
<1>. HIDE DEF n, t
<1>2. /\ \A i \in DOMAIN t : i = n + 1 \/ i \in DOMAIN s
      /\ \A i \in DOMAIN s : i \in DOMAIN t
      /\ n + 1 \in DOMAIN t
  BY <1>1
<1>3. ToSet(t) = ToSet(s) \cup {item}
  BY <1>1, <1>2 DEF ToSet
<1>. QED
  BY <1>3 DEF t

LEMMA SetOfHead ==
    ASSUME NEW S, NEW s \in Seq(S), s # <<>>
    PROVE  ToSet(s) = ToSet(Tail(s)) \cup {Head(s)}
<1>. DEFINE n == Len(s)
            t == Tail(s)
<1>1. /\ n \in Nat \ {0} /\ DOMAIN s = 1..n /\ DOMAIN t = 1..(n - 1)
      /\ \A i \in 1..(n - 1) : t[i] = s[i + 1]
      /\ Head(s) = s[1]
  OBVIOUS
<1>. HIDE DEF n, t
<1>2. \A i \in DOMAIN s : i = 1 \/ (i - 1 \in DOMAIN t /\ t[i - 1] = s[i])
  BY <1>1
<1>3. \A i \in DOMAIN t : i + 1 \in DOMAIN s /\ t[i] = s[i + 1]
  BY <1>1
<1>4. 1 \in DOMAIN s
  BY <1>1
<1>5. ASSUME NEW x \in ToSet(s) PROVE x \in ToSet(t) \cup {s[1]}
  BY <1>2 DEF ToSet
<1>6. ToSet(t) \cup {s[1]} \subseteq ToSet(s)
  BY <1>3, <1>4 DEF ToSet
<1>. QED
  BY <1>1, <1>5, <1>6 DEF t

LEMMA SetOfParts ==
    ASSUME NEW S, NEW s \in Seq(S), s # <<>>, NEW n \in {1, Len(s)}
    PROVE  ToSet(s) = ToSet(SubSeq(s, 1, n)) \cup ToSet(SubSeq(s, n + 1, Len(s)))
<1>. DEFINE m == Len(s)
            a == SubSeq(s, 1, n)
            b == SubSeq(s, n + 1, m)
<1>1. m \in Int /\ n \in Int /\ 1 <= n /\ n <= m /\ DOMAIN s = 1..m /\ \A i \in 1..m : s[i] \in S
  OBVIOUS
<1>. HIDE DEF m
<1>2. /\ a \in Seq(S) /\ Len(a) = (IF 1 <= n THEN n - 1 + 1 ELSE 0)
      /\ \A i \in 1..(n - 1 + 1) : a[i] = s[1 + i - 1]
  BY <1>1, SubSeqProperties
<1>3. /\ b \in Seq(S) /\ Len(b) = (IF n + 1 <= m THEN m - (n + 1) + 1 ELSE 0)
      /\ \A i \in 1..(m - (n + 1) + 1) : b[i] = s[(n + 1) + i - 1]
  BY <1>1, SubSeqProperties
<1>4. DOMAIN a = 1..Len(a) /\ DOMAIN b = 1..Len(b)
  BY <1>2, <1>3
<1>. HIDE DEF a, b
<1>5. DOMAIN a = 1..n /\ DOMAIN b = 1..(m - n)
  BY <1>1, <1>2, <1>3, <1>4
<1>6. ASSUME NEW i \in DOMAIN s
      PROVE  (i \in DOMAIN a /\ a[i] = s[i]) \/ (i - n \in DOMAIN b /\ b[i - n] = s[i])
  <2>1. i \in Int /\ 1 <= i /\ i <= m
    BY <1>1
  <2>2. CASE i <= n
    <3>1. i \in 1..(n - 1 + 1) /\ 1 + i - 1 = i /\ i \in 1..n
      BY <1>1, <2>1, <2>2
    <3>. QED
      BY <1>2, <1>5, <3>1
  <2>3. CASE ~(i <= n)
    <3>. DEFINE j == i - n
    <3>1. j \in 1..(m - (n + 1) + 1) /\ (n + 1) + j - 1 = i /\ j \in 1..(m - n)
      BY <1>1, <2>1, <2>3
    <3>. HIDE DEF j
    <3>2. j \in DOMAIN b /\ b[j] = s[i]
      BY <1>3, <1>5, <3>1
    <3>. QED
      BY <3>2 DEF j
  <2>. QED
    BY <2>2, <2>3
<1>7. ASSUME NEW i \in DOMAIN a PROVE i \in DOMAIN s /\ a[i] = s[i]
  <2>1. i \in 1..(n - 1 + 1) /\ 1 + i - 1 = i /\ i \in 1..m
    BY <1>1, <1>5
  <2>. QED
    BY <1>1, <1>2, <2>1
<1>8. ASSUME NEW i \in DOMAIN b PROVE n + i \in DOMAIN s /\ b[i] = s[n + i]
  <2>1. i \in 1..(m - (n + 1) + 1) /\ (n + 1) + i - 1 = n + i /\ n + i \in 1..m
    BY <1>1, <1>5
  <2>. QED
    BY <1>1, <1>3, <2>1
<1>9. ToSet(s) = ToSet(a) \cup ToSet(b)
  <2>1. ASSUME NEW x \in ToSet(s) PROVE x \in ToSet(a) \cup ToSet(b)
    BY <1>6 DEF ToSet
  <2>2. ToSet(a) \subseteq ToSet(s) /\ ToSet(b) \subseteq ToSet(s)
    BY <1>7, <1>8 DEF ToSet
  <2>. QED
    BY <2>1, <2>2
<1>. QED
  BY <1>9 DEF a, b, m

(* What a run puts out and what it flushes was not in a message queue.     *)
LEMMA NotQueued ==
    ASSUME NEW o \in Operations, TypeInv, WriteInv, RunInv, NEW item \in Queued
    PROVE  /\ \A answer \in Answers : item \notin ToSet(answer)
           /\ \A s \in Seq(Prompts) : item \notin ToSet(s)
           /\ item \notin ToSet(<<>>)
           /\ op[o].pc \notin HoldPCs => item \notin ToSet(op[o].holding)
<1>. DEFINE f == Output("failure")
            a == Assistant
            r == Result
<1>1. /\ item # f /\ item # a /\ item # r
      /\ Answers = {<<>>, <<f>>, <<a>>, <<a, r>>, <<r>>}
  BY DEF Queued, Output, Assistant, Result, Answers, Failure
<1>. HIDE DEF f, a, r
<1>2. item \notin ToSet(<<>>) /\ item \notin ToSet(<<f>>) /\ item \notin ToSet(<<a>>)
      /\ item \notin ToSet(<<r>>) /\ item \notin ToSet(<<a, r>>)
  BY <1>1 DEF ToSet
<1>3. \A s \in Seq(Prompts) : item \notin ToSet(s)
  BY DEF ToSet, Prompts, Queued
<1>4. CASE op[o].pc \in FlushPCs /\ op[o].holding # <<>>
  <2>1. /\ pendingSessionWrites # <<>> /\ op[o].holding = <<Head(pendingSessionWrites)>>
        /\ Head(pendingSessionWrites) \in Writes
    BY <1>4 DEF WriteInv, Flushing, TypeInv, SessionTypes
  <2>. DEFINE w == Head(pendingSessionWrites)
  <2>2. item # w /\ op[o].holding = <<w>>
    BY <2>1 DEF Writes, Queued
  <2>. HIDE DEF w
  <2>3. item \notin ToSet(op[o].holding)
    BY <2>2 DEF ToSet
  <2>. QED
    BY <1>1, <1>2, <1>3, <2>3
<1>5. CASE ~(op[o].pc \in FlushPCs /\ op[o].holding # <<>>)
  <2>1. op[o].pc \notin HoldPCs => op[o].holding = <<>>
    BY <1>5, NothingHeld
  <2>. QED
    BY <1>1, <1>2, <1>3, <2>1
<1>. QED
  BY <1>4, <1>5

(* A step of a call keeps every queued message accounted for.              *)
LEMMA ShapeKeeps ==
    ASSUME NEW o \in Operations, TypeInv, WriteInv, RunInv, ContextInv, Shapes(o), Active(o),
           Effect(o), op'[o].pc # "none", "update" \notin Faults, "hook" \notin Faults,
           NEW item \in Queued, Accounted(o, item)
    PROVE  Accounted(o, item)'
<1>. DEFINE c == op[o]
            d == op'[o]
<1>0. /\ session \in Seq(Items) /\ c.messages \in Seq(Items) /\ c.holding \in Seq(Items)
      /\ c.context \in Seq(Items)
  BY ItemSets DEF TypeInv, SessionTypes, OpTypes
<1>1. /\ \A answer \in Answers : item \notin ToSet(answer)
      /\ \A s \in Seq(Prompts) : item \notin ToSet(s)
      /\ item \notin ToSet(<<>>)
      /\ c.pc \notin HoldPCs => item \notin ToSet(c.holding)
  BY NotQueued
<1>2. item \in ToSet(session) => item \in ToSet(session')
  <2>1. CASE UNCHANGED session
    BY <2>1
  <2>2. ASSUME NEW new \in Items, session' = Append(session, new)
        PROVE  item \in ToSet(session) => item \in ToSet(session')
    BY <1>0, <2>2, SetOfAppend
  <2>3. c.holding # <<>> => Head(c.holding) \in Items
    BY <1>0
  <2>. QED
    BY <2>1, <2>2, <2>3, ItemSets DEF Effect, Unchanged, Message, FlushedOne
<1>3. CallInv(o) /\ ContextOf(o)
  BY DEF RunInv, ContextInv
<1>4. c.failing => c.pc \in FailPCs /\ item \notin ToSet(c.messages)
  BY <1>1, <1>3 DEF CallInv, Answers
<1>5. item \in ToSet(c.messages) => c.pc \in AppPCs \ {"snapshot", "start"}
  BY <1>1, <1>3 DEF CallInv, Active
<1>. USE DEF Accounted, Has, Active
<1>6. CASE Moves(o)
  <2>1. /\ d.context = c.context /\ d.messages = c.messages /\ d.failing = c.failing
        /\ UNCHANGED InQueues
    BY <1>6 DEF Moves, Becomes, InQueues, queues
  <2>2. item \in ToSet(c.holding) => item \in ToSet(c.messages)
    BY <1>1, <1>3, <1>6 DEF Moves, CallInv
  <2>3. item \in ToSet(c.messages) => d.pc # "done"
    BY <1>5, <1>6 DEF Moves, Onward, AppPCs, EarlyPCs
  <2>. QED
    BY <1>2, <2>1, <2>2, <2>3
<1>7. CASE Reports(o)
  <2>1. /\ c.pc \in LoopPCs \ UpdatePCs /\ d.context = c.context /\ UNCHANGED InQueues
        /\ c.failing => d.failing
        /\ ~c.failing => d.failing
    BY <1>7 DEF Reports, Becomes, InQueues, queues
  <2>2. item \notin ToSet(c.holding)
    BY <1>1, <2>1 DEF HoldPCs, UpdatePCs, LoopPCs, PersistPCs, FlushPCs
  <2>3. item \in ToSet(c.messages) => item \in ToSet(c.context)
    <3>1. item \in ToSet(c.messages) => c.context = session \o c.messages
      BY <1>3, <1>5, <2>1 DEF ContextOf, AppPCs, EarlyPCs, LoopPCs, PersistPCs, FlushPCs
    <3>. QED
      BY <1>0, <3>1, SetOfConcat
  <2>. QED
    BY <1>2, <2>1, <2>2, <2>3
<1>8. CASE Saves(o)
  <2>1. /\ d.context = c.context /\ d.failing = c.failing /\ UNCHANGED InQueues
        /\ d.pc = c.pc /\ c.pc \in PersistPCs /\ c.messages # <<>>
        /\ d.messages = Tail(c.messages) /\ session' = Append(session, Head(c.messages))
    BY <1>8 DEF Saves, Persists, Becomes, InQueues, queues
  <2>2. item \notin ToSet(c.holding)
    BY <1>1, <2>1 DEF HoldPCs, PersistPCs
  <2>3. ToSet(c.messages) = ToSet(d.messages) \cup {Head(c.messages)}
    BY <1>0, <2>1, SetOfHead
  <2>4. Head(c.messages) \in ToSet(session')
    BY <1>0, <2>1, SetOfAppend
  <2>. QED
    BY <1>2, <2>1, <2>2, <2>3, <2>4
<1>9. CASE Takes(o)
  <2>1. /\ c.pc = "start" /\ d.failing = c.failing /\ d.context = c.context /\ d.pc # "done"
        /\ d.messages = nextTurnQueue \o c.messages /\ d.holding = nextTurnQueue
        /\ UNCHANGED <<steerQueue, followUpQueue>>
    BY <1>9 DEF Takes, Becomes
  <2>2. item \notin ToSet(c.holding) /\ item \notin ToSet(c.messages)
    BY <1>1, <1>5, <2>1 DEF HoldPCs
  <2>3. item \in ToSet(nextTurnQueue) => item \in ToSet(d.holding)
    BY <2>1
  <2>. QED
    BY <1>2, <2>1, <2>2, <2>3 DEF InQueues
<1>10. CASE Returns(o)
  BY <1>10 DEF Returns
<1>11. CASE Enters(o)
  <2>1. /\ c.pc = "hook" /\ d.pc = "prompts" /\ d.messages = c.messages /\ UNCHANGED InQueues
    BY <1>11 DEF Enters, Becomes, InQueues, queues
  <2>2. item \notin ToSet(c.holding) /\ ~c.failing
    BY <1>1, <1>4, <2>1 DEF HoldPCs, FailPCs
  <2>. QED
    BY <1>2, <2>1, <2>2
<1>12. CASE Reads(o, "steer", "steerUpdate", steerQueue) /\ UNCHANGED followUpQueue
  <2>. PICK n \in {1, Len(steerQueue)} :
          /\ steerQueue # <<>> /\ steerQueue' = SubSeq(steerQueue, n + 1, Len(steerQueue))
          /\ Becomes(o, "steerUpdate", c.context, c.messages, SubSeq(steerQueue, 1, n), c.failing)
    BY <1>12 DEF Reads
  <2>1. /\ c.pc = "steer" /\ d.pc = "steerUpdate" /\ UNCHANGED nextTurnQueue
        /\ d.context = c.context /\ d.messages = c.messages /\ d.failing = c.failing
    BY <1>12 DEF Reads, Becomes
  <2>2. ToSet(steerQueue) = ToSet(d.holding) \cup ToSet(steerQueue')
    BY SetOfParts DEF Becomes, RunInv, QueuesInv
  <2>3. item \notin ToSet(c.holding)
    BY <1>1, <2>1 DEF HoldPCs
  <2>. QED
    BY <1>2, <1>12, <2>1, <2>2, <2>3 DEF InQueues
<1>13. CASE Reads(o, "followUp", "followUpUpdate", followUpQueue) /\ UNCHANGED steerQueue
  <2>. PICK n \in {1, Len(followUpQueue)} :
          /\ followUpQueue # <<>>
          /\ followUpQueue' = SubSeq(followUpQueue, n + 1, Len(followUpQueue))
          /\ Becomes(o, "followUpUpdate", c.context, c.messages, SubSeq(followUpQueue, 1, n),
                     c.failing)
    BY <1>13 DEF Reads
  <2>1. /\ c.pc = "followUp" /\ d.pc = "followUpUpdate" /\ UNCHANGED nextTurnQueue
        /\ d.context = c.context /\ d.messages = c.messages /\ d.failing = c.failing
    BY <1>13 DEF Reads, Becomes
  <2>2. ToSet(followUpQueue) = ToSet(d.holding) \cup ToSet(followUpQueue')
    BY SetOfParts DEF Becomes, RunInv, QueuesInv
  <2>3. item \notin ToSet(c.holding)
    BY <1>1, <2>1 DEF HoldPCs
  <2>. QED
    BY <1>2, <1>13, <2>1, <2>2, <2>3 DEF InQueues
<1>14. CASE Feeds(o)
  <2>1. /\ c.pc \in UpdatePCs /\ d.pc = "pending" /\ d.messages = c.holding /\ UNCHANGED InQueues
    BY <1>14 DEF Feeds, Becomes, InQueues, queues
  <2>2. item \notin ToSet(c.messages) /\ ~c.failing
    BY <1>4, <1>5, <2>1 DEF UpdatePCs, FailPCs, AppPCs, EarlyPCs
  <2>. QED
    BY <1>2, <2>1, <2>2
<1>15. CASE Answered(o)
  <2>1. c.pc = "response" /\ UNCHANGED InQueues
    BY <1>15 DEF Answered, InQueues, queues
  <2>2. item \notin ToSet(c.messages) /\ ~c.failing /\ item \notin ToSet(c.holding)
    BY <1>1, <1>4, <1>5, <2>1 DEF HoldPCs, FailPCs, AppPCs, EarlyPCs
  <2>. QED
    BY <1>2, <2>1, <2>2
<1>16. CASE Refreshes(o)
  <2>1. /\ c.pc \in {"snapshot", "nextFlush"} /\ UNCHANGED InQueues
    BY <1>16 DEF Refreshes, InQueues, queues
  <2>2. item \notin ToSet(c.messages) /\ ~c.failing /\ item \notin ToSet(c.holding)
    BY <1>1, <1>4, <1>5, <2>1 DEF HoldPCs, FailPCs, AppPCs, EarlyPCs
  <2>. QED
    BY <1>2, <2>1, <2>2
<1>17. CASE Flushes(o)
  <2>1. /\ c.pc \in FlushPCs /\ d.failing = c.failing /\ d.context = c.context /\ UNCHANGED InQueues
    BY <1>17 DEF Flushes, Becomes, InQueues, queues
  <2>2. item \notin ToSet(c.messages) /\ item \notin ToSet(c.holding)
    BY <1>1, <1>5, <2>1 DEF HoldPCs, FlushPCs, AppPCs, EarlyPCs
  <2>. QED
    BY <1>2, <2>1, <2>2
<1>18. CASE Announces(o)
  <2>1. c.pc = "summarize" /\ UNCHANGED InQueues
    BY <1>18 DEF Announces, InQueues, queues
  <2>2. item \notin ToSet(c.messages) /\ ~c.failing /\ item \notin ToSet(c.holding)
    BY <1>1, <1>4, <1>5, <2>1 DEF HoldPCs, FailPCs, AppPCs, EarlyPCs
  <2>. QED
    BY <1>2, <2>1, <2>2
<1>. QED
  BY <1>6, <1>7, <1>8, <1>9, <1>10, <1>11, <1>12, <1>13, <1>14, <1>15, <1>16, <1>17, <1>18
     DEF Shapes

LEMMA QueuedAppends ==
    ASSUME NEW queue, NEW item, queue \in Seq(Queued), item \in Queued
    PROVE  ToSet(Append(queue, item)) = ToSet(queue) \cup {item}
BY SetOfAppend

(* What of the given is accounted for stays so when a step changes no more *)
(* of the calls than this.                                                 *)
LEMMA SameRuns ==
    ASSUME NothingLost, InQueues \subseteq InQueues' \cup cleared',
           ToSet(session) \subseteq ToSet(session'), cleared \subseteq cleared',
           \A item : item \in ToSet(given') /\ item.kind # "write" =>
               item \in ToSet(given) \/ item \in InQueues',
           \A o \in Operations : \A item : Has(o, item) => Has(o, item)'
    PROVE  NothingLost'
<1>1. ASSUME NEW item \in ToSet(given'), item.kind # "write", item \notin InQueues'
      PROVE  item \in WithRuns' \cup ToSet(session') \cup cleared'
  <2>1. item \in InQueues \cup WithRuns \cup ToSet(session) \cup cleared
    BY <1>1 DEF NothingLost
  <2>2. item \in WithRuns => item \in WithRuns'
    <3>1. (\E o \in Operations : Has(o, item)) => (\E o \in Operations : Has(o, item)')
      OBVIOUS
    <3>. QED
      BY <3>1, RunsHave
  <2>. QED
    BY <1>1, <2>1, <2>2
<1>. QED
  BY <1>1 DEF NothingLost

LEMMA GivenKinds ==
    ASSUME RunInv, NEW item \in ToSet(given), item.kind # "write"
    PROVE  item \in Queued
BY DEF RunInv, QueuesInv, ToSet, Writes

LEMMA StartKeeps ==
    ASSUME Reentrant = FALSE, TypeInv, BusyInv, RunInv, NothingLost, NEW kind, NEW c, Start(kind),
           op' = [op EXCEPT ![started + 1] = c],
           UNCHANGED <<queues, session, given, cleared>>
    PROVE  NothingLost'
<1>1. PICK new \in Operations : new = started + 1
  BY BoundsAssumption DEF Start, Operations, TypeInv, CountTypes
<1>2. started \in Nat /\ \A p \in Operations : ~Active(p)
  BY DEF Start, BusyInv, Shape
<1>3. op[new].pc = "none"
  BY <1>1, <1>2 DEF BusyInv, Alone, Active, Operations
<1>4. ~Active(new) /\ ~op[new].failing
  BY <1>2, <1>3 DEF RunInv, CallInv, FailPCs
<1>5. \A p \in Operations : p # new => op'[p] = op[p]
  BY <1>1 DEF TypeInv
<1>6. \A o \in Operations : \A item : Has(o, item) => Has(o, item)'
  BY <1>4, <1>5 DEF Has, Active
<1>7. UNCHANGED InQueues
  BY DEF InQueues, queues
<1>. QED
  BY <1>6, <1>7, SameRuns

LEMMA OperationKeeps ==
    ASSUME NEW o \in Operations, TypeInv, BusyInv, WriteInv, RunInv, ContextInv, NothingLost,
           "update" \notin Faults, "hook" \notin Faults, Step(o)
    PROVE  NothingLost'
<1>1. Shapes(o) /\ Others(o) /\ Ended(o) /\ Effect(o) /\ CoreStep(o)
  BY StepShapes, StepBusy, StepTypes, StepCore DEF BusyInv, OwnTypes
<1>2. UNCHANGED <<given, cleared>> /\ Active(o) /\ op'[o].pc # "none"
  BY <1>1 DEF CoreStep, Ended
<1>3. ASSUME NEW item \in ToSet(given), item.kind # "write"
      PROVE  item \in InQueues' \cup WithRuns' \cup ToSet(session') \cup cleared'
  <2>1. item \in Queued
    BY <1>3, GivenKinds
  <2>2. item \in InQueues \cup WithRuns \cup ToSet(session) \cup cleared
    BY <1>3 DEF NothingLost
  <2>3. CASE Accounted(o, item)
    <3>1. Accounted(o, item)'
      BY <1>1, <1>2, <2>1, <2>3, ShapeKeeps
    <3>. QED
      BY <3>1, RunsHave DEF Accounted
  <2>4. CASE item \in cleared
    BY <1>2, <2>4
  <2>5. ASSUME NEW p \in Operations, p # o, Has(p, item) PROVE Has(p, item)'
    BY <1>1, <2>5 DEF Others, Has, Active
  <2>6. CASE ~Accounted(o, item) /\ item \notin cleared
    <3>1. PICK p \in Operations : p # o /\ Has(p, item)
      BY <2>2, <2>6, RunsHave DEF Accounted
    <3>. QED
      BY <2>5, <3>1, RunsHave
  <2>. QED
    BY <2>3, <2>4, <2>6
<1>. QED
  BY <1>2, <1>3 DEF NothingLost

LEMMA NextKeeps ==
    ASSUME Reentrant = FALSE, "update" \notin Faults, "hook" \notin Faults,
           TypeInv, BusyInv, WriteInv, RunInv, ContextInv, NothingLost, [Next]_vars
    PROVE  NothingLost'
<1>. session \in Seq(Items) /\ given \in Seq(Items)
  BY DEF TypeInv, SessionTypes, AppTypes
<1>1. CASE prompt
  BY <1>1, StartKeeps DEF prompt
<1>2. ASSUME NEW kind \in Structural, structural(kind) PROVE NothingLost'
  BY <1>2, StartKeeps DEF structural
<1>3. ASSUME NEW o \in Operations, Step(o) PROVE NothingLost'
  BY <1>3, OperationKeeps
<1>4. ASSUME UNCHANGED op PROVE \A o \in Operations : \A item : Has(o, item) => Has(o, item)'
  BY <1>4 DEF Has, Active
<1>5. CASE steer \/ followUp \/ nextTurn
  <2>1. PICK kind \in {"steer", "followUp", "nextTurn"} :
           /\ given' = Append(given, Item(kind)) /\ Item(kind) \in Queued
           /\ UNCHANGED <<session, op, cleared>>
           /\ \/ kind = "steer" /\ steerQueue' = Append(steerQueue, Item(kind))
                 /\ UNCHANGED <<followUpQueue, nextTurnQueue>>
              \/ kind = "followUp" /\ followUpQueue' = Append(followUpQueue, Item(kind))
                 /\ UNCHANGED <<steerQueue, nextTurnQueue>>
              \/ kind = "nextTurn" /\ nextTurnQueue' = Append(nextTurnQueue, Item(kind))
                 /\ UNCHANGED <<steerQueue, followUpQueue>>
    <3>1. made \in 0..MaxMade /\ made < MaxMade
      BY <1>5 DEF TypeInv, CountTypes, steer, followUp, nextTurn, Make
    <3>2. \A kind \in {"steer", "followUp", "nextTurn"} : Item(kind) \in Queued
      BY <3>1, Made DEF Queued, Kinds, Item
    <3>. QED
      BY <1>5, <3>2 DEF steer, followUp, nextTurn
  <2>. DEFINE new == Item(kind)
  <2>2. new \in Queued /\ new \in Items
    BY <2>1, ItemSets DEF Queued
  <2>3. ToSet(given') = ToSet(given) \cup {new}
    BY <2>1, <2>2, SetOfAppend
  <2>4. InQueues' = InQueues \cup {new}
    <3>1. \A queue \in Seq(Queued) : ToSet(Append(queue, new)) = ToSet(queue) \cup {new}
      BY <2>2, QueuedAppends
    <3>2. /\ steerQueue \in Seq(Queued) /\ followUpQueue \in Seq(Queued)
          /\ nextTurnQueue \in Seq(Queued)
      BY DEF RunInv, QueuesInv
    <3>. QED
      BY <2>1, <3>1, <3>2 DEF InQueues
  <2>. HIDE DEF new
  <2>5. UNCHANGED <<session, op, cleared>>
    BY <2>1
  <2>. QED
    BY <1>4, <2>3, <2>4, <2>5, SameRuns
<1>6. CASE write
  <2>1. UNCHANGED <<queues, op, cleared, session>>
    BY <1>6 DEF write, QueueWrite
  <2>2. \A item : item \in ToSet(given') /\ item.kind # "write" => item \in ToSet(given)
    <3>1. CASE UNCHANGED given
      BY <3>1
    <3>2. CASE given' = Append(given, Item("write"))
      <4>1. made \in 0..MaxMade /\ made < MaxMade
        BY <1>6 DEF TypeInv, CountTypes, write, Make
      <4>2. Item("write") \in Items /\ Item("write").kind = "write"
        BY <4>1, Made DEF Writes
      <4>3. ToSet(given') = ToSet(given) \cup {Item("write")}
        BY <3>2, <4>2, SetOfAppend
      <4>. QED
        BY <4>2, <4>3
    <3>. QED
      BY <1>6, <3>1, <3>2 DEF write, QueueWrite
  <2>3. UNCHANGED InQueues
    BY <2>1 DEF InQueues, queues
  <2>. QED
    BY <1>4, <2>1, <2>2, <2>3, SameRuns
<1>7. CASE abort
  <2>1. \A o \in Operations : /\ op'[o].pc = op[o].pc /\ op'[o].messages = op[o].messages
                              /\ op'[o].holding = op[o].holding /\ op'[o].context = op[o].context
                              /\ op'[o].failing = op[o].failing
    BY <1>7 DEF abort, TypeInv, OpTypes, Fields, NewOp
  <2>2. \A o \in Operations : \A item : Has(o, item) => Has(o, item)'
    BY <2>1 DEF Has, Active
  <2>3. /\ UNCHANGED <<nextTurnQueue, session, given>>
        /\ cleared' = cleared \cup ToSet(steerQueue) \cup ToSet(followUpQueue)
    BY <1>7 DEF abort
  <2>4. InQueues \subseteq InQueues' \cup cleared'
    BY <2>3 DEF InQueues
  <2>. QED
    BY <2>2, <2>3, <2>4, SameRuns
<1>8. ASSUME NEW item \in direct, DirectWritten(item) PROVE NothingLost'
  <2>1. UNCHANGED <<queues, op, cleared, given>> /\ session' = Append(session, item)
    BY <1>8 DEF DirectWritten
  <2>2. item \in Items
    BY ItemSets DEF TypeInv, AppTypes
  <2>3. ToSet(session) \subseteq ToSet(session')
    BY <2>1, <2>2, SetOfAppend
  <2>4. UNCHANGED InQueues
    BY <2>1 DEF InQueues, queues
  <2>. QED
    BY <1>4, <2>1, <2>3, <2>4, SameRuns
<1>9. CASE AbortWaits \/ Aborted \/ UNCHANGED vars
  <2>1. UNCHANGED <<queues, op, cleared, given, session>>
    BY <1>9 DEF AbortWaits, Aborted, vars
  <2>2. UNCHANGED InQueues
    BY <2>1 DEF InQueues, queues
  <2>. QED
    BY <1>4, <2>1, <2>2, SameRuns
<1>. QED
  BY <1>1, <1>2, <1>3, <1>5, <1>6, <1>7, <1>8, <1>9 DEF Next, App

LEMMA InitKeeps == Init => NothingLost
BY DEF Init, NothingLost, ToSet

(* Unless an update listener or a hook throws, a message that was queued   *)
(* stays in a queue, goes with a run or reaches the session, or abort      *)
(* hands it back: whichever other listener throws and whichever append or  *)
(* snapshot fails, only the failing run that took it can drop it.          *)
THEOREM QueuedIsNotLost ==
    ASSUME Reentrant = FALSE, "update" \notin Faults, "hook" \notin Faults
    PROVE  Spec => []NothingLost
<1>1. BusyInv /\ [Next]_vars => BusyInv'
  BY NextBusy
<1>2. TypeInv /\ BusyInv /\ WriteInv /\ [Next]_vars => WriteInv'
  BY NextWriteInv
<1>3. TypeInv /\ BusyInv /\ RunInv /\ [Next]_vars => RunInv'
  BY NextRun
<1>4. TypeInv /\ BusyInv /\ RunInv /\ ContextInv /\ [Next]_vars => ContextInv'
  BY NextContextInv
<1>5. /\ TypeInv /\ BusyInv /\ WriteInv /\ RunInv /\ ContextInv /\ NothingLost /\ [Next]_vars
      => NothingLost'
  BY NextKeeps
<1>. QED
  BY InitBusy, InitTypeInv, InitWriteInv, InitRun, InitContext, InitKeeps, NextTypeInv,
     <1>1, <1>2, <1>3, <1>4, <1>5, PTL DEF Spec
=============================================================================
