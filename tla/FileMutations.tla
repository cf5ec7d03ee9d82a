---------------------------- MODULE FileMutations ----------------------------
(***************************************************************************)
(* withFileMutationQueue of                                                *)
(* packages/coding-agent/src/core/tools/file-mutation-queue.ts, as the     *)
(* tools edit and write use it: calls register one after another, each     *)
(* under the real path of its file, and wait for the call registered       *)
(* before them under the same one.  The tools look for an abort between    *)
(* their operations on the file system and never during one.               *)
(***************************************************************************)
EXTENDS ToolCalls, Sequences

CONSTANT NoCall

ASSUME NoCallAssumption == NoCall \notin Calls

VARIABLES
    pc,                 \* where a call is
    key,                \* the key a call was registered under
    currentQueue,       \* the call it waits for, if any
    fileMutationQueues, \* the last call registered under a key, if any
    exists, content,    \* the files there are, and the calls whose text is in them
    buffer              \* what an edit has read

queueVars == <<key, currentQueue, fileMutationQueues>>
diskVars  == <<exists, content, buffer>>
fileVars  == <<request, aborted, pc, queueVars, diskVars>>

-----------------------------------------------------------------------------
(* Faults: what some of the definitions below would be with a bug, to see  *)
(* that the properties find it.  No definition uses them.                  *)
ForgetQueue(c) == NoCall

-----------------------------------------------------------------------------
Keys == Files \X BOOLEAN

(* getMutationQueueKey: the real path, or the path as it was given if      *)
(* there is no such file; they differ if the path goes through a link.     *)
Key(c) == <<File(c), request[c].linked /\ File(c) \notin exists>>

FileInit ==
    /\ CallsInit
    /\ pc = [c \in Calls |-> "idle"]
    /\ key = [c \in Calls |-> <<File(c), FALSE>>]
    /\ currentQueue = [c \in Calls |-> NoCall]
    /\ fileMutationQueues = [k \in Keys |-> NoCall]
    /\ exists \in SUBSET Files
    /\ content = [f \in Files |-> <<>>]
    /\ buffer = [c \in Calls |-> <<>>]

GoTo(c, to) == pc' = [pc EXCEPT ![c] = to]

(* The calls that edit or write enter the registration queue in order.     *)
CallMutations ==
    /\ \A c \in Calls : pc[c] = "idle"
    /\ pc' = [c \in Calls |-> IF Mutation(c) THEN "called" ELSE "idle"]
    /\ UNCHANGED <<request, aborted, queueVars, diskVars>>

FirstCalled(c) ==
    pc[c] = "called" /\ \A d \in Calls : pc[d] = "called" => c <= d

(* realpath has answered for the first of the registration queue.          *)
Register(c) ==
    /\ FirstCalled(c) /\ GoTo(c, "waiting")
    /\ key' = [key EXCEPT ![c] = Key(c)]
    /\ currentQueue' = [currentQueue EXCEPT ![c] = fileMutationQueues[Key(c)]]
    /\ fileMutationQueues' = [fileMutationQueues EXCEPT ![Key(c)] = c]
    /\ UNCHANGED <<request, aborted, diskVars>>

RegisterFails(c) ==
    /\ FirstCalled(c) /\ GoTo(c, "failed")
    /\ UNCHANGED <<request, aborted, queueVars, diskVars>>

(* The call is over and releases the next; the entry of the key is deleted *)
(* if no call came after this one.                                         *)
Remaining(c) ==
    IF fileMutationQueues[key[c]] = c THEN NoCall ELSE fileMutationQueues[key[c]]

Release(c, how) ==
    /\ GoTo(c, how)
    /\ fileMutationQueues' = [fileMutationQueues EXCEPT ![key[c]] = Remaining(c)]
    /\ UNCHANGED <<key, currentQueue>>

Fails(c)      == Release(c, "failed")
GoesOn(c, to) == ~aborted /\ GoTo(c, to) /\ UNCHANGED queueVars

(* The queue before the call is done: it begins.                           *)
Released(c) == currentQueue[c] # NoCall => pc[currentQueue[c]] \in Settled

Begin(c) ==
    /\ pc[c] = "waiting" /\ Released(c)
    /\ \/ GoesOn(c, IF request[c].tool = "edit" THEN "access" ELSE "mkdir")
       \/ aborted /\ Fails(c)
    /\ UNCHANGED <<request, aborted, diskVars>>

(* ops.mkdir has answered.                                                 *)
MadeDirectory(c) ==
    /\ pc[c] = "mkdir"
    /\ GoesOn(c, "opening") \/ Fails(c)
    /\ UNCHANGED <<request, aborted, diskVars>>

(* ops.access has answered.                                                *)
Accessed(c) ==
    /\ pc[c] = "access"
    /\ (File(c) \in exists /\ GoesOn(c, "reading")) \/ Fails(c)
    /\ UNCHANGED <<request, aborted, diskVars>>

(* ops.readFile has answered, and the edits apply or do not.               *)
Read(c) ==
    /\ pc[c] = "reading"
    /\ \/ GoesOn(c, "opening") /\ buffer' = [buffer EXCEPT ![c] = content[File(c)]]
       \/ Fails(c) /\ UNCHANGED buffer
    /\ UNCHANGED <<request, aborted, exists, content>>

(* ops.writeFile opens the file and truncates it, then writes.  Whether it *)
(* was aborted meanwhile only changes what the call reports.               *)
Opened(c) ==
    /\ pc[c] = "opening" /\ GoTo(c, "writing")
    /\ exists' = exists \cup {File(c)}
    /\ content' = [content EXCEPT ![File(c)] = <<>>]
    /\ UNCHANGED <<request, aborted, queueVars, buffer>>

OpenFails(c) ==
    /\ pc[c] = "opening" /\ Fails(c)
    /\ UNCHANGED <<request, aborted, diskVars>>

FinalContent(c) == IF request[c].tool = "edit" THEN Append(buffer[c], c) ELSE <<c>>

Wrote(c) ==
    /\ pc[c] = "writing" /\ Release(c, "done")
    /\ content' = [content EXCEPT ![File(c)] = FinalContent(c)]
    /\ UNCHANGED <<request, aborted, exists, buffer>>

FileStep(c) ==
    \/ Register(c) \/ RegisterFails(c) \/ Begin(c)
    \/ MadeDirectory(c) \/ Accessed(c) \/ Read(c) \/ Opened(c) \/ OpenFails(c) \/ Wrote(c)

Abort == ~aborted /\ aborted' = TRUE /\ UNCHANGED <<request, pc, queueVars, diskVars>>

FileNext == CallMutations \/ (\E c \in Calls : FileStep(c)) \/ Abort
FileSpec == FileInit /\ [][FileNext]_fileVars

-----------------------------------------------------------------------------
(* Each mutation takes effect when it opens its file: until it has written *)
(* it is the only one at that file, if the calls of one file have one key. *)
IsWriting(c, f) == pc[c] = "writing" /\ File(c) = f

Contents ==
    [f \in Files |->
        IF \E c \in Calls : IsWriting(c, f)
        THEN FinalContent(CHOOSE c \in Calls : IsWriting(c, f))
        ELSE content[f]]

Atomic == INSTANCE AtomicFiles
            WITH contents <- Contents,
                 applied <- {c \in Calls : pc[c] \in {"writing", "done"}}

(* "Serialize file mutation operations targeting the same file": edits and *)
(* writes of a file that overlap leave what some order of them would, no   *)
(* edit is lost and none is made on a file half written.                   *)
ImplementsAtomicFiles == Atomic!Spec

=============================================================================
