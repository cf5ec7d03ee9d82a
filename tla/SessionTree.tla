---------------------------- MODULE SessionTree ----------------------------
(***************************************************************************)
(* A session of packages/agent/src/harness/session: Session (session.ts)   *)
(* over JsonlSessionStorage (jsonl-storage.ts).  The storage keeps all     *)
(* entries in memory and appends each one to a file first; opening the     *)
(* file restores the entries and the leaf.  Every operation is             *)
(* asynchronous and none of them takes a lock: callers interleave at each  *)
(* await, and the process may die at any.                                  *)
(*                                                                         *)
(* InMemorySessionStorage (memory-storage.ts) is the same without a file.  *)
(***************************************************************************)
EXTENDS Naturals, Sequences, FiniteSets

CONSTANTS
    Writers,      \* callers of the session, each awaits its own operations
    MaxWindows,   \* bound: windows of time
    MaxEntries,   \* bound: entries ever made
    MaxCrashes,   \* bound: crashes of the process
    MaxFailures,  \* bound: appends the file system fails
    CrashWrites,  \* what a crash may leave of a write that is under way
    FailedWrites  \* what a failed append may leave

Endings == {"line", "open", "torn"}

ASSUME BoundsAssumption ==
    /\ MaxWindows \in Nat \ {0} /\ MaxEntries \in Nat
    /\ MaxCrashes \in Nat /\ MaxFailures \in Nat
ASSUME WritesAssumption ==
    CrashWrites \subseteq Endings /\ FailedWrites \subseteq Endings

VARIABLES
    file,      \* the lines after the header
    entries,   \* the entries in memory; byId is their index
    leaf,      \* currentLeafId, 0 when it is null
    isOpen,    \* the process runs and has the session open
    window,    \* the time, in units of 2^16 ms
    pc,        \* [Writers -> the await the operation is suspended at]
    entry,     \* [Writers -> the entry it is making]
    summary,   \* [Writers -> whether moveTo has a summary to append]
    made, crashes, failures,  \* counters the bounds apply to
    acked      \* history: entries whose operation has resolved

opVars  == <<pc, entry, summary>>
memVars == <<entries, leaf, isOpen>>
vars == <<file, memVars, window, opVars, made, crashes, failures, acked>>

-----------------------------------------------------------------------------
(* Ids.  The first 8 digits of a UUIDv7 are the upper 32 of the 48 bits of *)
(* its time in ms: every id made within 2^16 ms has the same ones, and all *)
(* but the first entry of a window fall back to a whole UUID.              *)

Root    == 0
Windows == 1..MaxWindows
Ids     == 1..(MaxWindows + MaxEntries)

Entry == [id : Ids, parentId : Ids \cup {Root}, type : {"entry", "leaf"},
          targetId : Ids \cup {Root}]
Unfinished == [id : {0}, parentId : {Root}, type : {"entry", "leaf"}, targetId : Ids \cup {Root}]

(* Faults: what definitions below would be with a bug; none uses them.     *)

NewIdIgnoresKnown == window
NewIdMayBeRoot == window - 1
AnyTarget == Ids \cup {Root}
WrittenWithoutNewline(e, end) == Append(file, [entry |-> e, end |-> "open"])
CommitWithoutLeaf(e) == entries' = Append(entries, e) /\ leaf' = leaf
RejectedStaysInMemory(w) == entries' = Append(entries, entry[w]) /\ UNCHANGED leaf

-----------------------------------------------------------------------------
Known == {entries[i].id : i \in DOMAIN entries}

NewId == IF window \notin Known THEN window ELSE MaxWindows + made + 1

Node(id, parentId)          == [id |-> id, parentId |-> parentId, type |-> "entry",
                                targetId |-> Root]
LeafEntry(id, parentId, to) == [id |-> id, parentId |-> parentId, type |-> "leaf",
                                targetId |-> to]

(* Map.set: of entries with one id the last is found.                      *)
ById(id) ==
    entries[CHOOSE i \in DOMAIN entries :
                entries[i].id = id /\ \A j \in DOMAIN entries : j > i => entries[j].id # id]

LeafIdAfter(e) == IF e.type = "leaf" THEN e.targetId ELSE e.id

LeafOf(es) == IF es = <<>> THEN Root ELSE LeafIdAfter(es[Len(es)])

-----------------------------------------------------------------------------
(* The file.  A line is an entry with a newline; a write cut short leaves  *)
(* an entry without its newline ("open") or a part of one ("torn"), and    *)
(* whatever is appended next continues that line.                          *)

Loads(f) == \A i \in DOMAIN f : f[i].end = "line" \/ (i = Len(f) /\ f[i].end = "open")

Parsed(f) == [i \in DOMAIN f |-> f[i].entry]

Written(e, end) == Append(file, [entry |-> e, end |-> end])

-----------------------------------------------------------------------------
Init ==
    /\ file = <<>> /\ entries = <<>> /\ leaf = Root /\ isOpen = TRUE
    /\ window = 1
    /\ pc = [w \in Writers |-> "idle"]
    /\ entry = [w \in Writers |-> Node(0, Root)]
    /\ summary = [w \in Writers |-> FALSE]
    /\ made = 0 /\ crashes = 0 /\ failures = 0 /\ acked = {}

Tick ==
    /\ window < MaxWindows
    /\ window' = window + 1
    /\ UNCHANGED <<file, memVars, opVars, made, crashes, failures, acked>>

Goto(w, there) == pc' = [pc EXCEPT ![w] = there]

Make(w, e) ==
    /\ made < MaxEntries /\ made' = made + 1
    /\ entry' = [entry EXCEPT ![w] = e]

(* appendMessage and the other appends: `id: await createEntryId()` ...    *)
AppendStart(w) ==
    /\ isOpen /\ pc[w] = "idle"
    /\ Make(w, Node(NewId, Root))
    /\ Goto(w, "identified")
    /\ UNCHANGED <<file, memVars, window, summary, crashes, failures, acked>>

(* ... then `parentId: await getLeafId()`, and the append is issued.       *)
ReadLeaf(w) ==
    /\ pc[w] = "identified"
    /\ entry' = [entry EXCEPT ![w].parentId = leaf]
    /\ Goto(w, "writing")
    /\ UNCHANGED <<file, memVars, window, summary, made, crashes, failures, acked>>

Targets == Known \cup {Root}

(* moveTo: the target is looked up, then setLeafId makes a leaf entry.     *)
MoveStart(w, target, withSummary) ==
    /\ isOpen /\ pc[w] = "idle"
    /\ target \in Targets
    /\ entry' = [entry EXCEPT ![w] = LeafEntry(0, Root, target)]
    /\ summary' = [summary EXCEPT ![w] = withSummary]
    /\ Goto(w, "moving")
    /\ UNCHANGED <<file, memVars, window, made, crashes, failures, acked>>

SetLeafId(w) ==
    /\ pc[w] = "moving"
    /\ Make(w, LeafEntry(NewId, leaf, entry[w].targetId))
    /\ Goto(w, "writing")
    /\ UNCHANGED <<file, memVars, window, summary, crashes, failures, acked>>

(* The file system appends the line and reports success later.             *)
WriteLine(w) ==
    /\ pc[w] = "writing"
    /\ file' = Written(entry[w], "line")
    /\ Goto(w, "written")
    /\ UNCHANGED <<memVars, window, entry, summary, made, crashes, failures, acked>>

(* What a rejected append does to the state in memory.                     *)
Rejected(w) == UNCHANGED <<entries, leaf>>

WriteFails(w) ==
    /\ pc[w] = "writing"
    /\ failures < MaxFailures /\ failures' = failures + 1
    /\ \/ UNCHANGED file
       \/ \E end \in FailedWrites : file' = Written(entry[w], end)
    /\ Rejected(w)
    /\ Goto(w, "idle")
    /\ UNCHANGED <<isOpen, window, entry, summary, made, crashes, acked>>

Commit(e) ==
    /\ entries' = Append(entries, e)
    /\ leaf' = LeafIdAfter(e)

(* The append has resolved: memory follows the file.                       *)
Committed(w) ==
    /\ pc[w] = "written"
    /\ Commit(entry[w])
    /\ IF entry[w].type = "leaf" /\ summary[w]
       THEN Goto(w, "summary") /\ UNCHANGED acked
       ELSE Goto(w, "idle") /\ acked' = acked \cup {entry[w]}
    /\ UNCHANGED <<file, isOpen, window, entry, summary, made, crashes, failures>>

(* moveTo appends its summary to the target, wherever the leaf is by now.  *)
SummaryStart(w) ==
    /\ pc[w] = "summary"
    /\ Make(w, Node(NewId, entry[w].targetId))
    /\ Goto(w, "writing")
    /\ UNCHANGED <<file, memVars, window, summary, crashes, failures, acked>>

-----------------------------------------------------------------------------
(* The process dies; of the writes under way one may have got somewhere.   *)
Crash ==
    /\ isOpen /\ crashes < MaxCrashes /\ crashes' = crashes + 1
    /\ isOpen' = FALSE /\ entries' = <<>> /\ leaf' = Root
    /\ pc' = [w \in Writers |-> "idle"]
    /\ \/ UNCHANGED file
       \/ \E w \in Writers, end \in CrashWrites :
              pc[w] = "writing" /\ file' = Written(entry[w], end)
    /\ UNCHANGED <<window, entry, summary, made, failures, acked>>

(* JsonlSessionStorage.open: any invalid line makes it throw.              *)
Open ==
    /\ ~isOpen /\ Loads(file)
    /\ isOpen' = TRUE
    /\ entries' = Parsed(file)
    /\ leaf' = LeafOf(Parsed(file))
    /\ UNCHANGED <<file, window, opVars, made, crashes, failures, acked>>

-----------------------------------------------------------------------------
Operation(w) ==
    \/ AppendStart(w) \/ ReadLeaf(w)
    \/ \E target \in Ids \cup {Root}, s \in BOOLEAN : MoveStart(w, target, s)
    \/ SetLeafId(w) \/ WriteLine(w) \/ WriteFails(w) \/ Committed(w) \/ SummaryStart(w)

Next == Tick \/ Crash \/ Open \/ \E w \in Writers : Operation(w)

Spec == Init /\ [][Next]_vars

-----------------------------------------------------------------------------
(* Properties.                                                             *)

PCs == {"idle", "identified", "moving", "writing", "written", "summary"}

(* Every variable has its type. *)
TypeOK ==
    /\ file \in Seq([entry : Entry, end : Endings])
    /\ entries \in Seq(Entry) /\ leaf \in Ids \cup {Root} /\ isOpen \in BOOLEAN
    /\ window \in Windows
    /\ pc \in [Writers -> PCs] /\ summary \in [Writers -> BOOLEAN]
    /\ entry \in [Writers -> Entry \cup Unfinished]
    /\ made \in 0..MaxEntries /\ crashes \in 0..MaxCrashes /\ failures \in 0..MaxFailures
    /\ acked \subseteq Entry

Quiet == isOpen /\ \A w \in Writers : pc[w] \in {"idle", "identified", "moving", "summary"}

SetOf(s) == {s[i] : i \in DOMAIN s}

(* With nothing being written, the file can be opened and has the entries  *)
(* of the memory: a failed append leaves no trace in memory, an append     *)
(* that succeeded is in both, whoever else appends meanwhile.              *)
MemoryIsFile == Quiet => /\ Loads(file)
                         /\ SetOf(entries) = SetOf(Parsed(file))
                         /\ Len(entries) = Len(file)

(* With one caller they agree on the order too, so that opening the file   *)
(* again succeeds and restores the entries and the leaf the caller saw.    *)
ReopenRestores ==
    Quiet => Loads(file) /\ entries = Parsed(file) /\ leaf = LeafOf(Parsed(file))

(* What the session has confirmed can be read back after any crash.        *)
AckedReadable == Loads(file) /\ acked \subseteq SetOf(Parsed(file))

(* The session can be opened again.                                        *)
Reopenable == Loads(file)

(* The leaf and every parent are entries of the session, so that           *)
(* getLeafId and getPathToRoot never throw.                                *)
ParentsKnown ==
    isOpen => /\ leaf \in Known \cup {Root}
              /\ \A i \in DOMAIN entries : entries[i].parentId \in Known \cup {Root}

(* One step of getPathToRoot.                                              *)
Parents(S) == {ById(id).parentId : id \in S \cap Known}
PathFrom(id) ==
    LET back[n \in 0..Len(entries)] == IF n = 0 THEN {id} ELSE Parents(back[n - 1])
    IN  back

(* getPathToRoot ends: from the leaf the parents lead to the root.         *)
Rooted == isOpen => \E n \in 0..Len(entries) : PathFrom(leaf)[n] = {Root}
=============================================================================
