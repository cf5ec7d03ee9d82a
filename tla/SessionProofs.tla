--------------------------- MODULE SessionProofs ---------------------------
(***************************************************************************)
(* The parents of a session and its leaf are entries of it, however        *)
(* callers interleave at their awaits, whichever appends fail and whenever *)
(* the process dies: an entry that refers to another is made only when     *)
(* that one is in memory, and whatever is in memory is in the file.        *)
(***************************************************************************)
EXTENDS SessionBranches, SequenceLemmas, FiniteSetTheorems

Line == [entry : Entry, end : Endings]

(* Where an operation holds an entry that has its id.                      *)
Holding == {"identified", "writing", "written", "summary"}

(* An entry that is to be written, or its target read, is complete.        *)
Typing == TypeOK /\ \A w \in Writers : pc[w] \in Holding => entry[w] \in Entry

FileIds == {file[i].entry.id : i \in DOMAIN file}

(* What entry e refers to is in S.                                         *)
RefersTo(e, S) == e.parentId \in S \cup {Root} /\ e.targetId \in S \cup {Root}

(* The file refers only to itself; a closed session has no operation.      *)
FileClosed == \A i \in DOMAIN file : RefersTo(file[i].entry, FileIds)
Stopped    == ~isOpen => entries = <<>> /\ \A w \in Writers : pc[w] = "idle"

(* Memory refers only to itself, and the file has all of it.               *)
MemoryClosed ==
    /\ Known \subseteq FileIds /\ leaf \in Known \cup {Root}
    /\ \A i \in DOMAIN entries : RefersTo(entries[i], Known)
InFlight == \A w \in Writers :
    /\ pc[w] # "idle" => RefersTo(entry[w], Known)
    /\ pc[w] = "written" => entry[w].id \in FileIds

RefInv == FileClosed /\ Stopped /\ (isOpen => MemoryClosed) /\ InFlight

-----------------------------------------------------------------------------
(* The entries the operations make are entries.                            *)
LEMMA Constructors ==
    ASSUME NEW id, NEW p \in Ids \cup {Root}, NEW to \in Ids \cup {Root}
    PROVE  /\ id \in Ids => Node(id, p) \in Entry /\ LeafEntry(id, p, to) \in Entry
           /\ LeafEntry(0, Root, to) \in Unfinished /\ Node(0, Root) \in Unfinished
           /\ Node(id, p).id = id /\ Node(id, p).parentId = p /\ Node(id, p).targetId = Root
           /\ LeafEntry(id, p, to).id = id /\ LeafEntry(id, p, to).parentId = p
           /\ LeafEntry(id, p, to).targetId = to
BY DEF Node, LeafEntry, Entry, Unfinished, Root

(* The fields of an entry.                                                 *)
LEMMA EntryFields ==
    ASSUME NEW e \in Entry
    PROVE  /\ e.id \in Ids /\ e.parentId \in Ids \cup {Root}
           /\ e.targetId \in Ids \cup {Root} /\ LeafIdAfter(e) \in Ids \cup {Root}
           /\ LeafIdAfter(e) \in {e.id, e.targetId}
BY DEF Entry, LeafIdAfter

(* Setting the parent of an entry keeps it an entry.                       *)
LEMMA SetParent ==
    ASSUME NEW e \in Entry, NEW p \in Ids \cup {Root}
    PROVE  /\ [e EXCEPT !.parentId = p] \in Entry
           /\ [e EXCEPT !.parentId = p].parentId = p
           /\ [e EXCEPT !.parentId = p].targetId = e.targetId
BY DEF Entry

(* Ids in memory are ids, and so is a new one.                             *)
LEMMA IdTypes ==
    ASSUME TypeOK
    PROVE  Known \subseteq Ids /\ (made < MaxEntries => NewId \in Ids)
<1>1. Known \subseteq Ids
  BY EntryFields DEF TypeOK, Known
<1>2. ASSUME made < MaxEntries PROVE NewId \in Ids
  BY <1>2, BoundsAssumption DEF TypeOK, NewId, Ids, Windows
<1>. QED
  BY <1>1, <1>2

(* What a line appended to the file adds.                                  *)
LEMMA WrittenFile ==
    ASSUME file \in Seq(Line), NEW e \in Entry, NEW end \in Endings, file' = Written(e, end)
    PROVE  /\ file' \in Seq(Line) /\ Len(file') = Len(file) + 1
           /\ \A i \in DOMAIN file : file'[i] = file[i]
           /\ DOMAIN file' = DOMAIN file \cup {Len(file) + 1}
           /\ file'[Len(file) + 1].entry = e
           /\ FileIds' = FileIds \cup {e.id}
<1>1. [entry |-> e, end |-> end] \in Line
  BY DEF Line
<1>2. /\ file' \in Seq(Line) /\ Len(file') = Len(file) + 1
      /\ \A i \in 1..Len(file) : file'[i] = file[i]
      /\ file'[Len(file) + 1] = [entry |-> e, end |-> end]
  BY <1>1, AppendProperties DEF Written
<1>3. DOMAIN file' = DOMAIN file \cup {Len(file) + 1} /\ DOMAIN file = 1..Len(file)
  BY <1>2, LenProperties
<1>. QED
  BY <1>2, <1>3 DEF FileIds

(* What the entry of a resolved append adds to memory.                     *)
LEMMA CommittedMemory ==
    ASSUME entries \in Seq(Entry), NEW e \in Entry, Commit(e)
    PROVE  /\ entries' \in Seq(Entry)
           /\ \A i \in DOMAIN entries : entries'[i] = entries[i]
           /\ DOMAIN entries' = DOMAIN entries \cup {Len(entries) + 1}
           /\ entries'[Len(entries) + 1] = e
           /\ Known' = Known \cup {e.id}
<1>1. /\ entries' \in Seq(Entry) /\ Len(entries') = Len(entries) + 1
      /\ \A i \in 1..Len(entries) : entries'[i] = entries[i]
      /\ entries'[Len(entries) + 1] = e
  BY AppendProperties DEF Commit
<1>2. DOMAIN entries' = DOMAIN entries \cup {Len(entries) + 1} /\ DOMAIN entries = 1..Len(entries)
  BY <1>1, LenProperties
<1>. QED
  BY <1>1, <1>2 DEF Known

(* The entries a file parses to are entries, and so is the leaf.           *)
LEMMA ParsedFile ==
    ASSUME file \in Seq(Line)
    PROVE  /\ Parsed(file) \in Seq(Entry) /\ DOMAIN Parsed(file) = DOMAIN file
           /\ \A i \in DOMAIN file : Parsed(file)[i] = file[i].entry /\ file[i].entry \in Entry
           /\ \/ LeafOf(Parsed(file)) = Root
              \/ \E i \in DOMAIN file : LeafOf(Parsed(file)) = LeafIdAfter(file[i].entry)
<1>1. ASSUME NEW i \in 1..Len(file) PROVE file[i].entry \in Entry
  <2>1. file[i] \in Line
    BY ElementOfSeq
  <2>. QED
    BY <2>1 DEF Line
<1>2. Len(file) \in Nat /\ DOMAIN file = 1..Len(file)
  BY LenProperties
<1>3. Parsed(file) = [i \in 1..Len(file) |-> file[i].entry]
  BY <1>2 DEF Parsed
<1>4. Parsed(file) \in Seq(Entry) /\ Len(Parsed(file)) = Len(file)
      /\ DOMAIN Parsed(file) = 1..Len(file)
  BY <1>1, <1>2, <1>3
<1>5. ASSUME Parsed(file) # <<>>
      PROVE  Len(file) \in DOMAIN file /\ LeafOf(Parsed(file)) = LeafIdAfter(file[Len(file)].entry)
  <2>1. Len(file) \in 1..Len(file)
    BY <1>2, <1>4, <1>5, EmptySeq
  <2>. QED
    BY <1>2, <1>3, <1>4, <1>5, <2>1 DEF LeafOf
<1>. QED
  BY <1>1, <1>2, <1>3, <1>4, <1>5 DEF LeafOf

-----------------------------------------------------------------------------
(* Types.                                                                  *)

(* The initial state has its types.                                        *)
LEMMA InitTyping == Init => Typing
<1>. SUFFICES ASSUME Init PROVE Typing
  OBVIOUS
<1>1. file \in Seq(Line) /\ entries \in Seq(Entry)
  BY EmptySeq DEF Init
<1>2. window \in Windows
  BY BoundsAssumption DEF Init, Windows
<1>3. entry \in [Writers -> Entry \cup Unfinished]
  BY Constructors DEF Init, Root
<1>4. pc \in [Writers -> PCs] /\ \A w \in Writers : pc[w] \notin Holding
  BY DEF Init, PCs, Holding
<1>5. made \in 0..MaxEntries /\ crashes \in 0..MaxCrashes /\ failures \in 0..MaxFailures
  BY BoundsAssumption DEF Init
<1>. QED
  BY <1>1, <1>2, <1>3, <1>4, <1>5 DEF Init, TypeOK, Typing, Line

(* A step of one operation keeps the types of its three variables.         *)
LEMMA OperationTypes ==
    ASSUME Typing, NEW w \in Writers, NEW there \in PCs, NEW e,
           Goto(w, there), entry' = [entry EXCEPT ![w] = e],
           e \in Entry \/ (e \in Unfinished /\ there \notin Holding)
    PROVE  /\ pc' \in [Writers -> PCs] /\ entry' \in [Writers -> Entry \cup Unfinished]
           /\ pc'[w] = there /\ entry'[w] = e
           /\ \A v \in Writers : v # w => pc'[v] = pc[v] /\ entry'[v] = entry[v]
           /\ \A v \in Writers : pc'[v] \in Holding => entry'[v] \in Entry
BY DEF Typing, TypeOK, Goto

(* The bounded counters keep their types.                                  *)
LEMMA CounterTypes ==
    ASSUME Typing
    PROVE  /\ made < MaxEntries => made + 1 \in 0..MaxEntries
           /\ crashes < MaxCrashes => crashes + 1 \in 0..MaxCrashes
           /\ failures < MaxFailures => failures + 1 \in 0..MaxFailures
           /\ window < MaxWindows => window + 1 \in Windows
BY BoundsAssumption DEF Typing, TypeOK, Windows

(* ... as does a step that leaves the entry as it is.                      *)
LEMMA GotoTypes ==
    ASSUME Typing, NEW w \in Writers, NEW there \in PCs, Goto(w, there), UNCHANGED entry,
           there \in Holding => pc[w] \in Holding
    PROVE  /\ pc' \in [Writers -> PCs] /\ pc'[w] = there
           /\ \A v \in Writers : v # w => pc'[v] = pc[v]
           /\ \A v \in Writers : pc'[v] \in Holding => entry'[v] \in Entry
BY DEF Typing, TypeOK, Goto

(* Each step of an operation preserves the types.                          *)
LEMMA OperationTyping ==
    ASSUME Typing, NEW w \in Writers, Operation(w)
    PROVE  Typing'
<1>. USE DEF PCs, Holding
<1>0. /\ leaf \in Ids \cup {Root} /\ entry \in [Writers -> Entry \cup Unfinished]
      /\ Known \subseteq Ids
  BY IdTypes DEF Typing, TypeOK
<1>1. CASE AppendStart(w)
  <2>1. Node(NewId, Root) \in Entry
    BY <1>1, IdTypes, Constructors DEF AppendStart, Make, Typing
  <2>. QED
    BY <1>1, <2>1, OperationTypes, CounterTypes
       DEF AppendStart, Make, memVars, Typing, TypeOK
<1>2. CASE ReadLeaf(w)
  <2>1. entry[w] \in Entry
    BY <1>2 DEF ReadLeaf, Typing
  <2>2. [entry[w] EXCEPT !.parentId = leaf] \in Entry
    BY <1>0, <2>1, SetParent
  <2>3. entry' = [entry EXCEPT ![w] = [entry[w] EXCEPT !.parentId = leaf]]
    BY <1>2 DEF ReadLeaf
  <2>. QED
    BY <1>2, <2>2, <2>3, OperationTypes DEF ReadLeaf, memVars, Typing, TypeOK
<1>3. ASSUME NEW target \in Ids \cup {Root}, NEW s \in BOOLEAN, MoveStart(w, target, s)
      PROVE  Typing'
  <2>1. LeafEntry(0, Root, target) \in Unfinished
    BY Constructors
  <2>. QED
    BY <1>3, <2>1, OperationTypes DEF MoveStart, memVars, Typing, TypeOK
<1>4. CASE SetLeafId(w)
  <2>1. entry[w].targetId \in Ids \cup {Root}
    BY <1>0, EntryFields DEF Unfinished
  <2>2. LeafEntry(NewId, leaf, entry[w].targetId) \in Entry
    BY <1>0, <1>4, <2>1, IdTypes, Constructors DEF SetLeafId, Make, Typing
  <2>. QED
    BY <1>4, <2>2, OperationTypes, CounterTypes
       DEF SetLeafId, Make, memVars, Typing, TypeOK
<1>5. CASE WriteLine(w)
  <2>1. entry[w] \in Entry /\ "line" \in Endings /\ file \in Seq(Line)
    BY <1>5 DEF WriteLine, Typing, TypeOK, Endings, Line
  <2>2. file' \in Seq(Line)
    BY <1>5, <2>1, WrittenFile DEF WriteLine
  <2>. QED
    BY <1>5, <2>2, GotoTypes DEF WriteLine, memVars, Typing, TypeOK, Line
<1>6. CASE WriteFails(w)
  <2>1. entry[w] \in Entry /\ file \in Seq(Line)
    BY <1>6 DEF WriteFails, Typing, TypeOK, Line
  <2>2. file' \in Seq(Line)
    BY <1>6, <2>1, WrittenFile, WritesAssumption DEF WriteFails
  <2>. QED
    BY <1>6, <2>2, GotoTypes, CounterTypes
       DEF WriteFails, Rejected, Typing, TypeOK, Line
<1>7. CASE Committed(w)
  <2>1. entry[w] \in Entry /\ entries \in Seq(Entry)
    BY <1>7 DEF Committed, Typing, TypeOK
  <2>2. entries' \in Seq(Entry) /\ leaf' \in Ids \cup {Root}
    BY <1>7, <2>1, CommittedMemory, EntryFields DEF Committed, Commit
  <2>3. acked' \subseteq Entry
    BY <1>7, <2>1 DEF Committed, Typing, TypeOK
  <2>4. \E there \in PCs : Goto(w, there)
    BY <1>7 DEF Committed
  <2>5. pc' \in [Writers -> PCs] /\ \A v \in Writers : pc'[v] \in Holding => entry'[v] \in Entry
    BY <1>7, <2>4, GotoTypes DEF Committed
  <2>. QED
    BY <1>7, <2>2, <2>3, <2>5 DEF Committed, Typing, TypeOK
<1>8. CASE SummaryStart(w)
  <2>1. entry[w].targetId \in Ids \cup {Root}
    BY <1>8, EntryFields DEF SummaryStart, Typing
  <2>2. Node(NewId, entry[w].targetId) \in Entry
    BY <1>8, <2>1, IdTypes, Constructors DEF SummaryStart, Make, Typing
  <2>. QED
    BY <1>8, <2>2, OperationTypes, CounterTypes
       DEF SummaryStart, Make, memVars, Typing, TypeOK
<1>. QED
  BY <1>1, <1>2, <1>3, <1>4, <1>5, <1>6, <1>7, <1>8 DEF Operation

(* Every step preserves the types.                                         *)
LEMMA NextTyping == Typing /\ [Next]_vars => Typing'
<1>. SUFFICES ASSUME Typing, [Next]_vars PROVE Typing'
  OBVIOUS
<1>1. CASE Tick
  BY <1>1, CounterTypes DEF Tick, memVars, opVars, Typing, TypeOK
<1>2. CASE Crash
  <2>1. file' \in Seq(Line)
    <3>1. file \in Seq(Line)
      BY DEF Typing, TypeOK, Line
    <3>2. ASSUME NEW w \in Writers, NEW end \in CrashWrites,
                 pc[w] = "writing", file' = Written(entry[w], end)
          PROVE  file' \in Seq(Line)
      BY <3>1, <3>2, WrittenFile, WritesAssumption DEF Typing, Holding
    <3>. QED
      BY <1>2, <3>1, <3>2 DEF Crash
  <2>2. entries' \in Seq(Entry)
    BY <1>2, EmptySeq DEF Crash
  <2>. QED
    BY <1>2, <2>1, <2>2, CounterTypes DEF Crash, Typing, TypeOK, Line, PCs, Holding
<1>3. CASE Open
  <2>1. file \in Seq(Line)
    BY DEF Typing, TypeOK, Line
  <2>2. entries' \in Seq(Entry) /\ leaf' \in Ids \cup {Root}
    BY <1>3, <2>1, ParsedFile, EntryFields DEF Open
  <2>. QED
    BY <1>3, <2>2 DEF Open, opVars, Typing, TypeOK
<1>4. CASE UNCHANGED vars
  BY <1>4 DEF vars, memVars, opVars, Typing, TypeOK
<1>. QED
  BY <1>1, <1>2, <1>3, <1>4, OperationTyping DEF Next

(* Every variable has its type in every state of the session.              *)
THEOREM SessionTypeCorrect == Spec => []TypeOK
<1>1. Typing => TypeOK
  BY DEF Typing
<1>. QED
  BY <1>1, InitTyping, NextTyping, PTL DEF Spec

-----------------------------------------------------------------------------
(* References.                                                             *)

(* References into S are references into what contains it.                 *)
LEMMA RefersMonotone ==
    ASSUME NEW e, NEW S, NEW T, S \subseteq T, RefersTo(e, S)
    PROVE  RefersTo(e, T)
BY DEF RefersTo

(* An empty session refers to nothing.                                     *)
LEMMA InitRefInv == Init => RefInv
BY DEF Init, RefInv, FileClosed, Stopped, MemoryClosed, InFlight, FileIds, Known

(* A step that changes neither memory, nor the file, nor an operation.     *)
LEMMA FrameRefInv ==
    ASSUME RefInv, UNCHANGED <<file, memVars, pc, entry>>
    PROVE  RefInv'
BY DEF RefInv, FileClosed, Stopped, MemoryClosed, InFlight, FileIds, Known, RefersTo, memVars

(* A step of one operation that leaves memory and file alone.              *)
LEMMA StepInFlight ==
    ASSUME Typing, RefInv, isOpen, NEW w \in Writers, NEW there, NEW e,
           Goto(w, there), entry' = [entry EXCEPT ![w] = e],
           RefersTo(e, Known), there # "written",
           UNCHANGED <<file, memVars>>
    PROVE  RefInv'
<1>1. \A v \in Writers : v # w => pc'[v] = pc[v] /\ entry'[v] = entry[v]
  BY DEF Typing, TypeOK, Goto
<1>2. pc'[w] = there /\ entry'[w] = e
  BY DEF Typing, TypeOK, Goto
<1>3. Known' = Known /\ FileIds' = FileIds
  BY DEF Known, FileIds, memVars
<1>4. InFlight'
  BY <1>1, <1>2, <1>3 DEF RefInv, InFlight, RefersTo
<1>5. FileClosed' /\ Stopped' /\ MemoryClosed'
  BY <1>3 DEF RefInv, FileClosed, Stopped, MemoryClosed, RefersTo, memVars
<1>. QED
  BY <1>4, <1>5 DEF RefInv

(* An entry added to the file, by an append that succeeds or fails.        *)
LEMMA WrittenRefInv ==
    ASSUME Typing, RefInv, NEW e \in Entry, NEW end \in Endings,
           isOpen, RefersTo(e, Known), file' = Written(e, end)
    PROVE  FileClosed' /\ FileIds \subseteq FileIds' /\ e.id \in FileIds'
<1>1. file \in Seq(Line)
  BY DEF Typing, TypeOK, Line
<1>2. /\ FileIds' = FileIds \cup {e.id}
      /\ DOMAIN file' = DOMAIN file \cup {Len(file) + 1}
      /\ \A i \in DOMAIN file : file'[i] = file[i]
      /\ file'[Len(file) + 1].entry = e
  BY <1>1, WrittenFile
<1>3. Known \subseteq FileIds'
  BY <1>2 DEF RefInv, MemoryClosed
<1>4. \A i \in DOMAIN file : RefersTo(file[i].entry, FileIds')
  BY <1>2, RefersMonotone DEF RefInv, FileClosed
<1>5. RefersTo(e, FileIds')
  BY <1>3, RefersMonotone
<1>. QED
  BY <1>2, <1>4, <1>5 DEF FileClosed

(* Each step of an operation preserves the references.                     *)
LEMMA OperationRefInv ==
    ASSUME Typing, RefInv, NEW w \in Writers, Operation(w)
    PROVE  RefInv'
<1>0. pc[w] # "idle" => isOpen /\ RefersTo(entry[w], Known)
  BY DEF RefInv, Stopped, InFlight
<1>1. CASE AppendStart(w)
  <2>1. RefersTo(Node(NewId, Root), Known)
    BY DEF Node, RefersTo
  <2>. QED
    BY <1>1, <2>1, StepInFlight DEF AppendStart, Make
<1>2. CASE ReadLeaf(w)
  <2>1. entry[w] \in Entry /\ leaf \in Ids \cup {Root} /\ leaf \in Known \cup {Root}
    BY <1>0, <1>2 DEF ReadLeaf, Typing, TypeOK, Holding, RefInv, MemoryClosed
  <2>2. RefersTo([entry[w] EXCEPT !.parentId = leaf], Known)
    BY <1>0, <1>2, <2>1, SetParent DEF ReadLeaf, RefersTo
  <2>3. entry' = [entry EXCEPT ![w] = [entry[w] EXCEPT !.parentId = leaf]]
    BY <1>2 DEF ReadLeaf
  <2>. QED
    BY <1>0, <1>2, <2>2, <2>3, StepInFlight DEF ReadLeaf
<1>3. ASSUME NEW target \in Ids \cup {Root}, NEW s \in BOOLEAN, MoveStart(w, target, s)
      PROVE  RefInv'
  <2>1. RefersTo(LeafEntry(0, Root, target), Known)
    BY <1>3 DEF MoveStart, Targets, LeafEntry, RefersTo
  <2>. QED
    BY <1>3, <2>1, StepInFlight DEF MoveStart
<1>4. CASE SetLeafId(w)
  <2>1. RefersTo(LeafEntry(NewId, leaf, entry[w].targetId), Known)
    BY <1>0, <1>4 DEF SetLeafId, LeafEntry, RefersTo, RefInv, MemoryClosed
  <2>. QED
    BY <1>0, <1>4, <2>1, StepInFlight DEF SetLeafId, Make
<1>5. CASE WriteLine(w)
  <2>1. entry[w] \in Entry /\ "line" \in Endings
    BY <1>5 DEF WriteLine, Typing, Holding, Endings
  <2>2. FileClosed' /\ FileIds \subseteq FileIds' /\ entry[w].id \in FileIds'
    BY <1>0, <1>5, <2>1, WrittenRefInv DEF WriteLine
  <2>3. Known' = Known /\ UNCHANGED <<entry, entries, leaf, isOpen>>
    BY <1>5 DEF WriteLine, Known, memVars
  <2>4. Stopped' /\ MemoryClosed'
    BY <1>0, <1>5, <2>2, <2>3 DEF WriteLine, RefInv, Stopped, MemoryClosed, RefersTo
  <2>5. \A v \in Writers : pc'[v] = IF v = w THEN "written" ELSE pc[v]
    BY <1>5 DEF WriteLine, Goto, Typing, TypeOK
  <2>6. InFlight'
    BY <1>0, <1>5, <2>2, <2>3, <2>5 DEF WriteLine, RefInv, InFlight, RefersTo
  <2>. QED
    BY <2>2, <2>4, <2>6 DEF RefInv
<1>6. CASE WriteFails(w)
  <2>1. entry[w] \in Entry
    BY <1>6 DEF WriteFails, Typing, Holding
  <2>2. FileClosed' /\ FileIds \subseteq FileIds'
    <3>1. CASE UNCHANGED file
      BY <3>1 DEF RefInv, FileClosed, FileIds
    <3>2. ASSUME NEW end \in FailedWrites, file' = Written(entry[w], end)
          PROVE  FileClosed' /\ FileIds \subseteq FileIds'
      BY <1>0, <1>6, <2>1, <3>2, WrittenRefInv, WritesAssumption DEF WriteFails
    <3>. QED
      BY <1>6, <3>1, <3>2 DEF WriteFails
  <2>3. Known' = Known /\ UNCHANGED <<entry, entries, leaf, isOpen>>
    BY <1>6 DEF WriteFails, Rejected, Known
  <2>4. Stopped' /\ MemoryClosed'
    BY <1>0, <1>6, <2>2, <2>3 DEF WriteFails, RefInv, Stopped, MemoryClosed, RefersTo
  <2>5. \A v \in Writers : pc'[v] = IF v = w THEN "idle" ELSE pc[v]
    BY <1>6 DEF WriteFails, Goto, Typing, TypeOK
  <2>6. InFlight'
    BY <2>2, <2>3, <2>5 DEF RefInv, InFlight, RefersTo
  <2>. QED
    BY <2>2, <2>4, <2>6 DEF RefInv
<1>7. CASE Committed(w)
  <2>1. /\ entry[w] \in Entry /\ entries \in Seq(Entry) /\ isOpen /\ isOpen'
        /\ UNCHANGED <<file, entry>> /\ entry[w].id \in FileIds
        /\ RefersTo(entry[w], Known) /\ MemoryClosed
    BY <1>0, <1>7 DEF Committed, Typing, TypeOK, Holding, RefInv, InFlight
  <2>2. /\ Known' = Known \cup {entry[w].id} /\ leaf' = LeafIdAfter(entry[w])
        /\ \A i \in DOMAIN entries : entries'[i] = entries[i]
        /\ DOMAIN entries' = DOMAIN entries \cup {Len(entries) + 1}
        /\ entries'[Len(entries) + 1] = entry[w]
    BY <1>7, <2>1, CommittedMemory DEF Committed, Commit
  <2>3. FileIds' = FileIds /\ FileClosed'
    BY <2>1 DEF FileIds, FileClosed, RefInv
  <2>4. \A i \in DOMAIN entries : RefersTo(entries'[i], Known')
    BY <2>1, <2>2, RefersMonotone DEF MemoryClosed
  <2>5. RefersTo(entry[w], Known') /\ leaf' \in Known' \cup {Root}
    BY <2>1, <2>2, EntryFields DEF RefersTo
  <2>6. MemoryClosed'
    BY <2>1, <2>2, <2>3, <2>4, <2>5 DEF MemoryClosed
  <2>7. \A v \in Writers : v # w => pc'[v] = pc[v]
    BY <1>7 DEF Committed, Goto, Typing, TypeOK
  <2>8. InFlight'
    BY <2>1, <2>2, <2>3, <2>5, <2>7, RefersMonotone DEF RefInv, InFlight
  <2>. QED
    BY <2>1, <2>3, <2>6, <2>8 DEF RefInv, Stopped
<1>8. CASE SummaryStart(w)
  <2>1. RefersTo(Node(NewId, entry[w].targetId), Known)
    BY <1>0, <1>8 DEF SummaryStart, Node, RefersTo
  <2>. QED
    BY <1>0, <1>8, <2>1, StepInFlight DEF SummaryStart, Make
<1>. QED
  BY <1>1, <1>2, <1>3, <1>4, <1>5, <1>6, <1>7, <1>8 DEF Operation

(* Every step preserves the references.                                    *)
LEMMA NextRefInv == Typing /\ RefInv /\ [Next]_vars => RefInv'
<1>. SUFFICES ASSUME Typing, RefInv, [Next]_vars PROVE RefInv'
  OBVIOUS
<1>1. CASE Tick \/ UNCHANGED vars
  BY <1>1, FrameRefInv DEF Tick, memVars, opVars, vars
<1>2. CASE Crash
  <2>1. FileClosed'
    <3>1. CASE UNCHANGED file
      BY <3>1 DEF RefInv, FileClosed, FileIds
    <3>2. ASSUME NEW w \in Writers, NEW end \in CrashWrites,
                 pc[w] = "writing", file' = Written(entry[w], end)
          PROVE  FileClosed'
      <4>1. entry[w] \in Entry /\ RefersTo(entry[w], Known) /\ isOpen
        BY <1>2, <3>2 DEF Crash, Typing, Holding, RefInv, InFlight
      <4>. QED
        BY <3>2, <4>1, WrittenRefInv, WritesAssumption
    <3>. QED
      BY <1>2, <3>1, <3>2 DEF Crash
  <2>2. Stopped' /\ ~isOpen' /\ InFlight'
    BY <1>2 DEF Crash, Stopped, InFlight
  <2>. QED
    BY <2>1, <2>2 DEF RefInv
<1>3. CASE Open
  <2>1. file \in Seq(Line)
    BY DEF Typing, TypeOK, Line
  <2>2. /\ DOMAIN entries' = DOMAIN file /\ Known' = FileIds
        /\ \A i \in DOMAIN file : entries'[i] = file[i].entry /\ file[i].entry \in Entry
        /\ leaf' = Root \/ \E i \in DOMAIN file : leaf' = LeafIdAfter(file[i].entry)
    BY <1>3, <2>1, ParsedFile DEF Open, Known, FileIds
  <2>3. UNCHANGED <<file, pc, entry>> /\ FileIds' = FileIds /\ ~isOpen /\ isOpen'
    BY <1>3 DEF Open, opVars, FileIds
  <2>4. leaf' \in Known' \cup {Root}
    BY <2>2, EntryFields DEF RefInv, FileClosed, RefersTo, FileIds
  <2>5. MemoryClosed'
    BY <2>2, <2>3, <2>4 DEF MemoryClosed, RefInv, FileClosed
  <2>. QED
    BY <2>3, <2>5 DEF RefInv, FileClosed, Stopped, InFlight
<1>. QED
  BY <1>1, <1>2, <1>3, OperationRefInv DEF Next

(* getLeafId and getPathToRoot never meet an entry that is not there, in   *)
(* a session that is written to by any number of callers, and after any    *)
(* crashes and failed appends.                                             *)
THEOREM ParentsAlwaysKnown == Spec => []ParentsKnown
<1>1. RefInv => ParentsKnown
  BY DEF RefInv, MemoryClosed, RefersTo, ParentsKnown
<1>. QED
  BY <1>1, InitTyping, NextTyping, InitRefInv, NextRefInv, PTL DEF Spec

-----------------------------------------------------------------------------
(* Memory and file.                                                        *)

(* The operations whose line is in the file and not yet in memory.         *)
AtFile == {w \in Writers : pc[w] = "written"}

(* What the file holds is what memory holds and what is about to be.       *)
CountInv ==
    isOpen => /\ SetOf(Parsed(file)) = SetOf(entries) \cup {entry[w] : w \in AtFile}
              /\ IsFiniteSet(AtFile) /\ Len(file) = Len(entries) + Cardinality(AtFile)

(* Appending to a sequence.                                                *)
LEMMA SetOfAppend ==
    ASSUME NEW S, NEW s \in Seq(S), NEW e \in S
    PROVE  SetOf(Append(s, e)) = SetOf(s) \cup {e} /\ Len(Append(s, e)) = Len(s) + 1
<1>1. /\ DOMAIN s = 1..Len(s) /\ DOMAIN Append(s, e) = 1..(Len(s) + 1) /\ Len(s) \in Nat
      /\ \A i \in 1..Len(s) : Append(s, e)[i] = s[i]
      /\ Append(s, e)[Len(s) + 1] = e
  OBVIOUS
<1>2. DOMAIN Append(s, e) = DOMAIN s \cup {Len(s) + 1}
  BY <1>1
<1>3. Len(Append(s, e)) = Len(s) + 1
  OBVIOUS
<1>. QED
  BY <1>1, <1>2, <1>3 DEF SetOf

(* A line written is an entry more to read back.                           *)
LEMMA ParsedWritten ==
    ASSUME file \in Seq(Line), NEW e \in Entry, NEW end \in Endings, file' = Written(e, end)
    PROVE  /\ Parsed(file') = Append(Parsed(file), e)
           /\ Parsed(file) \in Seq(Entry) /\ Parsed(file') \in Seq(Entry)
           /\ Len(Parsed(file)) = Len(file) /\ Len(Parsed(file')) = Len(file) + 1
           /\ SetOf(Parsed(file')) = SetOf(Parsed(file)) \cup {e}
<1>1. /\ file' \in Seq(Line) /\ Len(file') = Len(file) + 1
      /\ \A i \in DOMAIN file : file'[i] = file[i]
      /\ file'[Len(file) + 1].entry = e
  BY WrittenFile
<1>2. /\ Parsed(file) \in Seq(Entry) /\ DOMAIN Parsed(file) = DOMAIN file
      /\ \A i \in DOMAIN file : Parsed(file)[i] = file[i].entry
  BY ParsedFile
<1>3. Len(file) \in Nat /\ DOMAIN file = 1..Len(file) /\ DOMAIN file' = 1..(Len(file) + 1)
  BY <1>1, LenProperties
<1>4. Parsed(file') = [i \in 1..(Len(file) + 1) |-> file'[i].entry]
  BY <1>3 DEF Parsed
<1>5. Len(Parsed(file)) = Len(file)
  BY <1>2, <1>3, LenProperties
<1>6. Parsed(file') = Append(Parsed(file), e)
  <2>. DEFINE a == Append(Parsed(file), e)
  <2>1. /\ a \in Seq(Entry) /\ Len(a) = Len(file) + 1 /\ a[Len(file) + 1] = e
        /\ \A i \in 1..Len(file) : a[i] = file[i].entry
    BY <1>2, <1>3, <1>5, AppendProperties
  <2>2. a = [i \in 1..(Len(file) + 1) |-> a[i]]
    BY <2>1, LenProperties
  <2>. HIDE DEF a
  <2>3. ASSUME NEW i \in 1..(Len(file) + 1) PROVE a[i] = file'[i].entry
    BY <1>1, <1>3, <2>1
  <2>. QED
    BY <1>4, <2>2, <2>3 DEF a
<1>. QED
  BY <1>2, <1>5, <1>6, SetOfAppend, AppendProperties

(* A step of one operation that neither writes nor commits.                *)
LEMMA StepCount ==
    ASSUME CountInv, NEW w \in Writers, pc[w] # "written", pc'[w] # "written",
           \A v \in Writers : v # w => pc'[v] = pc[v] /\ entry'[v] = entry[v],
           UNCHANGED <<file, entries, isOpen>>
    PROVE  CountInv'
<1>1. AtFile' = AtFile /\ \A v \in AtFile : entry'[v] = entry[v]
  BY DEF AtFile
<1>2. {entry'[v] : v \in AtFile'} = {entry[v] : v \in AtFile}
  BY <1>1
<1>. QED
  BY <1>1, <1>2 DEF CountInv

(* Each step of an operation keeps memory and file together.               *)
LEMMA OperationCount ==
    ASSUME FailedWrites = {}, Typing, RefInv, CountInv, NEW w \in Writers, Operation(w)
    PROVE  CountInv'
<1>0. /\ pc \in [Writers -> PCs] /\ entry \in [Writers -> Entry \cup Unfinished]
      /\ file \in Seq(Line) /\ entries \in Seq(Entry)
      /\ Len(file) \in Nat /\ Len(entries) \in Nat
      /\ pc[w] # "idle" => isOpen
  BY LenProperties DEF Typing, TypeOK, Line, RefInv, Stopped
<1>1. CASE AppendStart(w) \/ SetLeafId(w) \/ SummaryStart(w) \/ ReadLeaf(w)
  BY <1>0, <1>1, StepCount
     DEF AppendStart, SetLeafId, SummaryStart, ReadLeaf, Make, Goto, memVars
<1>2. ASSUME NEW target \in Ids \cup {Root}, NEW s \in BOOLEAN, MoveStart(w, target, s)
      PROVE  CountInv'
  BY <1>0, <1>2, StepCount DEF MoveStart, Goto, memVars
<1>3. CASE WriteFails(w)
  BY <1>0, <1>3, StepCount DEF WriteFails, Rejected, Goto
<1>4. CASE WriteLine(w)
  <2>1. entry[w] \in Entry /\ "line" \in Endings /\ isOpen
    BY <1>0, <1>4 DEF WriteLine, Typing, Holding, Endings
  <2>2. SetOf(Parsed(file')) = SetOf(Parsed(file)) \cup {entry[w]} /\ Len(file') = Len(file) + 1
    BY <1>0, <1>4, <2>1, ParsedWritten, WrittenFile DEF WriteLine
  <2>3. AtFile' = AtFile \cup {w} /\ w \notin AtFile
    BY <1>0, <1>4 DEF AtFile, WriteLine, Goto
  <2>4. IsFiniteSet(AtFile') /\ Cardinality(AtFile') = Cardinality(AtFile) + 1
        /\ Cardinality(AtFile) \in Nat
    BY <2>1, <2>3, FS_AddElement, FS_CardinalityType DEF CountInv
  <2>5. UNCHANGED <<entries, isOpen, entry>>
    BY <1>4 DEF WriteLine, memVars
  <2>6. {entry'[v] : v \in AtFile'} = {entry[v] : v \in AtFile} \cup {entry[w]}
    BY <2>3, <2>5
  <2>7. SetOf(Parsed(file')) = SetOf(entries) \cup {entry'[v] : v \in AtFile'}
    BY <2>1, <2>2, <2>6 DEF CountInv
  <2>8. Len(file') = Len(entries) + Cardinality(AtFile')
    <3>1. Len(file) = Len(entries) + Cardinality(AtFile)
      BY <2>1 DEF CountInv
    <3>2. Len(entries) \in Nat
      BY <1>0
    <3>. QED
      BY <2>2, <2>4, <3>1, <3>2
  <2>. QED
    BY <2>4, <2>5, <2>7, <2>8 DEF CountInv
<1>5. CASE Committed(w)
  <2>1. entry[w] \in Entry /\ isOpen /\ UNCHANGED <<file, isOpen, entry>> /\ w \in AtFile
    BY <1>0, <1>5 DEF Committed, Typing, Holding, AtFile
  <2>2. entries' = Append(entries, entry[w])
    BY <1>5 DEF Committed, Commit
  <2>3. SetOf(entries') = SetOf(entries) \cup {entry[w]} /\ Len(entries') = Len(entries) + 1
    BY <1>0, <2>1, <2>2, SetOfAppend
  <2>4. AtFile' = AtFile \ {w}
    BY <1>0, <1>5 DEF AtFile, Committed, Goto
  <2>5. IsFiniteSet(AtFile') /\ Cardinality(AtFile') = Cardinality(AtFile) - 1
        /\ Cardinality(AtFile) \in Nat
    BY <2>1, <2>4, FS_RemoveElement, FS_CardinalityType DEF CountInv
  <2>6. {entry[v] : v \in AtFile} = {entry'[v] : v \in AtFile'} \cup {entry[w]}
    BY <2>1, <2>4
  <2>7. SetOf(Parsed(file)) = SetOf(entries') \cup {entry'[v] : v \in AtFile'}
    BY <2>1, <2>3, <2>6 DEF CountInv
  <2>8. Len(file) = Len(entries') + Cardinality(AtFile')
    <3>1. Len(file) = Len(entries) + Cardinality(AtFile)
      BY <2>1 DEF CountInv
    <3>2. Len(entries) \in Nat
      BY <1>0
    <3>. QED
      BY <2>3, <2>5, <3>1, <3>2
  <2>. QED
    BY <2>1, <2>5, <2>7, <2>8 DEF CountInv
<1>. QED
  BY <1>1, <1>2, <1>3, <1>4, <1>5 DEF Operation

(* Every step keeps memory and file together.                              *)
LEMMA NextCount ==
    ASSUME FailedWrites = {}
    PROVE  Typing /\ RefInv /\ CountInv /\ [Next]_vars => CountInv'
<1>. SUFFICES ASSUME Typing, RefInv, CountInv, [Next]_vars PROVE CountInv'
  OBVIOUS
<1>1. CASE Tick \/ UNCHANGED vars
  BY <1>1 DEF Tick, memVars, opVars, vars, CountInv, AtFile
<1>2. CASE Crash
  BY <1>2 DEF Crash, CountInv
<1>3. CASE Open
  <2>1. file \in Seq(Line) /\ entries' = Parsed(file) /\ UNCHANGED <<file, pc, entry>>
    BY <1>3 DEF Open, opVars, Typing, TypeOK, Line
  <2>2. AtFile' = {}
    BY <1>3 DEF Open, opVars, AtFile, RefInv, Stopped
  <2>3. Len(entries') = Len(file) /\ Len(file) \in Nat
    BY <2>1, ParsedFile, LenProperties
  <2>. QED
    BY <2>1, <2>2, <2>3, FS_EmptySet DEF CountInv
<1>. QED
  BY <1>1, <1>2, <1>3, OperationCount DEF Next

-----------------------------------------------------------------------------
(* What has been confirmed.                                                *)

(* Every line is whole, and what is confirmed or about to be is among them.*)
WholeLines ==
    /\ AckedReadable
    /\ \A i \in DOMAIN file : file[i].end = "line"
    /\ \A w \in AtFile : entry[w] \in SetOf(Parsed(file))

(* A whole line more leaves the file readable.                             *)
LEMMA WholeLine ==
    ASSUME Typing, WholeLines, NEW e \in Entry, file' = Written(e, "line")
    PROVE  /\ \A i \in DOMAIN file' : file'[i].end = "line"
           /\ Loads(file') /\ SetOf(Parsed(file')) = SetOf(Parsed(file)) \cup {e}
<1>1. file \in Seq(Line) /\ "line" \in Endings
  BY DEF Typing, TypeOK, Line, Endings
<1>2. /\ \A i \in DOMAIN file : file'[i] = file[i]
      /\ DOMAIN file' = DOMAIN file \cup {Len(file) + 1}
      /\ SetOf(Parsed(file')) = SetOf(Parsed(file)) \cup {e}
  BY <1>1, WrittenFile, ParsedWritten
<1>3. file'[Len(file) + 1] = [entry |-> e, end |-> "line"]
  BY <1>1, AppendProperties DEF Written, Line
<1>4. \A i \in DOMAIN file' : file'[i].end = "line"
  BY <1>2, <1>3 DEF WholeLines
<1>. QED
  BY <1>2, <1>4 DEF Loads

(* Each step of an operation keeps the lines whole.                        *)
LEMMA OperationWhole ==
    ASSUME FailedWrites \subseteq {"line"}, Typing, WholeLines, NEW w \in Writers, Operation(w)
    PROVE  WholeLines'
<1>0. pc \in [Writers -> PCs] /\ entry \in [Writers -> Entry \cup Unfinished]
  BY DEF Typing, TypeOK
<1>1. ASSUME pc[w] # "written", pc'[w] # "written", UNCHANGED <<file, acked>>,
             \A v \in Writers : v # w => pc'[v] = pc[v] /\ entry'[v] = entry[v]
      PROVE  WholeLines'
  BY <1>1 DEF WholeLines, AckedReadable, AtFile
<1>2. CASE AppendStart(w) \/ SetLeafId(w) \/ SummaryStart(w) \/ ReadLeaf(w)
  BY <1>0, <1>1, <1>2 DEF AppendStart, SetLeafId, SummaryStart, ReadLeaf, Make, Goto
<1>3. ASSUME NEW target \in Ids \cup {Root}, NEW s \in BOOLEAN, MoveStart(w, target, s)
      PROVE  WholeLines'
  BY <1>0, <1>1, <1>3 DEF MoveStart, Goto
<1>4. ASSUME pc[w] = "writing", file' = Written(entry[w], "line"), UNCHANGED <<entry, acked>>,
             \A v \in Writers : v # w => pc'[v] = pc[v]
      PROVE  WholeLines'
  <2>1. entry[w] \in Entry
    BY <1>4 DEF Typing, Holding
  <2>2. /\ \A i \in DOMAIN file' : file'[i].end = "line"
        /\ Loads(file') /\ SetOf(Parsed(file')) = SetOf(Parsed(file)) \cup {entry[w]}
    BY <1>4, <2>1, WholeLine
  <2>3. ASSUME NEW v \in Writers, pc'[v] = "written" PROVE entry'[v] \in SetOf(Parsed(file'))
    BY <1>4, <2>2, <2>3 DEF WholeLines, AtFile
  <2>. QED
    BY <1>4, <2>2, <2>3 DEF WholeLines, AckedReadable, AtFile
<1>5. CASE WriteLine(w)
  BY <1>0, <1>4, <1>5 DEF WriteLine, Goto
<1>6. CASE WriteFails(w)
  BY <1>0, <1>1, <1>4, <1>6 DEF WriteFails, Goto
<1>7. CASE Committed(w)
  <2>1. /\ UNCHANGED <<file, entry>> /\ acked' \subseteq acked \cup {entry[w]} /\ w \in AtFile
        /\ AtFile' \subseteq AtFile
    BY <1>0, <1>7 DEF Committed, Goto, AtFile
  <2>. QED
    BY <2>1 DEF WholeLines, AckedReadable
<1>. QED
  BY <1>2, <1>3, <1>5, <1>6, <1>7 DEF Operation

(* Every step keeps the lines whole.                                       *)
LEMMA NextWhole ==
    ASSUME FailedWrites \subseteq {"line"}, CrashWrites \subseteq {"line"}
    PROVE  Typing /\ WholeLines /\ [Next]_vars => WholeLines'
<1>. SUFFICES ASSUME Typing, WholeLines, [Next]_vars PROVE WholeLines'
  OBVIOUS
<1>1. CASE Crash
  <2>1. AtFile' = {} /\ UNCHANGED acked
    BY <1>1 DEF Crash, AtFile
  <2>2. ASSUME NEW w \in Writers, pc[w] = "writing", file' = Written(entry[w], "line")
        PROVE  WholeLines'
    <3>1. entry[w] \in Entry
      BY <2>2 DEF Typing, Holding
    <3>. QED
      BY <2>1, <2>2, <3>1, WholeLine DEF WholeLines, AckedReadable
  <2>3. CASE UNCHANGED file
    BY <2>1, <2>3 DEF WholeLines, AckedReadable
  <2>. QED
    BY <1>1, <2>2, <2>3 DEF Crash
<1>2. CASE Tick \/ Open \/ UNCHANGED vars
  BY <1>2 DEF Tick, Open, vars, opVars, WholeLines, AckedReadable, AtFile
<1>. QED
  BY <1>1, <1>2, OperationWhole DEF Next

(* ... as are those of the first state.                                    *)
LEMMA InitWhole == Init => WholeLines
<1>. SUFFICES ASSUME Init PROVE WholeLines
  OBVIOUS
<1>1. acked = {} /\ DOMAIN file = {} /\ AtFile = {}
  BY DEF Init, AtFile
<1>. QED
  BY <1>1 DEF WholeLines, AckedReadable, Loads

(* What has been confirmed to a caller is read back after every crash:     *)
(* nothing the session acknowledges is only in memory, for any number of   *)
(* callers, as long as a write cut short leaves all of its line or none.   *)
THEOREM ConfirmedIsReadable ==
    ASSUME FailedWrites \subseteq {"line"}, CrashWrites \subseteq {"line"}
    PROVE  Spec => []AckedReadable
<1>1. WholeLines => AckedReadable
  BY DEF WholeLines
<1>. QED
  BY <1>1, InitTyping, NextTyping, InitWhole, NextWhole, PTL DEF Spec

-----------------------------------------------------------------------------
(* Whenever nothing is being written the file can be opened and has the    *)
(* entries of the memory, for any number of callers that interleave at any *)
(* await and for crashes at any, under two conditions: a write that a      *)
(* crash cuts short leaves all of its line or nothing, a rejected one      *)
(* nothing.                                                                *)
THEOREM MemoryMatchesFile ==
    ASSUME FailedWrites = {}, CrashWrites \subseteq {"line"}
    PROVE  Spec => []MemoryIsFile
<1>1. Init => CountInv
  <2>. SUFFICES ASSUME Init PROVE CountInv
    OBVIOUS
  <2>1. AtFile = {} /\ file = <<>> /\ entries = <<>>
    BY DEF Init, AtFile
  <2>2. Parsed(file) = <<>> /\ Len(<<>>) = 0
    BY <2>1 DEF Parsed
  <2>. QED
    BY <2>1, <2>2, FS_EmptySet DEF CountInv
<1>2. Typing /\ CountInv /\ WholeLines => MemoryIsFile
  <2>. SUFFICES ASSUME Typing, CountInv, WholeLines, Quiet PROVE MemoryIsFile
    BY DEF MemoryIsFile
  <2>1. AtFile = {} /\ Cardinality({}) = 0 /\ isOpen
    BY FS_EmptySet DEF Quiet, AtFile
  <2>2. Len(entries) \in Nat
    BY LenProperties DEF Typing, TypeOK
  <2>3. {entry[w] : w \in AtFile} = {}
    BY <2>1
  <2>4. SetOf(Parsed(file)) = SetOf(entries)
    BY <2>1, <2>3 DEF CountInv
  <2>5. Len(file) = Len(entries) + 0
    BY <2>1 DEF CountInv
  <2>. QED
    BY <2>2, <2>4, <2>5 DEF MemoryIsFile, WholeLines, AckedReadable
<1>3. Typing /\ WholeLines /\ [Next]_vars => WholeLines'
  <2>1. FailedWrites \subseteq {"line"}
    OBVIOUS
  <2>. QED
    BY <2>1, NextWhole
<1>. QED
  BY <1>1, <1>2, InitTyping, NextTyping, InitRefInv, NextRefInv, NextCount, InitWhole, <1>3,
     PTL DEF Spec

-----------------------------------------------------------------------------
(* One caller, who awaits each operation before the next.                  *)

(* Memory is the file read back, and lags by the line being confirmed.     *)
SameOrder ==
    isOpen => /\ leaf = LeafOf(entries)
              /\ \A w \in Writers : Parsed(file) = IF pc[w] = "written"
                                                   THEN Append(entries, entry[w])
                                                   ELSE entries

(* The leaf of a session that has just been appended to.                   *)
LEMMA LeafOfAppend ==
    ASSUME NEW s \in Seq(Entry), NEW e \in Entry
    PROVE  LeafOf(Append(s, e)) = LeafIdAfter(e)
<1>1. Append(s, e) # <<>> /\ Append(s, e)[Len(Append(s, e))] = e
  OBVIOUS
<1>. QED
  BY <1>1 DEF LeafOf

(* Each step of the operation keeps the order.                             *)
LEMMA OperationOrder ==
    ASSUME NEW caller, Writers = {caller}, FailedWrites = {},
           Typing, RefInv, SameOrder, NEW w \in Writers, Operation(w)
    PROVE  SameOrder'
<1>0. /\ pc \in [Writers -> PCs] /\ entry \in [Writers -> Entry \cup Unfinished]
      /\ file \in Seq(Line) /\ entries \in Seq(Entry)
      /\ pc[w] # "idle" => isOpen
      /\ \A v \in Writers : v = w
  BY DEF Typing, TypeOK, Line, RefInv, Stopped
<1>1. ASSUME pc[w] # "written", pc'[w] # "written", UNCHANGED <<file, memVars>>
      PROVE  SameOrder'
  BY <1>0, <1>1 DEF SameOrder, memVars
<1>2. CASE AppendStart(w) \/ SetLeafId(w) \/ SummaryStart(w) \/ ReadLeaf(w)
  BY <1>0, <1>1, <1>2 DEF AppendStart, SetLeafId, SummaryStart, ReadLeaf, Goto
<1>3. ASSUME NEW target \in Ids \cup {Root}, NEW s \in BOOLEAN, MoveStart(w, target, s)
      PROVE  SameOrder'
  BY <1>0, <1>1, <1>3 DEF MoveStart, Goto
<1>4. CASE WriteFails(w)
  BY <1>0, <1>1, <1>4 DEF WriteFails, Rejected, Goto, memVars
<1>5. CASE WriteLine(w)
  <2>1. entry[w] \in Entry /\ "line" \in Endings /\ isOpen
    BY <1>0, <1>5 DEF WriteLine, Typing, Holding, Endings
  <2>2. Parsed(file') = Append(Parsed(file), entry[w])
    BY <1>0, <1>5, <2>1, ParsedWritten DEF WriteLine
  <2>3. Parsed(file) = entries /\ leaf = LeafOf(entries)
    BY <1>5, <2>1 DEF WriteLine, SameOrder
  <2>4. UNCHANGED <<memVars, entry>> /\ pc'[w] = "written"
    BY <1>0, <1>5 DEF WriteLine, Goto
  <2>. QED
    BY <1>0, <2>2, <2>3, <2>4 DEF SameOrder, memVars
<1>6. CASE Committed(w)
  <2>1. entry[w] \in Entry /\ isOpen /\ UNCHANGED <<file, isOpen>> /\ pc'[w] # "written"
    BY <1>0, <1>6 DEF Committed, Typing, Holding, Goto
  <2>2. entries' = Append(entries, entry[w]) /\ leaf' = LeafIdAfter(entry[w])
    BY <1>6 DEF Committed, Commit
  <2>3. Parsed(file) = Append(entries, entry[w])
    BY <1>6, <2>1 DEF Committed, SameOrder
  <2>4. leaf' = LeafOf(entries')
    BY <1>0, <2>1, <2>2, LeafOfAppend
  <2>. QED
    BY <1>0, <2>1, <2>2, <2>3, <2>4 DEF SameOrder
<1>. QED
  BY <1>2, <1>3, <1>4, <1>5, <1>6 DEF Operation

(* Every step keeps the order.                                             *)
LEMMA NextOrder ==
    ASSUME NEW caller, Writers = {caller}, FailedWrites = {}
    PROVE  Typing /\ RefInv /\ SameOrder /\ [Next]_vars => SameOrder'
<1>. SUFFICES ASSUME Typing, RefInv, SameOrder, [Next]_vars PROVE SameOrder'
  OBVIOUS
<1>1. CASE Tick \/ UNCHANGED vars
  BY <1>1 DEF Tick, memVars, opVars, vars, SameOrder
<1>2. CASE Crash
  BY <1>2 DEF Crash, SameOrder
<1>3. CASE Open
  <2>1. \A w \in Writers : pc'[w] # "written"
    BY <1>3 DEF Open, opVars, RefInv, Stopped
  <2>2. entries' = Parsed(file) /\ leaf' = LeafOf(Parsed(file)) /\ UNCHANGED file
    BY <1>3 DEF Open
  <2>. QED
    BY <2>1, <2>2 DEF SameOrder
<1>. QED
  BY <1>1, <1>2, <1>3, OperationOrder DEF Next

(* ... as does the first state.                                            *)
LEMMA InitOrder == Init => SameOrder
<1>. SUFFICES ASSUME Init PROVE SameOrder
  OBVIOUS
<1>1. Parsed(<<>>) = <<>>
  BY DEF Parsed
<1>. QED
  BY <1>1 DEF Init, SameOrder, LeafOf

(* A caller who awaits each operation can open the file again after a      *)
(* restart and finds the entries and the leaf it left, as long as a write  *)
(* that a crash cuts short leaves all of its line or nothing, a rejected   *)
(* one nothing.                                                            *)
THEOREM ReopenIsFaithful ==
    ASSUME NEW caller, Writers = {caller}, FailedWrites = {}, CrashWrites \subseteq {"line"}
    PROVE  Spec => []ReopenRestores
<1>1. SameOrder /\ WholeLines => ReopenRestores
  BY DEF SameOrder, ReopenRestores, Quiet, WholeLines, AckedReadable
<1>2. Typing /\ WholeLines /\ [Next]_vars => WholeLines'
  <2>1. FailedWrites \subseteq {"line"}
    OBVIOUS
  <2>. QED
    BY <2>1, NextWhole
<1>. QED
  BY <1>1, InitTyping, NextTyping, InitRefInv, NextRefInv, InitOrder, NextOrder,
     InitWhole, <1>2, PTL DEF Spec

-----------------------------------------------------------------------------
(* Ids.  One caller never makes an id twice: it looks it up in memory, and *)
(* memory knows what the file holds whenever an id is made.                *)

Bound == MaxWindows + made

Fresh ==
    /\ \A i, j \in DOMAIN file : file[i].entry.id = file[j].entry.id => i = j
    /\ \A id \in FileIds : id <= Bound
    /\ \A w \in Writers : pc[w] \in {"identified", "writing"} =>
           entry[w].id \notin FileIds /\ entry[w].id <= Bound

(* The id of a new entry is in neither memory nor file.                    *)
LEMMA NewIdIsNew ==
    ASSUME NEW w \in Writers, Typing, RefInv, SameOrder, Fresh, isOpen, pc[w] # "written"
    PROVE  NewId \notin FileIds /\ NewId <= Bound + 1
<1>1. file \in Seq(Line) /\ Parsed(file) = entries
  BY DEF Typing, TypeOK, Line, SameOrder
<1>2. Known = FileIds
  BY <1>1, ParsedFile DEF Known, FileIds
<1>3. window \in Nat /\ window <= MaxWindows /\ made \in Nat /\ MaxWindows \in Nat
  BY BoundsAssumption DEF Typing, TypeOK, Windows
<1>4. Bound + 1 \notin FileIds
  BY <1>3 DEF Fresh, Bound
<1>. QED
  BY <1>2, <1>3, <1>4 DEF NewId, Bound

(* A step that writes nothing and makes at most an entry with a new id.    *)
LEMMA StepFresh ==
    ASSUME Typing, Fresh, NEW w \in Writers, UNCHANGED file, made' \in {made, made + 1},
           \A v \in Writers : v # w => pc'[v] = pc[v] /\ entry'[v] = entry[v],
           pc'[w] \in {"identified", "writing"} =>
               entry'[w].id \notin FileIds /\ entry'[w].id <= Bound'
    PROVE  Fresh'
<1>0. made \in Nat /\ MaxWindows \in Nat
  BY BoundsAssumption DEF Typing, TypeOK
<1>1. Bound \in Nat /\ Bound' \in {Bound, Bound + 1} /\ FileIds' = FileIds
  <2>1. FileIds' = FileIds
    BY DEF FileIds
  <2>2. CASE made' = made
    BY <1>0, <2>1, <2>2 DEF Bound
  <2>3. CASE made' = made + 1
    BY <1>0, <2>1, <2>3 DEF Bound
  <2>. QED
    BY <2>2, <2>3
<1>2. FileIds \subseteq Nat /\ \A v \in Writers : pc[v] \in Holding => entry[v].id \in Nat
  BY BoundsAssumption, EntryFields, ParsedFile DEF Typing, TypeOK, Line, FileIds, Ids
<1>3. \A id \in FileIds' : id <= Bound'
  <2>. SUFFICES ASSUME NEW id \in FileIds PROVE id <= Bound'
    BY <1>1
  <2>1. id \in Nat /\ id <= Bound
    BY <1>2 DEF Fresh
  <2>. QED
    BY <1>1, <2>1
<1>4. ASSUME NEW v \in Writers, v # w, pc'[v] \in {"identified", "writing"}
      PROVE  entry'[v].id \notin FileIds' /\ entry'[v].id <= Bound'
  BY <1>1, <1>2, <1>4 DEF Fresh, Holding
<1>. QED
  BY <1>1, <1>3, <1>4 DEF Fresh

(* A line with a new id.                                                   *)
LEMMA WrittenFresh ==
    ASSUME Typing, Fresh, NEW caller, Writers = {caller}, NEW w \in Writers, NEW end \in Endings,
           pc[w] = "writing", file' = Written(entry[w], end), UNCHANGED made,
           pc'[w] \notin {"identified", "writing"}
    PROVE  Fresh'
<1>1. entry[w] \in Entry /\ file \in Seq(Line)
  BY DEF Typing, TypeOK, Line, Holding
<1>2. /\ \A i \in DOMAIN file : file'[i] = file[i]
      /\ DOMAIN file' = DOMAIN file \cup {Len(file) + 1}
      /\ file'[Len(file) + 1].entry = entry[w]
      /\ FileIds' = FileIds \cup {entry[w].id}
  BY <1>1, WrittenFile
<1>3. Bound' = Bound /\ entry[w].id \notin FileIds /\ entry[w].id <= Bound
  BY DEF Fresh, Bound
<1>4. ASSUME NEW i \in DOMAIN file', NEW j \in DOMAIN file',
             file'[i].entry.id = file'[j].entry.id
      PROVE  i = j
  BY <1>2, <1>3, <1>4 DEF Fresh, FileIds
<1>. QED
  BY <1>2, <1>3, <1>4 DEF Fresh

(* Each step of the operation keeps ids unique.                            *)
LEMMA OperationFresh ==
    ASSUME NEW caller, Writers = {caller}, FailedWrites = {},
           Typing, RefInv, SameOrder, Fresh, NEW w \in Writers, Operation(w)
    PROVE  Fresh'
<1>0. /\ pc \in [Writers -> PCs] /\ entry \in [Writers -> Entry \cup Unfinished]
      /\ pc[w] # "idle" => isOpen
      /\ made \in Nat /\ MaxWindows \in Nat
  BY BoundsAssumption DEF Typing, TypeOK, RefInv, Stopped
<1>1. CASE AppendStart(w) \/ SetLeafId(w) \/ SummaryStart(w)
  <2>1. isOpen /\ pc[w] # "written" /\ made' = made + 1 /\ UNCHANGED file
    BY <1>0, <1>1 DEF AppendStart, SetLeafId, SummaryStart, Make
  <2>2. Bound' = Bound + 1
    BY <1>0, <2>1 DEF Bound
  <2>3. entry'[w].id = NewId
    BY <1>0, <1>1 DEF AppendStart, SetLeafId, SummaryStart, Make, Node, LeafEntry
  <2>4. \A v \in Writers : v # w => pc'[v] = pc[v] /\ entry'[v] = entry[v]
    BY <1>0, <1>1 DEF AppendStart, SetLeafId, SummaryStart, Make, Goto
  <2>5. NewId \notin FileIds /\ NewId <= Bound + 1
    BY <2>1, NewIdIsNew
  <2>. QED
    BY <2>1, <2>2, <2>3, <2>4, <2>5, StepFresh
<1>2. CASE ReadLeaf(w)
  <2>1. /\ pc[w] = "identified" /\ UNCHANGED <<file, made>>
        /\ \A v \in Writers : v # w => pc'[v] = pc[v] /\ entry'[v] = entry[v]
    BY <1>0, <1>2 DEF ReadLeaf, Goto
  <2>2. entry[w] \in Entry /\ entry'[w] = [entry[w] EXCEPT !.parentId = leaf]
    BY <1>0, <1>2 DEF ReadLeaf, Typing, Holding
  <2>3. entry'[w].id = entry[w].id /\ Bound' = Bound
    BY <2>1, <2>2 DEF Entry, Bound
  <2>. QED
    BY <2>1, <2>3, StepFresh DEF Fresh
<1>3. ASSUME NEW target \in Ids \cup {Root}, NEW s \in BOOLEAN, MoveStart(w, target, s)
      PROVE  Fresh'
  BY <1>0, <1>3, StepFresh DEF MoveStart, Goto
<1>4. CASE WriteLine(w)
  <2>1. "line" \in Endings /\ pc'[w] = "written"
    BY <1>0, <1>4 DEF Endings, WriteLine, Goto
  <2>. QED
    BY <1>4, <2>1, WrittenFresh DEF WriteLine
<1>5. CASE WriteFails(w)
  BY <1>0, <1>5, StepFresh DEF WriteFails, Goto
<1>6. CASE Committed(w)
  BY <1>0, <1>6, StepFresh DEF Committed, Goto
<1>. QED
  BY <1>1, <1>2, <1>3, <1>4, <1>5, <1>6 DEF Operation

(* Every step keeps ids unique.                                            *)
LEMMA NextFresh ==
    ASSUME NEW caller, Writers = {caller}, FailedWrites = {}
    PROVE  Typing /\ RefInv /\ SameOrder /\ Fresh /\ [Next]_vars => Fresh'
<1>. SUFFICES ASSUME Typing, RefInv, SameOrder, Fresh, [Next]_vars PROVE Fresh'
  OBVIOUS
<1>1. ASSUME UNCHANGED <<file, made>>,
             UNCHANGED <<pc, entry>> \/ \A w \in Writers : pc'[w] = "idle"
      PROVE  Fresh'
  BY <1>1 DEF Fresh, FileIds, Bound
<1>2. CASE Crash
  <2>1. \A w \in Writers : pc'[w] = "idle"
    BY <1>2 DEF Crash
  <2>2. ASSUME NEW w \in Writers, NEW end \in CrashWrites,
               pc[w] = "writing", file' = Written(entry[w], end)
        PROVE  Fresh'
    BY <1>2, <2>1, <2>2, WrittenFresh, WritesAssumption DEF Crash
  <2>. QED
    BY <1>1, <1>2, <2>1, <2>2 DEF Crash
<1>3. CASE Tick \/ Open \/ UNCHANGED vars
  BY <1>1, <1>3 DEF Tick, Open, vars, opVars
<1>. QED
  BY <1>2, <1>3, OperationFresh DEF Next

(* An empty session has no ids.                                            *)
LEMMA InitFresh == Init => Fresh
BY DEF Init, Fresh, FileIds

-----------------------------------------------------------------------------
(* The tree.                                                               *)

(* What is about to be written hangs on the leaf, and a summary follows a  *)
(* move that has become the leaf.                                          *)
AtLeaf == \A w \in Writers :
    /\ pc[w] = "writing" => entry[w].parentId = leaf
    /\ pc[w] = "summary" => leaf = entry[w].targetId

(* Every step of one caller keeps its entry at the leaf.                   *)
LEMMA NextAtLeaf ==
    ASSUME NEW caller, Writers = {caller}
    PROVE  Typing /\ RefInv /\ AtLeaf /\ [Next]_vars => AtLeaf'
<1>. SUFFICES ASSUME Typing, RefInv, AtLeaf, [Next]_vars PROVE AtLeaf'
  OBVIOUS
<1>0. /\ pc \in [Writers -> PCs] /\ entry \in [Writers -> Entry \cup Unfinished]
      /\ leaf \in Ids \cup {Root}
  BY DEF Typing, TypeOK
<1>1. ASSUME NEW w \in Writers, Operation(w) PROVE AtLeaf'
  <2>0. \A v \in Writers : v = w
    OBVIOUS
  <2>1. CASE AppendStart(w) \/ WriteLine(w) \/ WriteFails(w)
    BY <1>0, <2>0, <2>1 DEF AppendStart, WriteLine, WriteFails, Goto, AtLeaf
  <2>2. CASE \E target \in Ids \cup {Root}, s \in BOOLEAN : MoveStart(w, target, s)
    BY <1>0, <2>0, <2>2 DEF MoveStart, Goto, AtLeaf
  <2>3. CASE ReadLeaf(w)
    <3>1. entry[w] \in Entry /\ pc'[w] = "writing" /\ UNCHANGED leaf
          /\ entry'[w] = [entry[w] EXCEPT !.parentId = leaf]
      BY <1>0, <2>3 DEF ReadLeaf, Typing, Holding, Goto, memVars
    <3>2. entry'[w].parentId = leaf
      BY <1>0, <3>1, SetParent
    <3>. QED
      BY <2>0, <3>1, <3>2 DEF AtLeaf
  <2>4. CASE SetLeafId(w) \/ SummaryStart(w)
    <3>1. pc'[w] = "writing" /\ UNCHANGED leaf
      BY <1>0, <2>4 DEF SetLeafId, SummaryStart, Goto, memVars
    <3>2. entry'[w].parentId = leaf
      BY <1>0, <2>4 DEF SetLeafId, SummaryStart, Make, LeafEntry, Node, AtLeaf
    <3>. QED
      BY <2>0, <3>1, <3>2 DEF AtLeaf
  <2>5. CASE Committed(w)
    <3>1. /\ leaf' = LeafIdAfter(entry[w]) /\ pc'[w] \in {"idle", "summary"}
          /\ pc'[w] = "summary" => entry[w].type = "leaf"
          /\ UNCHANGED entry
      BY <1>0, <2>5 DEF Committed, Commit, Goto
    <3>. QED
      BY <2>0, <3>1 DEF AtLeaf, LeafIdAfter
  <2>. QED
    BY <1>1, <2>1, <2>2, <2>3, <2>4, <2>5 DEF Operation
<1>2. CASE Crash \/ Open
  BY <1>2 DEF Crash, Open, opVars, RefInv, Stopped, AtLeaf
<1>3. CASE Tick \/ UNCHANGED vars
  BY <1>3 DEF Tick, memVars, opVars, vars, AtLeaf
<1>. QED
  BY <1>1, <1>2, <1>3 DEF Next

(* Of entries with different ids the one with an id is the one chosen.     *)
LEMMA TheEntry ==
    ASSUME NEW P, NEW x \in P, \A y, z \in P : y.id = z.id => y = z, NEW id, x.id = id
    PROVE  (CHOOSE y \in P : y.id = id) = x
OBVIOUS

(* Entries read back with different ids are different lines' entries.      *)
LEMMA DistinctEntries ==
    ASSUME Typing, Fresh
    PROVE  /\ \A y, z \in Persisted : y.id = z.id => y = z
           /\ {y.id : y \in Persisted} = FileIds
<1>1. file \in Seq(Line)
  BY DEF Typing, TypeOK, Line
<1>2. DOMAIN Parsed(file) = DOMAIN file /\ \A i \in DOMAIN file : Parsed(file)[i] = file[i].entry
  BY <1>1, ParsedFile
<1>3. Persisted = {file[i].entry : i \in DOMAIN file}
  BY <1>2 DEF Persisted, SetOf
<1>. QED
  BY <1>3 DEF Fresh, FileIds

(* An entry with a new id is a node more of the tree, and moves no other.  *)
LEMMA TreeGrows ==
    ASSUME NEW P, NEW e, \A y, z \in P : y.id = z.id => y = z, e.id \notin {y.id : y \in P}
    PROVE  TreeOf(P \cup {e}) = [m \in {y.id : y \in P} \cup {e.id} |->
                                     IF m = e.id THEN e.parentId ELSE TreeOf(P)[m]]
<1>. DEFINE Q == P \cup {e}
            Of(m) == CHOOSE y \in Q : y.id = m
            D == {y.id : y \in P} \cup {e.id}
<1>1. (\A y, z \in Q : y.id = z.id => y = z) /\ e \in Q
  OBVIOUS
<1>2. {y.id : y \in Q} = D
  OBVIOUS
<1>3. Of(e.id) = e
  BY <1>1, TheEntry
<1>4. ASSUME NEW m \in {y.id : y \in P} PROVE Of(m).parentId = TreeOf(P)[m]
  <2>1. PICK x \in P : x.id = m
    OBVIOUS
  <2>2. Of(m) = x /\ (CHOOSE y \in P : y.id = m) = x
    BY <1>1, <2>1, TheEntry
  <2>. HIDE DEF Of
  <2>. QED
    BY <2>1, <2>2 DEF TreeOf
<1>5. TreeOf(Q) = [m \in D |-> Of(m).parentId]
  BY <1>2 DEF TreeOf
<1>. HIDE DEF Of
<1>6. \A m \in D : Of(m).parentId = IF m = e.id THEN e.parentId ELSE TreeOf(P)[m]
  BY <1>3, <1>4
<1>. HIDE DEF D
<1>. QED
  BY <1>5, <1>6 DEF D

(* A line written is a step of the abstract specification.                 *)
LEMMA WriteIsBranch ==
    ASSUME NEW caller, Writers = {caller}, NEW w \in Writers, NEW end \in Endings,
           Typing, RefInv, SameOrder, Fresh, AtLeaf,
           pc[w] = "writing", NEW e, e = entry[w], file' = Written(e, end)
    PROVE  B!BNext
<1>1. e \in Entry /\ file \in Seq(Line) /\ isOpen /\ RefersTo(e, Known)
  BY DEF Typing, TypeOK, Line, Holding, RefInv, Stopped, InFlight
<1>2. /\ Parsed(file') = Append(Parsed(file), e) /\ Parsed(file) \in Seq(Entry)
      /\ Persisted' = Persisted \cup {e}
  BY <1>1, ParsedWritten DEF Persisted
<1>3. LeafOf(Parsed(file)) = leaf /\ LeafOf(Parsed(file')) = LeafIdAfter(e)
  BY <1>1, <1>2, LeafOfAppend DEF SameOrder
<1>4. e.id \notin FileIds /\ e.parentId = leaf /\ Known \subseteq FileIds
  BY <1>1 DEF Fresh, AtLeaf, RefInv, MemoryClosed
<1>5. /\ \A y, z \in Persisted : y.id = z.id => y = z
      /\ {y.id : y \in Persisted} = FileIds
  BY DistinctEntries
<1>6. TreeOf(Persisted') = [m \in FileIds \cup {e.id} |->
                                IF m = e.id THEN leaf ELSE TreeOf(Persisted)[m]]
  BY <1>2, <1>4, <1>5, TreeGrows
<1>7. DOMAIN TreeOf(Persisted) = FileIds
  BY <1>5 DEF TreeOf
<1>8. B!Add(e.id)
  BY <1>3, <1>4, <1>6, <1>7 DEF B!Add, B!Nodes
<1>9. e.id \in Ids
  BY <1>1, EntryFields
<1>10. CASE e.type = "leaf"
  <2>1. e.targetId \in FileIds \cup {0} /\ e.targetId \in Ids \cup {0}
    BY <1>1, <1>4, EntryFields DEF RefersTo, Root
  <2>2. B!Move(e.id, e.targetId)
    BY <1>3, <1>7, <1>8, <1>10, <2>1 DEF B!Move, B!Nodes, LeafIdAfter
  <2>. QED
    BY <1>9, <2>1, <2>2 DEF B!BNext
<1>11. CASE e.type # "leaf"
  <2>1. B!Grow(e.id)
    BY <1>3, <1>8, <1>11 DEF B!Grow, LeafIdAfter
  <2>. QED
    BY <1>9, <2>1 DEF B!BNext
<1>. QED
  BY <1>10, <1>11

(* Every step of a session is a step of the abstract specification or      *)
(* leaves the tree alone.                                                  *)
LEMMA StepIsBranch ==
    ASSUME NEW caller, Writers = {caller}, FailedWrites = {},
           Typing, RefInv, SameOrder, Fresh, AtLeaf, [Next]_vars
    PROVE  [B!BNext]_(B!bvars)
<1>1. ASSUME UNCHANGED file PROVE UNCHANGED B!bvars
  BY <1>1 DEF B!bvars, Persisted
<1>2. ASSUME NEW w \in Writers, Operation(w) PROVE [B!BNext]_(B!bvars)
  <2>1. CASE WriteLine(w)
    BY <2>1, WriteIsBranch DEF WriteLine, Endings
  <2>2. CASE ~WriteLine(w)
    BY <1>1, <1>2, <2>2 DEF Operation, AppendStart, ReadLeaf, MoveStart, SetLeafId, WriteFails,
                            Committed, SummaryStart
  <2>. QED
    BY <2>1, <2>2
<1>3. CASE Crash
  <2>1. ASSUME NEW w \in Writers, NEW end \in CrashWrites,
               pc[w] = "writing", file' = Written(entry[w], end)
        PROVE  B!BNext
    BY <2>1, WriteIsBranch, WritesAssumption
  <2>. QED
    BY <1>1, <1>3, <2>1 DEF Crash
<1>4. CASE Tick \/ Open \/ UNCHANGED vars
  BY <1>1, <1>4 DEF Tick, Open, vars
<1>. QED
  BY <1>2, <1>3, <1>4 DEF Next

(* A session with one caller implements the tree of branches, and the file *)
(* that holds the tree can always be opened: an append or a move takes     *)
(* effect with its line, also when a crash interrupts it, at the leaf the  *)
(* caller saw, and no entry is ever moved or lost.  A write that a crash   *)
(* cuts short leaves all of its line or nothing, a rejected one nothing.   *)
THEOREM SessionImplementsBranches ==
    ASSUME NEW caller, Writers = {caller}, FailedWrites = {}, CrashWrites \subseteq {"line"}
    PROVE  Spec => ImplementsBranches /\ []Reopenable
<1>1. Init => B!BInit
  <2>. SUFFICES ASSUME Init PROVE B!BInit
    OBVIOUS
  <2>1. Parsed(file) = <<>> /\ Persisted = {}
    BY DEF Init, Parsed, Persisted, SetOf
  <2>2. LeafOf(<<>>) = 0
    BY DEF LeafOf, Root
  <2>3. TreeOf({}) = [n \in {} |-> 0]
    BY DEF TreeOf
  <2>. QED
    BY <2>1, <2>2, <2>3 DEF B!BInit
<1>2. Init => AtLeaf
  BY DEF Init, AtLeaf
<1>3. Typing /\ RefInv /\ SameOrder /\ Fresh /\ AtLeaf /\ [Next]_vars => [B!BNext]_(B!bvars)
  BY StepIsBranch
<1>4. WholeLines => Reopenable
  BY DEF WholeLines, AckedReadable, Reopenable
<1>5. Typing /\ WholeLines /\ [Next]_vars => WholeLines'
  <2>1. FailedWrites \subseteq {"line"}
    OBVIOUS
  <2>. QED
    BY <2>1, NextWhole
<1>. QED
  BY <1>1, <1>2, <1>3, <1>4, <1>5, InitWhole, InitTyping, NextTyping, InitRefInv, NextRefInv,
     InitOrder, NextOrder, InitFresh, NextFresh, NextAtLeaf, PTL DEF Spec, ImplementsBranches, B!BSpec

-----------------------------------------------------------------------------
(* The way to the root.  getPathToRoot is a loop, and that it ends is an   *)
(* induction: each parent comes earlier in the session than its child.     *)

(* The recursive function of the model is the function it says it is.      *)
LEMMA PathUnfolds ==
    ASSUME NEW id, Len(entries) \in Nat
    PROVE  PathFrom(id) = [n \in 0..Len(entries) |->
                              IF n = 0 THEN {id} ELSE Parents(PathFrom(id)[n - 1])]
<1>. DEFINE Def(f, m) == [n \in 0..m |-> IF n = 0 THEN {id} ELSE Parents(f[n - 1])]
            Bad == {m \in Nat : ~\E f : f = Def(f, m)}
<1>1. ASSUME Bad # {} PROVE FALSE
  <2>1. PICK m \in Bad : \A k \in Bad : m <= k
    <3>1. Bad \in SUBSET Nat
      OBVIOUS
    <3>. HIDE DEF Bad
    <3>. QED
      BY <1>1, <3>1, LeastNumber
  <2>2. m # 0
    <3>. DEFINE f == [n \in 0..0 |-> {id}]
    <3>1. f = Def(f, 0)
      OBVIOUS
    <3>. QED
      BY <2>1, <3>1
  <2>3. m \in Nat /\ m - 1 \in Nat /\ ~(m <= m - 1)
    BY <2>2
  <2>4. m - 1 \notin Bad
    <3>. HIDE DEF Bad
    <3>. QED
      BY <2>1, <2>3
  <2>5. PICK f : f = Def(f, m - 1)
    BY <2>3, <2>4
  <2>. DEFINE g == [n \in 0..m |-> IF n = m THEN Parents(f[m - 1]) ELSE f[n]]
  <2>6. ASSUME NEW n \in 0..m PROVE g[n] = IF n = 0 THEN {id} ELSE Parents(g[n - 1])
    <3>1. CASE n = m
      <4>1. m - 1 \in 0..m /\ m - 1 # m /\ n # 0
        BY <2>2, <2>3, <3>1
      <4>2. g[n] = Parents(f[m - 1]) /\ g[m - 1] = f[m - 1]
        BY <3>1, <4>1
      <4>. QED
        BY <3>1, <4>1, <4>2
    <3>2. CASE n # m
      <4>1. n \in 0..(m - 1)
        BY <2>3, <3>2
      <4>2. g[n] = f[n] /\ f[n] = IF n = 0 THEN {id} ELSE Parents(f[n - 1])
        BY <2>5, <3>2, <4>1
      <4>3. n # 0 => n - 1 \in 0..m /\ n - 1 # m
        BY <2>3, <4>1
      <4>4. n # 0 => g[n - 1] = f[n - 1]
        BY <4>3
      <4>. QED
        BY <4>2, <4>4
    <3>. QED
      BY <3>1, <3>2
  <2>7. g = [n \in 0..m |-> g[n]]
    OBVIOUS
  <2>. HIDE DEF g
  <2>8. g = Def(g, m)
    BY <2>6, <2>7
  <2>. QED
    BY <2>1, <2>8
<1>2. \E f : f = Def(f, Len(entries))
  BY <1>1
<1>. QED
  BY <1>2 DEF PathFrom

(* The ids of the first n entries of s.                                    *)
IdsBefore(s, n) == {s[j].id : j \in 1..n}

(* The lines of the file refer only to earlier ones, whoever writes them   *)
(* and whatever fails.                                                     *)
Backwards == \A i \in DOMAIN file :
                 file[i].entry.parentId \in IdsBefore(Parsed(file), i - 1) \cup {Root}

(* A line more, which refers to what memory holds.                         *)
LEMMA WrittenBackwards ==
    ASSUME Typing, Backwards, MemoryClosed, NEW e \in Entry, NEW end \in Endings,
           RefersTo(e, Known), file' = Written(e, end)
    PROVE  Backwards'
<1>1. file \in Seq(Line) /\ Len(file) \in Nat /\ DOMAIN file = 1..Len(file)
  BY LenProperties DEF Typing, TypeOK, Line
<1>2. /\ \A i \in DOMAIN file : file'[i] = file[i]
      /\ DOMAIN file' = DOMAIN file \cup {Len(file) + 1}
      /\ file'[Len(file) + 1].entry = e /\ file' \in Seq(Line)
  BY <1>1, WrittenFile
<1>3. /\ \A i \in DOMAIN file : Parsed(file)[i] = file[i].entry
      /\ \A i \in DOMAIN file' : Parsed(file')[i] = file'[i].entry
  BY <1>1, <1>2 DEF Parsed
<1>4. ASSUME NEW i \in DOMAIN file
      PROVE  IdsBefore(Parsed(file'), i - 1) = IdsBefore(Parsed(file), i - 1)
  <2>1. \A j \in 1..(i - 1) : Parsed(file')[j] = Parsed(file)[j]
    BY <1>1, <1>2, <1>3
  <2>. QED
    BY <2>1 DEF IdsBefore
<1>5. ASSUME NEW i \in DOMAIN file
      PROVE  file'[i].entry.parentId \in IdsBefore(Parsed(file'), i - 1) \cup {Root}
  BY <1>2, <1>4 DEF Backwards
<1>6. FileIds \subseteq IdsBefore(Parsed(file'), Len(file))
  BY <1>1, <1>2, <1>3 DEF FileIds, IdsBefore
<1>7. e.parentId \in IdsBefore(Parsed(file'), (Len(file) + 1) - 1) \cup {Root}
  <2>1. e.parentId \in FileIds \cup {Root} /\ (Len(file) + 1) - 1 = Len(file)
    BY <1>1 DEF RefersTo, MemoryClosed
  <2>. QED
    BY <1>6, <2>1
<1>. QED
  BY <1>2, <1>5, <1>7 DEF Backwards

(* Every step keeps the lines referring backwards.                         *)
LEMMA NextBackwards == Typing /\ RefInv /\ Backwards /\ [Next]_vars => Backwards'
<1>. SUFFICES ASSUME Typing, RefInv, Backwards, [Next]_vars PROVE Backwards'
  OBVIOUS
<1>1. ASSUME UNCHANGED file PROVE Backwards'
  BY <1>1 DEF Backwards
<1>2. ASSUME NEW w \in Writers, NEW end \in Endings, pc[w] = "writing",
             file' = Written(entry[w], end)
      PROVE  Backwards'
  <2>1. entry[w] \in Entry /\ RefersTo(entry[w], Known) /\ MemoryClosed
    BY <1>2 DEF Typing, Holding, RefInv, Stopped, InFlight
  <2>. QED
    BY <1>2, <2>1, WrittenBackwards
<1>3. ASSUME NEW w \in Writers, Operation(w) PROVE Backwards'
  <2>1. CASE WriteLine(w) \/ WriteFails(w)
    BY <1>1, <1>2, <2>1, WritesAssumption DEF WriteLine, WriteFails, Endings
  <2>2. CASE ~WriteLine(w) /\ ~WriteFails(w)
    BY <1>1, <1>3, <2>2 DEF Operation, AppendStart, ReadLeaf, MoveStart, SetLeafId, Committed,
                            SummaryStart
  <2>. QED
    BY <2>1, <2>2
<1>4. CASE Crash
  BY <1>1, <1>2, <1>4, WritesAssumption DEF Crash
<1>5. CASE Tick \/ Open \/ UNCHANGED vars
  BY <1>1, <1>5 DEF Tick, Open, vars
<1>. QED
  BY <1>3, <1>4, <1>5 DEF Next

(* One step from the entry at position p of memory leads to the root or to *)
(* an earlier position.                                                    *)
LEMMA ParentsStep ==
    ASSUME entries \in Seq(Entry), NEW p \in DOMAIN entries,
           \A i, j \in DOMAIN entries : entries[i].id = entries[j].id => i = j,
           entries[p].parentId \in IdsBefore(entries, p - 1) \cup {Root}
    PROVE  \/ Parents({entries[p].id}) = {Root}
           \/ \E q \in 1..(p - 1) : Parents({entries[p].id}) = {entries[q].id}
<1>. DEFINE id == entries[p].id
            found(i) == entries[i].id = id /\ \A j \in DOMAIN entries : j > i => entries[j].id # id
<1>1. Len(entries) \in Nat /\ DOMAIN entries = 1..Len(entries)
  BY LenProperties
<1>2. \A i \in DOMAIN entries : found(i) <=> i = p
  BY <1>1
<1>3. (CHOOSE i \in DOMAIN entries : found(i)) = p
  <2>. HIDE DEF found
  <2>. QED
    BY <1>2
<1>4. ById(id) = entries[p]
  BY <1>3 DEF ById
<1>5. id \in Known
  BY DEF Known
<1>. HIDE DEF id
<1>6. {id} \cap Known = {id}
  BY <1>5
<1>7. Parents({id}) = {entries[p].parentId}
  BY <1>4, <1>6 DEF Parents
<1>. QED
  BY <1>7 DEF id, IdsBefore

(* From the leaf the parents lead to the root.                             *)
LEMMA PathEnds ==
    ASSUME entries \in Seq(Entry), leaf \in Known \cup {Root},
           \A i, j \in DOMAIN entries : entries[i].id = entries[j].id => i = j,
           \A p \in DOMAIN entries :
               entries[p].parentId \in IdsBefore(entries, p - 1) \cup {Root}
    PROVE  \E n \in 0..Len(entries) : PathFrom(leaf)[n] = {Root}
<1>. DEFINE L == Len(entries)
            f == PathFrom(leaf)
<1>1. L \in Nat /\ DOMAIN entries = 1..L
  BY LenProperties
<1>2. \A n \in 0..L : f[n] = IF n = 0 THEN {leaf} ELSE Parents(f[n - 1])
  <2>1. f = [n \in 0..L |-> IF n = 0 THEN {leaf} ELSE Parents(f[n - 1])]
    BY <1>1, PathUnfolds
  <2>. HIDE DEF f, L
  <2>. QED
    BY <2>1
<1>. HIDE DEF f, L
<1>. SUFFICES ASSUME \A n \in 0..L : f[n] # {Root} PROVE FALSE
  BY DEF f, L
<1>. DEFINE At(n) == \E p \in 1..(L - n) : f[n] = {entries[p].id}
            Bad == {n \in 0..L : ~At(n)}
<1>3. L \in Bad
  BY <1>1
<1>4. PICK n \in Bad : \A m \in Bad : n <= m
  <2>1. Bad \in SUBSET Nat /\ Bad # {}
    BY <1>1, <1>3
  <2>. HIDE DEF Bad
  <2>. QED
    BY <2>1, LeastNumber
<1>5. n # 0
  <2>1. f[0] = {leaf} /\ 0 \in 0..L
    BY <1>1, <1>2
  <2>2. PICK p \in DOMAIN entries : leaf = entries[p].id
    BY <2>1 DEF Known
  <2>3. At(0)
    BY <1>1, <2>1, <2>2
  <2>. QED
    BY <1>4, <2>3
<1>6. n \in 0..L /\ n - 1 \in 0..L /\ ~(n <= n - 1) /\ ~At(n)
  BY <1>1, <1>4, <1>5
<1>7. At(n - 1)
  <2>1. n - 1 \notin Bad
    <3>. HIDE DEF Bad
    <3>. QED
      BY <1>4, <1>6
  <2>. QED
    BY <1>6, <2>1
<1>8. PICK p \in 1..(L - (n - 1)) : f[n - 1] = {entries[p].id}
  BY <1>7
<1>9. p \in DOMAIN entries /\ p \in Nat /\ p - 1 <= L - n
  BY <1>1, <1>6, <1>8
<1>10. f[n] = Parents({entries[p].id})
  BY <1>2, <1>5, <1>6, <1>8
<1>11. \E q \in 1..(p - 1) : f[n] = {entries[q].id}
  BY <1>6, <1>9, <1>10, ParentsStep
<1>12. \A q \in 1..(p - 1) : q \in 1..(L - n)
  BY <1>1, <1>6, <1>9
<1>. QED
  BY <1>6, <1>11, <1>12

(* getPathToRoot ends: in a session with one caller the parents lead from  *)
(* the leaf to the root, through every restart.                            *)
THEOREM PathsReachTheRoot ==
    ASSUME NEW caller, Writers = {caller}, FailedWrites = {}
    PROVE  Spec => []Rooted
<1>1. Init => Backwards
  BY DEF Init, Backwards
<1>2. Typing /\ RefInv /\ SameOrder /\ Fresh /\ Backwards => Rooted
  <2>. SUFFICES ASSUME Typing, RefInv, SameOrder, Fresh, Backwards, isOpen
                PROVE  \E n \in 0..Len(entries) : PathFrom(leaf)[n] = {Root}
    BY DEF Rooted
  <2>1. file \in Seq(Line) /\ entries \in Seq(Entry) /\ leaf \in Known \cup {Root}
    BY DEF Typing, TypeOK, Line, RefInv, MemoryClosed
  <2>2. /\ DOMAIN Parsed(file) = DOMAIN file
        /\ \A i \in DOMAIN file : Parsed(file)[i] = file[i].entry
    BY <2>1, ParsedFile
  <2>3. /\ DOMAIN entries \subseteq DOMAIN file
        /\ \A i \in DOMAIN entries : Parsed(file)[i] = entries[i]
    <3>1. CASE pc[caller] # "written"
      BY <2>2, <3>1 DEF SameOrder
    <3>2. CASE pc[caller] = "written"
      <4>1. Parsed(file) = Append(entries, entry[caller]) /\ entry[caller] \in Entry
        BY <3>2 DEF SameOrder, Typing, Holding
      <4>. QED
        BY <2>1, <2>2, <4>1, AppendProperties, LenProperties
    <3>. QED
      BY <3>1, <3>2
  <2>4. \A i, j \in DOMAIN entries : entries[i].id = entries[j].id => i = j
    BY <2>2, <2>3 DEF Fresh
  <2>5. ASSUME NEW p \in DOMAIN entries
        PROVE  entries[p].parentId \in IdsBefore(entries, p - 1) \cup {Root}
    <3>1. Len(entries) \in Nat /\ DOMAIN entries = 1..Len(entries)
      BY <2>1, LenProperties
    <3>2. \A j \in 1..(p - 1) : j \in DOMAIN entries
      BY <3>1
    <3>3. IdsBefore(Parsed(file), p - 1) = IdsBefore(entries, p - 1)
      BY <2>3, <3>2 DEF IdsBefore
    <3>. QED
      BY <2>2, <2>3, <3>3 DEF Backwards
  <2>. QED
    BY <2>1, <2>4, <2>5, PathEnds
<1>. QED
  BY <1>1, <1>2, InitTyping, NextTyping, InitRefInv, NextRefInv, InitOrder, NextOrder,
     InitFresh, NextFresh, NextBackwards, PTL DEF Spec
=============================================================================
