------------------------ MODULE SessionManagerProofs ------------------------
(***************************************************************************)
(* The coding agent's session files: memory and file stay the same         *)
(* session, and what was saved stays, whichever writes throw and whenever  *)
(* the process ends between two lines.                                     *)
(***************************************************************************)
EXTENDS SessionManager, SequenceLemmas

(* Entries are what is appended or copied; a file that exists has a header *)
(* and entries after it, or only entries if the header was never written.  *)
Entries == [kind : EntryKinds \cup {"unlabel"}, id : Nat, parent : Nat, ref : Nat]
Line    == Entries \cup {Header}
Headed  == {<<Header>> \o es : es \in Seq(Entries)}
Disk    == {NoFile} \cup [exists : {TRUE}, lines : Seq(Entries) \cup Headed, open : {FALSE}]

(* The session in memory, as a file would have it.                         *)
Session == <<Header>> \o fileEntries

MemoryTypes ==
    /\ fileEntries \in Seq(Entries) /\ leafId \in Nat /\ labelsById \in SUBSET Nat
    /\ sessionFile \in Files /\ flushed \in BOOLEAN /\ running \in BOOLEAN /\ failed \in BOOLEAN

DiskTypes ==
    /\ files \in [Files -> Disk]
    /\ lastId \in 0..MaxEntries /\ crashes \in 0..MaxCrashes /\ failures \in 0..MaxFailures

(* Lines with the ids of a tree: each id is there once and was given out,  *)
(* and, if no write has failed, each line's parent is on an earlier one.   *)
(* The header counts as an entry with the id 0.                            *)
OneEach(ls)  == \A i, j \in 1..Len(ls) : ls[i].id = ls[j].id => i = j
Given(ls, n) == \A i \in 1..Len(ls) : ls[i].id <= n
Linked(ls)   == \A i \in 2..Len(ls) : \E j \in 1..(i - 1) : ls[j].id = ls[i].parent
Tree(ls, n, intact) == OneEach(ls) /\ Given(ls, n) /\ (intact => Linked(ls))

TreeInv   == Tree(Session, lastId, failures = 0)
LeafInv   == \E i \in 1..Len(Session) : Session[i].id = leafId
LabelInv  == ~failed => labelsById = LabelsOf(fileEntries)
FailedInv == failed => failures > 0
FileInv   ==
    /\ flushed => files[sessionFile] # NoFile
    /\ running /\ ~failed =>
         IF flushed
         THEN files[sessionFile].lines = Session
         ELSE files[sessionFile] = NoFile /\ ~HasAssistant(fileEntries)

MemoryInv  == MemoryTypes /\ TreeInv /\ LeafInv /\ LabelInv /\ FailedInv /\ FileInv
DiskInv    == DiskTypes /\ \A f \in Files : Tree(files[f].lines, lastId, failures = 0)
Consistent == MemoryInv /\ DiskInv

-----------------------------------------------------------------------------
(* Lines.                                                                  *)

LEMMA HeaderIs ==
    /\ Header.id = 0 /\ Header.kind = "session" /\ Header \notin Entries /\ Header \in Line
    /\ Junk \notin Line /\ Entries \subseteq Line
    /\ \A e \in Line : e.id \in Nat /\ e.parent \in Nat
BY DEF Header, Junk, Entry, Entries, Line, EntryKinds

LEMMA HeadedIs ==
    ASSUME NEW es \in Seq(Entries), NEW ls, ls = <<Header>> \o es
    PROVE  /\ ls \in Seq(Line) /\ ls \in Headed /\ ls # <<>>
           /\ Len(es) \in Nat /\ Len(ls) = Len(es) + 1
           /\ ls[1] = Header /\ \A i \in 1..Len(es) : ls[i + 1] = es[i]
           /\ Head(ls) = Header /\ Tail(ls) = es
           /\ \A e \in Entries : Append(ls, e) = <<Header>> \o Append(es, e)
<1>1. <<Header>> \in Seq(Line) /\ es \in Seq(Line) /\ Len(<<Header>>) = 1
  BY HeaderIs, SeqMonotonic
<1>2. /\ Len(es) \in Nat /\ ls \in Seq(Line) /\ Len(ls) = 1 + Len(es)
      /\ \A i \in 1..(1 + Len(es)) : ls[i] = IF i <= 1 THEN <<Header>>[i] ELSE es[i - 1]
  BY <1>1, ConcatProperties, LenProperties
<1>3. ls[1] = Header /\ \A i \in 1..Len(es) : ls[i + 1] = es[i]
  BY <1>2
<1>4. ls # <<>>
  BY <1>2
<1>5. Head(ls) = Header /\ Tail(ls) = es
  BY <1>1, ConcatSimplifications
<1>6. ASSUME NEW e \in Entries PROVE Append(ls, e) = <<Header>> \o Append(es, e)
  BY <1>1, HeaderIs, AppendConcat
<1>. QED
  BY <1>2, <1>3, <1>4, <1>5, <1>6 DEF Headed

LEMMA LinesSeq ==
    ASSUME NEW file \in Disk
    PROVE  /\ file.lines \in Seq(Line) /\ file.open = FALSE
           /\ file.exists = FALSE <=> file = NoFile
           /\ file = NoFile => file.lines = <<>>
<1>1. CASE file = NoFile
  BY <1>1 DEF NoFile
<1>2. CASE file # NoFile
  <2>1. file \in [exists : {TRUE}, lines : Seq(Entries) \cup Headed, open : {FALSE}]
    BY <1>2 DEF Disk
  <2>2. Seq(Entries) \subseteq Seq(Line) /\ Headed \subseteq Seq(Line)
    <3>1. Seq(Entries) \subseteq Seq(Line)
      BY HeaderIs, SeqMonotonic
    <3>2. ASSUME NEW es \in Seq(Entries) PROVE <<Header>> \o es \in Seq(Line)
      BY HeadedIs
    <3>. QED
      BY <3>1, <3>2 DEF Headed
  <2>. QED
    BY <1>2, <2>1, <2>2
<1>. QED
  BY <1>1, <1>2

(* loadEntriesFromFile: with a header, what the file holds.                *)
LEMMA LoadedIs ==
    ASSUME NEW file \in Disk
    PROVE  /\ file.lines \in Headed => Loaded(file) = file.lines
           /\ file.lines \notin Headed => Loaded(file) = <<>>
<1>. DEFINE ls == file.lines
<1>1. ls \in Seq(Line)
  BY LinesSeq
<1>2. \A i \in DOMAIN ls : ls[i] \in Line
  BY <1>1, LenProperties
<1>3. \A i \in DOMAIN ls : i \in {j \in DOMAIN ls : ls[j] # Junk}
  BY <1>2, HeaderIs
<1>4. Chosen(ls, {j \in DOMAIN ls : ls[j] # Junk}) = ls
  BY <1>1, <1>3, ChosenAll
<1>5. Loaded(file) = IF ls # <<>> /\ Head(ls) = Header THEN ls ELSE <<>>
  BY <1>4 DEF Loaded
<1>. HIDE DEF ls
<1>6. ASSUME ls \in Headed PROVE ls # <<>> /\ Head(ls) = Header
  <2>1. PICK es \in Seq(Entries) : ls = <<Header>> \o es
    BY <1>6 DEF Headed
  <2>. QED
    BY <2>1, HeadedIs
<1>7. ASSUME ls \notin Headed PROVE ~(ls # <<>> /\ Head(ls) = Header)
  <2>1. ls \in Seq(Entries)
    <3>1. CASE file = NoFile
      BY <3>1, LinesSeq, EmptySeq DEF ls
    <3>2. CASE file # NoFile
      BY <1>7, <3>2 DEF Disk, ls
    <3>. QED
      BY <3>1, <3>2
  <2>2. ls # <<>> => Head(ls) \in Entries
    BY <2>1, HeadTailProperties
  <2>. QED
    BY <2>2, HeaderIs
<1>. QED
  BY <1>5, <1>6, <1>7 DEF ls

LEMMA PartHeaded ==
    ASSUME NEW ls \in Headed, NEW k \in 0..Len(ls)
    PROVE  /\ SubSeq(ls, 1, k) \in Seq(Entries) \cup Headed
           /\ k # 0 => SubSeq(ls, 1, k) \in Headed
           /\ k = 0 => SubSeq(ls, 1, k) = <<>>
           /\ SubSeq(ls, 1, Len(ls)) = ls
<1>1. PICK es \in Seq(Entries) : ls = <<Header>> \o es
  BY DEF Headed
<1>2. /\ ls \in Seq(Line) /\ Len(es) \in Nat /\ Len(ls) = Len(es) + 1
      /\ ls[1] = Header /\ \A i \in 1..Len(es) : ls[i + 1] = es[i]
  BY <1>1, HeadedIs
<1>3. SubSeq(ls, 1, Len(ls)) = ls
  BY <1>2, SubSeqFull
<1>4. CASE k = 0
  BY <1>2, <1>3, <1>4, SubSeqEmpty, EmptySeq
<1>5. CASE k # 0
  <2>. DEFINE t == SubSeq(ls, 1, k)
              u == SubSeq(es, 1, k - 1)
              v == <<Header>> \o u
  <2>1. k \in 1..Len(ls) /\ k - 1 \in 0..Len(es) /\ 1 \in 1..(Len(ls) + 1) /\ 1 \in 1..(Len(es) + 1)
    BY <1>2, <1>5
  <2>2. t \in Seq(Line) /\ Len(t) = k /\ \A i \in 1..k : t[i] = ls[i]
    <3>1. k \in (1 - 1)..Len(ls)
      BY <2>1
    <3>2. t \in Seq(Line) /\ Len(t) = k - 1 + 1 /\ \A i \in 1..(k - 1 + 1) : t[i] = ls[1 + i - 1]
      BY <1>2, <2>1, <3>1, SubSeqIs
    <3>. HIDE DEF t
    <3>. QED
      BY <1>2, <2>1, <3>2
  <2>3. u \in Seq(Entries) /\ Len(u) = k - 1 /\ \A i \in 1..(k - 1) : u[i] = es[i]
    <3>1. k - 1 \in (1 - 1)..Len(es)
      BY <2>1
    <3>2. u \in Seq(Entries) /\ Len(u) = k - 1 - 1 + 1
          /\ \A i \in 1..(k - 1 - 1 + 1) : u[i] = es[1 + i - 1]
      BY <1>2, <2>1, <3>1, SubSeqIs
    <3>. HIDE DEF u
    <3>. QED
      BY <1>2, <2>1, <3>2
  <2>. HIDE DEF t, u
  <2>4. /\ v \in Seq(Line) /\ v \in Headed /\ Len(v) = Len(u) + 1
        /\ v[1] = Header /\ \A i \in 1..Len(u) : v[i + 1] = u[i]
    BY <2>3, HeadedIs
  <2>. HIDE DEF v
  <2>5. ASSUME NEW i \in 1..k PROVE t[i] = v[i]
    <3>1. CASE i = 1
      BY <1>2, <2>2, <2>4, <3>1
    <3>2. CASE i # 1
      <4>1. i - 1 \in 1..(k - 1) /\ i - 1 \in 1..Len(es) /\ i - 1 + 1 = i
        BY <2>1, <3>2
      <4>2. v[i] = u[i - 1] /\ ls[i] = es[i - 1] /\ u[i - 1] = es[i - 1]
        BY <1>2, <2>3, <2>4, <4>1
      <4>. QED
        BY <2>2, <4>2
    <3>. QED
      BY <3>1, <3>2
  <2>6. t = v
    BY <2>1, <2>2, <2>3, <2>4, <2>5, SeqEqual
  <2>. QED
    BY <1>3, <1>5, <2>4, <2>6 DEF t
<1>. QED
  BY <1>4, <1>5

(* Trees.                                                                  *)
LEMMA TreeMore ==
    ASSUME NEW ls \in Seq(Line), NEW n \in Nat, NEW m \in Nat, n <= m,
           NEW p \in BOOLEAN, NEW q \in BOOLEAN, q => p, Tree(ls, n, p)
    PROVE  Tree(ls, m, q)
<1>1. \A i \in 1..Len(ls) : ls[i].id \in Nat
  BY HeaderIs, LenProperties
<1>2. Given(ls, m)
  BY <1>1 DEF Tree, Given
<1>. QED
  BY <1>2 DEF Tree

LEMMA TreePart ==
    ASSUME NEW ls \in Seq(Line), NEW n, NEW p \in BOOLEAN, NEW k \in 0..Len(ls), Tree(ls, n, p)
    PROVE  Tree(SubSeq(ls, 1, k), n, p)
<1>. DEFINE t == SubSeq(ls, 1, k)
<1>1. 1 \in 1..(Len(ls) + 1) /\ k \in (1 - 1)..Len(ls) /\ Len(ls) \in Nat
  BY LenProperties
<1>2. t \in Seq(Line) /\ Len(t) = k - 1 + 1 /\ \A i \in 1..(k - 1 + 1) : t[i] = ls[1 + i - 1]
  BY <1>1, SubSeqIs
<1>. HIDE DEF t
<1>3. Len(t) = k /\ \A i \in 1..k : t[i] = ls[i] /\ i \in 1..Len(ls)
  BY <1>1, <1>2
<1>4. OneEach(t) /\ Given(t, n)
  BY <1>3 DEF Tree, OneEach, Given
<1>5. ASSUME Linked(ls) PROVE Linked(t)
  <2>1. ASSUME NEW i \in 2..k PROVE \E j \in 1..(i - 1) : t[j].id = t[i].parent
    <3>1. i \in 2..Len(ls)
      BY <1>1
    <3>2. PICK j \in 1..(i - 1) : ls[j].id = ls[i].parent
      BY <1>5, <3>1 DEF Linked
    <3>3. j \in 1..k /\ i \in 1..k
      BY <1>1
    <3>4. t[j] = ls[j] /\ t[i] = ls[i]
      BY <1>3, <3>3
    <3>. QED
      BY <3>2, <3>4
  <2>. QED
    BY <1>3, <2>1 DEF Linked
<1>. QED
  BY <1>4, <1>5 DEF Tree, t

LEMMA TreeAppend ==
    ASSUME NEW ls \in Seq(Line), NEW n \in Nat, NEW p \in BOOLEAN, NEW e \in Line,
           Tree(ls, n, p), e.id = n + 1, p => \E j \in 1..Len(ls) : ls[j].id = e.parent
    PROVE  Tree(Append(ls, e), n + 1, p)
<1>. DEFINE t == Append(ls, e)
            l == Len(ls)
<1>1. /\ l \in Nat /\ Len(t) = l + 1 /\ t[l + 1] = e
      /\ \A i \in 1..l : t[i] = ls[i] /\ ls[i].id \in Nat
  BY HeaderIs, AppendProperties, LenProperties
<1>. HIDE DEF t
<1>2. \A i \in 1..l : t[i].id <= n
  BY <1>1 DEF Tree, Given
<1>3. Given(t, n + 1)
  <2>1. ASSUME NEW i \in 1..(l + 1) PROVE t[i].id <= n + 1
    <3>1. CASE i = l + 1
      BY <1>1, <3>1
    <3>2. CASE i # l + 1
      <4>1. i \in 1..l
        BY <1>1, <3>2
      <4>. QED
        BY <1>1, <1>2, <4>1
    <3>. QED
      BY <3>1, <3>2
  <2>. QED
    BY <1>1, <2>1 DEF Given
<1>4. OneEach(t)
  <2>1. ASSUME NEW i \in 1..(l + 1), NEW j \in 1..(l + 1), t[i].id = t[j].id PROVE i = j
    <3>1. CASE i = l + 1 /\ j = l + 1
      BY <3>1
    <3>2. CASE i # l + 1 /\ j # l + 1
      <4>1. i \in 1..l /\ j \in 1..l
        BY <1>1, <3>2
      <4>. QED
        BY <1>1, <2>1, <4>1 DEF Tree, OneEach
    <3>3. CASE (i = l + 1) # (j = l + 1)
      <4>1. PICK k \in 1..l : t[k].id = n + 1
        BY <1>1, <2>1, <3>3
      <4>2. t[k].id <= n
        BY <1>2
      <4>. QED
        BY <4>1, <4>2
    <3>. QED
      BY <3>1, <3>2, <3>3
  <2>. QED
    BY <1>1, <2>1 DEF OneEach
<1>5. ASSUME p PROVE Linked(t)
  <2>1. ASSUME NEW i \in 2..(l + 1) PROVE \E j \in 1..(i - 1) : t[j].id = t[i].parent
    <3>1. CASE i = l + 1
      <4>1. PICK j \in 1..l : ls[j].id = e.parent
        BY <1>5
      <4>2. j \in 1..(i - 1) /\ t[j] = ls[j] /\ t[i] = e
        BY <1>1, <3>1
      <4>. QED
        BY <4>1, <4>2
    <3>2. CASE i # l + 1
      <4>1. i \in 2..l /\ i \in 1..l
        BY <1>1, <3>2
      <4>2. PICK j \in 1..(i - 1) : ls[j].id = ls[i].parent
        BY <1>5, <4>1 DEF Tree, Linked
      <4>3. j \in 1..l
        BY <1>1, <4>1
      <4>4. t[j] = ls[j] /\ t[i] = ls[i]
        BY <1>1, <4>1, <4>3
      <4>. QED
        BY <4>2, <4>4
    <3>. QED
      BY <3>1, <3>2
  <2>. QED
    BY <1>1, <2>1 DEF Linked
<1>. QED
  BY <1>3, <1>4, <1>5 DEF Tree, t

LEMMA TreeNone ==
    ASSUME NEW n \in Nat, NEW p \in BOOLEAN
    PROVE  Tree(<<>>, n, p) /\ Tree(<<Header>>, n, p) /\ <<Header>> \in Headed
           /\ <<Header>> = <<Header>> \o <<>>
<1>1. Len(<<>>) = 0 /\ Len(<<Header>>) = 1 /\ <<Header>>[1] = Header
  OBVIOUS
<1>2. <<Header>> = <<Header>> \o <<>>
  <2>1. <<Header>> \in Seq(Line)
    BY HeaderIs
  <2>. QED
    BY <2>1, ConcatEmptySeq
<1>3. Tree(<<>>, n, p)
  BY <1>1 DEF Tree, OneEach, Given, Linked
<1>4. Tree(<<Header>>, n, p)
  BY <1>1, HeaderIs DEF Tree, OneEach, Given, Linked
<1>. QED
  BY <1>2, <1>3, <1>4, EmptySeq DEF Headed

-----------------------------------------------------------------------------
(* Writes, which may stop between two lines.                               *)
Grown(file, ls, k) ==
    [exists |-> TRUE, lines |-> file.lines \o SubSeq(ls, 1, k), open |-> FALSE]

LEMMA WrittenIs ==
    ASSUME Tears = FALSE, NEW M, NEW file, file.open = FALSE, NEW ls \in Seq(M),
           NEW w \in Written(file, ls)
    PROVE  /\ \E k \in 0..Len(ls) : /\ w.file = Grown(file, ls, k)
                                    /\ w.outcome = "done" => k = Len(ls)
           /\ w.outcome \in {"done"} \cup Interruptions
<1>1. Len(ls) \in Nat /\ SubSeq(ls, 1, Len(ls)) = ls
  BY LenProperties, SubSeqFull
<1>2. \A k \in 0..Len(ls) : Extended(file, SubSeq(ls, 1, k)) = Grown(file, ls, k)
  BY DEF Extended, Grown
<1>3. Parts(file, ls) = {Extended(file, SubSeq(ls, 1, k)) : k \in 0..(Len(ls) - 1)}
  BY DEF Parts
<1>4. CASE w = [file |-> Extended(file, ls), outcome |-> "done"]
  <2>1. Len(ls) \in 0..Len(ls)
    BY <1>1
  <2>2. w.file = Grown(file, ls, Len(ls)) /\ w.outcome = "done"
    BY <1>1, <1>2, <1>4, <2>1
  <2>. QED
    BY <2>1, <2>2
<1>5. CASE w \in [file : Parts(file, ls), outcome : Interruptions]
  <2>1. w.file \in Parts(file, ls) /\ w.outcome \in Interruptions
    BY <1>5
  <2>2. PICK k \in 0..(Len(ls) - 1) : w.file = Extended(file, SubSeq(ls, 1, k))
    BY <1>3, <2>1
  <2>3. k \in 0..Len(ls)
    BY <1>1
  <2>4. w.outcome # "done"
    BY <2>1 DEF Interruptions
  <2>. QED
    BY <1>2, <2>1, <2>2, <2>3, <2>4
<1>. QED
  BY <1>4, <1>5 DEF Written

(* Into a new file: the first lines of what was to be written.             *)
LEMMA CreatedIs ==
    ASSUME Tears = FALSE, NEW file, file.lines = <<>>, file.open = FALSE, NEW ls \in Headed,
           NEW w \in Written(file, ls)
    PROVE  /\ \E k \in 0..Len(ls) : w.file.lines = SubSeq(ls, 1, k)
           /\ w.file \in Disk /\ w.file # NoFile
           /\ w.outcome \in {"done"} \cup Interruptions
           /\ w.outcome = "done" => w.file.lines = ls
<1>1. PICK es \in Seq(Entries) : ls = <<Header>> \o es
  BY DEF Headed
<1>2. ls \in Seq(Line)
  BY <1>1, HeadedIs
<1>3. /\ \E k \in 0..Len(ls) : /\ w.file = Grown(file, ls, k)
                               /\ w.outcome = "done" => k = Len(ls)
      /\ w.outcome \in {"done"} \cup Interruptions
  BY <1>2, WrittenIs
<1>4. PICK k \in 0..Len(ls) : w.file = Grown(file, ls, k) /\ (w.outcome = "done" => k = Len(ls))
  BY <1>3
<1>5. SubSeq(ls, 1, k) \in Seq(Entries) \cup Headed /\ SubSeq(ls, 1, Len(ls)) = ls
  BY PartHeaded
<1>6. <<>> \o SubSeq(ls, 1, k) = SubSeq(ls, 1, k)
  <2>1. SubSeq(ls, 1, k) \in Seq(Line)
    <3>1. Seq(Entries) \subseteq Seq(Line)
      BY HeaderIs, SeqMonotonic
    <3>2. ASSUME NEW fs \in Seq(Entries) PROVE <<Header>> \o fs \in Seq(Line)
      BY HeadedIs
    <3>. QED
      BY <1>5, <3>1, <3>2 DEF Headed
  <2>. QED
    BY <2>1, ConcatEmptySeq
<1>7. w.file = [exists |-> TRUE, lines |-> SubSeq(ls, 1, k), open |-> FALSE]
  BY <1>4, <1>6 DEF Grown
<1>8. w.file \in Disk /\ w.file # NoFile
  BY <1>5, <1>7 DEF Disk, NoFile
<1>9. w.file.lines = SubSeq(ls, 1, k)
  BY <1>7
<1>10. w.outcome = "done" => w.file.lines = ls
  BY <1>4, <1>5, <1>9
<1>. HIDE DEF Grown
<1>. QED
  BY <1>3, <1>8, <1>9, <1>10

(* One line more, or none.                                                 *)
LEMMA LineWritten ==
    ASSUME Tears = FALSE, NEW file \in Disk, file # NoFile, NEW e \in Entries,
           NEW w \in Written(file, <<e>>)
    PROVE  /\ w.file = file \/ w.file.lines = Append(file.lines, e)
           /\ w.file \in Disk /\ w.file # NoFile
           /\ w.outcome \in {"done"} \cup Interruptions
           /\ w.outcome = "done" => w.file.lines = Append(file.lines, e)
<1>1. /\ file = [exists |-> TRUE, lines |-> file.lines, open |-> FALSE]
      /\ file.lines \in Seq(Entries) \cup Headed
  BY DEF Disk
<1>2. file.lines \in Seq(Line) /\ <<e>> \in Seq(Line) /\ Len(<<e>>) = 1 /\ file.open = FALSE
  <2>1. e \in Line
    BY HeaderIs
  <2>2. file.lines \in Seq(Line) /\ file.open = FALSE
    BY LinesSeq
  <2>. QED
    BY <2>1, <2>2
<1>3. /\ \E k \in 0..Len(<<e>>) : /\ w.file = Grown(file, <<e>>, k)
                                  /\ w.outcome = "done" => k = Len(<<e>>)
      /\ w.outcome \in {"done"} \cup Interruptions
  BY <1>2, WrittenIs
<1>4. PICK k \in 0..1 : w.file = Grown(file, <<e>>, k) /\ (w.outcome = "done" => k = 1)
  BY <1>2, <1>3
<1>5. Append(file.lines, e) \in Seq(Entries) \cup Headed
  <2>1. CASE file.lines \in Seq(Entries)
    BY <2>1, AppendProperties
  <2>2. CASE file.lines \in Headed
    <3>1. PICK es \in Seq(Entries) : file.lines = <<Header>> \o es
      BY <2>2 DEF Headed
    <3>2. Append(file.lines, e) = <<Header>> \o Append(es, e) /\ Append(es, e) \in Seq(Entries)
      BY <3>1, HeadedIs, AppendProperties
    <3>. QED
      BY <3>2 DEF Headed
  <2>. QED
    BY <1>1, <2>1, <2>2
<1>6. CASE k = 0
  <2>1. SubSeq(<<e>>, 1, 0) = <<>> /\ file.lines \o <<>> = file.lines
    BY <1>2, SubSeqEmpty, ConcatEmptySeq
  <2>2. w.file = file
    BY <1>1, <1>4, <1>6, <2>1 DEF Grown
  <2>. QED
    BY <1>3, <1>4, <1>6, <2>2
<1>7. CASE k = 1
  <2>1. SubSeq(<<e>>, 1, 1) = <<e>> /\ file.lines \o <<e>> = Append(file.lines, e)
    <3>1. SubSeq(<<e>>, 1, Len(<<e>>)) = <<e>>
      BY <1>2, SubSeqFull
    <3>2. e \in Line
      BY HeaderIs
    <3>. QED
      BY <1>2, <3>1, <3>2, AppendIsConcat
  <2>2. w.file = [exists |-> TRUE, lines |-> Append(file.lines, e), open |-> FALSE]
    BY <1>4, <1>7, <2>1 DEF Grown
  <2>3. w.file \in Disk /\ w.file # NoFile
    BY <1>5, <2>2 DEF Disk, NoFile
  <2>. QED
    BY <1>3, <2>2, <2>3
<1>. QED
  BY <1>6, <1>7

-----------------------------------------------------------------------------
(* getBranch: the path to the root is some of the entries, in their order. *)
WalkTo(f, es, id, m) ==
    [i \in 0..m |->
        IF i = 0 THEN [at |-> id, path |-> <<>>]
        ELSE LET found == f[i - 1]
                 e     == es[Len(es) + 1 - i]
             IN  IF e.id # found.at THEN found
                 ELSE [at |-> e.parent, path |-> <<e>> \o found.path]]

LEMMA WalkExists ==
    ASSUME NEW es, NEW id, NEW n \in Nat
    PROVE  \E f : f = WalkTo(f, es, id, n)
<1>. DEFINE Bad == {m \in Nat : ~\E f : f = WalkTo(f, es, id, m)}
<1>1. SUFFICES ASSUME Bad # {} PROVE FALSE
  OBVIOUS
<1>2. PICK m \in Bad : \A k \in Bad : m <= k
  <2>1. Bad \in SUBSET Nat
    OBVIOUS
  <2>. HIDE DEF Bad
  <2>. QED
    BY <1>1, <2>1, LeastNumber
<1>3. m # 0
  <2>. DEFINE f == [i \in 0..0 |-> [at |-> id, path |-> <<>>]]
  <2>1. f = WalkTo(f, es, id, 0)
    BY DEF WalkTo
  <2>. QED
    BY <1>2, <2>1
<1>4. m \in Nat /\ m - 1 \in Nat /\ ~(m <= m - 1)
  BY <1>3
<1>5. m - 1 \notin Bad
  <2>. HIDE DEF Bad
  <2>. QED
    BY <1>2, <1>4
<1>6. PICK f : f = WalkTo(f, es, id, m - 1)
  BY <1>4, <1>5
<1>. DEFINE Step(found, i) == LET e == es[Len(es) + 1 - i]
                              IN  IF e.id # found.at THEN found
                                  ELSE [at |-> e.parent, path |-> <<e>> \o found.path]
            start == [at |-> id, path |-> <<>>]
            g == [i \in 0..m |-> IF i = m THEN Step(f[m - 1], m) ELSE f[i]]
<1>7. \A h, k : WalkTo(h, es, id, k) = [i \in 0..k |-> IF i = 0 THEN start ELSE Step(h[i - 1], i)]
  BY DEF WalkTo
<1>. HIDE DEF Step, start
<1>8. ASSUME NEW i \in 0..m PROVE g[i] = IF i = 0 THEN start ELSE Step(g[i - 1], i)
  <2>1. CASE i = m
    <3>1. m - 1 \in 0..m /\ m - 1 # m /\ i # 0
      BY <1>3, <1>4, <2>1
    <3>2. g[i] = Step(f[m - 1], m) /\ g[m - 1] = f[m - 1]
      BY <2>1, <3>1
    <3>. QED
      BY <2>1, <3>1, <3>2
  <2>2. CASE i # m
    <3>1. i \in 0..(m - 1)
      BY <1>4, <2>2
    <3>2. g[i] = f[i]
      BY <2>2
    <3>3. f[i] = IF i = 0 THEN start ELSE Step(f[i - 1], i)
      BY <1>6, <1>7, <3>1
    <3>4. i # 0 => i - 1 \in 0..m /\ i - 1 # m
      BY <1>4, <3>1
    <3>5. i # 0 => g[i - 1] = f[i - 1]
      BY <3>4
    <3>. QED
      BY <3>2, <3>3, <3>5
  <2>. QED
    BY <2>1, <2>2
<1>9. g = [i \in 0..m |-> g[i]]
  OBVIOUS
<1>. HIDE DEF g
<1>10. g = WalkTo(g, es, id, m)
  <2>1. WalkTo(g, es, id, m) = [i \in 0..m |-> IF i = 0 THEN start ELSE Step(g[i - 1], i)]
    BY <1>7
  <2>2. g = [i \in 0..m |-> IF i = 0 THEN start ELSE Step(g[i - 1], i)]
    BY <1>8, <1>9
  <2>. QED
    BY <2>1, <2>2
<1>. QED
  BY <1>2, <1>10

LEMMA BranchUnfolds ==
    ASSUME NEW es, NEW id, Len(es) \in Nat
    PROVE  \E f : f = WalkTo(f, es, id, Len(es)) /\ GetBranch(es, id) = f[Len(es)].path
<1>1. \E f : f = WalkTo(f, es, id, Len(es))
  BY WalkExists
<1>. DEFINE f == CHOOSE f : f = WalkTo(f, es, id, Len(es))
<1>2. f = WalkTo(f, es, id, Len(es))
  BY <1>1
<1>3. GetBranch(es, id) = f[Len(es)].path
  BY DEF GetBranch, WalkTo
<1>. QED
  BY <1>2, <1>3

(* The elements of t are those of s at the places h, from k on.            *)
PlacedFrom(t, s, k, h) ==
    /\ h \in [1..Len(t) -> k..Len(s)]
    /\ \A i \in 1..Len(t) : t[i] = s[h[i]]
    /\ \A i, j \in 1..Len(t) : i < j => h[i] < h[j]

LEMMA PlaceFirst ==
    ASSUME NEW M, NEW s \in Seq(M), NEW t \in Seq(M), NEW k \in 1..Len(s), NEW h,
           PlacedFrom(t, s, k + 1, h)
    PROVE  /\ <<s[k]>> \o t \in Seq(M)
           /\ \E g : PlacedFrom(<<s[k]>> \o t, s, k, g)
<1>. DEFINE e == s[k]
            u == <<e>> \o t
            n == Len(t)
            l == Len(s)
<1>1. n \in Nat /\ l \in Nat /\ k \in 1..l /\ e \in M
  BY LenProperties
<1>2. <<e>> \in Seq(M) /\ Len(<<e>>) = 1 /\ <<e>>[1] = e
  BY <1>1
<1>3. u \in Seq(M) /\ Len(u) = n + 1 /\ u[1] = e /\ \A i \in 2..(n + 1) : u[i] = t[i - 1]
  <2>1. /\ u \in Seq(M) /\ Len(u) = Len(<<e>>) + n
        /\ \A i \in 1..(Len(<<e>>) + n) :
              u[i] = IF i <= Len(<<e>>) THEN <<e>>[i] ELSE t[i - Len(<<e>>)]
    BY <1>2, ConcatProperties
  <2>. HIDE DEF u
  <2>. QED
    BY <1>1, <1>2, <2>1
<1>. HIDE DEF u, e
<1>. DEFINE g == [i \in 1..(n + 1) |-> IF i = 1 THEN k ELSE h[i - 1]]
<1>4. \A i \in 2..(n + 1) : i - 1 \in 1..n
  BY <1>1
<1>5. /\ \A i \in 1..n : h[i] \in (k + 1)..l /\ t[i] = s[h[i]]
      /\ \A i, j \in 1..n : i < j => h[i] < h[j]
  BY DEF PlacedFrom
<1>6. ASSUME NEW i \in 1..(n + 1) PROVE g[i] \in k..l /\ u[i] = s[g[i]]
  <2>1. CASE i = 1
    BY <1>1, <1>3, <2>1 DEF e
  <2>2. CASE i # 1
    <3>1. i \in 2..(n + 1) /\ i - 1 \in 1..n
      BY <1>1, <2>2
    <3>2. g[i] = h[i - 1] /\ h[i - 1] \in (k + 1)..l
      BY <1>5, <2>2, <3>1
    <3>. QED
      BY <1>1, <1>3, <1>5, <3>1, <3>2
  <2>. QED
    BY <2>1, <2>2
<1>7. ASSUME NEW i \in 1..(n + 1), NEW j \in 1..(n + 1), i < j PROVE g[i] < g[j]
  <2>1. j - 1 \in 1..n /\ g[j] = h[j - 1] /\ h[j - 1] \in (k + 1)..l
    BY <1>1, <1>5, <1>7
  <2>2. CASE i = 1
    BY <1>1, <2>1, <2>2
  <2>3. CASE i # 1
    <3>1. i - 1 \in 1..n /\ i - 1 < j - 1 /\ g[i] = h[i - 1]
      BY <1>1, <1>7, <2>3
    <3>. QED
      BY <1>5, <2>1, <3>1
  <2>. QED
    BY <2>2, <2>3
<1>8. g \in [1..Len(u) -> k..l]
  BY <1>3, <1>6
<1>. HIDE DEF g
<1>9. PlacedFrom(u, s, k, g)
  BY <1>3, <1>6, <1>7, <1>8 DEF PlacedFrom
<1>. QED
  BY <1>3, <1>9 DEF u, e

LEMMA BranchIs ==
    ASSUME NEW M, NEW es \in Seq(M), NEW id
    PROVE  GetBranch(es, id) \in Seq(M) /\ \E h : PlacedFrom(GetBranch(es, id), es, 1, h)
<1>. DEFINE n == Len(es)
<1>1. n \in Nat
  BY LenProperties
<1>2. PICK f : f = WalkTo(f, es, id, n) /\ GetBranch(es, id) = f[n].path
  BY <1>1, BranchUnfolds
<1>. DEFINE Good(i) == f[i].path \in Seq(M) /\ \E h : PlacedFrom(f[i].path, es, n + 1 - i, h)
            Bad     == {i \in 0..n : ~Good(i)}
<1>3. ASSUME Bad # {} PROVE FALSE
  <2>1. PICK m \in Bad : \A k \in Bad : m <= k
    <3>1. Bad \in SUBSET Nat
      OBVIOUS
    <3>. HIDE DEF Bad
    <3>. QED
      BY <1>3, <3>1, LeastNumber
  <2>2. m \in 0..n /\ ~Good(m)
    BY <2>1
  <2>3. m # 0
    <3>1. Good(0)
      <4>1. f[0] = [at |-> id, path |-> <<>>]
        BY <1>1, <1>2 DEF WalkTo
      <4>2. f[0].path = <<>>
        BY <4>1
      <4>3. Len(<<>>) = 0 /\ <<>> \in Seq(M) /\ 1..0 = {}
        BY EmptySeq
      <4>. DEFINE h == [i \in 1..0 |-> 0]
      <4>4. h \in [1..Len(<<>>) -> (n + 1 - 0)..n]
        BY <4>3
      <4>5. PlacedFrom(<<>>, es, n + 1 - 0, h)
        BY <4>3, <4>4 DEF PlacedFrom
      <4>. QED
        BY <4>2, <4>3, <4>5
    <3>. QED
      BY <2>2, <3>1
  <2>4. m \in 1..n /\ m - 1 \in 0..n /\ ~(m <= m - 1)
    BY <1>1, <2>2, <2>3
  <2>5. Good(m - 1)
    <3>1. m - 1 \notin Bad
      <4>. HIDE DEF Bad
      <4>. QED
        BY <2>1, <2>4
    <3>. QED
      BY <2>4, <3>1
  <2>. DEFINE k == n + 1 - m
              p == f[m - 1].path
  <2>6. k \in 1..n /\ n + 1 - (m - 1) = k + 1
    BY <1>1, <2>4
  <2>7. PICK h : PlacedFrom(p, es, k + 1, h)
    BY <2>5, <2>6
  <2>8. f[m].path = p \/ f[m].path = <<es[k]>> \o p
    <3>1. f[m] = LET found == f[m - 1]
                     e     == es[n + 1 - m]
                 IN  IF e.id # found.at THEN found
                     ELSE [at |-> e.parent, path |-> <<e>> \o found.path]
      BY <1>2, <2>3, <2>4 DEF WalkTo
    <3>2. f[m] = f[m - 1] \/ f[m] = [at |-> es[k].parent, path |-> <<es[k]>> \o p]
      BY <3>1
    <3>3. ASSUME f[m] = [at |-> es[k].parent, path |-> <<es[k]>> \o p]
          PROVE  f[m].path = <<es[k]>> \o p
      BY <3>3
    <3>. QED
      BY <3>2, <3>3
  <2>9. p \in Seq(M)
    BY <2>5
  <2>10. CASE f[m].path = p
    <3>1. /\ h \in [1..Len(p) -> (k + 1)..n]
          /\ \A i \in 1..Len(p) : p[i] = es[h[i]]
          /\ \A i, j \in 1..Len(p) : i < j => h[i] < h[j]
      BY <2>7 DEF PlacedFrom
    <3>2. (k + 1)..n \subseteq k..n
      BY <1>1, <2>6
    <3>3. h \in [1..Len(p) -> k..n]
      <4>1. h = [i \in 1..Len(p) |-> h[i]] /\ \A i \in 1..Len(p) : h[i] \in (k + 1)..n
        BY <3>1
      <4>. QED
        BY <3>2, <4>1
    <3>4. PlacedFrom(p, es, k, h)
      BY <3>1, <3>3 DEF PlacedFrom
    <3>. QED
      BY <2>2, <2>9, <2>10, <3>4
  <2>11. CASE f[m].path = <<es[k]>> \o p
    <3>1. <<es[k]>> \o p \in Seq(M) /\ \E g : PlacedFrom(<<es[k]>> \o p, es, k, g)
      BY <2>6, <2>7, <2>9, PlaceFirst
    <3>. QED
      BY <2>2, <2>11, <3>1
  <2>. QED
    BY <2>8, <2>10, <2>11
<1>4. Good(n) /\ n + 1 - n = 1
  <2>1. n \in 0..n
    BY <1>1
  <2>. QED
    BY <1>1, <1>3, <2>1
<1>. QED
  BY <1>2, <1>4

(* Some of the entries, in their order, are entries whose ids differ.      *)
LEMMA PlacedIs ==
    ASSUME NEW s \in Seq(Entries), NEW t \in Seq(Entries), OneEach(s), NEW n,
           \A i \in 1..Len(s) : s[i].id \in 1..n,
           NEW h \in [1..Len(t) -> 1..Len(s)], \A i \in 1..Len(t) : t[i] = s[h[i]],
           \A i, j \in 1..Len(t) : i < j => h[i] < h[j]
    PROVE  OneEach(t) /\ \A i \in 1..Len(t) : t[i].id \in 1..n
<1>1. ASSUME NEW i \in 1..Len(t), NEW j \in 1..Len(t), t[i].id = t[j].id PROVE i = j
  <2>1. h[i] \in 1..Len(s) /\ h[j] \in 1..Len(s) /\ t[i] = s[h[i]] /\ t[j] = s[h[j]]
    OBVIOUS
  <2>2. h[i] = h[j]
    BY <1>1, <2>1 DEF OneEach
  <2>3. ~(i < j) /\ ~(j < i)
    <3>1. i < j => h[i] < h[j]
      OBVIOUS
    <3>2. j < i => h[j] < h[i]
      OBVIOUS
    <3>. QED
      BY <2>1, <2>2, <3>1, <3>2
  <2>. QED
    BY <2>3
<1>2. ASSUME NEW i \in 1..Len(t) PROVE t[i].id \in 1..n
  <2>1. h[i] \in 1..Len(s) /\ t[i] = s[h[i]]
    OBVIOUS
  <2>. QED
    BY <2>1
<1>. QED
  BY <1>1, <1>2 DEF OneEach

(* Entries that are chained anew: each is the parent of the next.          *)
Chain(es, parent) ==
    \A i \in 1..Len(es) : es[i].parent = IF i = 1 THEN parent ELSE es[i - 1].id

LEMMA RechainedIs ==
    ASSUME NEW es \in Seq(Entries), NEW parent \in Nat, NEW t, t = Rechained(es, parent)
    PROVE  /\ t \in Seq(Entries) /\ Len(t) = Len(es) /\ Len(t) \in Nat
           /\ \A i \in 1..Len(t) : t[i].id = es[i].id
           /\ \A i \in 1..Len(t) : t[i].kind = es[i].kind /\ t[i].ref = es[i].ref
           /\ Chain(t, parent)
<1>1. Len(es) \in Nat /\ DOMAIN es = 1..Len(es) /\ \A i \in 1..Len(es) : es[i] \in Entries
  BY LenProperties
<1>2. t = [i \in 1..Len(es) |-> [es[i] EXCEPT !.parent = IF i = 1 THEN parent ELSE es[i - 1].id]]
  BY <1>1 DEF Rechained
<1>3. ASSUME NEW i \in 1..Len(es)
      PROVE  /\ t[i] \in Entries /\ t[i].id = es[i].id
             /\ t[i].kind = es[i].kind /\ t[i].ref = es[i].ref
             /\ t[i].parent = IF i = 1 THEN parent ELSE es[i - 1].id
  <2>. DEFINE p == IF i = 1 THEN parent ELSE es[i - 1].id
  <2>1. p \in Nat
    <3>1. CASE i = 1
      BY <3>1
    <3>2. CASE i # 1
      <4>1. i - 1 \in 1..Len(es)
        BY <1>1, <3>2
      <4>2. es[i - 1] \in Entries
        BY <1>1, <4>1
      <4>. QED
        BY <3>2, <4>2 DEF Entries
    <3>. QED
      BY <3>1, <3>2
  <2>2. t[i] = [es[i] EXCEPT !.parent = p]
    BY <1>2
  <2>3. es[i] \in Entries
    BY <1>1
  <2>. HIDE DEF p
  <2>4. /\ t[i] \in Entries /\ t[i].id = es[i].id /\ t[i].parent = p
        /\ t[i].kind = es[i].kind /\ t[i].ref = es[i].ref
    BY <2>1, <2>2, <2>3 DEF Entries
  <2>. QED
    BY <2>4 DEF p
<1>4. t \in Seq(Entries) /\ Len(t) = Len(es)
  <2>1. t = [i \in 1..Len(es) |-> t[i]]
    BY <1>2
  <2>2. t \in Seq(Entries)
    BY <1>1, <1>3, <2>1, IsASeq
  <2>3. DOMAIN t = 1..Len(es) /\ DOMAIN t = 1..Len(t) /\ Len(t) \in Nat
    BY <1>2, <2>2, LenProperties
  <2>. QED
    BY <1>1, <2>2, <2>3
<1>5. \A i \in 1..Len(t) : t[i].id = es[i].id /\ t[i].kind = es[i].kind /\ t[i].ref = es[i].ref
  BY <1>3, <1>4
<1>6. Chain(t, parent)
  <2>1. ASSUME NEW i \in 1..Len(t)
        PROVE  t[i].parent = IF i = 1 THEN parent ELSE t[i - 1].id
    <3>1. CASE i = 1
      BY <1>3, <1>4, <3>1
    <3>2. CASE i # 1
      <4>1. i - 1 \in 1..Len(t) /\ i \in 1..Len(es)
        BY <1>1, <1>4, <3>2
      <4>. QED
        BY <1>3, <1>5, <3>2, <4>1
    <3>. QED
      BY <3>1, <3>2
  <2>. QED
    BY <2>1 DEF Chain
<1>. QED
  BY <1>1, <1>4, <1>5, <1>6

(* A chain of entries with ids of their own is a tree under its header.    *)
LEMMA ChainIsTree ==
    ASSUME NEW es \in Seq(Entries), NEW n \in Nat, OneEach(es),
           \A i \in 1..Len(es) : es[i].id \in 1..n, Chain(es, 0), NEW p \in BOOLEAN
    PROVE  Tree(<<Header>> \o es, n, p)
<1>. DEFINE ls == <<Header>> \o es
            l == Len(es)
<1>1. /\ l \in Nat /\ Len(ls) = l + 1 /\ ls[1] = Header
      /\ \A i \in 1..l : ls[i + 1] = es[i]
  BY HeadedIs
<1>. HIDE DEF ls
<1>2. \A i \in 1..l : es[i].id \in Nat /\ es[i].id # 0
  OBVIOUS
<1>3. ASSUME NEW i \in 1..(l + 1), i # 1 PROVE i - 1 \in 1..l /\ ls[i] = es[i - 1]
  <2>1. i - 1 \in 1..l /\ i - 1 + 1 = i
    BY <1>1, <1>3
  <2>. QED
    BY <1>1, <2>1
<1>4. Header.id = 0 /\ 0 <= n
  BY HeaderIs
<1>5. Given(ls, n)
  <2>1. ASSUME NEW i \in 1..(l + 1) PROVE ls[i].id <= n
    <3>1. CASE i = 1
      BY <1>1, <1>4, <3>1
    <3>2. CASE i # 1
      BY <1>3, <3>2
    <3>. QED
      BY <3>1, <3>2
  <2>. QED
    BY <1>1, <2>1 DEF Given
<1>6. OneEach(ls)
  <2>1. ASSUME NEW i \in 1..(l + 1), NEW j \in 1..(l + 1), ls[i].id = ls[j].id PROVE i = j
    <3>1. CASE i = 1 /\ j = 1
      BY <3>1
    <3>2. CASE i # 1 /\ j # 1
      <4>1. i - 1 \in 1..l /\ j - 1 \in 1..l /\ es[i - 1].id = es[j - 1].id
        BY <1>3, <2>1, <3>2
      <4>2. i - 1 = j - 1
        BY <4>1 DEF OneEach
      <4>. QED
        BY <4>2
    <3>3. CASE i = 1 /\ j # 1
      BY <1>1, <1>2, <1>3, <1>4, <2>1, <3>3
    <3>4. CASE i # 1 /\ j = 1
      BY <1>1, <1>2, <1>3, <1>4, <2>1, <3>4
    <3>. QED
      BY <3>1, <3>2, <3>3, <3>4
  <2>. QED
    BY <1>1, <2>1 DEF OneEach
<1>7. Linked(ls)
  <2>1. ASSUME NEW i \in 2..(l + 1) PROVE \E j \in 1..(i - 1) : ls[j].id = ls[i].parent
    <3>1. i \in 1..(l + 1) /\ i # 1 /\ i - 1 \in 1..(i - 1) /\ 1 \in 1..(i - 1)
      BY <1>1
    <3>2. i - 1 \in 1..l /\ ls[i] = es[i - 1]
      BY <1>3, <3>1
    <3>3. es[i - 1].parent = IF i - 1 = 1 THEN 0 ELSE es[i - 1 - 1].id
      BY <3>2 DEF Chain
    <3>4. CASE i - 1 = 1
      BY <1>1, <1>4, <3>1, <3>2, <3>3, <3>4
    <3>5. CASE i - 1 # 1
      <4>1. i - 1 \in 1..(l + 1) /\ i - 1 # 1
        BY <1>1, <3>2, <3>5
      <4>2. ls[i - 1] = es[i - 1 - 1]
        BY <1>3, <4>1
      <4>. QED
        BY <3>1, <3>2, <3>3, <3>5, <4>2
    <3>. QED
      BY <3>4, <3>5
  <2>. QED
    BY <1>1, <2>1 DEF Linked
<1>. QED
  BY <1>5, <1>6, <1>7 DEF Tree, ls

LEMMA SamesIds ==
    ASSUME NEW s \in Seq(Entries), NEW t \in Seq(Entries), Len(t) = Len(s),
           \A i \in 1..Len(t) : t[i].id = s[i].id, OneEach(s)
    PROVE  OneEach(t)
BY DEF OneEach

LabelKinds == {"label", "unlabel"}

(* The first l of es are the entries of path that are no label entries, at *)
(* the places c, with other parents; the rest of es are label entries.     *)
CopiedFrom(es, path, l, c) ==
    /\ l \in 0..Len(es) /\ c \in [1..l -> 1..Len(path)]
    /\ \A i, j \in 1..l : i < j => c[i] < c[j]
    /\ \A i \in 1..l : /\ es[i].id = path[c[i]].id /\ es[i].kind = path[c[i]].kind
                       /\ es[i].ref = path[c[i]].ref /\ es[i].kind \notin LabelKinds
    /\ \A j \in 1..Len(path) : path[j].kind \notin LabelKinds => \E i \in 1..l : c[i] = j
    /\ \A i \in (l + 1)..Len(es) : es[i].kind \in LabelKinds

(* createBranchedSession: the copy is a tree of its own.                   *)
LEMMA BranchedIs ==
    ASSUME NEW id, NEW es, es = BranchedEntries(id), lastId \in Nat,
           fileEntries \in Seq(Entries), OneEach(fileEntries),
           \A i \in 1..Len(fileEntries) : fileEntries[i].id \in 1..lastId
    PROVE  /\ es \in Seq(Entries) /\ Chain(es, 0)
           /\ \E l, c : CopiedFrom(es, GetBranch(fileEntries, id), l, c)
           /\ \E n \in Nat : /\ n = IF es = <<>> \/ LeafOf(es) < lastId THEN lastId ELSE LeafOf(es)
                             /\ lastId <= n
                             /\ \A p \in BOOLEAN : Tree(<<Header>> \o es, n, p)
<1>. DEFINE branch0 == GetBranch(fileEntries, id)
            I      == {i \in DOMAIN branch0 : branch0[i].kind \notin {"label", "unlabel"}}
            some   == Chosen(branch0, I)
            path   == Rechained(some, 0)
            J      == {i \in DOMAIN path : path[i].id \in labelsById}
            named  == Chosen(path, J)
            raw    == [i \in DOMAIN named |-> Entry("label", lastId + i, 0, named[i].id)]
            labels == Rechained(raw, LeafOf(path))
            l      == Len(path)
            k      == Len(labels)
<1>1. es = path \o labels
  BY DEF BranchedEntries, LabelEntries, WithoutLabels
<1>2. /\ branch0 \in Seq(Entries) /\ OneEach(branch0)
      /\ \A i \in 1..Len(branch0) : branch0[i].id \in 1..lastId
  <2>1. branch0 \in Seq(Entries) /\ \E h : PlacedFrom(branch0, fileEntries, 1, h)
    BY BranchIs
  <2>. HIDE DEF branch0
  <2>2. PICK h : PlacedFrom(branch0, fileEntries, 1, h)
    BY <2>1
  <2>3. /\ h \in [1..Len(branch0) -> 1..Len(fileEntries)]
        /\ \A i \in 1..Len(branch0) : branch0[i] = fileEntries[h[i]]
        /\ \A i, j \in 1..Len(branch0) : i < j => h[i] < h[j]
    BY <2>2 DEF PlacedFrom
  <2>. QED
    BY <2>1, <2>3, PlacedIs
<1>. HIDE DEF branch0
<1>2a. /\ DOMAIN branch0 = 1..Len(branch0)
       /\ \A i \in 1..Len(branch0) : i \in I <=> branch0[i].kind \notin LabelKinds
  BY <1>2, LenProperties DEF LabelKinds
<1>. HIDE DEF I
<1>3. /\ some \in Seq(Entries) /\ OneEach(some)
      /\ \A i \in 1..Len(some) : some[i].id \in 1..lastId
      /\ \E h : PlacedBy(some, branch0, I, h)
  <2>1. some \in Seq(Entries) /\ \E h : PlacedBy(some, branch0, I, h)
    BY <1>2, ChosenPlaces
  <2>. HIDE DEF some
  <2>2. PICK h : PlacedBy(some, branch0, I, h)
    BY <2>1
  <2>4. /\ h \in [1..Len(some) -> 1..Len(branch0)]
        /\ \A i \in 1..Len(some) : some[i] = branch0[h[i]]
        /\ \A i, j \in 1..Len(some) : i < j => h[i] < h[j]
    BY <1>2a, <2>2 DEF PlacedBy
  <2>5. OneEach(some) /\ \A i \in 1..Len(some) : some[i].id \in 1..lastId
    BY <1>2, <2>1, <2>4, PlacedIs
  <2>. QED
    BY <2>1, <2>5
<1>. HIDE DEF some
<1>4. /\ path \in Seq(Entries) /\ l = Len(some) /\ l \in Nat
      /\ \A i \in 1..l : path[i].id = some[i].id
      /\ \A i \in 1..l : path[i].kind = some[i].kind /\ path[i].ref = some[i].ref
      /\ Chain(path, 0)
  BY <1>3, RechainedIs
<1>. HIDE DEF path
<1>5. OneEach(path) /\ \A i \in 1..l : path[i].id \in 1..lastId
  BY <1>3, <1>4, SamesIds
<1>. HIDE DEF J
<1>6. named \in Seq(Entries)
  BY <1>4, ChosenPlaces
<1>. HIDE DEF named
<1>7. /\ raw \in Seq(Entries) /\ Len(raw) = Len(named) /\ Len(raw) \in Nat
      /\ \A i \in 1..Len(raw) : raw[i].id = lastId + i /\ raw[i].kind = "label"
  <2>1. Len(named) \in Nat /\ DOMAIN named = 1..Len(named) /\ \A i \in 1..Len(named) : named[i] \in Entries
    BY <1>6, LenProperties
  <2>2. ASSUME NEW i \in 1..Len(named) PROVE raw[i] \in Entries /\ raw[i].id = lastId + i /\ raw[i].kind = "label"
    <3>1. raw[i] = Entry("label", lastId + i, 0, named[i].id)
      BY <2>1
    <3>2. lastId + i \in Nat /\ named[i].id \in Nat
      BY <2>1 DEF Entries
    <3>. QED
      BY <3>1, <3>2 DEF Entry, Entries, EntryKinds
  <2>3. raw = [i \in 1..Len(named) |-> raw[i]]
    BY <2>1
  <2>. HIDE DEF raw
  <2>4. raw \in Seq(Entries)
    BY <2>1, <2>2, <2>3, IsASeq
  <2>5. DOMAIN raw = 1..Len(named) /\ DOMAIN raw = 1..Len(raw) /\ Len(raw) \in Nat
    BY <2>3, <2>4, LenProperties
  <2>. QED
    BY <2>1, <2>2, <2>4, <2>5
<1>. HIDE DEF raw
<1>8. LeafOf(path) \in Nat /\ (path # <<>> => l \in 1..l /\ LeafOf(path) = path[l].id)
      /\ (path = <<>> => LeafOf(path) = 0 /\ l = 0)
  <2>1. path # <<>> => l \in 1..l
    BY <1>4, EmptySeq
  <2>. QED
    BY <1>4, <1>5, <2>1 DEF LeafOf, Last
<1>9. /\ labels \in Seq(Entries) /\ k = Len(raw) /\ k \in Nat
      /\ \A i \in 1..k : labels[i].id = raw[i].id
      /\ \A i \in 1..k : labels[i].kind = raw[i].kind /\ labels[i].ref = raw[i].ref
      /\ Chain(labels, LeafOf(path))
  BY <1>7, <1>8, RechainedIs
<1>. HIDE DEF labels
<1>10. \A i \in 1..k : labels[i].id = lastId + i
  BY <1>7, <1>9
<1>11. /\ es \in Seq(Entries) /\ Len(es) = l + k
       /\ \A i \in 1..(l + k) : es[i] = IF i <= l THEN path[i] ELSE labels[i - l]
  <2>1. path \in Seq(Entries) /\ labels \in Seq(Entries)
    BY <1>4, <1>9
  <2>2. /\ path \o labels \in Seq(Entries) /\ Len(path \o labels) = l + k
        /\ \A i \in 1..(l + k) : (path \o labels)[i] = IF i <= l THEN path[i] ELSE labels[i - l]
    BY <2>1, ConcatProperties
  <2>. QED
    BY <1>1, <2>2
<1>12. ASSUME NEW i \in 1..(l + k)
       PROVE  \/ i \in 1..l /\ es[i] = path[i]
              \/ i - l \in 1..k /\ es[i] = labels[i - l] /\ es[i].id = lastId + (i - l)
  <2>1. CASE i <= l
    BY <1>4, <1>11, <2>1
  <2>2. CASE ~(i <= l)
    <3>1. i - l \in 1..k
      BY <1>4, <1>9, <2>2
    <3>. QED
      BY <1>10, <1>11, <2>2, <3>1
  <2>. QED
    BY <2>1, <2>2
<1>. DEFINE n == lastId + k
<1>13. \A i \in 1..Len(es) : es[i].id \in 1..n
  <2>1. ASSUME NEW i \in 1..(l + k) PROVE es[i].id \in 1..n
    <3>1. CASE i \in 1..l /\ es[i] = path[i]
      <4>1. es[i].id \in 1..lastId
        BY <1>5, <3>1
      <4>. QED
        BY <1>9, <4>1
    <3>2. CASE i - l \in 1..k /\ es[i].id = lastId + (i - l)
      <4>. DEFINE d == i - l
      <4>1. d \in 1..k /\ es[i].id = lastId + d
        BY <3>2
      <4>. HIDE DEF d
      <4>. QED
        BY <1>9, <4>1
    <3>. QED
      BY <1>12, <3>1, <3>2
  <2>. QED
    BY <1>11, <2>1
<1>14. OneEach(es)
  <2>1. ASSUME NEW i \in 1..(l + k), NEW j \in 1..(l + k), es[i].id = es[j].id PROVE i = j
    <3>1. CASE i \in 1..l /\ es[i] = path[i] /\ j \in 1..l /\ es[j] = path[j]
      BY <1>5, <2>1, <3>1 DEF OneEach
    <3>2. CASE /\ i - l \in 1..k /\ es[i].id = lastId + (i - l)
               /\ j - l \in 1..k /\ es[j].id = lastId + (j - l)
      <4>1. lastId + (i - l) = lastId + (j - l)
        BY <2>1, <3>2
      <4>. QED
        BY <1>4, <4>1
    <3>3. CASE i \in 1..l /\ es[i] = path[i] /\ j - l \in 1..k /\ es[j].id = lastId + (j - l)
      <4>1. es[i].id \in 1..lastId
        BY <1>5, <3>3
      <4>2. es[j].id > lastId
        BY <1>4, <3>3
      <4>. QED
        BY <2>1, <4>1, <4>2
    <3>4. CASE j \in 1..l /\ es[j] = path[j] /\ i - l \in 1..k /\ es[i].id = lastId + (i - l)
      <4>1. es[j].id \in 1..lastId
        BY <1>5, <3>4
      <4>2. es[i].id > lastId
        BY <1>4, <3>4
      <4>. QED
        BY <2>1, <4>1, <4>2
    <3>5. \/ i \in 1..l /\ es[i] = path[i]
          \/ i - l \in 1..k /\ es[i].id = lastId + (i - l)
      BY <1>12
    <3>6. \/ j \in 1..l /\ es[j] = path[j]
          \/ j - l \in 1..k /\ es[j].id = lastId + (j - l)
      BY <1>12
    <3>. QED
      BY <3>1, <3>2, <3>3, <3>4, <3>5, <3>6
  <2>. QED
    BY <1>11, <2>1 DEF OneEach
<1>15. Chain(es, 0)
  <2>1. ASSUME NEW i \in 1..(l + k)
        PROVE  es[i].parent = IF i = 1 THEN 0 ELSE es[i - 1].id
    <3>1. CASE i \in 1..l /\ es[i] = path[i]
      <4>1. es[i].parent = IF i = 1 THEN 0 ELSE path[i - 1].id
        BY <1>4, <3>1 DEF Chain
      <4>2. i # 1 => i - 1 \in 1..(l + k) /\ i - 1 <= l
        BY <1>4, <1>9, <3>1
      <4>. QED
        BY <1>11, <4>1, <4>2
    <3>2. CASE i - l \in 1..k /\ es[i] = labels[i - l]
      <4>1. es[i].parent = IF i - l = 1 THEN LeafOf(path) ELSE labels[i - l - 1].id
        BY <1>9, <3>2 DEF Chain
      <4>2. CASE i - l = 1 /\ path = <<>>
        BY <1>4, <1>8, <4>1, <4>2
      <4>3. CASE i - l = 1 /\ path # <<>>
        <5>1. i - 1 = l /\ l \in 1..(l + k) /\ i # 1
          BY <1>4, <1>8, <1>9, <4>3
        <5>2. es[l] = path[l]
          BY <1>4, <1>11, <5>1
        <5>. QED
          BY <1>8, <4>1, <4>3, <5>1, <5>2
      <4>4. CASE i - l # 1
        <5>1. i - 1 \in 1..(l + k) /\ ~(i - 1 <= l) /\ i - 1 - l = i - l - 1 /\ i # 1
          BY <1>4, <1>9, <3>2, <4>4
        <5>2. es[i - 1] = labels[i - l - 1]
          BY <1>11, <5>1
        <5>. QED
          BY <4>1, <4>4, <5>1, <5>2
      <4>. QED
        BY <4>2, <4>3, <4>4
    <3>. QED
      BY <1>12, <3>1, <3>2
  <2>. QED
    BY <1>11, <2>1 DEF Chain
<1>16. n \in Nat /\ lastId <= n
  BY <1>9
<1>17. \A p \in BOOLEAN : Tree(<<Header>> \o es, n, p)
  <2>. HIDE DEF n
  <2>. QED
    BY <1>11, <1>13, <1>14, <1>15, <1>16, ChainIsTree
<1>18. n = IF es = <<>> \/ LeafOf(es) < lastId THEN lastId ELSE LeafOf(es)
  <2>1. CASE k = 0
    <3>1. es = path
      <4>1. labels = <<>>
        BY <1>9, <2>1, EmptySeq
      <4>. QED
        BY <1>1, <1>4, <4>1, ConcatEmptySeq
    <3>2. es # <<>> => LeafOf(es) <= lastId
      BY <1>5, <1>8, <3>1
    <3>. QED
      BY <1>8, <2>1, <3>1, <3>2
  <2>2. CASE k # 0
    <3>1. k \in 1..k /\ l + k \in 1..(l + k) /\ ~(l + k <= l) /\ l + k - l = k
      BY <1>4, <1>9, <2>2
    <3>2. es # <<>>
      BY <1>4, <1>9, <1>11, <2>2
    <3>3. LeafOf(es) = lastId + k
      <4>1. es[l + k] = labels[k]
        BY <1>11, <3>1
      <4>. QED
        BY <1>10, <1>11, <3>1, <3>2, <4>1 DEF LeafOf, Last
    <3>. QED
      BY <1>9, <3>2, <3>3
  <2>. QED
    BY <2>1, <2>2
<1>19. \E c : CopiedFrom(es, branch0, l, c)
  <2>1. PICK c : PlacedBy(some, branch0, I, c)
    BY <1>3
  <2>2. /\ c \in [1..l -> 1..Len(branch0)]
        /\ \A i \in 1..l : c[i] \in I /\ some[i] = branch0[c[i]]
        /\ \A i, j \in 1..l : i < j => c[i] < c[j]
        /\ \A j \in 1..Len(branch0) : j \in I => \E i \in 1..l : c[i] = j
    BY <1>2a, <1>4, <2>1 DEF PlacedBy
  <2>3. \A i \in 1..l : es[i] = path[i] /\ c[i] \in 1..Len(branch0)
    <3>1. ASSUME NEW i \in 1..l PROVE es[i] = path[i]
      <4>1. i \in 1..(l + k) /\ i <= l
        BY <1>4, <1>9
      <4>. QED
        BY <1>11, <4>1
    <3>2. \A i \in 1..l : c[i] \in 1..Len(branch0)
      BY <2>2
    <3>. QED
      BY <3>1, <3>2
  <2>4. ASSUME NEW i \in (l + 1)..(l + k) PROVE es[i].kind \in LabelKinds
    <3>1. i \in 1..(l + k) /\ ~(i <= l) /\ i - l \in 1..k
      BY <1>4, <1>9, <2>4
    <3>2. es[i] = labels[i - l] /\ labels[i - l].kind = "label"
      BY <1>7, <1>9, <1>11, <3>1
    <3>. QED
      BY <3>2 DEF LabelKinds
  <2>5. ASSUME NEW i \in 1..l
        PROVE  /\ es[i].id = branch0[c[i]].id /\ es[i].kind = branch0[c[i]].kind
               /\ es[i].ref = branch0[c[i]].ref /\ es[i].kind \notin LabelKinds
    BY <1>2a, <1>4, <2>2, <2>3
  <2>6. l \in 0..Len(es)
    BY <1>4, <1>9, <1>11
  <2>7. \A j \in 1..Len(branch0) : branch0[j].kind \notin LabelKinds => \E i \in 1..l : c[i] = j
    BY <1>2a, <2>2
  <2>8. CopiedFrom(es, branch0, l, c)
    BY <1>11, <2>2, <2>4, <2>5, <2>6, <2>7 DEF CopiedFrom
  <2>. QED
    BY <2>8
<1>. QED
  BY <1>11, <1>15, <1>16, <1>17, <1>18, <1>19 DEF branch0

-----------------------------------------------------------------------------
(* A compaction keeps from an entry of its branch on.                      *)
LEMMA LastSelected ==
    ASSUME NEW path \in Seq(Entries)
    PROVE  /\ LatestCompaction(path) \in 0..Len(path)
           /\ LatestCompaction(path) # 0 => path[LatestCompaction(path)].kind = "compaction"
           /\ \A i \in 1..Len(path) : path[i].kind = "compaction" =>
                 LatestCompaction(path) # 0 /\ i <= LatestCompaction(path)
<1>. DEFINE I == {i \in 1..Len(path) : path[i].kind = "compaction"}
<1>1. LatestCompaction(path) = IF I # {} THEN CHOOSE x \in I : \A y \in I : x >= y ELSE 0
  BY DEF LatestCompaction, SelectLastInSeq, Max
<1>2. Len(path) \in Nat /\ I \subseteq 1..Len(path)
  BY LenProperties
<1>. HIDE DEF I
<1>3. I # {} => \E x \in I : \A y \in I : x >= y
  BY <1>2, GreatestNumber
<1>4. I # {} => LatestCompaction(path) \in I /\ \A y \in I : LatestCompaction(path) >= y
  BY <1>1, <1>3
<1>5. I = {} => LatestCompaction(path) = 0
  BY <1>1
<1>6. 0 \in 0..Len(path) /\ \A i \in 1..Len(path) : i \in 0..Len(path)
  BY <1>2
<1>7. CASE I = {}
  BY <1>5, <1>6, <1>7 DEF I
<1>8. CASE I # {}
  <2>. DEFINE k == LatestCompaction(path)
  <2>1. k \in I /\ \A y \in I : k >= y
    BY <1>4, <1>8
  <2>. HIDE DEF k
  <2>2. k \in 1..Len(path) /\ path[k].kind = "compaction" /\ k # 0 /\ k \in 0..Len(path)
    BY <1>2, <2>1 DEF I
  <2>3. \A i \in 1..Len(path) : path[i].kind = "compaction" => i <= k
    BY <1>2, <2>1, <2>2 DEF I
  <2>. QED
    BY <2>2, <2>3 DEF k
<1>. QED
  BY <1>7, <1>8

LEMMA FirstSelected ==
    ASSUME NEW path \in Seq(Entries), NEW k
    PROVE  /\ FirstKept(path, k) \in 0..Len(path)
           /\ FirstKept(path, k) # 0 => path[FirstKept(path, k)].id = path[k].ref
           /\ \A i \in 1..Len(path) : path[i].id = path[k].ref =>
                 FirstKept(path, k) # 0 /\ FirstKept(path, k) <= i
<1>. DEFINE I == {i \in 1..Len(path) : path[i].id = path[k].ref}
<1>1. FirstKept(path, k) = IF I # {} THEN CHOOSE x \in I : \A y \in I : x <= y ELSE 0
  BY DEF FirstKept, SelectInSeq, Min
<1>2. Len(path) \in Nat /\ I \subseteq 1..Len(path) /\ I \subseteq Nat
  BY LenProperties
<1>. HIDE DEF I
<1>3. I # {} => \E x \in I : \A y \in I : x <= y
  BY <1>2, LeastNumber
<1>4. I # {} => FirstKept(path, k) \in I /\ \A y \in I : FirstKept(path, k) <= y
  BY <1>1, <1>3
<1>5. I = {} => FirstKept(path, k) = 0
  BY <1>1
<1>6. 0 \in 0..Len(path) /\ \A i \in 1..Len(path) : i \in 0..Len(path)
  BY <1>2
<1>7. CASE I = {}
  BY <1>5, <1>6, <1>7 DEF I
<1>8. CASE I # {}
  <2>. DEFINE f == FirstKept(path, k)
  <2>1. f \in I /\ \A y \in I : f <= y
    BY <1>4, <1>8
  <2>. HIDE DEF f
  <2>2. f \in 1..Len(path) /\ path[f].id = path[k].ref /\ f # 0 /\ f \in 0..Len(path)
    BY <1>2, <2>1 DEF I
  <2>3. \A i \in 1..Len(path) : path[i].id = path[k].ref => f <= i
    BY <1>2, <2>1, <2>2 DEF I
  <2>. QED
    BY <2>2, <2>3 DEF f
<1>. QED
  BY <1>7, <1>8

LEMMA CutsIs ==
    ASSUME NEW path \in Seq(Entries), NEW first \in CutsFrom(path)
    PROVE  first \in Nat /\ first \in Ids(path)
<1>. DEFINE k     == LatestCompaction(path)
            start == IF k = 0 THEN 1
                     ELSE IF FirstKept(path, k) # 0 THEN FirstKept(path, k) ELSE k + 1
            said  == {"user", "assistant", "compaction"}
            Back(i, c) == /\ \A j \in c..(i - 1) : path[j].kind \notin said
                          /\ c > start => path[c - 1].kind \in said
            n     == Len(path)
<1>1. PICK i \in start..n : first = path[CHOOSE c \in start..i : Back(i, c)].id
  BY DEF CutsFrom
<1>2. start \in Nat /\ start >= 1 /\ n \in Nat
  BY LastSelected, FirstSelected, LenProperties
<1>. HIDE DEF start, k, said
<1>. DEFINE C == {c \in start..i : \A j \in c..(i - 1) : path[j].kind \notin said}
<1>3. i \in C
  BY <1>2
<1>4. PICK c \in C : \A d \in C : c <= d
  <2>1. C \subseteq Nat
    BY <1>2
  <2>. HIDE DEF C
  <2>. QED
    BY <1>3, <2>1, LeastNumber
<1>5. c \in start..i /\ \A j \in c..(i - 1) : path[j].kind \notin said
  BY <1>4
<1>6. ASSUME c > start PROVE path[c - 1].kind \in said
  <2>1. c - 1 \in start..i /\ ~(c <= c - 1)
    BY <1>2, <1>5, <1>6
  <2>2. c - 1 \notin C
    <3>. HIDE DEF C
    <3>. QED
      BY <1>4, <2>1
  <2>3. PICK j \in (c - 1)..(i - 1) : path[j].kind \in said
    BY <2>1, <2>2
  <2>4. j = c - 1 \/ j \in c..(i - 1)
    BY <1>2, <1>5
  <2>. QED
    BY <1>5, <2>3, <2>4
<1>7. \E b \in start..i : Back(i, b)
  BY <1>5, <1>6
<1>. DEFINE b == CHOOSE b \in start..i : Back(i, b)
<1>8. b \in start..i
  BY <1>7
<1>. HIDE DEF b
<1>9. b \in 1..n /\ b \in DOMAIN path /\ path[b] \in Entries
  BY <1>2, <1>8, LenProperties
<1>10. first = path[b].id
  BY <1>1 DEF b
<1>. QED
  BY <1>9, <1>10 DEF Entries, Ids

-----------------------------------------------------------------------------
(* Labels.                                                                 *)
LEMMA LabelsNone == LabelsOf(<<>>) = {}
BY DEF LabelsOf

LEMMA LabelsTypes ==
    ASSUME NEW es \in Seq(Entries) PROVE LabelsOf(es) \in SUBSET Nat
<1>1. \A i \in DOMAIN es : es[i] \in Entries
  BY LenProperties
<1>. QED
  BY <1>1 DEF LabelsOf, Entries

LEMMA LabelsAppend ==
    ASSUME NEW es \in Seq(Entries), NEW e \in Entries
    PROVE  LabelsOf(Append(es, e)) =
              CASE e.kind = "label"          -> LabelsOf(es) \cup {e.ref}
                [] e.kind = "unlabel"        -> LabelsOf(es) \ {e.ref}
                [] e.kind \notin LabelKinds  -> LabelsOf(es)
<1>. DEFINE t == Append(es, e)
            n == Len(es)
            L == {i \in DOMAIN es : es[i].kind \in LabelKinds}
            T == {i \in DOMAIN t : t[i].kind \in LabelKinds}
            Latest(s, M) == {j \in M : s[j].kind = "label"
                                       /\ \A k \in M : s[k].ref = s[j].ref => k <= j}
<1>1. /\ n \in Nat /\ DOMAIN es = 1..n /\ DOMAIN t = 1..(n + 1)
      /\ t[n + 1] = e /\ \A i \in 1..n : t[i] = es[i]
  BY AppendProperties, LenProperties
<1>2. LabelsOf(es) = {es[i].ref : i \in Latest(es, L)} /\ LabelsOf(t) = {t[i].ref : i \in Latest(t, T)}
  BY DEF LabelsOf, LabelKinds
<1>. HIDE DEF t
<1>3. L \subseteq 1..n /\ T = IF e.kind \in LabelKinds THEN L \cup {n + 1} ELSE L
  BY <1>1
<1>4. \A i \in L : t[i] = es[i] /\ i \in Nat /\ i <= n /\ i # n + 1
  BY <1>1, <1>3
<1>. HIDE DEF L, T
<1>5. CASE e.kind \notin LabelKinds
  <2>1. Latest(t, T) = Latest(es, L)
    BY <1>3, <1>4, <1>5
  <2>2. {t[i].ref : i \in Latest(es, L)} = {es[i].ref : i \in Latest(es, L)}
    BY <1>4
  <2>3. LabelsOf(t) = LabelsOf(es)
    BY <1>2, <2>1, <2>2
  <2>. QED
    BY <1>5, <2>3 DEF LabelKinds, t
<1>6. CASE e.kind \in LabelKinds
  <2>1. T = L \cup {n + 1} /\ n + 1 \in T /\ t[n + 1] = e /\ n + 1 <= n + 1
    BY <1>1, <1>3, <1>6
  <2>2. \A i \in L : i \in Latest(t, T) <=> i \in Latest(es, L) /\ es[i].ref # e.ref
    <3>1. ASSUME NEW i \in L, i \in Latest(t, T) PROVE i \in Latest(es, L) /\ es[i].ref # e.ref
      <4>1. ~(n + 1 <= i)
        BY <1>1, <1>4
      <4>. QED
        BY <1>4, <2>1, <3>1, <4>1
    <3>2. ASSUME NEW i \in L, i \in Latest(es, L), es[i].ref # e.ref PROVE i \in Latest(t, T)
      BY <1>4, <2>1, <3>2
    <3>. QED
      BY <3>1, <3>2
  <2>3. n + 1 \in Latest(t, T) <=> e.kind = "label"
    <3>1. \A k \in T : k <= n + 1
      BY <1>1, <1>4, <2>1
    <3>. QED
      BY <2>1, <3>1
  <2>4. {es[i].ref : i \in Latest(es, L)} \ {e.ref}
           = {t[i].ref : i \in Latest(t, T) \ {n + 1}}
    <3>1. Latest(t, T) \ {n + 1} = {i \in L : i \in Latest(t, T)}
      BY <1>4, <2>1
    <3>2. {i \in L : i \in Latest(t, T)} = {i \in Latest(es, L) : es[i].ref # e.ref}
      BY <2>2
    <3>. QED
      BY <1>4, <3>1, <3>2
  <2>5. CASE e.kind = "label"
    <3>1. LabelsOf(t) = {t[i].ref : i \in Latest(t, T) \ {n + 1}} \cup {e.ref}
      BY <1>2, <2>1, <2>3, <2>5
    <3>2. LabelsOf(t) = LabelsOf(es) \cup {e.ref}
      BY <1>2, <2>4, <3>1
    <3>. QED
      BY <2>5, <3>2 DEF t, LabelKinds
  <2>6. CASE e.kind = "unlabel"
    <3>1. LabelsOf(t) = {t[i].ref : i \in Latest(t, T) \ {n + 1}}
      BY <1>2, <2>3, <2>6
    <3>2. LabelsOf(t) = LabelsOf(es) \ {e.ref}
      BY <1>2, <2>4, <3>1
    <3>. QED
      BY <2>6, <3>2 DEF t, LabelKinds
  <2>. QED
    BY <1>6, <2>5, <2>6 DEF LabelKinds
<1>. QED
  BY <1>5, <1>6

-----------------------------------------------------------------------------
(* What steps have in common.                                              *)
Kept(f, new) ==
    \/ IsPrefix(Loaded(files[f]), Loaded(new))
    \/ MigrationStops(f) /\ IsPrefix(Loaded(new), Loaded(files[f]))

Stays == \A f \in Files : Kept(f, files'[f])

LEMMA LoadedStays ==
    ASSUME NEW file \in Disk, NEW new \in Disk,
           \/ new = file
           \/ file.lines \notin Headed
           \/ \E e \in Entries : new.lines = Append(file.lines, e)
    PROVE  IsPrefix(Loaded(file), Loaded(new))
<1>1. Loaded(file) \in Seq(Line) /\ Loaded(new) \in Seq(Line)
  <2>1. <<>> \in Seq(Line)
    BY EmptySeq
  <2>2. Loaded(file) = file.lines \/ Loaded(file) = <<>>
    BY LoadedIs
  <2>3. Loaded(new) = new.lines \/ Loaded(new) = <<>>
    BY LoadedIs
  <2>4. file.lines \in Seq(Line) /\ new.lines \in Seq(Line)
    BY LinesSeq
  <2>. QED
    BY <2>1, <2>2, <2>3, <2>4
<1>. DEFINE s == Loaded(file)
            t == Loaded(new)
<1>2. Len(s) \in Nat /\ Len(t) \in Nat
  BY <1>1, LenProperties
<1>3. CASE s = <<>>
  <2>1. SubSeq(<<>>, 1, 0) = SubSeq(t, 1, 0)
    BY <1>1, SubSeqEmpty, EmptySeq
  <2>. QED
    BY <1>2, <1>3, <2>1 DEF IsPrefix
<1>4. CASE s # <<>> /\ new = file
  BY <1>2, <1>4 DEF IsPrefix
<1>5. CASE s # <<>> /\ \E e \in Entries : new.lines = Append(file.lines, e)
  <2>1. PICK e \in Entries : new.lines = Append(file.lines, e)
    BY <1>5
  <2>2. file.lines \in Headed /\ s = file.lines
    BY <1>5, LoadedIs
  <2>3. PICK es \in Seq(Entries) : s = <<Header>> \o es
    BY <2>2 DEF Headed
  <2>. HIDE DEF s, t
  <2>4. new.lines = <<Header>> \o Append(es, e) /\ Append(es, e) \in Seq(Entries)
    BY <2>1, <2>2, <2>3, HeadedIs, AppendProperties
  <2>5. new.lines \in Headed
    BY <2>4 DEF Headed
  <2>6. t = Append(s, e) /\ e \in Line
    BY <2>1, <2>2, <2>5, LoadedIs, HeaderIs DEF t
  <2>7. s \in Seq(Line)
    BY <1>1 DEF s
  <2>8. t = s \o <<e>> /\ <<e>> \in Seq(Line)
    BY <2>6, <2>7, AppendIsConcat
  <2>9. Len(t) = Len(s) + 1 /\ t \in Seq(Line) /\ \A i \in 1..Len(s) : t[i] = s[i]
    BY <2>6, <2>7, AppendProperties
  <2>10. SubSeq(t, 1, Len(s)) = s /\ SubSeq(s, 1, Len(s)) = s
    <3>1. SubSeq(s, 1, Len(s)) = s
      BY <2>7, SubSeqFull
    <3>2. 1 \in 1..(Len(t) + 1) /\ Len(s) \in (1 - 1)..Len(t) /\ Len(s) \in Nat
      BY <1>2, <2>9 DEF s
    <3>. DEFINE u == SubSeq(t, 1, Len(s))
    <3>3. /\ u \in Seq(Line) /\ Len(u) = Len(s) - 1 + 1
          /\ \A i \in 1..(Len(s) - 1 + 1) : u[i] = t[1 + i - 1]
      BY <2>9, <3>2, SubSeqIs
    <3>. HIDE DEF u
    <3>4. Len(u) = Len(s) /\ \A i \in 1..Len(s) : u[i] = s[i]
      BY <2>9, <3>2, <3>3
    <3>5. u = s
      BY <2>7, <3>3, <3>4, SeqEqual
    <3>. QED
      BY <3>1, <3>5 DEF u
  <2>11. IsPrefix(s, t)
    BY <1>2, <2>9, <2>10 DEF IsPrefix, s
  <2>. QED
    BY <2>11 DEF s, t
<1>6. file.lines \notin Headed => s = <<>>
  BY LoadedIs
<1>. QED
  BY <1>3, <1>4, <1>5, <1>6

LEMMA CountedIs ==
    ASSUME DiskTypes, NEW outcome, Counted(outcome),
           outcome \in Interruptions \cup {"done", "deferred", "refused"}
    PROVE  /\ crashes' \in 0..MaxCrashes /\ failures' \in 0..MaxFailures
           /\ failures <= failures'
           /\ outcome = "failure" => failures' > 0
<1>1. /\ MaxCrashes \in Nat /\ MaxFailures \in Nat
      /\ crashes \in 0..MaxCrashes /\ failures \in 0..MaxFailures
  BY BoundAssumption DEF DiskTypes
<1>2. /\ outcome = "crash" => crashes < MaxCrashes
      /\ outcome = "failure" => failures < MaxFailures
  BY DEF Interruptions
<1>3. crashes' \in 0..MaxCrashes
  BY <1>1, <1>2 DEF Counted
<1>4. CASE outcome = "failure"
  BY <1>1, <1>2, <1>3, <1>4 DEF Counted
<1>5. CASE outcome # "failure"
  BY <1>1, <1>3, <1>5 DEF Counted
<1>. QED
  BY <1>4, <1>5

LEMMA FilesSame ==
    ASSUME DiskInv, files' = files, lastId' \in 0..MaxEntries, lastId <= lastId',
           crashes' \in 0..MaxCrashes, failures' \in 0..MaxFailures, failures <= failures'
    PROVE  DiskInv' /\ Stays
<1>1. /\ lastId \in Nat /\ lastId' \in Nat /\ MaxEntries \in Nat
      /\ failures \in Nat /\ failures' \in Nat /\ files \in [Files -> Disk]
  BY BoundAssumption DEF DiskInv, DiskTypes
<1>2. ASSUME NEW g \in Files
      PROVE  /\ Tree(files'[g].lines, lastId', failures' = 0)
             /\ IsPrefix(Loaded(files[g]), Loaded(files'[g]))
  <2>1. files[g] \in Disk /\ files[g].lines \in Seq(Line)
    BY <1>1, LinesSeq
  <2>2. Tree(files[g].lines, lastId, failures = 0)
    BY DEF DiskInv
  <2>. DEFINE p == failures = 0
              q == failures' = 0
  <2>3. p \in BOOLEAN /\ q \in BOOLEAN /\ (q => p)
    BY <1>1
  <2>. HIDE DEF p, q
  <2>4. Tree(files[g].lines, lastId, p)
    BY <2>2 DEF p
  <2>5. Tree(files[g].lines, lastId', q)
    BY <1>1, <2>1, <2>3, <2>4, TreeMore
  <2>6. IsPrefix(Loaded(files[g]), Loaded(files[g]))
    BY <2>1, LoadedStays
  <2>. QED
    BY <2>5, <2>6 DEF q
<1>. QED
  BY <1>1, <1>2 DEF DiskInv, DiskTypes, Stays, Kept

LEMMA FileWritten ==
    ASSUME DiskInv, NEW f \in Files, NEW new \in Disk, files' = [files EXCEPT ![f] = new],
           Tree(new.lines, lastId', failures' = 0),
           Kept(f, new),
           lastId' \in 0..MaxEntries, lastId <= lastId',
           crashes' \in 0..MaxCrashes, failures' \in 0..MaxFailures, failures <= failures'
    PROVE  DiskInv' /\ Stays
<1>1. /\ lastId \in Nat /\ lastId' \in Nat /\ MaxEntries \in Nat
      /\ failures \in Nat /\ failures' \in Nat /\ files \in [Files -> Disk]
  BY BoundAssumption DEF DiskInv, DiskTypes
<1>2. ASSUME NEW g \in Files
      PROVE  /\ files'[g] \in Disk
             /\ Tree(files'[g].lines, lastId', failures' = 0)
             /\ Kept(g, files'[g])
  <2>0. CASE g = f
    BY <1>1, <2>0
  <2>1. CASE g # f
    <3>1. files[g] \in Disk /\ files[g].lines \in Seq(Line) /\ files'[g] = files[g]
      BY <1>1, <2>1, LinesSeq
    <3>2. Tree(files[g].lines, lastId, failures = 0)
      BY DEF DiskInv
    <3>. DEFINE p == failures = 0
                q == failures' = 0
    <3>3. p \in BOOLEAN /\ q \in BOOLEAN /\ (q => p)
      BY <1>1
    <3>. HIDE DEF p, q
    <3>4. Tree(files[g].lines, lastId, p)
      BY <3>2 DEF p
    <3>5. Tree(files[g].lines, lastId', q)
      BY <1>1, <3>1, <3>3, <3>4, TreeMore
    <3>6. IsPrefix(Loaded(files[g]), Loaded(files[g]))
      BY <3>1, LoadedStays
    <3>. QED
      BY <3>1, <3>5, <3>6 DEF q, Kept
  <2>. QED
    BY <2>0, <2>1
<1>3. files' \in [Files -> Disk]
  BY <1>1
<1>. QED
  BY <1>1, <1>2, <1>3 DEF DiskInv, DiskTypes, Stays

LEMMA LeafIs ==
    ASSUME NEW es \in Seq(Entries)
    PROVE  /\ LeafOf(es) \in Nat
           /\ \E i \in 1..Len(<<Header>> \o es) : (<<Header>> \o es)[i].id = LeafOf(es)
<1>. DEFINE ls == <<Header>> \o es
<1>1. /\ Len(es) \in Nat /\ Len(ls) = Len(es) + 1
      /\ ls[1] = Header /\ \A i \in 1..Len(es) : ls[i + 1] = es[i]
  BY HeadedIs
<1>. HIDE DEF ls
<1>2. CASE es = <<>>
  <2>1. LeafOf(es) = 0 /\ ls[1].id = 0 /\ 1 \in 1..Len(ls)
    BY <1>1, <1>2, HeaderIs DEF LeafOf
  <2>. QED
    BY <2>1 DEF ls
<1>3. CASE es # <<>>
  <2>1. Len(es) \in 1..Len(es) /\ Len(es) + 1 \in 1..Len(ls)
    BY <1>1, <1>3, EmptySeq
  <2>2. LeafOf(es) = es[Len(es)].id /\ es[Len(es)] \in Entries
    BY <1>3, <2>1 DEF LeafOf, Last
  <2>3. LeafOf(es) \in Nat /\ ls[Len(es) + 1].id = LeafOf(es)
    BY <1>1, <2>1, <2>2 DEF Entries
  <2>. QED
    BY <2>1, <2>3 DEF ls
<1>. QED
  BY <1>2, <1>3

LEMMA DownInv ==
    ASSUME Down, MemoryTypes, lastId' \in Nat PROVE MemoryInv'
<1>1. /\ fileEntries' = <<>> /\ leafId' = 0 /\ labelsById' = {} /\ flushed' = FALSE
      /\ running' = FALSE /\ failed' = FALSE /\ sessionFile' \in Files
  BY DEF Down, MemoryTypes
<1>2. <<>> \in Seq(Entries)
  BY EmptySeq
<1>3. MemoryTypes'
  BY <1>1, <1>2 DEF MemoryTypes
<1>4. Session' = <<Header>>
  BY <1>1, TreeNone DEF Session
<1>. DEFINE q == failures' = 0
<1>5. q \in BOOLEAN
  OBVIOUS
<1>. HIDE DEF q
<1>6. Tree(<<Header>>, lastId', q)
  BY <1>5, TreeNone
<1>7. TreeInv'
  BY <1>4, <1>6 DEF TreeInv, q
<1>8. LeafInv'
  BY <1>1, <1>4, HeaderIs DEF LeafInv
<1>. QED
  BY <1>1, <1>3, <1>7, <1>8, LabelsNone DEF MemoryInv, LabelInv, FailedInv, FileInv

LEMMA OpenedInv ==
    ASSUME NEW f \in Files, NEW es \in Seq(Entries), NEW b \in BOOLEAN, Opened(f, es, b),
           Tree(<<Header>> \o es, lastId', failures' = 0),
           b => files'[f] # NoFile /\ files'[f].lines = <<Header>> \o es,
           ~b => files'[f] = NoFile /\ es = <<>>
    PROVE  MemoryInv'
<1>1. /\ fileEntries' = es /\ leafId' = LeafOf(es) /\ labelsById' = LabelsOf(es) /\ flushed' = b
      /\ running' = TRUE /\ failed' = FALSE /\ sessionFile' = f
  BY DEF Opened
<1>2. MemoryTypes'
  BY <1>1, LeafIs, LabelsTypes DEF MemoryTypes
<1>3. Session' = <<Header>> \o es
  BY <1>1 DEF Session
<1>4. LeafInv'
  BY <1>1, <1>3, LeafIs DEF LeafInv
<1>5. TreeInv'
  BY <1>3 DEF TreeInv
<1>6. FileInv'
  <2>1. CASE b = TRUE
    BY <1>1, <1>3, <2>1 DEF FileInv
  <2>2. CASE b = FALSE
    <3>1. ~HasAssistant(<<>>)
      BY DEF HasAssistant
    <3>2. flushed' = FALSE /\ files'[sessionFile'] = NoFile /\ fileEntries' = <<>>
      BY <1>1, <2>2
    <3>. QED
      BY <3>1, <3>2 DEF FileInv
  <2>. QED
    BY <2>1, <2>2
<1>. QED
  BY <1>1, <1>2, <1>4, <1>5, <1>6 DEF MemoryInv, LabelInv, FailedInv

-----------------------------------------------------------------------------
(* An entry is appended.                                                   *)
LEMMA PersistedIs ==
    ASSUME Consistent, NEW es, NEW w \in Persisted(es)
    PROVE  \/ /\ flushed = FALSE /\ ~HasAssistant(es)
              /\ w.file = files[sessionFile] /\ w.outcome = "deferred"
           \/ flushed # FALSE /\ w \in Written(files[sessionFile], <<Last(es)>>)
           \/ /\ flushed = FALSE /\ files[sessionFile].exists
              /\ w.file = files[sessionFile] /\ w.outcome = "refused"
           \/ /\ flushed = FALSE /\ ~files[sessionFile].exists
              /\ w \in Written(files[sessionFile], <<Header>> \o es)
<1>. DEFINE file == files[sessionFile]
<1>1. Persisted(es) =
        IF ~flushed /\ ~HasAssistant(es)
        THEN {[file |-> file, outcome |-> "deferred"]}
        ELSE IF flushed THEN Written(file, <<Last(es)>>)
        ELSE Created(file, <<Header>> \o es)
  BY DEF Persisted
<1>. HIDE DEF file
<1>2. flushed \in BOOLEAN
  BY DEF Consistent, MemoryInv, MemoryTypes
<1>3. CASE flushed = TRUE
  BY <1>1, <1>3 DEF file
<1>4. CASE flushed = FALSE /\ ~HasAssistant(es)
  <2>1. Persisted(es) = {[file |-> file, outcome |-> "deferred"]}
    BY <1>1, <1>4
  <2>2. w = [file |-> file, outcome |-> "deferred"]
    BY <2>1
  <2>3. w.file = file /\ w.outcome = "deferred"
    BY <2>2
  <2>. QED
    BY <1>4, <2>3 DEF file
<1>5. CASE flushed = FALSE /\ HasAssistant(es)
  <2>1. w \in Created(file, <<Header>> \o es)
    BY <1>1, <1>5
  <2>2. CASE file.exists
    <3>1. Created(file, <<Header>> \o es) = {[file |-> file, outcome |-> "refused"]}
      BY <2>2 DEF Created
    <3>2. w = [file |-> file, outcome |-> "refused"]
      BY <2>1, <3>1
    <3>3. w.file = file /\ w.outcome = "refused"
      BY <3>2
    <3>. QED
      BY <1>5, <2>2, <3>3 DEF file
  <2>3. CASE ~file.exists
    BY <1>5, <2>1, <2>3 DEF Created, file
  <2>. QED
    BY <2>2, <2>3
<1>. QED
  BY <1>2, <1>3, <1>4, <1>5

(* What the file of the session has after an append, and the result of it. *)
Appended(e, w) ==
    LET file == files[sessionFile]
    IN  /\ w.file \in Disk
        /\ w.outcome \in Interruptions \cup {"done", "deferred", "refused"}
        /\ Tree(w.file.lines, lastId + 1, failures = 0)
        /\ IsPrefix(Loaded(file), Loaded(w.file))
        /\ flushed => w.file # NoFile
        /\ w.outcome = "done" => w.file # NoFile
        /\ w.outcome = "deferred" =>
              w.file = file /\ ~flushed /\ ~HasAssistant(Append(fileEntries, e))
        /\ w.outcome = "done" /\ running /\ ~failed => w.file.lines = Append(Session, e)
        /\ w.outcome = "refused" /\ running => failed

LEMMA AppendedIs ==
    ASSUME Tears = FALSE, Consistent, running = TRUE, NEW e \in Entries, e.id = lastId + 1,
           \E i \in 1..Len(Session) : Session[i].id = e.parent,
           NEW w \in Persisted(Append(fileEntries, e))
    PROVE  Appended(e, w)
<1>. DEFINE es   == Append(fileEntries, e)
            file == files[sessionFile]
            p    == failures = 0
<1>1. /\ fileEntries \in Seq(Entries) /\ sessionFile \in Files /\ flushed \in BOOLEAN
      /\ failed \in BOOLEAN /\ files \in [Files -> Disk] /\ lastId \in Nat /\ failures \in Nat
  BY BoundAssumption DEF Consistent, MemoryInv, MemoryTypes, DiskInv, DiskTypes
<1>2. /\ file \in Disk /\ file.lines \in Seq(Line) /\ file.open = FALSE
      /\ file.exists = FALSE <=> file = NoFile
      /\ file = NoFile => file.lines = <<>>
  BY <1>1, LinesSeq
<1>3. Tree(file.lines, lastId, p) /\ Tree(Session, lastId, p) /\ p \in BOOLEAN
  BY <1>1 DEF Consistent, DiskInv, MemoryInv, TreeInv
<1>4. FileInv /\ FailedInv
  BY DEF Consistent, MemoryInv
<1>5. /\ Session \in Seq(Line) /\ Session \in Headed
      /\ Append(Session, e) = <<Header>> \o es /\ es \in Seq(Entries)
  BY <1>1, HeadedIs, AppendProperties DEF Session
<1>6. e \in Line /\ Last(es) = e
  <2>1. Len(es) = Len(fileEntries) + 1 /\ es[Len(fileEntries) + 1] = e
    BY <1>1, AppendProperties
  <2>. QED
    BY <2>1, HeaderIs DEF Last
<1>. HIDE DEF p, file
<1>7. Tree(Append(Session, e), lastId + 1, p)
  BY <1>1, <1>3, <1>5, <1>6, TreeAppend
<1>8. Tree(file.lines, lastId + 1, p)
  BY <1>1, <1>2, <1>3, TreeMore
<1>9. flushed = TRUE => file # NoFile
  BY <1>4 DEF FileInv, file
<1>10. ~failed => IF flushed THEN file.lines = Session ELSE file = NoFile
  BY <1>4 DEF FileInv, file
<1>11. CASE /\ flushed = FALSE /\ ~HasAssistant(es)
            /\ w.file = file /\ w.outcome = "deferred"
  <2>1. IsPrefix(Loaded(file), Loaded(w.file))
    BY <1>2, <1>11, LoadedStays
  <2>. QED
    BY <1>2, <1>8, <1>11, <2>1 DEF Appended, p, file
<1>12. CASE flushed # FALSE /\ w \in Written(file, <<Last(es)>>)
  <2>1. flushed = TRUE /\ file # NoFile
    BY <1>1, <1>9, <1>12
  <2>2. /\ w.file = file \/ w.file.lines = Append(file.lines, e)
        /\ w.file \in Disk /\ w.file # NoFile
        /\ w.outcome \in {"done"} \cup Interruptions
        /\ w.outcome = "done" => w.file.lines = Append(file.lines, e)
    BY <1>2, <1>6, <1>12, <2>1, LineWritten
  <2>3. IsPrefix(Loaded(file), Loaded(w.file))
    BY <1>2, <2>2, LoadedStays
  <2>4. p => file.lines = Session
    BY <1>1, <1>4, <1>10, <2>1 DEF FailedInv, p
  <2>5. Tree(Append(file.lines, e), lastId + 1, p)
    BY <1>1, <1>2, <1>3, <1>6, <2>4, TreeAppend
  <2>6. Tree(w.file.lines, lastId + 1, p)
    BY <1>8, <2>2, <2>5
  <2>7. w.outcome # "deferred" /\ w.outcome # "refused"
    BY <2>2 DEF Interruptions
  <2>8. w.outcome = "done" /\ ~failed => w.file.lines = Append(Session, e)
    BY <1>10, <2>1, <2>2
  <2>. QED
    BY <2>2, <2>3, <2>6, <2>7, <2>8 DEF Appended, p, file
<1>13. CASE /\ flushed = FALSE /\ file.exists
            /\ w.file = file /\ w.outcome = "refused"
  <2>1. IsPrefix(Loaded(file), Loaded(w.file))
    BY <1>2, <1>13, LoadedStays
  <2>2. file # NoFile
    BY <1>2, <1>13
  <2>3. failed
    BY <1>10, <1>13, <2>2
  <2>. QED
    BY <1>2, <1>8, <1>13, <2>1, <2>3 DEF Appended, p, file
<1>14. CASE /\ flushed = FALSE /\ ~file.exists
            /\ w \in Written(file, <<Header>> \o es)
  <2>1. file = NoFile /\ file.lines = <<>>
    BY <1>2, <1>14 DEF Disk
  <2>2. Append(Session, e) \in Headed
    BY <1>5 DEF Headed
  <2>3. /\ \E k \in 0..Len(Append(Session, e)) : w.file.lines = SubSeq(Append(Session, e), 1, k)
        /\ w.file \in Disk /\ w.file # NoFile
        /\ w.outcome \in {"done"} \cup Interruptions
        /\ w.outcome = "done" => w.file.lines = Append(Session, e)
    BY <1>2, <1>5, <1>14, <2>1, <2>2, CreatedIs
  <2>4. file.lines \notin Headed
    <3>1. <<>> \notin Headed
      <4>1. ASSUME NEW fs \in Seq(Entries) PROVE <<Header>> \o fs # <<>>
        BY HeadedIs
      <4>. QED
        BY <4>1 DEF Headed
    <3>. QED
      BY <2>1, <3>1
  <2>5. IsPrefix(Loaded(file), Loaded(w.file))
    BY <1>2, <2>3, <2>4, LoadedStays
  <2>6. Tree(w.file.lines, lastId + 1, p)
    <3>1. Append(Session, e) \in Seq(Line)
      BY <1>5, <1>6, AppendProperties
    <3>. QED
      BY <1>3, <1>7, <2>3, <3>1, TreePart
  <2>7. w.outcome # "deferred" /\ w.outcome # "refused"
    BY <2>3 DEF Interruptions
  <2>. QED
    BY <2>3, <2>5, <2>6, <2>7 DEF Appended, p, file
<1>. QED
  BY <1>11, <1>12, <1>13, <1>14, PersistedIs DEF file

(* The entry that AppendEntry appends, and what is done of it.             *)
LEMMA AppendStep ==
    ASSUME Tears = FALSE, Consistent, NEW kind \in EntryKinds \cup {"unlabel"},
           NEW parent \in Nat, \E i \in 1..Len(Session) : Session[i].id = parent,
           NEW ref \in Nat, NEW labels \in SUBSET Nat,
           ~failed => labels =
               LabelsOf(Append(fileEntries, Entry(kind, lastId + 1, parent, ref))),
           AppendEntry(kind, parent, ref, labels)
    PROVE  Consistent' /\ Stays
<1>. DEFINE e  == Entry(kind, lastId + 1, parent, ref)
            es == Append(fileEntries, e)
<1>1. /\ running = TRUE /\ lastId < MaxEntries /\ lastId' = lastId + 1
      /\ \E w \in Persisted(es) :
             /\ files' = [files EXCEPT ![sessionFile] = w.file]
             /\ Counted(w.outcome)
             /\ IF w.outcome = "crash" THEN Down
                ELSE /\ fileEntries' = es /\ leafId' = lastId + 1
                     /\ flushed' = (flushed \/ w.outcome = "done")
                     /\ failed' = (failed \/ w.outcome \in {"failure", "refused"})
                     /\ labelsById' = IF w.outcome \in {"done", "deferred"}
                                      THEN labels ELSE labelsById
                     /\ UNCHANGED <<sessionFile, running>>
  BY DEF AppendEntry, Consistent, MemoryInv, MemoryTypes
<1>2. PICK w \in Persisted(es) :
             /\ files' = [files EXCEPT ![sessionFile] = w.file]
             /\ Counted(w.outcome)
             /\ IF w.outcome = "crash" THEN Down
                ELSE /\ fileEntries' = es /\ leafId' = lastId + 1
                     /\ flushed' = (flushed \/ w.outcome = "done")
                     /\ failed' = (failed \/ w.outcome \in {"failure", "refused"})
                     /\ labelsById' = IF w.outcome \in {"done", "deferred"}
                                      THEN labels ELSE labelsById
                     /\ UNCHANGED <<sessionFile, running>>
  BY <1>1
<1>3. /\ fileEntries \in Seq(Entries) /\ sessionFile \in Files /\ flushed \in BOOLEAN
      /\ failed \in BOOLEAN /\ running \in BOOLEAN /\ labelsById \in SUBSET Nat
      /\ MaxEntries \in Nat /\ lastId \in 0..MaxEntries /\ failures \in Nat
      /\ files \in [Files -> Disk] /\ DiskTypes /\ DiskInv /\ MemoryTypes
  BY BoundAssumption DEF Consistent, MemoryInv, MemoryTypes, DiskInv, DiskTypes
<1>4. lastId \in Nat /\ lastId + 1 \in 0..MaxEntries /\ lastId <= lastId + 1 /\ lastId + 1 \in Nat
  BY <1>1, <1>3
<1>5. e \in Entries /\ e.id = lastId + 1 /\ e.parent = parent
  BY <1>4 DEF Entry, Entries
<1>. HIDE DEF e
<1>6. Appended(e, w)
  BY <1>1, <1>2, <1>5, AppendedIs
<1>7. /\ w.file \in Disk
      /\ w.outcome \in Interruptions \cup {"done", "deferred", "refused"}
      /\ Tree(w.file.lines, lastId + 1, failures = 0)
      /\ IsPrefix(Loaded(files[sessionFile]), Loaded(w.file))
  BY <1>6 DEF Appended
<1>8. /\ crashes' \in 0..MaxCrashes /\ failures' \in 0..MaxFailures /\ failures <= failures'
      /\ w.outcome = "failure" => failures' > 0
  BY <1>2, <1>3, <1>7, CountedIs
<1>. DEFINE p == failures = 0
            q == failures' = 0
<1>9. p \in BOOLEAN /\ q \in BOOLEAN /\ (q => p)
  BY <1>3, <1>8, BoundAssumption
<1>10. Tree(w.file.lines, lastId + 1, p)
  BY <1>7
<1>11. /\ Session \in Seq(Line) /\ Append(Session, e) = <<Header>> \o es /\ es \in Seq(Entries)
       /\ e \in Line /\ Append(Session, e) \in Seq(Line)
  <2>1. e \in Line
    BY <1>5, HeaderIs
  <2>2. Session \in Seq(Line) /\ Append(Session, e) = <<Header>> \o es
    BY <1>3, <1>5, HeadedIs DEF Session
  <2>. QED
    BY <1>3, <1>5, <2>1, <2>2, AppendProperties
<1>12. Tree(Append(Session, e), lastId + 1, p)
  <2>1. Tree(Session, lastId, p)
    BY DEF Consistent, MemoryInv, TreeInv
  <2>. HIDE DEF p
  <2>. QED
    BY <1>4, <1>5, <1>9, <1>11, <2>1, TreeAppend
<1>13. /\ Tree(w.file.lines, lastId + 1, q)
       /\ Tree(Append(Session, e), lastId + 1, q)
  <2>1. w.file.lines \in Seq(Line)
    BY <1>7, LinesSeq
  <2>2. lastId + 1 <= lastId + 1
    BY <1>4
  <2>. HIDE DEF p, q
  <2>3. Tree(w.file.lines, lastId + 1, q)
    BY <1>4, <1>9, <1>10, <2>1, <2>2, TreeMore
  <2>4. Tree(Append(Session, e), lastId + 1, q)
    <3>. DEFINE t == Append(Session, e)
    <3>1. t \in Seq(Line) /\ Tree(t, lastId + 1, p)
      BY <1>11, <1>12
    <3>. HIDE DEF t
    <3>2. Tree(t, lastId + 1, q)
      BY <1>4, <1>9, <2>2, <3>1, TreeMore
    <3>. QED
      BY <3>2 DEF t
  <2>. QED
    BY <2>3, <2>4
<1>14. Tree(w.file.lines, lastId', failures' = 0) /\ Tree(Append(Session, e), lastId', failures' = 0)
  BY <1>1, <1>13
<1>. HIDE DEF p, q
<1>15. DiskInv' /\ Stays
  BY <1>1, <1>2, <1>3, <1>4, <1>7, <1>8, <1>14, FileWritten DEF Kept
<1>16. CASE w.outcome = "crash"
  BY <1>1, <1>2, <1>3, <1>4, <1>15, <1>16, DownInv DEF Consistent
<1>17. CASE w.outcome # "crash"
  <2>1. /\ fileEntries' = es /\ leafId' = lastId + 1
        /\ flushed' = (flushed \/ w.outcome = "done")
        /\ failed' = (failed \/ w.outcome \in {"failure", "refused"})
        /\ labelsById' = IF w.outcome \in {"done", "deferred"} THEN labels ELSE labelsById
        /\ sessionFile' = sessionFile /\ running' = running
        /\ files'[sessionFile] = w.file
    BY <1>2, <1>3, <1>17
  <2>2. MemoryTypes'
    <3>1. flushed' \in BOOLEAN /\ failed' \in BOOLEAN /\ labelsById' \in SUBSET Nat
      BY <1>3, <2>1
    <3>. QED
      BY <1>3, <1>4, <1>11, <2>1, <3>1 DEF MemoryTypes
  <2>3. Session' = Append(Session, e)
    BY <1>11, <2>1 DEF Session
  <2>4. TreeInv'
    BY <1>14, <2>3 DEF TreeInv
  <2>5. LeafInv'
    <3>1. /\ Len(Append(Session, e)) = Len(Session) + 1 /\ Len(Session) \in Nat
          /\ Append(Session, e)[Len(Session) + 1] = e
      BY <1>11, AppendProperties, LenProperties
    <3>. QED
      BY <1>5, <2>1, <2>3, <3>1 DEF LeafInv
  <2>6. ~failed' => ~failed /\ w.outcome \in {"done", "deferred"}
    BY <1>3, <1>7, <1>17, <2>1 DEF Interruptions
  <2>7. LabelInv'
    BY <2>1, <2>6 DEF LabelInv, e
  <2>8. FailedInv'
    <3>1. FailedInv /\ (w.outcome = "refused" => failed)
      BY <1>1, <1>6 DEF Appended, Consistent, MemoryInv
    <3>. QED
      BY <1>3, <1>8, <2>1, <3>1, BoundAssumption DEF FailedInv
  <2>9. FileInv'
    <3>1. flushed' => files'[sessionFile'] # NoFile
      BY <1>3, <1>6, <2>1 DEF Appended
    <3>2. ASSUME ~failed', w.outcome = "done" PROVE flushed' /\ files'[sessionFile'].lines = Session'
      BY <1>1, <1>3, <1>6, <2>1, <2>3, <2>6, <3>2 DEF Appended
    <3>3. ASSUME ~failed', w.outcome = "deferred"
          PROVE  ~flushed' /\ files'[sessionFile'] = NoFile /\ ~HasAssistant(fileEntries')
      <4>1. w.file = files[sessionFile] /\ ~flushed /\ ~HasAssistant(es)
        BY <1>6, <3>3 DEF Appended
      <4>2. files[sessionFile] = NoFile
        BY <1>1, <2>6, <3>3, <4>1 DEF Consistent, MemoryInv, FileInv
      <4>. QED
        BY <2>1, <3>3, <4>1, <4>2
    <3>. QED
      BY <2>6, <3>1, <3>2, <3>3 DEF FileInv
  <2>. QED
    BY <1>15, <2>2, <2>4, <2>5, <2>7, <2>8, <2>9 DEF Consistent, MemoryInv
<1>. QED
  BY <1>16, <1>17

-----------------------------------------------------------------------------
(* The steps, one by one.                                                  *)
LEMMA ConsistentIs ==
    ASSUME Consistent
    PROVE  /\ fileEntries \in Seq(Entries) /\ leafId \in Nat /\ labelsById \in SUBSET Nat
           /\ sessionFile \in Files /\ flushed \in BOOLEAN /\ running \in BOOLEAN
           /\ failed \in BOOLEAN /\ files \in [Files -> Disk]
           /\ MaxEntries \in Nat /\ MaxCrashes \in Nat /\ MaxFailures \in Nat
           /\ lastId \in 0..MaxEntries /\ crashes \in 0..MaxCrashes /\ failures \in 0..MaxFailures
           /\ lastId <= lastId /\ failures <= failures
BY BoundAssumption DEF Consistent, MemoryInv, MemoryTypes, DiskInv, DiskTypes

LEMMA SessionIs ==
    ASSUME Consistent
    PROVE  /\ Session \in Seq(Line) /\ Len(fileEntries) \in Nat
           /\ Len(Session) = Len(fileEntries) + 1
           /\ Session[1] = Header
           /\ \A i \in 1..Len(fileEntries) : Session[i + 1] = fileEntries[i]
           /\ DOMAIN fileEntries = 1..Len(fileEntries)
           /\ Session = <<Header>> \o fileEntries
<1>1. fileEntries \in Seq(Entries)
  BY ConsistentIs
<1>2. /\ Session \in Seq(Line) /\ Len(fileEntries) \in Nat
      /\ Len(Session) = Len(fileEntries) + 1
      /\ Session[1] = Header
      /\ \A i \in 1..Len(fileEntries) : Session[i + 1] = fileEntries[i]
  BY <1>1, HeadedIs DEF Session
<1>. QED
  BY <1>1, <1>2, LenProperties DEF Session

LEMMA IdsIn ==
    ASSUME Consistent
    PROVE  /\ OneEach(fileEntries)
           /\ \A i \in 1..Len(fileEntries) : fileEntries[i].id \in 1..lastId
           /\ \A id \in Ids(fileEntries) \cup {0} :
                 id \in Nat /\ \E i \in 1..Len(Session) : Session[i].id = id
<1>. DEFINE l == Len(fileEntries)
<1>1. /\ l \in Nat /\ Len(Session) = l + 1 /\ Session[1].id = 0
      /\ DOMAIN fileEntries = 1..l
      /\ \A i \in 1..l : Session[i + 1] = fileEntries[i] /\ i + 1 \in 1..Len(Session)
  BY SessionIs, HeaderIs
<1>2. OneEach(Session) /\ Given(Session, lastId)
  BY DEF Consistent, MemoryInv, TreeInv, Tree
<1>3. \A i \in 1..l : fileEntries[i].id \in Nat
  <2>1. fileEntries \in Seq(Entries)
    BY ConsistentIs
  <2>2. \A i \in 1..l : fileEntries[i] \in Entries
    BY <2>1, LenProperties
  <2>. QED
    BY <2>2 DEF Entries
<1>. HIDE DEF l
<1>4. ASSUME NEW i \in 1..l PROVE fileEntries[i].id \in 1..lastId
  <2>1. 1 \in 1..Len(Session) /\ i + 1 \in 1..Len(Session) /\ i + 1 # 1
    BY <1>1
  <2>2. Session[i + 1].id # Session[1].id
    BY <1>2, <2>1 DEF OneEach
  <2>3. Session[i + 1].id <= lastId
    BY <1>2, <2>1 DEF Given
  <2>4. lastId \in Nat
    BY ConsistentIs
  <2>. QED
    BY <1>1, <1>3, <2>2, <2>3, <2>4
<1>5. ASSUME NEW i \in 1..l, NEW j \in 1..l, fileEntries[i].id = fileEntries[j].id PROVE i = j
  <2>1. i + 1 \in 1..Len(Session) /\ j + 1 \in 1..Len(Session) /\ Session[i + 1].id = Session[j + 1].id
    BY <1>1, <1>5
  <2>2. i + 1 = j + 1
    BY <1>2, <2>1 DEF OneEach
  <2>. QED
    BY <1>1, <2>2
<1>6. ASSUME NEW id \in Ids(fileEntries) \cup {0}
      PROVE  id \in Nat /\ \E i \in 1..Len(Session) : Session[i].id = id
  <2>1. CASE id = 0
    <3>1. 1 \in 1..Len(Session)
      BY <1>1
    <3>. QED
      BY <1>1, <2>1, <3>1
  <2>2. CASE id \in Ids(fileEntries)
    <3>1. PICK i \in 1..l : id = fileEntries[i].id
      BY <1>1, <2>2 DEF Ids
    <3>2. Session[i + 1].id = id /\ i + 1 \in 1..Len(Session)
      BY <1>1, <3>1
    <3>. QED
      BY <1>3, <3>1, <3>2
  <2>. QED
    BY <2>1, <2>2
<1>7. OneEach(fileEntries)
  BY <1>5 DEF OneEach, l
<1>. QED
  BY <1>4, <1>6, <1>7 DEF l

(* What the labels are after an entry that is no label entry.              *)
LEMMA LabelsKept ==
    ASSUME Consistent, NEW kind \in EntryKinds, kind # "label", NEW parent \in Nat, NEW ref \in Nat
    PROVE  ~failed => labelsById =
               LabelsOf(Append(fileEntries, Entry(kind, lastId + 1, parent, ref)))
<1>. DEFINE e == Entry(kind, lastId + 1, parent, ref)
<1>1. e \in Entries /\ e.kind = kind
  BY ConsistentIs DEF Entry, Entries
<1>2. e.kind \notin LabelKinds
  BY <1>1 DEF LabelKinds, EntryKinds
<1>. HIDE DEF e
<1>3. LabelsOf(Append(fileEntries, e)) = LabelsOf(fileEntries)
  <2>1. e.kind # "label" /\ e.kind # "unlabel"
    BY <1>2 DEF LabelKinds
  <2>. QED
    BY <1>1, <1>2, <2>1, ConsistentIs, LabelsAppend
<1>. QED
  BY <1>3 DEF Consistent, MemoryInv, LabelInv, e

LEMMA LeafIn ==
    ASSUME Consistent
    PROVE  leafId \in Nat /\ \E i \in 1..Len(Session) : Session[i].id = leafId
BY ConsistentIs DEF Consistent, MemoryInv, LeafInv

LEMMA MessageStep ==
    ASSUME Tears = FALSE, Consistent, appendMessage PROVE Consistent' /\ Stays
<1>1. PICK kind \in Kinds \cap {"user", "assistant"} : AppendEntry(kind, leafId, 0, labelsById)
  BY DEF appendMessage
<1>2. kind \in EntryKinds /\ kind # "label" /\ kind \in EntryKinds \cup {"unlabel"} /\ 0 \in Nat
  BY DEF EntryKinds
<1>3. leafId \in Nat /\ \E i \in 1..Len(Session) : Session[i].id = leafId
  BY LeafIn
<1>4. ~failed => labelsById = LabelsOf(Append(fileEntries, Entry(kind, lastId + 1, leafId, 0)))
  BY <1>2, <1>3, LabelsKept
<1>5. labelsById \in SUBSET Nat
  BY ConsistentIs
<1>. QED
  BY <1>1, <1>2, <1>3, <1>4, <1>5, AppendStep

LEMMA LabelStep ==
    ASSUME Tears = FALSE, Consistent, appendLabelChange PROVE Consistent' /\ Stays
<1>1. PICK target \in Ids(fileEntries) :
         \/ AppendEntry("label", leafId, target, labelsById \cup {target})
         \/ AppendEntry("unlabel", leafId, target, labelsById \ {target})
  BY DEF appendLabelChange
<1>2. target \in Nat
  BY IdsIn
<1>3. leafId \in Nat /\ \E i \in 1..Len(Session) : Session[i].id = leafId
  BY LeafIn
<1>4. fileEntries \in Seq(Entries) /\ lastId + 1 \in Nat
  BY ConsistentIs
<1>5. ~failed => labelsById = LabelsOf(fileEntries)
  BY DEF Consistent, MemoryInv, LabelInv
<1>6. labelsById \cup {target} \in SUBSET Nat /\ labelsById \ {target} \in SUBSET Nat
  BY <1>2, ConsistentIs
<1>7. CASE AppendEntry("label", leafId, target, labelsById \cup {target})
  <2>. DEFINE e == Entry("label", lastId + 1, leafId, target)
  <2>1. e \in Entries /\ e.kind = "label" /\ e.ref = target
    BY <1>2, <1>3, <1>4 DEF Entry, Entries, EntryKinds
  <2>. HIDE DEF e
  <2>2. LabelsOf(Append(fileEntries, e)) = LabelsOf(fileEntries) \cup {target}
    <3>1. e.kind \in LabelKinds
      BY <2>1 DEF LabelKinds
    <3>2. LabelsOf(Append(fileEntries, e)) =
              CASE e.kind = "label"          -> LabelsOf(fileEntries) \cup {e.ref}
                [] e.kind = "unlabel"        -> LabelsOf(fileEntries) \ {e.ref}
                [] e.kind \notin LabelKinds  -> LabelsOf(fileEntries)
      BY <1>4, <2>1, LabelsAppend
    <3>. QED
      BY <2>1, <3>1, <3>2
  <2>3. ~failed => labelsById \cup {target} = LabelsOf(Append(fileEntries, e))
    BY <1>5, <2>2
  <2>4. "label" \in EntryKinds \cup {"unlabel"}
    BY DEF EntryKinds
  <2>. QED
    BY <1>2, <1>3, <1>6, <1>7, <2>3, <2>4, AppendStep DEF e
<1>8. CASE AppendEntry("unlabel", leafId, target, labelsById \ {target})
  <2>. DEFINE e == Entry("unlabel", lastId + 1, leafId, target)
  <2>1. e \in Entries /\ e.kind = "unlabel" /\ e.ref = target
    BY <1>2, <1>3, <1>4 DEF Entry, Entries, EntryKinds
  <2>. HIDE DEF e
  <2>2. LabelsOf(Append(fileEntries, e)) = LabelsOf(fileEntries) \ {target}
    <3>1. e.kind \in LabelKinds
      BY <2>1 DEF LabelKinds
    <3>2. LabelsOf(Append(fileEntries, e)) =
              CASE e.kind = "label"          -> LabelsOf(fileEntries) \cup {e.ref}
                [] e.kind = "unlabel"        -> LabelsOf(fileEntries) \ {e.ref}
                [] e.kind \notin LabelKinds  -> LabelsOf(fileEntries)
      BY <1>4, <2>1, LabelsAppend
    <3>. QED
      BY <2>1, <3>1, <3>2
  <2>3. ~failed => labelsById \ {target} = LabelsOf(Append(fileEntries, e))
    BY <1>5, <2>2
  <2>. QED
    BY <1>2, <1>3, <1>6, <1>8, <2>3, AppendStep DEF e
<1>. QED
  BY <1>1, <1>7, <1>8

LEMMA CompactionStep ==
    ASSUME Tears = FALSE, Consistent, appendCompaction PROVE Consistent' /\ Stays
<1>1. PICK first \in CutsFrom(GetBranch(fileEntries, leafId)) :
         AppendEntry("compaction", leafId, first, labelsById)
  BY DEF appendCompaction
<1>2. GetBranch(fileEntries, leafId) \in Seq(Entries)
  BY ConsistentIs, BranchIs
<1>3. first \in Nat
  BY <1>2, CutsIs
<1>4. "compaction" \in EntryKinds /\ "compaction" \in EntryKinds \cup {"unlabel"}
  BY DEF EntryKinds
<1>5. leafId \in Nat /\ \E i \in 1..Len(Session) : Session[i].id = leafId
  BY LeafIn
<1>6. ~failed => labelsById =
          LabelsOf(Append(fileEntries, Entry("compaction", lastId + 1, leafId, first)))
  BY <1>3, <1>4, <1>5, LabelsKept
<1>7. labelsById \in SUBSET Nat
  BY ConsistentIs
<1>. QED
  BY <1>1, <1>3, <1>4, <1>5, <1>6, <1>7, AppendStep

LEMMA SummaryStep ==
    ASSUME Tears = FALSE, Consistent, branchWithSummary PROVE Consistent' /\ Stays
<1>1. PICK id \in Ids(fileEntries) \cup {0} : AppendEntry("branch_summary", id, 0, labelsById)
  BY DEF branchWithSummary
<1>2. id \in Nat /\ 0 \in Nat /\ \E i \in 1..Len(Session) : Session[i].id = id
  BY IdsIn
<1>3. "branch_summary" \in EntryKinds /\ "branch_summary" \in EntryKinds \cup {"unlabel"}
  BY DEF EntryKinds
<1>4. ~failed => labelsById =
          LabelsOf(Append(fileEntries, Entry("branch_summary", lastId + 1, id, 0)))
  BY <1>2, <1>3, LabelsKept
<1>5. labelsById \in SUBSET Nat
  BY ConsistentIs
<1>. QED
  BY <1>1, <1>2, <1>3, <1>4, <1>5, AppendStep

(* A step that changes nothing of this.                                    *)
LEMMA SameStep ==
    ASSUME Consistent,
           UNCHANGED <<fileEntries, leafId, labelsById, flushed, sessionFile, running, failed>>,
           UNCHANGED <<files, lastId, crashes, failures>>
    PROVE  Consistent' /\ Stays
<1>1. DiskInv' /\ Stays
  BY ConsistentIs, FilesSame DEF Consistent
<1>2. Session' = Session
  BY DEF Session
<1>3. MemoryTypes' /\ LabelInv' /\ FailedInv'
  BY DEF Consistent, MemoryInv, MemoryTypes, LabelInv, FailedInv
<1>4. TreeInv' /\ LeafInv'
  BY <1>2 DEF Consistent, MemoryInv, TreeInv, LeafInv
<1>5. FileInv'
  BY <1>2 DEF Consistent, MemoryInv, FileInv
<1>. QED
  BY <1>1, <1>3, <1>4, <1>5 DEF Consistent, MemoryInv

LEMMA BranchStep ==
    ASSUME Consistent, branch PROVE Consistent' /\ Stays
<1>1. PICK id \in Ids(fileEntries) \cup {0} : leafId' = id
  BY DEF branch
<1>2. UNCHANGED <<fileEntries, labelsById, flushed, sessionFile, running, failed,
                  files, lastId, crashes, failures>>
  BY DEF branch
<1>3. id \in Nat /\ \E i \in 1..Len(Session) : Session[i].id = id
  BY IdsIn
<1>4. Session' = Session
  BY <1>2 DEF Session
<1>5. LeafInv'
  BY <1>1, <1>3, <1>4 DEF LeafInv
<1>6. DiskInv' /\ Stays
  BY <1>2, ConsistentIs, FilesSame DEF Consistent
<1>7. MemoryTypes' /\ LabelInv' /\ FailedInv'
  BY <1>1, <1>2, <1>3 DEF Consistent, MemoryInv, MemoryTypes, LabelInv, FailedInv
<1>8. TreeInv'
  BY <1>2, <1>4 DEF Consistent, MemoryInv, TreeInv
<1>9. FileInv'
  BY <1>2, <1>4 DEF Consistent, MemoryInv, FileInv
<1>. QED
  BY <1>5, <1>6, <1>7, <1>8, <1>9 DEF Consistent, MemoryInv

(* A file that is not there yet.                                           *)
LEMMA NewFileIs ==
    ASSUME Consistent, NEW f \in NewFiles
    PROVE  f \in Files /\ files[f] = NoFile /\ files[f] \in Disk /\ NoFile \in Disk
           /\ NoFile.lines = <<>> /\ NoFile.open = FALSE /\ NoFile.lines \notin Headed
<1>1. f \in Files /\ files[f].exists = FALSE /\ files[f] \in Disk
  BY ConsistentIs, LinesSeq DEF NewFiles, Disk, NoFile
<1>2. files[f] = NoFile
  BY <1>1, LinesSeq
<1>3. ASSUME NEW es \in Seq(Entries) PROVE <<Header>> \o es # <<>>
  BY HeadedIs
<1>4. <<>> \notin Headed
  BY <1>3 DEF Headed
<1>5. NoFile.lines = <<>> /\ NoFile.open = FALSE
  BY DEF NoFile
<1>. QED
  BY <1>1, <1>2, <1>4, <1>5 DEF Disk

(* A session without entries is a tree.                                    *)
LEMMA EmptyTree ==
    ASSUME lastId' \in Nat
    PROVE  Tree(<<Header>> \o <<>>, lastId', failures' = 0) /\ <<>> \in Seq(Entries)
           /\ LeafOf(<<>>) = 0
<1>. DEFINE q == failures' = 0
<1>1. q \in BOOLEAN
  OBVIOUS
<1>. HIDE DEF q
<1>2. Tree(<<Header>>, lastId', q) /\ <<Header>> = <<Header>> \o <<>>
  BY <1>1, TreeNone
<1>3. <<>> \in Seq(Entries)
  BY EmptySeq
<1>. QED
  BY <1>2, <1>3 DEF q, LeafOf

LEMMA NewSessionStep ==
    ASSUME Consistent, newSession PROVE Consistent' /\ Stays
<1>1. /\ running = TRUE /\ NewFiles # {}
      /\ sessionFile' = CHOOSE f \in NewFiles : \A g \in NewFiles : f <= g
      /\ fileEntries' = <<>> /\ leafId' = 0 /\ labelsById' = {} /\ flushed' = FALSE
      /\ failed' = FALSE
      /\ UNCHANGED <<running, files, lastId, crashes, failures>>
  BY ConsistentIs DEF newSession
<1>2. NewFiles \in SUBSET Nat
  BY DEF NewFiles, Files
<1>3. sessionFile' \in NewFiles
  BY <1>1, <1>2, LeastNumber
<1>4. sessionFile' \in Files /\ files[sessionFile'] = NoFile
  BY <1>3, NewFileIs
<1>5. DiskInv' /\ Stays
  BY <1>1, ConsistentIs, FilesSame DEF Consistent
<1>6. Opened(sessionFile', <<>>, FALSE)
  BY <1>1, LabelsNone DEF Opened, LeafOf
<1>7. lastId' \in Nat
  BY <1>1, ConsistentIs
<1>8. MemoryInv'
  BY <1>1, <1>4, <1>6, <1>7, EmptyTree, OpenedInv
<1>. QED
  BY <1>5, <1>8 DEF Consistent

LEMMA ExitStep ==
    ASSUME Consistent, Exit PROVE Consistent' /\ Stays
<1>1. /\ crashes < MaxCrashes /\ crashes' = crashes + 1 /\ Down
      /\ UNCHANGED <<files, lastId, failures>>
  BY DEF Exit
<1>2. crashes' \in 0..MaxCrashes /\ failures' \in 0..MaxFailures /\ lastId' \in 0..MaxEntries
      /\ lastId <= lastId' /\ failures <= failures' /\ lastId' \in Nat
  BY <1>1, ConsistentIs
<1>3. DiskInv' /\ Stays
  BY <1>1, <1>2, FilesSame DEF Consistent
<1>4. MemoryInv'
  BY <1>1, <1>2, DownInv DEF Consistent, MemoryInv
<1>. QED
  BY <1>3, <1>4 DEF Consistent

LEMMA UpgradeStep ==
    ASSUME Consistent, Upgrade PROVE Consistent' /\ Stays
<1>1. /\ UNCHANGED <<fileEntries, leafId, labelsById, flushed, sessionFile, running, failed>>
      /\ UNCHANGED <<files, lastId, crashes, failures>>
  BY DEF Upgrade, memory
<1>. QED
  BY <1>1, SameStep

-----------------------------------------------------------------------------
(* Sessions that are copied or opened.                                     *)
LEMMA CopyIs ==
    ASSUME Tears = FALSE, NEW ls \in Headed, NEW w \in Written(NoFile, ls)
    PROVE  /\ \E k \in 0..Len(ls) : w.file.lines = SubSeq(ls, 1, k)
           /\ w.file \in Disk /\ w.file # NoFile
           /\ w.outcome \in {"done"} \cup Interruptions
           /\ w.outcome = "done" => w.file.lines = ls
<1>. DEFINE file == NoFile
<1>1. file.lines = <<>> /\ file.open = FALSE
  BY DEF NoFile
<1>2. w \in Written(file, ls)
  OBVIOUS
<1>. HIDE DEF file
<1>. QED
  BY <1>1, <1>2, CreatedIs

LEMMA BranchedStep ==
    ASSUME Tears = FALSE, Consistent, createBranchedSession PROVE Consistent' /\ Stays
<1>1. PICK id \in Ids(fileEntries), f \in NewFiles :
         LET es == BranchedEntries(id)
             Results == IF HasAssistant(es) THEN Written(NoFile, <<Header>> \o es)
                        ELSE {[file |-> NoFile, outcome |-> "deferred"]}
         IN  /\ LeafOf(es) <= MaxEntries
             /\ lastId' = IF es = <<>> \/ LeafOf(es) < lastId THEN lastId ELSE LeafOf(es)
             /\ \E w \in Results :
                  /\ files' = [files EXCEPT ![f] = w.file]
                  /\ Counted(w.outcome)
                  /\ IF w.outcome = "crash" THEN Down
                     ELSE /\ fileEntries' = es /\ leafId' = LeafOf(es)
                          /\ labelsById' = LabelsOf(es)
                          /\ flushed' = FlushedAfter(es, w.outcome)
                          /\ failed' = (w.outcome = "failure")
                          /\ sessionFile' = f
                          /\ UNCHANGED running
  BY DEF createBranchedSession
<1>. DEFINE es == BranchedEntries(id)
            ls == <<Header>> \o es
<1>2. /\ LeafOf(es) <= MaxEntries
      /\ lastId' = IF es = <<>> \/ LeafOf(es) < lastId THEN lastId ELSE LeafOf(es)
      /\ \E w \in IF HasAssistant(es) THEN Written(NoFile, ls)
                  ELSE {[file |-> NoFile, outcome |-> "deferred"]} :
           /\ files' = [files EXCEPT ![f] = w.file]
           /\ Counted(w.outcome)
           /\ IF w.outcome = "crash" THEN Down
              ELSE /\ fileEntries' = es /\ leafId' = LeafOf(es)
                   /\ labelsById' = LabelsOf(es)
                   /\ flushed' = FlushedAfter(es, w.outcome)
                   /\ failed' = (w.outcome = "failure")
                   /\ sessionFile' = f
                   /\ UNCHANGED running
  BY <1>1
<1>3. /\ es \in Seq(Entries)
      /\ lastId <= lastId' /\ lastId' \in Nat
      /\ \A p \in BOOLEAN : Tree(ls, lastId', p)
  <2>. DEFINE last == IF es = <<>> \/ LeafOf(es) < lastId THEN lastId ELSE LeafOf(es)
  <2>1. /\ es \in Seq(Entries)
        /\ \E n \in Nat : n = last /\ lastId <= n /\ \A p \in BOOLEAN : Tree(ls, n, p)
    <3>1. lastId \in Nat /\ fileEntries \in Seq(Entries) /\ OneEach(fileEntries)
          /\ \A i \in 1..Len(fileEntries) : fileEntries[i].id \in 1..lastId
      BY ConsistentIs, IdsIn
    <3>2. es = BranchedEntries(id)
      OBVIOUS
    <3>. HIDE DEF es
    <3>. QED
      BY <3>1, <3>2, BranchedIs
  <2>2. lastId' = last
    BY <1>2
  <2>. HIDE DEF last, es
  <2>. QED
    BY <2>1, <2>2
<1>. HIDE DEF es
<1>4. ls \in Headed /\ ls \in Seq(Line) /\ Len(ls) \in Nat /\ LeafOf(es) \in Nat
  BY <1>3, HeadedIs, LeafIs, LenProperties
<1>5. lastId' \in 0..MaxEntries
  BY <1>2, <1>3, <1>4, ConsistentIs
<1>6. PICK w \in IF HasAssistant(es) THEN Written(NoFile, ls)
                 ELSE {[file |-> NoFile, outcome |-> "deferred"]} :
           /\ files' = [files EXCEPT ![f] = w.file]
           /\ Counted(w.outcome)
           /\ IF w.outcome = "crash" THEN Down
              ELSE /\ fileEntries' = es /\ leafId' = LeafOf(es)
                   /\ labelsById' = LabelsOf(es)
                   /\ flushed' = FlushedAfter(es, w.outcome)
                   /\ failed' = (w.outcome = "failure")
                   /\ sessionFile' = f
                   /\ UNCHANGED running
  BY <1>2
<1>. HIDE DEF ls
<1>7. /\ f \in Files /\ files[f] = NoFile /\ NoFile \in Disk
      /\ NoFile.lines = <<>> /\ NoFile.open = FALSE /\ NoFile.lines \notin Headed
  BY NewFileIs
<1>8. /\ w.file \in Disk
      /\ w.outcome \in Interruptions \cup {"done", "deferred", "refused"}
      /\ \E k \in 0..Len(ls) : w.file.lines = SubSeq(ls, 1, k)
      /\ HasAssistant(es) => w.file # NoFile /\ w.outcome # "deferred"
      /\ w.outcome = "done" => HasAssistant(es) /\ w.file.lines = ls
      /\ w.outcome = "deferred" => w.file = NoFile
      /\ w.outcome \in Interruptions \cup {"done", "deferred"}
  <2>1. CASE HasAssistant(es)
    <3>1. w \in Written(NoFile, ls)
      BY <1>6, <2>1
    <3>2. /\ \E k \in 0..Len(ls) : w.file.lines = SubSeq(ls, 1, k)
          /\ w.file \in Disk /\ w.file # NoFile
          /\ w.outcome \in {"done"} \cup Interruptions
          /\ w.outcome = "done" => w.file.lines = ls
      BY <1>4, <3>1, CopyIs
    <3>3. w.outcome # "deferred"
      BY <3>2 DEF Interruptions
    <3>. QED
      BY <2>1, <3>2, <3>3
  <2>2. CASE ~HasAssistant(es)
    <3>1. w \in {[file |-> NoFile, outcome |-> "deferred"]}
      BY <1>6, <2>2
    <3>2. w.file = NoFile /\ w.outcome = "deferred"
      BY <3>1
    <3>3. 0 \in 0..Len(ls) /\ SubSeq(ls, 1, 0) = <<>>
      BY <1>4, SubSeqEmpty
    <3>. QED
      BY <1>7, <2>2, <3>2, <3>3
  <2>. QED
    BY <2>1, <2>2
<1>9. /\ crashes' \in 0..MaxCrashes /\ failures' \in 0..MaxFailures /\ failures <= failures'
      /\ w.outcome = "failure" => failures' > 0
  BY <1>6, <1>8, CountedIs DEF Consistent, DiskInv
<1>. DEFINE q == failures' = 0
<1>10. q \in BOOLEAN
  OBVIOUS
<1>. HIDE DEF q
<1>11. Tree(ls, lastId', q) /\ Tree(w.file.lines, lastId', q)
  <2>1. Tree(ls, lastId', q)
    BY <1>3, <1>10
  <2>2. PICK k \in 0..Len(ls) : w.file.lines = SubSeq(ls, 1, k)
    BY <1>8
  <2>3. Tree(SubSeq(ls, 1, k), lastId', q)
    BY <1>4, <1>10, <2>1, TreePart
  <2>. QED
    BY <2>1, <2>2, <2>3
<1>12. IsPrefix(Loaded(files[f]), Loaded(w.file))
  BY <1>7, <1>8, LoadedStays
<1>13. DiskInv' /\ Stays
  <2>1. Tree(w.file.lines, lastId', failures' = 0)
    BY <1>11 DEF q
  <2>2. files' = [files EXCEPT ![f] = w.file]
    BY <1>6
  <2>. QED
    BY <1>3, <1>5, <1>7, <1>8, <1>9, <1>12, <2>1, <2>2, FileWritten DEF Consistent, Kept
<1>14. CASE w.outcome = "crash"
  BY <1>3, <1>6, <1>13, <1>14, DownInv DEF Consistent, MemoryInv
<1>15. CASE w.outcome # "crash"
  <2>1. /\ fileEntries' = es /\ leafId' = LeafOf(es) /\ labelsById' = LabelsOf(es)
        /\ flushed' = FlushedAfter(es, w.outcome)
        /\ failed' = (w.outcome = "failure")
        /\ sessionFile' = f /\ running' = running
        /\ files'[f] = w.file
    BY <1>6, <1>7, <1>15, ConsistentIs
  <2>2. /\ flushed' \in BOOLEAN
        /\ HasAssistant(es) => flushed' = (flushed \/ w.outcome = "done")
        /\ ~HasAssistant(es) => flushed' = FALSE
    BY <2>1, ConsistentIs DEF FlushedAfter
  <2>3. MemoryTypes'
    BY <1>3, <1>7, <2>1, <2>2, LeafIs, LabelsTypes, ConsistentIs DEF MemoryTypes
  <2>4. Session' = ls
    BY <2>1 DEF Session, ls
  <2>5. TreeInv'
    BY <1>11, <2>4 DEF TreeInv, q
  <2>6. LeafInv'
    BY <1>3, <2>1, <2>4, LeafIs DEF LeafInv, ls
  <2>7. LabelInv'
    BY <2>1 DEF LabelInv
  <2>8. FailedInv'
    BY <1>9, <2>1 DEF FailedInv
  <2>9. FileInv'
    <3>1. flushed' => files'[sessionFile'] # NoFile
      BY <1>8, <2>1, <2>2
    <3>2. ASSUME ~failed', w.outcome = "done" PROVE flushed' /\ files'[sessionFile'].lines = Session'
      BY <1>8, <2>1, <2>2, <2>4, <3>2
    <3>3. ASSUME ~failed', w.outcome = "deferred"
          PROVE  ~flushed' /\ files'[sessionFile'] = NoFile /\ ~HasAssistant(fileEntries')
      BY <1>8, <2>1, <2>2, <3>3
    <3>4. ~failed' => w.outcome = "done" \/ w.outcome = "deferred"
      BY <1>8, <1>15, <2>1 DEF Interruptions
    <3>. QED
      BY <3>1, <3>2, <3>3, <3>4 DEF FileInv
  <2>. QED
    BY <1>13, <2>3, <2>5, <2>6, <2>7, <2>8, <2>9 DEF Consistent, MemoryInv
<1>. QED
  BY <1>14, <1>15

(* What is loaded from a file, if anything.                                *)
LEMMA LoadedTree ==
    ASSUME Consistent, NEW f \in Files, Loaded(files[f]) # <<>>
    PROVE  \E es \in Seq(Entries) :
              /\ files[f] \in Disk /\ files[f] # NoFile
              /\ files[f].lines = <<Header>> \o es /\ Loaded(files[f]) = <<Header>> \o es
              /\ <<Header>> \o es \in Headed /\ <<Header>> \o es \in Seq(Line)
              /\ Tail(<<Header>> \o es) = es
              /\ Tree(<<Header>> \o es, lastId, failures = 0)
<1>1. files[f] \in Disk
  BY ConsistentIs
<1>2. files[f].lines \in Headed /\ Loaded(files[f]) = files[f].lines
  BY <1>1, LoadedIs
<1>3. PICK es \in Seq(Entries) : files[f].lines = <<Header>> \o es
  BY <1>2 DEF Headed
<1>4. <<Header>> \o es \in Headed /\ <<Header>> \o es \in Seq(Line)
      /\ Tail(<<Header>> \o es) = es /\ <<Header>> \o es # <<>>
  BY HeadedIs
<1>5. files[f] # NoFile
  BY <1>1, <1>3, <1>4, LinesSeq
<1>6. Tree(files[f].lines, lastId, failures = 0)
  BY DEF Consistent, DiskInv
<1>. QED
  BY <1>1, <1>2, <1>3, <1>4, <1>5, <1>6

(* With a header alone, or nothing.                                        *)
LEMMA StartedTree ==
    ASSUME NEW n \in Nat, NEW q \in BOOLEAN, NEW k \in 0..Len(<<Header>>)
    PROVE  Tree(SubSeq(<<Header>>, 1, k), n, q)
<1>1. Tree(<<Header>>, n, q) /\ <<Header>> \in Seq(Line)
  BY TreeNone, HeaderIs
<1>. QED
  BY <1>1, TreePart

(* A file that is written anew with entries it gives already, or that      *)
(* gives nothing: what it gives then is a first part of what it gave.      *)
LEMMA PartKept ==
    ASSUME NEW file \in Disk, NEW new \in Disk, NEW es \in Seq(Entries),
           Loaded(file) = <<Header>> \o es,
           NEW k \in 0..Len(<<Header>> \o es), new.lines = SubSeq(<<Header>> \o es, 1, k)
    PROVE  IsPrefix(Loaded(new), Loaded(file))
<1>. DEFINE ls == <<Header>> \o es
            t  == SubSeq(ls, 1, k)
<1>1. ls \in Seq(Line) /\ ls \in Headed /\ Len(ls) \in Nat
  BY HeadedIs, LenProperties
<1>2. Loaded(file) = ls /\ new.lines = t /\ k \in 0..Len(ls)
  OBVIOUS
<1>. HIDE DEF ls
<1>3. t \in Seq(Line) /\ Len(t) = k
  <2>1. 1 \in 1..(Len(ls) + 1) /\ k \in (1 - 1)..Len(ls)
    BY <1>1, <1>2
  <2>2. t \in Seq(Line) /\ Len(t) = k - 1 + 1
    BY <1>1, <2>1, SubSeqIs
  <2>. HIDE DEF t
  <2>. QED
    BY <1>1, <1>2, <2>2
<1>4. IsPrefix(t, ls)
  <2>1. SubSeq(t, 1, Len(t)) = t
    <3>. HIDE DEF t
    <3>. QED
      BY <1>3, SubSeqFull
  <2>2. SubSeq(ls, 1, Len(t)) = t
    BY <1>3
  <2>3. Len(t) <= Len(ls)
    BY <1>1, <1>2, <1>3
  <2>. HIDE DEF t
  <2>. QED
    BY <2>1, <2>2, <2>3 DEF IsPrefix
<1>5. IsPrefix(<<>>, ls)
  <2>1. SubSeq(<<>>, 1, 0) = SubSeq(ls, 1, 0)
    BY <1>1, SubSeqEmpty, EmptySeq
  <2>. QED
    BY <1>1, <2>1 DEF IsPrefix
<1>6. Loaded(new) = t \/ Loaded(new) = <<>>
  BY <1>2, LoadedIs
<1>. QED
  BY <1>2, <1>4, <1>5, <1>6

(* A file that is rewritten in place, when a session is opened.            *)
LEMMA RewriteStep ==
    ASSUME Tears = FALSE, Consistent, NEW f \in Files, NEW es \in Seq(Entries),
           Rewritten(f, es), running = FALSE, lastId' = lastId,
           Tree(<<Header>> \o es, lastId, failures = 0),
           \/ Loaded(files[f]) = <<>>
           \/ /\ Loaded(files[f]) = <<Header>> \o es
              /\ f \in outdated /\ outdated' = outdated \ {f}
    PROVE  Consistent' /\ Stays
<1>. DEFINE file == [NoFile EXCEPT !.exists = TRUE]
            ls   == <<Header>> \o es
<1>1. PICK w \in Written(file, ls) :
                /\ files' = [files EXCEPT ![f] = w.file]
                /\ Counted(w.outcome)
                /\ IF w.outcome = "done" THEN Opened(f, es, TRUE) ELSE Down
  BY DEF Rewritten
<1>2. file.lines = <<>> /\ file.open = FALSE
  BY DEF NoFile
<1>3. ls \in Headed /\ ls \in Seq(Line) /\ Tree(ls, lastId, failures = 0) /\ ls = <<Header>> \o es
  BY HeadedIs
<1>. HIDE DEF file, ls
<1>4. /\ \E k \in 0..Len(ls) : w.file.lines = SubSeq(ls, 1, k)
      /\ w.file \in Disk /\ w.file # NoFile
      /\ w.outcome \in {"done"} \cup Interruptions
      /\ w.outcome = "done" => w.file.lines = ls
  <2>1. file.lines = <<>> /\ file.open = FALSE /\ ls \in Headed /\ w \in Written(file, ls)
    BY <1>1, <1>2, <1>3
  <2>2. Tears = FALSE
    OBVIOUS
  <2>. QED
    BY ONLY <2>1, <2>2, CreatedIs
<1>5. files[f] \in Disk /\ files[f].lines \in Seq(Line)
  BY ConsistentIs, LinesSeq
<1>6. crashes' \in 0..MaxCrashes /\ failures' \in 0..MaxFailures /\ failures <= failures'
  BY <1>1, <1>4, CountedIs DEF Consistent, DiskInv
<1>7. lastId' \in 0..MaxEntries /\ lastId <= lastId' /\ lastId' \in Nat /\ lastId \in Nat
  BY ConsistentIs
<1>. DEFINE p == failures = 0
            q == failures' = 0
<1>8. p \in BOOLEAN /\ q \in BOOLEAN /\ (q => p)
  BY <1>6, ConsistentIs
<1>9. Tree(ls, lastId, p)
  BY <1>3
<1>. HIDE DEF p, q
<1>10. Tree(ls, lastId', q)
  BY <1>3, <1>7, <1>8, <1>9, TreeMore
<1>11. Tree(w.file.lines, lastId', q)
  <2>1. PICK k \in 0..Len(ls) : w.file.lines = SubSeq(ls, 1, k)
    BY <1>4
  <2>2. Tree(SubSeq(ls, 1, k), lastId', q)
    BY <1>3, <1>8, <1>10, TreePart
  <2>. QED
    BY <2>1, <2>2
<1>12. Kept(f, w.file)
  <2>1. CASE Loaded(files[f]) = <<>>
    <3>1. files[f].lines \notin Headed
      <4>1. ASSUME NEW fs \in Seq(Entries) PROVE <<Header>> \o fs # <<>>
        BY HeadedIs
      <4>2. ASSUME files[f].lines \in Headed PROVE FALSE
        BY <1>5, <2>1, <4>1, <4>2, LoadedIs DEF Headed
      <4>. QED
        BY <4>2
    <3>. QED
      BY <1>4, <1>5, <3>1, LoadedStays DEF Kept
  <2>2. CASE Loaded(files[f]) # <<>> /\ w.outcome = "done"
    <3>1. Loaded(w.file) = ls
      BY <1>3, <1>4, <2>2, LoadedIs
    <3>2. Loaded(files[f]) = ls
      BY <1>3, <2>2
    <3>3. IsPrefix(Loaded(files[f]), Loaded(files[f]))
      BY <1>5, LoadedStays
    <3>. QED
      BY <3>1, <3>2, <3>3 DEF Kept
  <2>3. CASE Loaded(files[f]) # <<>> /\ w.outcome # "done"
    <3>1. Loaded(files[f]) = <<Header>> \o es
      BY <2>3
    <3>2. IsPrefix(Loaded(w.file), Loaded(files[f]))
      BY <1>3, <1>4, <1>5, <3>1, PartKept
    <3>3. running' = FALSE /\ f \in outdated /\ f \notin outdated'
      BY <1>1, <2>3 DEF Down
    <3>. QED
      BY <3>2, <3>3 DEF Kept, MigrationStops
  <2>. QED
    BY <2>1, <2>2, <2>3
<1>13. DiskInv' /\ Stays
  <2>1. Tree(w.file.lines, lastId', failures' = 0)
    BY <1>11 DEF q
  <2>. QED
    BY <1>1, <1>4, <1>6, <1>7, <1>12, <2>1, FileWritten DEF Consistent
<1>14. CASE w.outcome = "done"
  <2>1. files'[f] # NoFile /\ files'[f].lines = <<Header>> \o es
    BY <1>1, <1>3, <1>4, <1>14, ConsistentIs
  <2>2. Tree(<<Header>> \o es, lastId', failures' = 0)
    BY <1>3, <1>10 DEF q
  <2>3. MemoryInv'
    BY <1>1, <1>14, <2>1, <2>2, OpenedInv
  <2>. QED
    BY <1>13, <2>3 DEF Consistent
<1>15. CASE w.outcome # "done"
  BY <1>1, <1>7, <1>13, <1>15, DownInv DEF Consistent, MemoryInv
<1>. QED
  BY <1>14, <1>15

LEMMA OpenStep ==
    ASSUME Tears = FALSE, Consistent, NEW f \in Files, open(f) PROVE Consistent' /\ Stays
<1>1. /\ lastId' = lastId /\ running = FALSE
      /\ \/ /\ files[f].exists = FALSE /\ f = sessionFile /\ Opened(f, <<>>, FALSE)
            /\ UNCHANGED <<files, crashes, failures>>
         \/ /\ files[f].exists /\ Loaded(files[f]) = <<>> /\ Rewritten(f, <<>>)
         \/ /\ Loaded(files[f]) # <<>> /\ Rewritten(f, Tail(Loaded(files[f])))
            /\ f \in outdated /\ outdated' = outdated \ {f}
         \/ /\ files[f].exists /\ Loaded(files[f]) # <<>>
            /\ Opened(f, Tail(Loaded(files[f])), TRUE) /\ UNCHANGED <<files, crashes, failures>>
  <2>1. files[f].exists \in BOOLEAN
    <3>1. files[f] \in Disk
      BY ConsistentIs
    <3>2. NoFile.exists = FALSE
      BY DEF NoFile
    <3>. QED
      BY <3>1, <3>2 DEF Disk
  <2>2. running \in BOOLEAN
    BY ConsistentIs
  <2>. QED
    BY <2>1, <2>2 DEF open, Migrated
<1>2. lastId' \in Nat /\ lastId' \in 0..MaxEntries /\ lastId <= lastId'
  BY <1>1, ConsistentIs
<1>3. files[f] \in Disk
  BY ConsistentIs
<1>4. CASE /\ files[f].exists = FALSE /\ f = sessionFile /\ Opened(f, <<>>, FALSE)
           /\ UNCHANGED <<files, crashes, failures>>
  <2>1. DiskInv' /\ Stays
    BY <1>2, <1>4, ConsistentIs, FilesSame DEF Consistent
  <2>2. files'[f] = NoFile
    BY <1>3, <1>4, LinesSeq
  <2>3. MemoryInv'
    BY <1>2, <1>4, <2>2, EmptyTree, OpenedInv
  <2>. QED
    BY <2>1, <2>3 DEF Consistent
<1>5. CASE files[f].exists /\ Loaded(files[f]) = <<>> /\ Rewritten(f, <<>>)
  <2>1. Tree(<<Header>> \o <<>>, lastId, failures = 0) /\ <<>> \in Seq(Entries)
    <3>. DEFINE q == failures = 0
    <3>1. q \in BOOLEAN /\ lastId \in Nat
      BY ConsistentIs
    <3>. HIDE DEF q
    <3>2. Tree(<<Header>>, lastId, q) /\ <<Header>> = <<Header>> \o <<>>
      BY <3>1, TreeNone
    <3>. QED
      BY <3>2, EmptySeq DEF q
  <2>. QED
    BY <1>1, <1>5, <2>1, RewriteStep
<1>6. CASE /\ Loaded(files[f]) # <<>> /\ Rewritten(f, Tail(Loaded(files[f])))
           /\ f \in outdated /\ outdated' = outdated \ {f}
  <2>1. PICK es \in Seq(Entries) :
              /\ Loaded(files[f]) = <<Header>> \o es
              /\ Tail(<<Header>> \o es) = es
              /\ Tree(<<Header>> \o es, lastId, failures = 0)
    BY <1>6, LoadedTree
  <2>2. Rewritten(f, es)
    BY <1>6, <2>1
  <2>. QED
    BY <1>1, <1>6, <2>1, <2>2, RewriteStep
<1>7. CASE /\ files[f].exists /\ Loaded(files[f]) # <<>>
           /\ Opened(f, Tail(Loaded(files[f])), TRUE) /\ UNCHANGED <<files, crashes, failures>>
  <2>1. PICK es \in Seq(Entries) :
              /\ files[f] # NoFile
              /\ files[f].lines = <<Header>> \o es /\ Loaded(files[f]) = <<Header>> \o es
              /\ Tail(<<Header>> \o es) = es
              /\ Tree(<<Header>> \o es, lastId, failures = 0)
    BY <1>7, LoadedTree
  <2>2. DiskInv' /\ Stays
    BY <1>2, <1>7, ConsistentIs, FilesSame DEF Consistent
  <2>3. Opened(f, es, TRUE)
    BY <1>7, <2>1
  <2>4. Tree(<<Header>> \o es, lastId', failures' = 0)
    BY <1>1, <1>7, <2>1
  <2>5. files'[f] # NoFile /\ files'[f].lines = <<Header>> \o es
    BY <1>7, <2>1
  <2>6. MemoryInv'
    BY <2>3, <2>4, <2>5, OpenedInv
  <2>. QED
    BY <2>2, <2>6 DEF Consistent
<1>. QED
  BY <1>1, <1>4, <1>5, <1>6, <1>7

LEMMA ForkStep ==
    ASSUME Tears = FALSE, Consistent, NEW source \in Files, forkFrom(source)
    PROVE  Consistent' /\ Stays
<1>1. Loaded(files[source]) # <<>> /\ lastId' = lastId
  BY DEF forkFrom
<1>2. PICK f \in NewFiles, w \in Written(NoFile, Loaded(files[source])) :
         /\ files' = [files EXCEPT ![f] = w.file]
         /\ Counted(w.outcome)
         /\ IF w.outcome = "done" THEN Opened(f, Tail(Loaded(w.file)), TRUE) ELSE Down
  BY DEF forkFrom
<1>3. PICK es \in Seq(Entries) :
         /\ Loaded(files[source]) = <<Header>> \o es
         /\ <<Header>> \o es \in Headed /\ <<Header>> \o es \in Seq(Line)
         /\ Tail(<<Header>> \o es) = es
         /\ Tree(<<Header>> \o es, lastId, failures = 0)
  BY <1>1, LoadedTree
<1>. DEFINE ls == <<Header>> \o es
<1>4. /\ w \in Written(NoFile, ls) /\ ls \in Headed /\ ls \in Seq(Line) /\ Tail(ls) = es
      /\ Tree(ls, lastId, failures = 0) /\ ls = <<Header>> \o es
  BY <1>2, <1>3
<1>. HIDE DEF ls
<1>5. /\ f \in Files /\ files[f] = NoFile /\ NoFile \in Disk
      /\ NoFile.lines = <<>> /\ NoFile.open = FALSE /\ NoFile.lines \notin Headed
  BY NewFileIs
<1>6. /\ \E k \in 0..Len(ls) : w.file.lines = SubSeq(ls, 1, k)
      /\ w.file \in Disk /\ w.file # NoFile
      /\ w.outcome \in {"done"} \cup Interruptions
      /\ w.outcome = "done" => w.file.lines = ls
  BY <1>4, CopyIs
<1>7. crashes' \in 0..MaxCrashes /\ failures' \in 0..MaxFailures /\ failures <= failures'
  BY <1>2, <1>6, CountedIs DEF Consistent, DiskInv
<1>8. lastId' \in 0..MaxEntries /\ lastId <= lastId' /\ lastId' \in Nat
  BY <1>1, ConsistentIs
<1>. DEFINE p == failures = 0
            q == failures' = 0
<1>9. p \in BOOLEAN /\ q \in BOOLEAN /\ (q => p)
  BY <1>7, ConsistentIs
<1>10. Tree(ls, lastId, p)
  BY <1>4
<1>. HIDE DEF p, q
<1>11. Tree(ls, lastId', q)
  <2>1. lastId \in Nat /\ lastId' \in Nat /\ lastId <= lastId' /\ ls \in Seq(Line)
    BY <1>4, <1>8, ConsistentIs
  <2>. QED
    BY <1>9, <1>10, <2>1, TreeMore
<1>12. Tree(w.file.lines, lastId', q)
  <2>1. PICK k \in 0..Len(ls) : w.file.lines = SubSeq(ls, 1, k)
    BY <1>6
  <2>2. Tree(SubSeq(ls, 1, k), lastId', q)
    BY <1>4, <1>9, <1>11, TreePart
  <2>. QED
    BY <2>1, <2>2
<1>13. IsPrefix(Loaded(files[f]), Loaded(w.file))
  BY <1>5, <1>6, LoadedStays
<1>14. DiskInv' /\ Stays
  <2>1. Tree(w.file.lines, lastId', failures' = 0)
    BY <1>12 DEF q
  <2>. QED
    BY <1>2, <1>5, <1>6, <1>7, <1>8, <1>13, <2>1, FileWritten DEF Consistent, Kept
<1>15. CASE w.outcome = "done"
  <2>1. w.file.lines = ls /\ Loaded(w.file) = ls
    BY <1>4, <1>6, <1>15, LoadedIs
  <2>2. Opened(f, es, TRUE)
    BY <1>2, <1>4, <1>15, <2>1
  <2>3. files'[f] # NoFile /\ files'[f].lines = <<Header>> \o es
    BY <1>2, <1>4, <1>5, <1>6, <2>1, ConsistentIs
  <2>4. Tree(<<Header>> \o es, lastId', failures' = 0)
    BY <1>4, <1>11 DEF q
  <2>5. MemoryInv'
    BY <1>5, <2>2, <2>3, <2>4, OpenedInv
  <2>. QED
    BY <1>14, <2>5 DEF Consistent
<1>16. CASE w.outcome # "done"
  BY <1>2, <1>8, <1>14, <1>16, DownInv DEF Consistent, MemoryInv
<1>. QED
  BY <1>15, <1>16

-----------------------------------------------------------------------------
(* The invariant, and what follows from it.                                *)
LEMMA InitConsistent ==
    ASSUME Init PROVE Consistent
<1>1. /\ fileEntries = <<>> /\ leafId = 0 /\ labelsById = {} /\ flushed = FALSE
      /\ sessionFile = 1 /\ running = TRUE /\ failed = FALSE
      /\ files = [f \in Files |-> NoFile]
      /\ lastId = 0 /\ crashes = 0 /\ failures = 0
  BY DEF Init
<1>2. 1 \in Files /\ MaxEntries \in Nat /\ MaxCrashes \in Nat /\ MaxFailures \in Nat
  BY BoundAssumption DEF Files
<1>3. NoFile \in Disk /\ NoFile.lines = <<>> /\ <<>> \in Seq(Entries)
  BY EmptySeq DEF Disk, NoFile
<1>4. MemoryTypes
  BY <1>1, <1>2, <1>3 DEF MemoryTypes
<1>5. DiskTypes
  BY <1>1, <1>2, <1>3 DEF DiskTypes
<1>6. Session = <<Header>> /\ files[sessionFile] = NoFile
  BY <1>1, <1>2, TreeNone DEF Session
<1>7. Tree(<<Header>>, 0, TRUE) /\ Tree(<<>>, 0, TRUE)
  BY TreeNone
<1>8. TreeInv
  BY <1>1, <1>6, <1>7 DEF TreeInv
<1>9. LeafInv
  BY <1>1, <1>6, HeaderIs DEF LeafInv
<1>10. LabelInv /\ FailedInv
  BY <1>1, LabelsNone DEF LabelInv, FailedInv
<1>11. FileInv
  BY <1>1, <1>6 DEF FileInv, HasAssistant
<1>12. DiskInv
  BY <1>1, <1>3, <1>5, <1>7 DEF DiskInv
<1>. QED
  BY <1>4, <1>8, <1>9, <1>10, <1>11, <1>12 DEF Consistent, MemoryInv

LEMMA NextConsistent ==
    ASSUME Tears = FALSE, Consistent, [Next]_vars PROVE Consistent' /\ Stays
<1>1. CASE appendMessage
  BY <1>1, MessageStep
<1>2. CASE appendLabelChange
  BY <1>2, LabelStep
<1>3. CASE appendCompaction
  BY <1>3, CompactionStep
<1>4. CASE branchWithSummary
  BY <1>4, SummaryStep
<1>5. CASE branch
  BY <1>5, BranchStep
<1>6. CASE newSession
  BY <1>6, NewSessionStep
<1>7. CASE createBranchedSession
  BY <1>7, BranchedStep
<1>8. CASE Exit
  BY <1>8, ExitStep
<1>9. ASSUME NEW f \in Files, open(f) PROVE Consistent' /\ Stays
  BY <1>9, OpenStep
<1>10. ASSUME NEW f \in Files, forkFrom(f) PROVE Consistent' /\ Stays
  BY <1>10, ForkStep
<1>11. CASE UNCHANGED vars
  <2>1. /\ UNCHANGED <<fileEntries, leafId, labelsById, flushed, sessionFile, running, failed>>
        /\ UNCHANGED <<files, lastId, crashes, failures>>
    BY <1>11 DEF vars, memory
  <2>. QED
    BY <2>1, SameStep
<1>12. CASE Upgrade
  BY <1>12, UpgradeStep
<1>. QED
  BY <1>1, <1>2, <1>3, <1>4, <1>5, <1>6, <1>7, <1>8, <1>9, <1>10, <1>11, <1>12 DEF Next

(* The ids before an entry, and the parent among them.                     *)
LEMMA ParentsOlder ==
    ASSUME Consistent, failures = 0, NEW i \in DOMAIN fileEntries
    PROVE  fileEntries[i].parent \in Ids(SubSeq(fileEntries, 1, i - 1)) \cup {0}
<1>. DEFINE t == SubSeq(fileEntries, 1, i - 1)
<1>1. /\ Len(fileEntries) \in Nat /\ i \in 1..Len(fileEntries)
      /\ Len(Session) = Len(fileEntries) + 1 /\ Session[1] = Header
      /\ \A j \in 1..Len(fileEntries) : Session[j + 1] = fileEntries[j]
  BY SessionIs
<1>2. Linked(Session)
  BY DEF Consistent, MemoryInv, TreeInv, Tree
<1>3. i + 1 \in 2..Len(Session) /\ Session[i + 1] = fileEntries[i]
  BY <1>1
<1>4. PICK j \in 1..i : Session[j].id = Session[i + 1].parent
  <2>. DEFINE k == i + 1
  <2>1. k \in 2..Len(Session) /\ k - 1 = i
    BY <1>1, <1>3
  <2>. HIDE DEF k
  <2>2. \E j \in 1..(k - 1) : Session[j].id = Session[k].parent
    BY <1>2, <2>1 DEF Linked
  <2>. QED
    BY <2>1, <2>2 DEF k
<1>5. CASE j = 1
  BY <1>1, <1>3, <1>4, <1>5, HeaderIs
<1>6. CASE j # 1
  <2>1. j - 1 \in 1..(i - 1) /\ j - 1 \in 1..Len(fileEntries) /\ j - 1 + 1 = j
    BY <1>1, <1>4, <1>6
  <2>2. fileEntries[j - 1].id = fileEntries[i].parent
    BY <1>1, <1>3, <1>4, <2>1
  <2>3. DOMAIN t = 1..(i - 1) /\ t[j - 1] = fileEntries[j - 1]
    <3>1. 1 \in 1..(Len(fileEntries) + 1) /\ i - 1 \in (1 - 1)..Len(fileEntries)
          /\ fileEntries \in Seq(Entries)
      BY <1>1, ConsistentIs
    <3>2. /\ t \in Seq(Entries) /\ Len(t) = i - 1 - 1 + 1
          /\ \A k \in 1..(i - 1 - 1 + 1) : t[k] = fileEntries[1 + k - 1]
      BY <3>1, SubSeqIs
    <3>. HIDE DEF t
    <3>3. Len(t) = i - 1
      BY <1>1, <3>2
    <3>. QED
      BY <1>1, <2>1, <3>2, <3>3, LenProperties
  <2>. HIDE DEF t
  <2>. QED
    BY <2>1, <2>2, <2>3 DEF Ids, t
<1>. QED
  BY <1>5, <1>6

LEMMA OutdatedFiles ==
    ASSUME outdated \subseteq Files, [Next]_vars PROVE outdated' \subseteq Files
<1>1. ASSUME NEW f \in Files, open(f) \/ forkFrom(f) PROVE outdated' \subseteq outdated
  BY <1>1 DEF open, forkFrom
<1>2. appendMessage \/ appendLabelChange \/ appendCompaction \/ branchWithSummary
         => outdated' = outdated
  BY DEF appendMessage, appendLabelChange, appendCompaction, branchWithSummary, AppendEntry
<1>3. branch \/ newSession \/ createBranchedSession \/ Exit => outdated' = outdated
  BY DEF branch, newSession, createBranchedSession, Exit
<1>4. Upgrade => outdated' \subseteq Files
  BY DEF Upgrade
<1>. QED
  BY <1>1, <1>2, <1>3, <1>4 DEF Next, vars

LEMMA ConsistentTypes ==
    ASSUME Consistent, outdated \subseteq Files PROVE TypeOK
<1>. DEFINE ids == [i \in DOMAIN fileEntries |-> fileEntries[i].id]
<1>1. IsInjective(ids)
  <2>1. \A i, j \in DOMAIN fileEntries : fileEntries[i].id = fileEntries[j].id => i = j
    BY IdsIn, SessionIs DEF OneEach
  <2>2. DOMAIN ids = DOMAIN fileEntries /\ \A i \in DOMAIN ids : ids[i] = fileEntries[i].id
    OBVIOUS
  <2>. HIDE DEF ids
  <2>. QED
    BY <2>1, <2>2 DEF IsInjective
<1>2. leafId \in Ids(fileEntries) \cup {0}
  <2>1. PICK i \in 1..Len(Session) : Session[i].id = leafId
    BY LeafIn
  <2>2. CASE i = 1
    BY <2>1, <2>2, SessionIs, HeaderIs
  <2>3. CASE i # 1
    <3>1. i - 1 \in 1..Len(fileEntries) /\ i - 1 + 1 = i
      BY <2>1, <2>3, SessionIs
    <3>2. i - 1 \in DOMAIN fileEntries /\ fileEntries[i - 1].id = leafId
      BY <2>1, <3>1, SessionIs
    <3>. QED
      BY <3>2 DEF Ids
  <2>. QED
    BY <2>2, <2>3
<1>3. ~failed => labelsById = LabelsOf(fileEntries)
  BY DEF Consistent, MemoryInv, LabelInv
<1>4. failures = 0 => \A i \in DOMAIN fileEntries :
          fileEntries[i].parent \in Ids(SubSeq(fileEntries, 1, i - 1)) \cup {0}
  BY ParentsOlder
<1>. QED
  BY <1>1, <1>2, <1>3, <1>4, ConsistentIs DEF TypeOK

LEMMA ConsistentFile ==
    ASSUME Consistent PROVE FileIsSession
<1>1. ASSUME running, ~failed, flushed
      PROVE  Loaded(files[sessionFile]) = <<Header>> \o fileEntries
  <2>1. files[sessionFile].lines = Session /\ files[sessionFile] \in Disk
    BY <1>1, ConsistentIs DEF Consistent, MemoryInv, FileInv
  <2>2. Session \in Headed /\ Session = <<Header>> \o fileEntries
    BY ConsistentIs, HeadedIs DEF Session
  <2>. QED
    BY <2>1, <2>2, LoadedIs
<1>2. ASSUME running, ~failed, ~flushed
      PROVE  ~files[sessionFile].exists /\ ~HasAssistant(fileEntries)
  BY <1>2 DEF Consistent, MemoryInv, FileInv, NoFile
<1>. QED
  BY <1>1, <1>2 DEF FileIsSession

-----------------------------------------------------------------------------
(* No call mixes the entries of a session up, whichever writes throw or    *)
(* stop between two lines: an entry has an id of its own, the leaf is an   *)
(* entry or none, the labels are those of the label entries, and, if no    *)
(* write has failed, each entry hangs on an older one.  _appendEntry,      *)
(* _appendLabelChange, createBranchedSession and setSessionFile.           *)
THEOREM SessionsAreTrees == Tears = FALSE => (Spec => []TypeOK)
<1>. SUFFICES ASSUME Tears = FALSE PROVE Spec => []TypeOK
  OBVIOUS
<1>. DEFINE Upgraded == outdated \subseteq Files
<1>1. Init => Consistent /\ Upgraded
  BY InitConsistent DEF Init
<1>2. Consistent /\ [Next]_vars => Consistent'
  BY NextConsistent
<1>3. Upgraded /\ [Next]_vars => Upgraded'
  BY OutdatedFiles
<1>4. Consistent /\ Upgraded => TypeOK
  BY ConsistentTypes
<1>. QED
  BY <1>1, <1>2, <1>3, <1>4, PTL DEF Spec

(* Until a write throws, the file is the session: what opening it again    *)
(* would give is what is in memory, entry by entry, and as long as there   *)
(* is no file there is no answer that would be lost.  _persist, and the    *)
(* calls that make another file the session's.                             *)
THEOREM SavedIsSession == Tears = FALSE => (Spec => []FileIsSession)
<1>. SUFFICES ASSUME Tears = FALSE PROVE Spec => []FileIsSession
  OBVIOUS
<1>1. Init => Consistent
  BY InitConsistent
<1>2. Consistent /\ [Next]_vars => Consistent'
  BY NextConsistent
<1>3. Consistent => FileIsSession
  BY ConsistentFile
<1>. QED
  BY <1>1, <1>2, <1>3, PTL DEF Spec

(* What could be read from a file once can be read for good, in its place: *)
(* appending, branching, forking, reopening, a finished migration, a write *)
(* that throws and a process that ends between two lines only add to what  *)
(* a file gives.  The exception is the migration of an outdated file that  *)
(* does not finish: it leaves the first of its entries, or none, and the   *)
(* process or the call has ended with it.  setSessionFile, _rewriteFile.   *)
THEOREM SavedForGood == Tears = FALSE => (Spec => SavedStays)
<1>. SUFFICES ASSUME Tears = FALSE PROVE Spec => SavedStays
  OBVIOUS
<1>1. Init => Consistent
  BY InitConsistent
<1>2. Consistent /\ [Next]_vars => Consistent'
  BY NextConsistent
<1>3. Consistent /\ [Next]_vars
         => [\A f \in Files :
               LET before == Loaded(files[f])
                   after  == Loaded(files'[f])
               IN  IsPrefix(before, after)
                   \/ (MigrationStops(f) /\ IsPrefix(after, before))]_vars
  BY NextConsistent DEF Stays, Kept
<1>. QED
  BY <1>1, <1>2, <1>3, PTL DEF Spec, SavedStays
-----------------------------------------------------------------------------
(* What a fork shows the model.  The context is that of a path: the latest *)
(* compaction, if there is one, and the messages that are told.            *)
Context(path) ==
    LET k    == LatestCompaction(path)
        kept == IF k = 0 \/ FirstKept(path, k) \notin 1..k
                THEN <<>> ELSE SubSeq(path, FirstKept(path, k), k - 1)
    IN  IF k = 0 THEN MessagesOf(path)
        ELSE <<path[k]>> \o MessagesOf(kept \o SubSeq(path, k + 1, Len(path)))

ToldOf(path, k, f) ==
    {i \in 1..Len(path) : IsMessage(path[i]) /\ (k = 0 \/ i > k \/ (f # 0 /\ f <= i /\ i < k))}

Told(path) == ToldOf(path, LatestCompaction(path), FirstKept(path, LatestCompaction(path)))

LEMMA ContextOf ==
    ASSUME NEW es, NEW id PROVE BuildSessionContext(es, id) = Context(GetBranch(es, id))
BY DEF BuildSessionContext, Context

LEMMA ContextIs ==
    ASSUME NEW path \in Seq(Entries), NEW k, k = LatestCompaction(path)
    PROVE  \E t \in Seq(Entries) : \E h :
              /\ PlacedBy(t, path, Told(path), h)
              /\ Context(path) = IF k = 0 THEN t ELSE <<path[k]>> \o t
<1>. DEFINE n == Len(path)
            f == FirstKept(path, k)
            a == IF f \in 1..k THEN f ELSE k
<1>1. n \in Nat /\ DOMAIN path = 1..n /\ k \in 0..n /\ f \in 0..n
  BY LenProperties, LastSelected, FirstSelected
<1>2. Told(path) = ToldOf(path, k, f)
  BY DEF Told
<1>3. Context(path) = IF k = 0 THEN MessagesOf(path)
                      ELSE <<path[k]>> \o MessagesOf(
                             (IF f \notin 1..k THEN <<>> ELSE SubSeq(path, f, k - 1))
                                \o SubSeq(path, k + 1, n))
  BY DEF Context
<1>. HIDE DEF f
<1>4. CASE k = 0
  <2>. DEFINE I == {i \in DOMAIN path : IsMessage(path[i])}
  <2>1. I = Told(path)
    BY <1>1, <1>2, <1>4 DEF ToldOf
  <2>2. MessagesOf(path) = Chosen(path, I)
    BY DEF MessagesOf
  <2>. HIDE DEF I
  <2>3. MessagesOf(path) \in Seq(Entries) /\ \E h : PlacedBy(MessagesOf(path), path, I, h)
    BY <2>2, ChosenPlaces
  <2>. QED
    BY <1>3, <1>4, <2>1, <2>3
<1>5. CASE k # 0
  <2>. DEFINE x == SubSeq(path, a, k - 1) \o SubSeq(path, k + 1, n)
              t == MessagesOf(x)
              J == {i \in DOMAIN x : IsMessage(x[i])}
  <2>1. a \in 1..(n + 1) /\ k - 1 \in (a - 1)..n /\ k + 1 \in (k - 1 + 1)..(n + 1) /\ a \in 1..k
        /\ k - 1 + 1 = k
    BY <1>1, <1>5
  <2>2. (IF f \notin 1..k THEN <<>> ELSE SubSeq(path, f, k - 1)) = SubSeq(path, a, k - 1)
    <3>1. CASE f \in 1..k
      BY <3>1
    <3>2. CASE f \notin 1..k
      <4>1. a = k /\ SubSeq(path, a, k - 1) \in Seq(Entries)
            /\ Len(SubSeq(path, a, k - 1)) = k - 1 - a + 1
        BY <2>1, <3>2, SubSeqIs
      <4>2. Len(SubSeq(path, a, k - 1)) = 0
        BY <1>1, <4>1
      <4>. QED
        BY <3>2, <4>1, <4>2, EmptySeq
    <3>. QED
      BY <3>1, <3>2
  <2>3. Context(path) = <<path[k]>> \o t
    BY <1>3, <1>5, <2>2
  <2>. HIDE DEF a
  <2>4. x \in Seq(Entries) /\ \E h : PlacedBy(x, path, (a..(k - 1)) \cup ((k + 1)..n), h)
    BY <2>1, SlicesPlaced
  <2>5. t = Chosen(x, J)
    BY DEF MessagesOf
  <2>. HIDE DEF x
  <2>6. t \in Seq(Entries) /\ \E g : PlacedBy(t, x, J, g)
    <3>. HIDE DEF J, t
    <3>. QED
      BY <2>4, <2>5, ChosenPlaces
  <2>7. PICK h : PlacedBy(x, path, (a..(k - 1)) \cup ((k + 1)..n), h)
    BY <2>4
  <2>8. PICK g : PlacedBy(t, x, J, g)
    BY <2>6
  <2>9. Len(t) \in Nat /\ Len(x) \in Nat /\ DOMAIN x = 1..Len(x) /\ DOMAIN path \subseteq Nat
    <3>. HIDE DEF t
    <3>. QED
      BY <1>1, <2>4, <2>6, LenProperties
  <2>. DEFINE K == {h[i] : i \in {j \in 1..Len(x) : j \in J}}
              r == [i \in 1..Len(t) |-> h[g[i]]]
  <2>10. PlacedBy(t, path, K, r)
    <3>. HIDE DEF J, t
    <3>. QED
      BY <2>7, <2>8, <2>9, PlacedTwice
  <2>11. K = Told(path)
    <3>1. /\ \A i \in 1..Len(x) : /\ h[i] \in 1..n /\ x[i] = path[h[i]]
                                  /\ h[i] \in (a..(k - 1)) \cup ((k + 1)..n)
          /\ \A m \in 1..n : m \in (a..(k - 1)) \cup ((k + 1)..n) => \E i \in 1..Len(x) : h[i] = m
      BY <1>1, <2>7 DEF PlacedBy
    <3>2. \A m \in 1..n : m \in K <=>
             m \in (a..(k - 1)) \cup ((k + 1)..n) /\ IsMessage(path[m])
      BY <2>9, <3>1
    <3>3. K \subseteq 1..n
      BY <3>1
    <3>4. ASSUME NEW m \in 1..n
          PROVE  m \in (a..(k - 1)) \cup ((k + 1)..n) <=> m > k \/ (f # 0 /\ f <= m /\ m < k)
      BY <1>1, <1>5 DEF a
    <3>5. \A m \in 1..n : m \in Told(path) <=>
             IsMessage(path[m]) /\ (m > k \/ (f # 0 /\ f <= m /\ m < k))
      BY <1>2, <1>5 DEF ToldOf
    <3>6. Told(path) \subseteq 1..n
      BY <1>2 DEF ToldOf
    <3>. HIDE DEF K
    <3>. QED
      BY <3>2, <3>3, <3>4, <3>5, <3>6
  <2>. QED
    BY <1>5, <2>3, <2>6, <2>10, <2>11
<1>. QED
  BY <1>4, <1>5

(* The branch of the last entry of a chain is the chain.                   *)
LEMMA ChainIsBranch ==
    ASSUME NEW es \in Seq(Entries), Chain(es, 0)
    PROVE  GetBranch(es, LeafOf(es)) = es
<1>. DEFINE n  == Len(es)
            id == LeafOf(es)
<1>1. n \in Nat /\ n = Len(es)
  BY LenProperties
<1>2. PICK f : f = WalkTo(f, es, id, n) /\ GetBranch(es, id) = f[n].path
  BY <1>1, BranchUnfolds
<1>2a. id = IF n = 0 THEN 0 ELSE es[n].id
  <2>1. es = <<>> <=> n = 0
    BY EmptySeq
  <2>. QED
    BY <2>1 DEF LeafOf, Last
<1>2b. \A i \in 0..n :
          f[i] = IF i = 0 THEN [at |-> id, path |-> <<>>]
                 ELSE LET found == f[i - 1]
                          e     == es[n + 1 - i]
                      IN  IF e.id # found.at THEN found
                          ELSE [at |-> e.parent, path |-> <<e>> \o found.path]
  BY <1>1, <1>2 DEF WalkTo
<1>2c. \A i \in 1..n : es[i].parent = IF i = 1 THEN 0 ELSE es[i - 1].id
  BY DEF Chain
<1>. HIDE DEF n, id
<1>. DEFINE At(i)   == IF i = n THEN 0 ELSE es[n - i].id
            Good(i) == f[i] = [at |-> At(i), path |-> SubSeq(es, n + 1 - i, n)]
            Bad     == {i \in 0..n : ~Good(i)}
<1>3. ASSUME Bad # {} PROVE FALSE
  <2>1. PICK m \in Bad : \A k \in Bad : m <= k
    <3>1. Bad \in SUBSET Nat
      OBVIOUS
    <3>. HIDE DEF Bad
    <3>. QED
      BY <1>3, <3>1, LeastNumber
  <2>2. m \in 0..n /\ ~Good(m)
    BY <2>1
  <2>3. m # 0
    <3>1. id = At(0)
      BY <1>1, <1>2a
    <3>2. SubSeq(es, n + 1 - 0, n) = <<>>
      <4>1. n + 1 - 0 = n + 1 /\ n + 1 \in Int /\ n \in Int /\ n < n + 1
        BY <1>1
      <4>. QED
        BY <4>1, SubSeqEmpty
    <3>3. f[0] = [at |-> id, path |-> <<>>]
      <4>1. 0 \in 0..n
        BY <1>1
      <4>. QED
        BY <1>2b, <4>1
    <3>. HIDE DEF At
    <3>. QED
      BY <2>2, <3>1, <3>2, <3>3
  <2>4. m \in 1..n /\ m - 1 \in 0..n /\ ~(m <= m - 1)
    BY <1>1, <2>2, <2>3
  <2>5. Good(m - 1)
    <3>1. m - 1 \notin Bad
      <4>. HIDE DEF Bad
      <4>. QED
        BY <2>1, <2>4
    <3>. QED
      BY <2>4, <3>1
  <2>. DEFINE k == n + 1 - m
  <2>6. /\ k \in 1..n /\ n + 1 - (m - 1) = k + 1 /\ n - (m - 1) = k /\ m - 1 # n
        /\ n - m = k - 1 /\ (m = n <=> k = 1)
    BY <1>1, <2>4
  <2>7. f[m - 1] = [at |-> es[k].id, path |-> SubSeq(es, k + 1, n)]
    BY <2>5, <2>6
  <2>8. f[m] = [at |-> es[k].parent, path |-> <<es[k]>> \o SubSeq(es, k + 1, n)]
    <3>1. f[m] = LET found == f[m - 1]
                     e     == es[n + 1 - m]
                 IN  IF e.id # found.at THEN found
                     ELSE [at |-> e.parent, path |-> <<e>> \o found.path]
      BY <1>2b, <2>2, <2>3
    <3>. QED
      BY <2>7, <3>1
  <2>9. At(m) = es[k].parent
    BY <1>2c, <2>6
  <2>10. <<es[k]>> \o SubSeq(es, k + 1, n) = SubSeq(es, k, n)
    <3>1. k \in 1..Len(es) /\ n \in k..Len(es)
      BY <1>1, <2>6
    <3>. HIDE DEF k
    <3>. QED
      BY <3>1, SubSeqRecursiveFirst
  <2>11. f[m] = [at |-> At(m), path |-> SubSeq(es, k, n)]
    BY <2>8, <2>9, <2>10
  <2>. QED
    BY <2>2, <2>11
<1>4. n \in 0..n /\ n + 1 - n = 1
  BY <1>1
<1>5. f[n].path = SubSeq(es, 1, n)
  <2>1. Good(n)
    BY <1>3, <1>4
  <2>. HIDE DEF At
  <2>2. f[n] = [at |-> At(n), path |-> SubSeq(es, 1, n)]
    BY <1>4, <2>1
  <2>3. [at |-> At(n), path |-> SubSeq(es, 1, n)].path = SubSeq(es, 1, n)
    OBVIOUS
  <2>. QED
    BY <2>2, <2>3
<1>. QED
  BY <1>1, <1>2, <1>5, SubSeqFull DEF id

(* A copy tells of the same entries as the path it is copied from.         *)
LEMMA SameTold ==
    ASSUME NEW es \in Seq(Entries), NEW path \in Seq(Entries), NEW l, NEW c,
           CopiedFrom(es, path, l, c), ~CutAtLabel(path)
    PROVE  /\ LatestCompaction(es) = 0 <=> LatestCompaction(path) = 0
           /\ LatestCompaction(es) # 0 =>
                 LatestCompaction(es) \in 1..l /\ c[LatestCompaction(es)] = LatestCompaction(path)
           /\ Told(es) \subseteq 1..l /\ Told(path) \subseteq 1..Len(path)
           /\ \A j \in 1..l : j \in Told(es) <=> c[j] \in Told(path)
           /\ \A i \in Told(path) : \E j \in 1..l : c[j] = i
<1>. DEFINE n  == Len(path)
            m  == Len(es)
            k  == LatestCompaction(path)
            k2 == LatestCompaction(es)
            f  == FirstKept(path, k)
            f2 == FirstKept(es, k2)
<1>1. /\ n \in Nat /\ m \in Nat /\ l \in 0..m /\ l \in Nat
      /\ \A i \in 1..l : c[i] \in 1..n /\ i \in 1..m
  <2>1. l \in 0..m /\ c \in [1..l -> 1..n]
    BY DEF CopiedFrom
  <2>. QED
    BY <2>1, LenProperties
<1>2. \A i, j \in 1..l : i < j => c[i] < c[j]
  BY DEF CopiedFrom
<1>3. \A i \in 1..l : /\ es[i].id = path[c[i]].id /\ es[i].kind = path[c[i]].kind
                      /\ es[i].ref = path[c[i]].ref /\ es[i].kind \notin LabelKinds
  BY DEF CopiedFrom
<1>4. \A j \in 1..n : path[j].kind \notin LabelKinds => \E i \in 1..l : c[i] = j
  BY DEF CopiedFrom
<1>5. \A i \in 1..m : es[i].kind \notin LabelKinds => i \in 1..l
  <2>1. \A i \in (l + 1)..m : es[i].kind \in LabelKinds
    BY DEF CopiedFrom
  <2>. QED
    BY <1>1, <2>1
<1>6. /\ k \in 0..n
      /\ k # 0 => path[k].kind = "compaction"
      /\ \A i \in 1..n : path[i].kind = "compaction" => k # 0 /\ i <= k
  BY LastSelected
<1>7. /\ k2 \in 0..m
      /\ k2 # 0 => es[k2].kind = "compaction"
      /\ \A i \in 1..m : es[i].kind = "compaction" => k2 # 0 /\ i <= k2
  BY LastSelected
<1>8. /\ f \in 0..n
      /\ f # 0 => path[f].id = path[k].ref
      /\ \A i \in 1..n : path[i].id = path[k].ref => f # 0 /\ f <= i
  BY FirstSelected
<1>9. /\ f2 \in 0..m
      /\ f2 # 0 => es[f2].id = es[k2].ref
      /\ \A i \in 1..m : es[i].id = es[k2].ref => f2 # 0 /\ f2 <= i
  BY FirstSelected
<1>10. Told(path) = ToldOf(path, k, f) /\ Told(es) = ToldOf(es, k2, f2)
  BY DEF Told
<1>11. k # 0 /\ f # 0 => path[f].kind \notin LabelKinds
  BY DEF CutAtLabel, LabelKinds
<1>. HIDE DEF n, m, k, k2, f, f2
<1>12. \A i, j \in 1..l : i <= j <=> c[i] <= c[j]
  <2>1. ASSUME NEW i \in 1..l, NEW j \in 1..l PROVE i <= j <=> c[i] <= c[j]
    <3>1. c[i] \in Nat /\ c[j] \in Nat /\ i \in Nat /\ j \in Nat
      BY <1>1
    <3>2. (i < j => c[i] < c[j]) /\ (j < i => c[j] < c[i])
      BY <1>2
    <3>. QED
      BY <3>1, <3>2
  <2>. QED
    BY <2>1
<1>13. k2 # 0 => k2 \in 1..l /\ k # 0
  <2>1. ASSUME k2 # 0 PROVE k2 \in 1..l /\ k # 0
    <3>1. k2 \in 1..m /\ es[k2].kind = "compaction"
      BY <1>1, <1>7, <2>1
    <3>2. k2 \in 1..l
      BY <1>5, <3>1 DEF LabelKinds
    <3>3. c[k2] \in 1..n /\ path[c[k2]].kind = "compaction"
      BY <1>1, <1>3, <3>1, <3>2
    <3>. QED
      BY <1>6, <3>2, <3>3
  <2>. QED
    BY <2>1
<1>14. k # 0 => k2 # 0 /\ k2 \in 1..l /\ c[k2] = k
  <2>1. ASSUME k # 0 PROVE k2 # 0 /\ k2 \in 1..l /\ c[k2] = k
    <3>1. k \in 1..n /\ path[k].kind = "compaction"
      BY <1>1, <1>6, <2>1
    <3>2. PICK i \in 1..l : c[i] = k
      BY <1>4, <3>1 DEF LabelKinds
    <3>3. i \in 1..m /\ es[i].kind = "compaction"
      BY <1>1, <1>3, <3>1, <3>2
    <3>4. k2 # 0 /\ i <= k2
      BY <1>7, <3>3
    <3>5. k2 \in 1..l
      BY <1>13, <3>4
    <3>6. c[k2] \in 1..n /\ path[c[k2]].kind = "compaction"
      <4>1. es[k2].kind = "compaction"
        BY <1>7, <3>4
      <4>. QED
        BY <1>1, <1>3, <3>5, <4>1
    <3>7. c[k2] <= k /\ k <= c[k2]
      BY <1>6, <1>12, <3>2, <3>4, <3>5, <3>6
    <3>8. c[k2] = k
      BY <3>1, <3>6, <3>7
    <3>. QED
      BY <3>4, <3>5, <3>8
  <2>. QED
    BY <2>1
<1>15. ASSUME k # 0, NEW j \in 1..l, j <= k2, j # k2
       PROVE  f2 # 0 /\ f2 <= j <=> f # 0 /\ f <= c[j]
  <2>1. k2 # 0 /\ k2 \in 1..l /\ c[k2] = k /\ es[k2].ref = path[k].ref
    BY <1>3, <1>14, <1>15
  <2>2. ASSUME f # 0 PROVE f2 # 0 /\ f2 \in 1..l /\ c[f2] = f
    <3>1. f \in 1..n /\ path[f].id = path[k].ref /\ path[f].kind \notin LabelKinds
      BY <1>1, <1>8, <1>11, <1>15, <2>2
    <3>2. PICK i \in 1..l : c[i] = f
      BY <1>4, <3>1
    <3>3. i \in 1..m /\ es[i].id = es[k2].ref
      BY <1>1, <1>3, <2>1, <3>1, <3>2
    <3>4. f2 # 0 /\ f2 <= i /\ f2 \in 1..l /\ es[f2].id = path[k].ref
      BY <1>1, <1>9, <2>1, <3>3
    <3>5. c[f2] \in 1..n /\ path[c[f2]].id = path[k].ref
      BY <1>1, <1>3, <3>4
    <3>6. f <= c[f2] /\ c[f2] <= f
      BY <1>8, <1>12, <3>2, <3>4, <3>5
    <3>. QED
      BY <3>1, <3>4, <3>5, <3>6
  <2>3. ASSUME f2 # 0, f2 <= j PROVE f # 0
    <3>1. f2 \in 1..l /\ es[f2].id = path[k].ref
      BY <1>1, <1>9, <2>1, <2>3
    <3>2. c[f2] \in 1..n /\ path[c[f2]].id = path[k].ref
      BY <1>1, <1>3, <3>1
    <3>. QED
      BY <1>8, <3>2
  <2>4. CASE f = 0
    BY <2>3, <2>4
  <2>5. CASE f # 0
    BY <1>12, <2>2, <2>5
  <2>. QED
    BY <2>4, <2>5
<1>16. \A i \in 1..m : i \in Told(es) <=>
          IsMessage(es[i]) /\ (k2 = 0 \/ i > k2 \/ (f2 # 0 /\ f2 <= i /\ i < k2))
  BY <1>10 DEF ToldOf, m
<1>17. \A i \in 1..n : i \in Told(path) <=>
          IsMessage(path[i]) /\ (k = 0 \/ i > k \/ (f # 0 /\ f <= i /\ i < k))
  BY <1>10 DEF ToldOf, n
<1>18. Told(es) \subseteq 1..m /\ Told(path) \subseteq 1..n
  BY <1>10 DEF ToldOf, m, n
<1>19. \A e : IsMessage(e) => e.kind \notin LabelKinds
  BY DEF IsMessage, LabelKinds
<1>20. Told(es) \subseteq 1..l
  BY <1>5, <1>16, <1>18, <1>19
<1>21. \A i \in Told(path) : \E j \in 1..l : c[j] = i
  BY <1>4, <1>17, <1>18, <1>19
<1>22. ASSUME NEW j \in 1..l PROVE j \in Told(es) <=> c[j] \in Told(path)
  <2>1. j \in 1..m /\ c[j] \in 1..n
    BY <1>1
  <2>2. IsMessage(es[j]) <=> IsMessage(path[c[j]])
    BY <1>3 DEF IsMessage
  <2>3. CASE k = 0
    BY <1>13, <1>16, <1>17, <2>1, <2>2, <2>3
  <2>4. CASE k # 0
    <3>1. k2 # 0 /\ k2 \in 1..l /\ c[k2] = k
      BY <1>14, <2>4
    <3>2. j <= k2 <=> c[j] <= k
      BY <1>12, <3>1
    <3>3. k2 <= j <=> k <= c[j]
      BY <1>12, <3>1
    <3>4. (j > k2 <=> c[j] > k) /\ (j < k2 <=> c[j] < k) /\ (j < k2 => j <= k2 /\ j # k2)
      BY <1>1, <1>6, <2>1, <3>1, <3>2, <3>3
    <3>5. (f2 # 0 /\ f2 <= j /\ j < k2) <=> (f # 0 /\ f <= c[j] /\ c[j] < k)
      BY <1>15, <2>4, <3>4
    <3>. QED
      BY <1>16, <1>17, <2>1, <2>2, <2>4, <3>1, <3>4, <3>5
  <2>. QED
    BY <2>3, <2>4
<1>. QED
  BY <1>13, <1>14, <1>18, <1>20, <1>21, <1>22 DEF k, k2, n

(* So what the copy shows is what the path shows.                          *)
LEMMA SameContext ==
    ASSUME NEW es \in Seq(Entries), NEW path \in Seq(Entries), NEW l, NEW c,
           CopiedFrom(es, path, l, c), ~CutAtLabel(path)
    PROVE  /\ DOMAIN Context(es) = DOMAIN Context(path)
           /\ \A i \in DOMAIN Context(es) : Context(es)[i].id = Context(path)[i].id
<1>. DEFINE k  == LatestCompaction(path)
            k2 == LatestCompaction(es)
<1>1. /\ k2 = 0 <=> k = 0
      /\ k2 # 0 => k2 \in 1..l /\ c[k2] = k
      /\ Told(es) \subseteq 1..l /\ Told(path) \subseteq 1..Len(path)
      /\ \A j \in 1..l : j \in Told(es) <=> c[j] \in Told(path)
      /\ \A i \in Told(path) : \E j \in 1..l : c[j] = i
  BY SameTold
<1>2. k2 \in 0..Len(es) /\ k \in 0..Len(path) /\ Len(es) \in Nat /\ Len(path) \in Nat
      /\ DOMAIN es = 1..Len(es) /\ DOMAIN path = 1..Len(path)
  BY LastSelected, LenProperties
<1>3. /\ \A i \in 1..l : i \in 1..Len(es) /\ c[i] \in 1..Len(path) /\ es[i].id = path[c[i]].id
      /\ \A i, j \in 1..l : i < j => c[i] < c[j]
      /\ l \in Nat
  BY <1>2 DEF CopiedFrom
<1>4. PICK t2 \in Seq(Entries) : \E h :
         PlacedBy(t2, es, Told(es), h) /\ Context(es) = IF k2 = 0 THEN t2 ELSE <<es[k2]>> \o t2
  <2>1. k2 = LatestCompaction(es)
    OBVIOUS
  <2>. HIDE DEF k2
  <2>. QED
    BY <2>1, ContextIs
<1>5. PICK t \in Seq(Entries) : \E h :
         PlacedBy(t, path, Told(path), h)
         /\ Context(path) = IF k = 0 THEN t ELSE <<path[k]>> \o t
  <2>1. k = LatestCompaction(path)
    OBVIOUS
  <2>. HIDE DEF k
  <2>. QED
    BY <2>1, ContextIs
<1>6. PICK h2 : PlacedBy(t2, es, Told(es), h2)
  BY <1>4
<1>7. PICK h : PlacedBy(t, path, Told(path), h)
  BY <1>5
<1>8. /\ \A i \in 1..Len(t2) : h2[i] \in Told(es) /\ t2[i] = es[h2[i]]
      /\ \A i, j \in 1..Len(t2) : i < j => h2[i] < h2[j]
      /\ \A j \in 1..Len(es) : j \in Told(es) => \E i \in 1..Len(t2) : h2[i] = j
  BY <1>2, <1>6 DEF PlacedBy
<1>9. /\ \A i \in 1..Len(t) : h[i] \in Told(path) /\ t[i] = path[h[i]]
      /\ \A i, j \in 1..Len(t) : i < j => h[i] < h[j]
      /\ \A j \in 1..Len(path) : j \in Told(path) => \E i \in 1..Len(t) : h[i] = j
      /\ h \in [1..Len(t) -> 1..Len(path)]
  BY <1>2, <1>7 DEF PlacedBy
<1>10. Len(t) \in Nat /\ Len(t2) \in Nat
  BY LenProperties
<1>11. /\ Context(es) = IF k2 = 0 THEN t2 ELSE <<es[k2]>> \o t2
       /\ Context(path) = IF k = 0 THEN t ELSE <<path[k]>> \o t
  BY <1>4, <1>5
<1>. HIDE DEF k, k2
<1>. DEFINE m == Len(t2)
            n == Len(t)
            g == [i \in 1..m |-> c[h2[i]]]
<1>12. m = n /\ \A i \in 1..m : g[i] = h[i]
  <2>. HIDE DEF m, n
  <2>1. g \in [1..m -> Nat] /\ \A i \in 1..m : g[i] = c[h2[i]]
    <3>1. \A i \in 1..m : c[h2[i]] \in Nat
      BY <1>1, <1>3, <1>8 DEF m
    <3>. QED
      BY <3>1
  <2>2. h \in [1..n -> Nat]
    <3>1. h \in [1..n -> 1..Len(path)] /\ 1..Len(path) \subseteq Nat
      BY <1>9 DEF n
    <3>2. h = [i \in 1..n |-> h[i]] /\ \A i \in 1..n : h[i] \in Nat
      BY <3>1
    <3>. QED
      BY <3>2
  <2>. HIDE DEF g
  <2>3. \A i, j \in 1..m : i < j => g[i] < g[j]
    <3>1. ASSUME NEW i \in 1..m, NEW j \in 1..m, i < j PROVE c[h2[i]] < c[h2[j]]
      <4>1. h2[i] \in 1..l /\ h2[j] \in 1..l /\ h2[i] < h2[j]
        BY <1>1, <1>8, <3>1 DEF m
      <4>. QED
        BY <1>3, <4>1
    <3>. QED
      BY <2>1, <3>1
  <2>4. \A i, j \in 1..n : i < j => h[i] < h[j]
    BY <1>9 DEF n
  <2>5. \A i \in 1..m : \E j \in 1..n : h[j] = g[i]
    <3>1. ASSUME NEW i \in 1..m PROVE \E j \in 1..n : h[j] = g[i]
      <4>1. h2[i] \in 1..l /\ g[i] = c[h2[i]] /\ c[h2[i]] \in Told(path)
        BY <1>1, <1>8, <2>1 DEF m
      <4>2. g[i] \in Told(path) /\ g[i] \in 1..Len(path)
        BY <1>1, <4>1
      <4>. QED
        BY <1>9, <4>2 DEF n
    <3>. QED
      BY <3>1
  <2>6. \A j \in 1..n : \E i \in 1..m : g[i] = h[j]
    <3>1. ASSUME NEW j \in 1..n PROVE \E i \in 1..m : g[i] = h[j]
      <4>1. h[j] \in Told(path)
        BY <1>9 DEF n
      <4>2. PICK a \in 1..l : c[a] = h[j]
        BY <1>1, <4>1
      <4>3. a \in Told(es) /\ a \in 1..Len(es)
        BY <1>1, <1>3, <4>1, <4>2
      <4>4. PICK i \in 1..m : h2[i] = a
        BY <1>8, <4>3 DEF m
      <4>. QED
        BY <2>1, <4>2, <4>4
    <3>. QED
      BY <3>1
  <2>7. m \in Nat /\ n \in Nat
    BY <1>10 DEF m, n
  <2>8. Ascends(g, m) /\ Ascends(h, n)
    BY <2>1, <2>2, <2>3, <2>4 DEF Ascends
  <2>9. Covered(g, m, h, n) /\ Covered(h, n, g, m)
    BY <2>5, <2>6 DEF Covered
  <2>. QED
    BY ONLY <2>7, <2>8, <2>9, ListedOnce
<1>13. ASSUME NEW i \in 1..m PROVE t2[i].id = t[i].id
  <2>1. h2[i] \in 1..l /\ t2[i] = es[h2[i]]
    BY <1>1, <1>8
  <2>2. g[i] = c[h2[i]] /\ g[i] = h[i]
    BY <1>12
  <2>3. t[i] = path[h[i]]
    BY <1>9, <1>12
  <2>. HIDE DEF g
  <2>. QED
    BY <1>3, <2>1, <2>2, <2>3
<1>14. m \in Nat /\ m = Len(t2) /\ m = Len(t)
  BY <1>10, <1>12
<1>. HIDE DEF m, n, g
<1>15. CASE k = 0
  <2>1. Context(es) = t2 /\ Context(path) = t
    BY <1>1, <1>11, <1>15 DEF k, k2
  <2>2. DOMAIN t2 = 1..m /\ DOMAIN t = 1..m
    BY <1>14, LenProperties
  <2>. QED
    BY <1>13, <2>1, <2>2
<1>16. CASE k # 0
  <2>1. k2 # 0 /\ k2 \in 1..l /\ c[k2] = k
    BY <1>1, <1>16 DEF k, k2
  <2>2. Context(es) = <<es[k2]>> \o t2 /\ Context(path) = <<path[k]>> \o t
    BY <1>11, <1>16, <2>1
  <2>3. es[k2] \in Entries /\ path[k] \in Entries /\ es[k2].id = path[k].id
    <3>1. k2 \in 1..Len(es) /\ k \in 1..Len(path)
      BY <1>2, <1>3, <1>16, <2>1
    <3>2. es[k2] \in Entries /\ path[k] \in Entries
      BY <3>1, LenProperties
    <3>. QED
      BY <1>3, <2>1, <3>2
  <2>4. \A e \in Entries, s \in Seq(Entries) :
           /\ DOMAIN (<<e>> \o s) = 1..(Len(s) + 1)
           /\ \A i \in 1..(Len(s) + 1) : (<<e>> \o s)[i] = IF i = 1 THEN e ELSE s[i - 1]
    <3>1. ASSUME NEW e \in Entries, NEW s \in Seq(Entries)
          PROVE  /\ DOMAIN (<<e>> \o s) = 1..(Len(s) + 1)
                 /\ \A i \in 1..(Len(s) + 1) : (<<e>> \o s)[i] = IF i = 1 THEN e ELSE s[i - 1]
      <4>. DEFINE o == <<e>>
                  u == o \o s
      <4>1. o \in Seq(Entries) /\ Len(o) = 1 /\ o[1] = e /\ Len(s) \in Nat
        BY LenProperties
      <4>. HIDE DEF o
      <4>2. /\ u \in Seq(Entries) /\ Len(u) = Len(o) + Len(s)
            /\ \A i \in 1..(Len(o) + Len(s)) : u[i] = IF i <= Len(o) THEN o[i] ELSE s[i - Len(o)]
        BY <4>1, ConcatProperties
      <4>. HIDE DEF u
      <4>3. DOMAIN u = 1..(Len(s) + 1)
        BY <4>1, <4>2, LenProperties
      <4>4. \A i \in 1..(Len(s) + 1) : u[i] = IF i = 1 THEN e ELSE s[i - 1]
        BY <4>1, <4>2
      <4>. QED
        BY <4>3, <4>4 DEF u, o
    <3>. QED
      BY <3>1
  <2>5. /\ DOMAIN Context(es) = 1..(m + 1) /\ DOMAIN Context(path) = 1..(m + 1)
        /\ \A i \in 1..(m + 1) : /\ Context(es)[i] = IF i = 1 THEN es[k2] ELSE t2[i - 1]
                                 /\ Context(path)[i] = IF i = 1 THEN path[k] ELSE t[i - 1]
    <3>1. /\ DOMAIN (<<es[k2]>> \o t2) = 1..(Len(t2) + 1)
          /\ \A i \in 1..(Len(t2) + 1) :
                (<<es[k2]>> \o t2)[i] = IF i = 1 THEN es[k2] ELSE t2[i - 1]
      BY <2>3, <2>4
    <3>2. /\ DOMAIN (<<path[k]>> \o t) = 1..(Len(t) + 1)
          /\ \A i \in 1..(Len(t) + 1) :
                (<<path[k]>> \o t)[i] = IF i = 1 THEN path[k] ELSE t[i - 1]
      BY <2>3, <2>4
    <3>. QED
      BY <1>14, <2>2, <3>1, <3>2
  <2>6. ASSUME NEW i \in 1..(m + 1) PROVE Context(es)[i].id = Context(path)[i].id
    <3>1. CASE i = 1
      BY <2>3, <2>5, <3>1
    <3>2. CASE i # 1
      <4>1. i - 1 \in 1..m
        BY <1>14, <3>2
      <4>. QED
        BY <1>13, <2>5, <3>2, <4>1
    <3>. QED
      BY <3>1, <3>2
  <2>. QED
    BY <2>5, <2>6
<1>. QED
  BY <1>15, <1>16

(* A fork, and the entry it was made at.                                   *)
LEMMA ForkShows ==
    ASSUME Consistent, NEW id \in Ids(fileEntries), createBranchedSession, running',
           fileEntries' = BranchedEntries(id), ~CutAtLabel(GetBranch(fileEntries, id))
    PROVE  Shown(fileEntries', leafId') = Shown(fileEntries, id)
<1>. DEFINE es   == BranchedEntries(id)
            path == GetBranch(fileEntries, id)
<1>1. leafId' = LeafOf(fileEntries')
  BY DEF createBranchedSession, Down
<1>2. /\ es \in Seq(Entries) /\ Chain(es, 0)
      /\ \E l, c : CopiedFrom(es, path, l, c)
  <2>1. lastId \in Nat /\ fileEntries \in Seq(Entries) /\ OneEach(fileEntries)
        /\ \A i \in 1..Len(fileEntries) : fileEntries[i].id \in 1..lastId
    BY ConsistentIs, SessionIs, IdsIn
  <2>. QED
    BY <2>1, BranchedIs
<1>3. path \in Seq(Entries)
  BY ConsistentIs, BranchIs
<1>. HIDE DEF es, path
<1>4. GetBranch(es, LeafOf(es)) = es
  BY <1>2, ChainIsBranch
<1>5. PICK l, c : CopiedFrom(es, path, l, c)
  BY <1>2
<1>6. /\ DOMAIN Context(es) = DOMAIN Context(path)
      /\ \A i \in DOMAIN Context(es) : Context(es)[i].id = Context(path)[i].id
  BY <1>2, <1>3, <1>5, SameContext DEF path
<1>7. /\ BuildSessionContext(es, LeafOf(es)) = Context(es)
      /\ BuildSessionContext(fileEntries, id) = Context(path)
  BY <1>4, ContextOf DEF path
<1>8. Shown(es, LeafOf(es)) = Shown(fileEntries, id)
  BY <1>6, <1>7 DEF Shown
<1>. QED
  BY <1>1, <1>8 DEF es

(* A fork shows the model what it was shown at the entry the fork was made *)
(* at, whatever was compacted and labelled on the way there, unless what   *)
(* the compaction keeps begins with a label entry: then the fork has lost  *)
(* its place, and that is the only way to lose it.  createBranchedSession  *)
(* and buildSessionContext.                                                *)
THEOREM UncutForkShowsTheSame == Tears = FALSE => (Spec => ForkKeepsUncut)
<1>. SUFFICES ASSUME Tears = FALSE PROVE Spec => ForkKeepsUncut
  OBVIOUS
<1>1. Init => Consistent
  BY InitConsistent
<1>2. Consistent /\ [Next]_vars => Consistent'
  BY NextConsistent
<1>3. Consistent /\ [Next]_vars
         => [\A id \in Ids(fileEntries) :
               /\ createBranchedSession /\ running' /\ fileEntries' = BranchedEntries(id)
               /\ ~CutAtLabel(GetBranch(fileEntries, id))
               => Shown(fileEntries', leafId') = Shown(fileEntries, id)]_vars
  BY ForkShows
<1>. QED
  BY <1>1, <1>2, <1>3, PTL DEF Spec, ForkKeepsUncut

=============================================================================
