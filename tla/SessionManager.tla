--------------------------- MODULE SessionManager ---------------------------
(***************************************************************************)
(* SessionManager of packages/coding-agent/src/core/session-manager.ts:    *)
(* the sessions of the coding agent as trees of entries, kept in memory    *)
(* and in one file per session.  The file of a new session is created when *)
(* the first answer is appended; from then on each entry is appended to    *)
(* it.  Branching moves the leaf in memory only, forking copies a path to  *)
(* a new file.  A file that an earlier version of the program wrote is     *)
(* rewritten in place when it is opened.                                   *)
(*                                                                         *)
(* All of it is synchronous, so an action is a whole call; what can come   *)
(* between is the end of the process, in the middle of a write too, and a  *)
(* write that throws.                                                      *)
(***************************************************************************)
EXTENDS Naturals, FiniteSets, SequencesExt, Selections

CONSTANTS
    Kinds,       \* the entries that are appended
    Tears,       \* whether a write that does not finish may leave part of a line
    MaxEntries,  \* bound: ids given to entries
    MaxFiles,    \* bound: session files
    MaxCrashes,  \* bound: processes that end
    MaxFailures  \* bound: writes that throw

(* "user" stands for every message that is not an answer.                  *)
EntryKinds == {"user", "assistant", "label", "branch_summary", "compaction"}

ASSUME KindAssumption  == Kinds \subseteq EntryKinds /\ Tears \in BOOLEAN
ASSUME BoundAssumption ==
    MaxFiles \in Nat \ {0} /\ {MaxEntries, MaxCrashes, MaxFailures} \subseteq Nat

VARIABLES
    fileEntries,  \* entries in memory, in the order of their creation
    leafId,       \* entry the next one is appended to, 0 for none
    labelsById,   \* entries that have a label
    flushed,      \* whether the file has what the memory has
    sessionFile,  \* the file of this session
    running,      \* whether the process runs
    files,        \* what is on disk: each file's lines, the last one ended or not
    outdated,     \* files whose header names an earlier version of the format
    failed,       \* history: a write of the open session has thrown
    lastId, crashes, failures  \* counters

memory   == <<fileEntries, leafId, labelsById, flushed, sessionFile, running, failed>>
vars     == <<memory, files, outdated, lastId, crashes, failures>>
Files    == 1..MaxFiles

-----------------------------------------------------------------------------
(* Faults: what some of the definitions below would be with a bug, to see  *)
(* that the properties find it.  No definition uses them.                  *)
LabelsDropped(path)        ==
    Chosen(path, {i \in DOMAIN path : path[i].kind \notin {"label", "unlabel"}})
FlushedAnyway(es, outcome) == TRUE

-----------------------------------------------------------------------------
(* Entries, and the lines of a file.                                       *)

Entry(kind, id, parent, ref) == [kind |-> kind, id |-> id, parent |-> parent, ref |-> ref]
Header == Entry("session", 0, 0, 0)
Junk   == Entry("junk", 0, 0, 0)  \* a line that JSON.parse rejects
NoFile == [exists |-> FALSE, lines |-> <<>>, open |-> FALSE]

(* A write continues an open last line, and what results is no entry.      *)
Extended(file, ls) ==
    [exists |-> TRUE,
     lines  |-> IF file.open /\ ls # <<>>
                THEN Front(file.lines) \o <<Junk>> \o Tail(ls)
                ELSE file.lines \o ls,
     open   |-> file.open /\ ls = <<>>]

Torn(file, line) ==
    {[Extended(file, <<l>>) EXCEPT !.open = TRUE] : l \in {line, Junk}}

(* A write that does not finish: some lines, and maybe part of the next.   *)
Parts(file, ls) ==
    LET first(k) == Extended(file, SubSeq(ls, 1, k))
        Cut      == 0..(Len(ls) - 1)
    IN  {first(k) : k \in Cut}
        \cup IF Tears THEN UNION {Torn(first(k), ls[k + 1]) : k \in Cut} ELSE {}

Interruptions ==
    (IF crashes < MaxCrashes THEN {"crash"} ELSE {})
        \cup (IF failures < MaxFailures THEN {"failure"} ELSE {})

Written(file, ls) ==
    {[file |-> Extended(file, ls), outcome |-> "done"]}
        \cup [file : Parts(file, ls), outcome : Interruptions]

Counted(outcome) ==
    /\ crashes'  = IF outcome = "crash" THEN crashes + 1 ELSE crashes
    /\ failures' = IF outcome = "failure" THEN failures + 1 ELSE failures

(* loadEntriesFromFile: lines that cannot be parsed are skipped, a file    *)
(* that does not begin with a header has no entries.                       *)
Loaded(file) ==
    LET ls == Chosen(file.lines, {i \in DOMAIN file.lines : file.lines[i] # Junk})
    IN  IF ls # <<>> /\ Head(ls) = Header THEN ls ELSE <<>>

-----------------------------------------------------------------------------
Ids(es)        == {es[i].id : i \in DOMAIN es}
IsMessage(e)   == e.kind \in {"user", "assistant", "branch_summary"}
HasAssistant(es) == \E i \in DOMAIN es : es[i].kind = "assistant"
LeafOf(es)     == IF es = <<>> THEN 0 ELSE Last(es).id

(* _buildIndex: the last label entry of an entry tells whether it has one. *)
LabelsOf(es) ==
    LET Labels == {i \in DOMAIN es : es[i].kind \in {"label", "unlabel"}}
    IN  {es[i].ref : i \in {j \in Labels :
            es[j].kind = "label" /\ \A k \in Labels : es[k].ref = es[j].ref => k <= j}}

(* getBranch: from an entry to its root.  A parent is older than its       *)
(* children, so that the entries are gone through once, from the newest.   *)
GetBranch(es, id) ==
    LET walk[i \in 0..Len(es)] ==
            IF i = 0 THEN [at |-> id, path |-> <<>>]
            ELSE LET found == walk[i - 1]
                     e     == es[Len(es) + 1 - i]
                 IN  IF e.id # found.at THEN found
                     ELSE [at |-> e.parent, path |-> <<e>> \o found.path]
    IN  walk[Len(es)].path

(* buildSessionContext: the messages of the branch, or the latest summary, *)
(* what it keeps and what follows it.                                      *)
MessagesOf(path) == Chosen(path, {i \in DOMAIN path : IsMessage(path[i])})

LatestCompaction(path) == SelectLastInSeq(path, LAMBDA e : e.kind = "compaction")
FirstKept(path, k)     == SelectInSeq(path, LAMBDA e : e.id = path[k].ref)

BuildSessionContext(es, id) ==
    LET path == GetBranch(es, id)
        k    == LatestCompaction(path)
        kept == IF k = 0 \/ FirstKept(path, k) \notin 1..k
                THEN <<>> ELSE SubSeq(path, FirstKept(path, k), k - 1)
    IN  IF k = 0 THEN MessagesOf(path)
        ELSE <<path[k]>> \o MessagesOf(kept \o SubSeq(path, k + 1, Len(path)))

(* prepareCompaction: what may be kept first.  The cut is at a message and *)
(* moves back over the entries before it that are none.                    *)
CutsFrom(path) ==
    LET k     == LatestCompaction(path)
        start == IF k = 0 THEN 1
                 ELSE IF FirstKept(path, k) # 0 THEN FirstKept(path, k) ELSE k + 1
        Cuts  == {i \in start..Len(path) : IsMessage(path[i])}
        BackFrom(i) == CHOOSE c \in start..i :
            /\ \A j \in c..(i - 1) : path[j].kind \notin {"user", "assistant", "compaction"}
            /\ c > start => path[c - 1].kind \in {"user", "assistant", "compaction"}
    IN  IF path = <<>> \/ k = Len(path) THEN {} ELSE {path[BackFrom(i)].id : i \in Cuts}

-----------------------------------------------------------------------------
Init ==
    /\ fileEntries = <<>> /\ leafId = 0 /\ labelsById = {} /\ flushed = FALSE
    /\ sessionFile = 1 /\ running = TRUE /\ failed = FALSE
    /\ files = [f \in Files |-> NoFile] /\ outdated = {}
    /\ lastId = 0 /\ crashes = 0 /\ failures = 0

Down ==
    /\ fileEntries' = <<>> /\ leafId' = 0 /\ labelsById' = {} /\ flushed' = FALSE
    /\ running' = FALSE /\ failed' = FALSE /\ UNCHANGED sessionFile

(* _persist: nothing until there is an answer; then a new file, which must *)
(* not exist, with all entries; then one line each.                        *)
Overwritten(file, ls) == Written(NoFile, ls)  \* a fault: flag "w" instead of "wx"

Created(file, ls) ==
    IF file.exists THEN {[file |-> file, outcome |-> "refused"]} ELSE Written(file, ls)

Persisted(es) ==
    LET file == files[sessionFile]
    IN  IF ~flushed /\ ~HasAssistant(es)
        THEN {[file |-> file, outcome |-> "deferred"]}
        ELSE IF flushed THEN Written(file, <<Last(es)>>)
        ELSE Created(file, <<Header>> \o es)

(* _appendEntry: the entry is in memory before it is written.              *)
AppendEntry(kind, parent, ref, labels) ==
    /\ running /\ lastId < MaxEntries /\ lastId' = lastId + 1 /\ UNCHANGED outdated
    /\ LET es == Append(fileEntries, Entry(kind, lastId + 1, parent, ref))
       IN  \E w \in Persisted(es) :
             /\ files' = [files EXCEPT ![sessionFile] = w.file]
             /\ Counted(w.outcome)
             /\ IF w.outcome = "crash" THEN Down
                ELSE /\ fileEntries' = es /\ leafId' = lastId + 1
                     /\ flushed' = (flushed \/ w.outcome = "done")
                     /\ failed' = (failed \/ w.outcome \in {"failure", "refused"})
                     /\ labelsById' = IF w.outcome \in {"done", "deferred"}
                                      THEN labels ELSE labelsById
                     /\ UNCHANGED <<sessionFile, running>>

appendMessage ==
    \E kind \in Kinds \cap {"user", "assistant"} : AppendEntry(kind, leafId, 0, labelsById)

appendLabelChange ==
    /\ "label" \in Kinds
    /\ \E target \in Ids(fileEntries) :
         \/ AppendEntry("label", leafId, target, labelsById \cup {target})
         \/ target \in labelsById
            /\ AppendEntry("unlabel", leafId, target, labelsById \ {target})

appendCompaction ==
    /\ "compaction" \in Kinds
    /\ \E first \in CutsFrom(GetBranch(fileEntries, leafId)) :
         AppendEntry("compaction", leafId, first, labelsById)

branchWithSummary ==
    /\ "branch_summary" \in Kinds
    /\ \E id \in Ids(fileEntries) \cup {0} : AppendEntry("branch_summary", id, 0, labelsById)

(* branch and resetLeaf.                                                   *)
branch ==
    /\ running
    /\ \E id \in (Ids(fileEntries) \cup {0}) \ {leafId} : leafId' = id
    /\ UNCHANGED <<fileEntries, labelsById, flushed, sessionFile, running, failed,
                   files, outdated, lastId, crashes, failures>>

(* The name of a new session's file is new.                                *)
NewFiles == {f \in Files : ~files[f].exists /\ f # sessionFile}

newSession ==
    /\ running /\ NewFiles # {}
    /\ sessionFile' = CHOOSE f \in NewFiles : \A g \in NewFiles : f <= g
    /\ fileEntries' = <<>> /\ leafId' = 0 /\ labelsById' = {} /\ flushed' = FALSE
    /\ failed' = FALSE
    /\ UNCHANGED <<running, files, outdated, lastId, crashes, failures>>

(* createBranchedSession: the path without its label entries, chained      *)
(* anew, and the labels that apply to it at the end: here in the order of  *)
(* the path, in the code in that of a Map.                                 *)
Rechained(es, parent) ==
    [i \in DOMAIN es |-> [es[i] EXCEPT !.parent = IF i = 1 THEN parent ELSE es[i - 1].id]]

WithoutLabels(path) ==
    Rechained(Chosen(path, {i \in DOMAIN path : path[i].kind \notin {"label", "unlabel"}}), 0)

LabelEntries(path) ==
    LET labelled == Chosen(path, {i \in DOMAIN path : path[i].id \in labelsById})
    IN  Rechained([i \in DOMAIN labelled |-> Entry("label", lastId + i, 0, labelled[i].id)],
                  LeafOf(path))

BranchedEntries(id) ==
    LET path == WithoutLabels(GetBranch(fileEntries, id))
    IN  path \o LabelEntries(path)

(* _rewriteFile has been called and has returned, or not been called.      *)
FlushedAfter(es, outcome) ==
    IF HasAssistant(es) THEN flushed \/ outcome = "done" ELSE FALSE

createBranchedSession ==
    /\ running /\ NewFiles # {} /\ UNCHANGED outdated
    /\ \E id \in Ids(fileEntries), f \in NewFiles :
         /\ \A g \in NewFiles : f <= g
         /\ LET es == BranchedEntries(id)
                Results == IF HasAssistant(es) THEN Written(NoFile, <<Header>> \o es)
                           ELSE {[file |-> NoFile, outcome |-> "deferred"]}
            IN  /\ LeafOf(es) <= MaxEntries
                /\ lastId' = IF es = <<>> \/ LeafOf(es) < lastId THEN lastId ELSE LeafOf(es)
                /\ \E w \in Results :
                     /\ files' = [files EXCEPT ![f] = w.file]
                     /\ Counted(w.outcome)
                     /\ IF w.outcome = "crash" THEN Down
                        ELSE /\ fileEntries' = es /\ leafId' = LeafOf(es)
                             /\ labelsById' = LabelsOf(es)
                             /\ flushed' = FlushedAfter(es, w.outcome)
                             /\ failed' = (w.outcome = "failure")
                             /\ sessionFile' = f
                             /\ UNCHANGED running

-----------------------------------------------------------------------------
(* The process ends, and another one opens a session or forks one.         *)

Exit ==
    /\ running /\ crashes < MaxCrashes /\ crashes' = crashes + 1
    /\ Down
    /\ UNCHANGED <<files, outdated, lastId, failures>>

(* A later version of the program, with another CURRENT_SESSION_VERSION,   *)
(* takes the place of the one that wrote the files.                        *)
Upgrade ==
    /\ ~running /\ outdated' = {f \in Files : files[f].exists}
    /\ UNCHANGED <<memory, files, lastId, crashes, failures>>

Opened(f, es, isFlushed) ==
    /\ running' = TRUE /\ failed' = FALSE
    /\ sessionFile' = f /\ flushed' = isFlushed
    /\ fileEntries' = es /\ leafId' = LeafOf(es) /\ labelsById' = LabelsOf(es)

(* _rewriteFile of a file that is there: it is truncated, and then written *)
(* line by line.  If that does not finish, the command has failed.         *)
Rewritten(f, es) ==
    \E w \in Written([NoFile EXCEPT !.exists = TRUE], <<Header>> \o es) :
      /\ files' = [files EXCEPT ![f] = w.file]
      /\ Counted(w.outcome)
      /\ IF w.outcome = "done" THEN Opened(f, es, TRUE) ELSE Down

(* setSessionFile: a file that does not exist will be created with the     *)
(* first answer, a file without a header is started afresh, and the        *)
(* entries of an outdated one are migrated.  The migration from version 2  *)
(* keeps ids, parents and the kinds told apart here.                       *)
Migrated(f) == f \in outdated

open(f) ==
    /\ ~running
    /\ CASE ~files[f].exists ->
              f = sessionFile /\ Opened(f, <<>>, FALSE)
              /\ UNCHANGED <<files, crashes, failures>>
         [] files[f].exists /\ Loaded(files[f]) = <<>> -> Rewritten(f, <<>>)
         [] Loaded(files[f]) # <<>> /\ Migrated(f) -> Rewritten(f, Tail(Loaded(files[f])))
         [] OTHER ->
              Opened(f, Tail(Loaded(files[f])), TRUE) /\ UNCHANGED <<files, crashes, failures>>
    /\ outdated' = outdated \ {f}
    /\ UNCHANGED lastId

(* The copy has a new header and the entries as they are.                  *)
forkFrom(source) ==
    /\ ~running /\ Loaded(files[source]) # <<>>
    /\ \E f \in NewFiles, w \in Written(NoFile, Loaded(files[source])) :
         /\ \A g \in NewFiles : f <= g
         /\ files' = [files EXCEPT ![f] = w.file]
         /\ Counted(w.outcome)
         /\ IF w.outcome = "done" THEN Opened(f, Tail(Loaded(w.file)), TRUE) ELSE Down
    /\ UNCHANGED <<outdated, lastId>>

Next ==
    \/ appendMessage \/ appendLabelChange \/ appendCompaction \/ branchWithSummary
    \/ branch \/ newSession \/ createBranchedSession
    \/ Exit \/ Upgrade
    \/ \E f \in Files : open(f) \/ forkFrom(f)

Spec == Init /\ [][Next]_vars

-----------------------------------------------------------------------------
(* Type invariant.  Entries have distinct ids and, if no write has failed, *)
(* each is appended to one that is older or to none; what has a label is   *)
(* what the label entries say.                                             *)
TypeOK ==
    /\ sessionFile \in Files /\ running \in BOOLEAN /\ failed \in BOOLEAN
    /\ outdated \subseteq Files
    /\ lastId \in 0..MaxEntries /\ crashes \in 0..MaxCrashes /\ failures \in 0..MaxFailures
    /\ IsInjective([i \in DOMAIN fileEntries |-> fileEntries[i].id])
    /\ leafId \in Ids(fileEntries) \cup {0}
    /\ ~failed => labelsById = LabelsOf(fileEntries)
    /\ failures = 0 => \A i \in DOMAIN fileEntries :
           fileEntries[i].parent \in Ids(SubSeq(fileEntries, 1, i - 1)) \cup {0}

(* What is in memory is what opening the file again would give, as long as *)
(* no write has thrown: if there is an answer, or the file was there when  *)
(* the session was opened, every entry is in the file, once.               *)
FileIsSession ==
    running /\ ~failed =>
        IF flushed
        THEN Loaded(files[sessionFile]) = <<Header>> \o fileEntries
        ELSE ~files[sessionFile].exists /\ ~HasAssistant(fileEntries)

(* The session is append-only: whatever is done, fails or ends in the      *)
(* middle, an entry that could be read from a file can be read from it for *)
(* good, unchanged and in its place.  The exception is a migration that    *)
(* does not finish: what it has not written again by then is lost.         *)
MigrationStops(f) == ~running /\ ~running' /\ f \in outdated \ outdated'

SavedStays ==
    [][\A f \in Files :
         LET before == Loaded(files[f])
             after  == Loaded(files'[f])
         IN  IsPrefix(before, after) \/ (MigrationStops(f) /\ IsPrefix(after, before))]_vars

(* "Duplicate the current active branch into a new session": what the     *)
(* model is shown of a fork is what it was shown at an entry of the        *)
(* session it comes from.                                                  *)
Shown(es, id) ==
    LET context == BuildSessionContext(es, id) IN [i \in DOMAIN context |-> context[i].id]

ForkKeepsContext ==
    [][createBranchedSession /\ running' =>
         \E id \in Ids(fileEntries) :
             Shown(fileEntries', leafId') = Shown(fileEntries, id)]_vars

(* It is what the model was shown of the entry the fork was made at,       *)
(* unless the messages that the compaction kept begin with a label entry.  *)
CutAtLabel(path) ==
    LET k == LatestCompaction(path)
    IN  /\ k # 0 /\ FirstKept(path, k) # 0
        /\ path[FirstKept(path, k)].kind \in {"label", "unlabel"}

ForkKeepsUncut ==
    [][\A id \in Ids(fileEntries) :
         /\ createBranchedSession /\ running' /\ fileEntries' = BranchedEntries(id)
         /\ ~CutAtLabel(GetBranch(fileEntries, id))
         => Shown(fileEntries', leafId') = Shown(fileEntries, id)]_vars

=============================================================================
