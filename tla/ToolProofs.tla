----------------------------- MODULE ToolProofs -----------------------------
(***************************************************************************)
(* The calls registered under one key of the mutation queue run one at a   *)
(* time in the order of their registration; where no path leads through a  *)
(* link, the edits and writes of a batch therefore take effect as if each  *)
(* were atomic.                                                            *)
(*                                                                         *)
(* However starts, stops, answers, timeouts and aborts of an MCP server    *)
(* overlap: the tools offered are those of the transport that calls take,  *)
(* and a call that waits has a timer that ends its wait.                   *)
(***************************************************************************)
EXTENDS ToolBatch, TLAPS

Working == {"mkdir", "access", "reading", "opening", "writing"}
Places  == {"idle", "called", "waiting"} \cup Working \cup Settled

Types ==
    /\ request \in [Calls -> Request]
    /\ pc \in [Calls -> Places]
    /\ key \in [Calls -> Keys]
    /\ currentQueue \in [Calls -> Calls \cup {NoCall}]
    /\ fileMutationQueues \in [Keys -> Calls \cup {NoCall}]

(* A call in the queue of its key, and one with no other before it there.  *)
Active(c)  == pc[c] \in Working \cup {"waiting"}
Rival(c, d) == Active(d) /\ key[d] = key[c] /\ d # c
Front(c)   == Active(c) /\ \A d \in Calls : Rival(c, d) => c < d

(* Calls register in order; the map names the last of a key's queue; each  *)
(* call with another before it waits for one that is still in the queue;   *)
(* a call that works has none before it.                                   *)
LastIn(q, c) == q \in Calls /\ Active(q) /\ key[q] = key[c] /\ c <= q
InOrder  == \A c, d \in Calls : pc[c] = "called" /\ Active(d) => d < c
Lasts    == \A c \in Calls : Active(c) => LastIn(fileMutationQueues[key[c]], c)
Chained  == \A c, d \in Calls :
                Active(d) /\ Rival(d, c) /\ c < d =>
                    LastIn(currentQueue[d], c) /\ currentQueue[d] < d
OneWorks == \A c \in Calls : pc[c] \in Working => Front(c)

QueueInv == Types /\ InOrder /\ Lasts /\ Chained /\ OneWorks

LEMMA Order ==
    ASSUME NEW c \in Calls, NEW d \in Calls
    PROVE  /\ c < d \/ c = d \/ d < c
           /\ ~(c < d /\ d <= c)
           /\ c <= c
           /\ c < d => c <= d
           /\ c <= d /\ d # c => c < d
           /\ NoCall # c
<1>1. c \in Nat /\ d \in Nat
  BY CallsAssumption
<1>. QED
  BY <1>1, NoCallAssumption

-----------------------------------------------------------------------------
(* A call that works, or may begin to, has none before it in its queue.    *)
LEMMA FrontOf ==
    ASSUME QueueInv, NEW c \in Calls,
           pc[c] \in Working \/ (pc[c] = "waiting" /\ Released(c))
    PROVE  Front(c)
<1>1. CASE pc[c] \in Working
  BY <1>1 DEF QueueInv, OneWorks
<1>2. CASE pc[c] = "waiting" /\ Released(c)
  <2>. SUFFICES ASSUME NEW d \in Calls, Rival(c, d), d < c PROVE FALSE
    BY <1>2, Order DEF Front, Active, Rival
  <2>1. LastIn(currentQueue[c], d)
    BY <1>2 DEF QueueInv, Chained, Active
  <2>2. currentQueue[c] # NoCall /\ pc[currentQueue[c]] \notin Settled
    BY <2>1, NoCallAssumption DEF LastIn, Active, Working, Settled
  <2>. QED
    BY <1>2, <2>2 DEF Released
<1>. QED
  BY <1>1, <1>2

(* The call at the front goes on.                                          *)
LEMMA MoveKeeps ==
    ASSUME QueueInv, NEW c \in Calls, NEW to \in Working, Front(c),
           GoTo(c, to), UNCHANGED <<request, queueVars>>
    PROVE  QueueInv'
<1>1. /\ pc' \in [Calls -> Places] /\ pc'[c] = to
      /\ \A d \in Calls : d # c => pc'[d] = pc[d]
  BY DEF GoTo, QueueInv, Types, Places
<1>2. \A d \in Calls : Active(d)' <=> Active(d)
  BY <1>1 DEF Active, Front
<1>3. UNCHANGED <<request, key, currentQueue, fileMutationQueues>>
  BY DEF queueVars
<1>4. \A d, e \in Calls : Rival(d, e)' <=> Rival(d, e)
  BY <1>2, <1>3 DEF Rival
<1>5. \A q, d \in Calls : LastIn(q, d)' <=> LastIn(q, d)
  BY <1>2, <1>3 DEF LastIn
<1>6. Types'
  BY <1>1, <1>3 DEF QueueInv, Types
<1>7. InOrder'
  BY <1>1, <1>2 DEF QueueInv, InOrder, Working
<1>8. Lasts'
  BY <1>2, <1>3, <1>5 DEF QueueInv, Lasts, LastIn
<1>9. Chained'
  BY <1>2, <1>3, <1>4, <1>5 DEF QueueInv, Chained, LastIn
<1>10. OneWorks'
  BY <1>1, <1>2, <1>4 DEF QueueInv, OneWorks, Front
<1>. QED
  BY <1>6, <1>7, <1>8, <1>9, <1>10 DEF QueueInv

(* The call at the front leaves.                                           *)
LEMMA ReleaseKeeps ==
    ASSUME QueueInv, NEW c \in Calls, NEW how \in Settled, Front(c),
           Release(c, how), UNCHANGED request
    PROVE  QueueInv'
<1>1. /\ pc' \in [Calls -> Places] /\ pc'[c] = how
      /\ \A d \in Calls : d # c => pc'[d] = pc[d]
  BY DEF Release, GoTo, QueueInv, Types, Places
<1>2. /\ ~Active(c)' /\ Active(c)
      /\ \A d \in Calls : d # c => (Active(d)' <=> Active(d))
  BY <1>1 DEF Active, Working, Settled, Front
<1>3. /\ UNCHANGED <<request, key, currentQueue>>
      /\ fileMutationQueues' \in [Keys -> Calls \cup {NoCall}]
      /\ fileMutationQueues'[key[c]] = Remaining(c)
      /\ \A k \in Keys : k # key[c] => fileMutationQueues'[k] = fileMutationQueues[k]
  BY DEF Release, Remaining, QueueInv, Types
<1>4. \A d, e \in Calls : Rival(d, e)' => Rival(d, e)
  BY <1>2, <1>3 DEF Rival
<1>5. \A q, d \in Calls : LastIn(q, d) /\ q # c => LastIn(q, d)'
  BY <1>2, <1>3 DEF LastIn
<1>6. Types'
  BY <1>1, <1>3 DEF QueueInv, Types
<1>7. InOrder'
  BY <1>1, <1>2 DEF QueueInv, InOrder, Settled
<1>8. Lasts'
  <2>. SUFFICES ASSUME NEW d \in Calls, Active(d)'
                PROVE  LastIn(fileMutationQueues[key[d]], d)'
    BY DEF Lasts
  <2>1. d # c /\ Active(d) /\ LastIn(fileMutationQueues[key[d]], d)
    BY <1>2 DEF QueueInv, Lasts
  <2>2. fileMutationQueues[key[d]] # c
    <3>. SUFFICES ASSUME fileMutationQueues[key[d]] = c PROVE FALSE
      OBVIOUS
    <3>1. key[d] = key[c] /\ d <= c
      BY <2>1 DEF LastIn
    <3>2. c < d
      BY <2>1, <3>1 DEF Front, Rival
    <3>. QED
      BY <3>1, <3>2, Order
  <2>3. fileMutationQueues'[key'[d]] = fileMutationQueues[key[d]]
    <3>1. key[d] \in Keys
      BY DEF QueueInv, Types
    <3>. QED
      BY <1>3, <2>2, <3>1 DEF Remaining
  <2>. QED
    BY <1>5, <2>1, <2>2, <2>3 DEF LastIn
<1>9. Chained'
  <2>. SUFFICES ASSUME NEW d \in Calls, NEW e \in Calls, Active(d)', Rival(d, e)', e < d
                PROVE  (LastIn(currentQueue[d], e) /\ currentQueue[d] < d)'
    BY DEF Chained
  <2>1. /\ d # c /\ e # c /\ Active(d) /\ Rival(d, e)
        /\ LastIn(currentQueue[d], e) /\ currentQueue[d] < d
    BY <1>2, <1>4 DEF QueueInv, Chained, Rival
  <2>2. currentQueue[d] # c
    <3>. SUFFICES ASSUME currentQueue[d] = c PROVE FALSE
      OBVIOUS
    <3>1. Rival(c, e) /\ e <= c
      BY <2>1 DEF LastIn, Rival
    <3>. QED
      BY <3>1, Order DEF Front
  <2>. QED
    BY <1>3, <1>5, <2>1, <2>2 DEF LastIn
<1>10. OneWorks'
  BY <1>1, <1>2, <1>4 DEF QueueInv, OneWorks, Front, Working, Settled
<1>. QED
  BY <1>6, <1>7, <1>8, <1>9, <1>10 DEF QueueInv
  
(* The first of the registration queue enters the queue of its key.        *)
LEMMA KeyOf == ASSUME QueueInv, NEW c \in Calls PROVE Key(c) \in Keys
<1>1. request[c] \in Request
  BY DEF QueueInv, Types
<1>. QED
  BY <1>1 DEF Key, Keys, File, Request

LEMMA RegisterKeeps ==
    ASSUME QueueInv, NEW c \in Calls, Register(c)
    PROVE  QueueInv'
<1>1. /\ pc' \in [Calls -> Places] /\ pc'[c] = "waiting" /\ pc[c] = "called"
      /\ \A d \in Calls : d # c => pc'[d] = pc[d]
  BY DEF Register, FirstCalled, GoTo, QueueInv, Types, Places
<1>2. /\ Active(c)' /\ ~Active(c)
      /\ \A d \in Calls : d # c => (Active(d)' <=> Active(d))
  BY <1>1 DEF Active, Working
<1>3. /\ UNCHANGED request
      /\ key' \in [Calls -> Keys] /\ key'[c] = Key(c)
      /\ \A d \in Calls : d # c => key'[d] = key[d]
  BY KeyOf DEF Register, QueueInv, Types
<1>4. /\ fileMutationQueues' \in [Keys -> Calls \cup {NoCall}]
      /\ fileMutationQueues'[Key(c)] = c
      /\ \A k \in Keys : k # Key(c) => fileMutationQueues'[k] = fileMutationQueues[k]
  BY KeyOf DEF Register, QueueInv, Types
<1>5. /\ currentQueue' \in [Calls -> Calls \cup {NoCall}]
      /\ currentQueue'[c] = fileMutationQueues[Key(c)]
      /\ \A d \in Calls : d # c => currentQueue'[d] = currentQueue[d]
  BY KeyOf DEF Register, QueueInv, Types
<1>6. \A d \in Calls : Active(d) => d < c
  BY <1>1 DEF QueueInv, InOrder
<1>7. \A q, d \in Calls : LastIn(q, d) /\ d # c => LastIn(q, d)'
  BY <1>2, <1>3 DEF LastIn
<1>8. Types'
  BY <1>1, <1>3, <1>4, <1>5 DEF QueueInv, Types
<1>9. InOrder'
  <2>. SUFFICES ASSUME NEW d \in Calls, NEW e \in Calls, pc'[d] = "called", Active(e)'
                PROVE  e < d
    BY DEF InOrder
  <2>1. d # c /\ pc[d] = "called"
    BY <1>1
  <2>2. CASE e # c
    BY <1>2, <2>1, <2>2 DEF QueueInv, InOrder
  <2>3. CASE e = c
    BY <2>1, <2>3, Order DEF Register, FirstCalled
  <2>. QED
    BY <2>2, <2>3
<1>10. Lasts'
  <2>. SUFFICES ASSUME NEW d \in Calls, Active(d)'
                PROVE  LastIn(fileMutationQueues[key[d]], d)'
    BY DEF Lasts
  <2>1. CASE key'[d] = Key(c)
    <3>1. d <= c
      BY <1>2, <1>6, Order
    <3>. QED
      BY <1>2, <1>3, <1>4, <2>1, <3>1 DEF LastIn
  <2>2. CASE key'[d] # Key(c)
    <3>1. d # c /\ Active(d) /\ key'[d] = key[d] /\ key[d] \in Keys
      BY <1>2, <1>3, <2>2 DEF QueueInv, Types
    <3>2. LastIn(fileMutationQueues[key[d]], d)
      BY <3>1 DEF QueueInv, Lasts
    <3>3. fileMutationQueues'[key'[d]] = fileMutationQueues[key[d]]
      BY <1>4, <2>2, <3>1
    <3>. QED
      BY <1>7, <3>1, <3>2, <3>3 DEF LastIn
  <2>. QED
    BY <2>1, <2>2
<1>11. Chained'
  <2>. SUFFICES ASSUME NEW d \in Calls, NEW e \in Calls, Active(d)', Rival(d, e)', e < d
                PROVE  (LastIn(currentQueue[d], e) /\ currentQueue[d] < d)'
    BY DEF Chained
  <2>1. CASE d = c
    <3>1. e # c /\ Active(e) /\ key'[e] = key[e] /\ key[e] = Key(c)
      BY <1>2, <1>3, <2>1 DEF Rival
    <3>2. LastIn(currentQueue'[d], e)
      BY <1>5, <2>1, <3>1 DEF QueueInv, Lasts
    <3>3. currentQueue'[d] < d
      BY <1>6, <2>1, <3>2 DEF LastIn
    <3>. QED
      BY <1>7, <3>1, <3>2, <3>3 DEF LastIn
  <2>2. CASE d # c /\ e # c
    <3>1. Active(d) /\ Rival(d, e)
      BY <1>2, <1>3, <2>2 DEF Rival
    <3>2. LastIn(currentQueue[d], e) /\ currentQueue[d] < d
      BY <3>1 DEF QueueInv, Chained
    <3>. QED
      BY <1>5, <1>7, <2>2, <3>2 DEF LastIn
  <2>3. CASE d # c /\ e = c
    BY <1>2, <1>6, <2>3, Order DEF Rival
  <2>. QED
    BY <2>1, <2>2, <2>3
<1>12. OneWorks'
  <2>. SUFFICES ASSUME NEW d \in Calls, pc'[d] \in Working,
                       NEW e \in Calls, Rival(d, e)'
                PROVE  d < e
    BY DEF OneWorks, Front, Active
  <2>1. d # c /\ pc[d] \in Working /\ Active(d)
    BY <1>1 DEF Working, Active
  <2>2. CASE e = c
    BY <1>6, <2>1, <2>2
  <2>3. CASE e # c
    BY <1>2, <1>3, <2>1, <2>3 DEF QueueInv, OneWorks, Front, Rival
  <2>. QED
    BY <2>2, <2>3
<1>. QED
  BY <1>8, <1>9, <1>10, <1>11, <1>12 DEF QueueInv

(* Calls that are in no queue before or after a step are no matter.        *)
LEMMA OutsideKeeps ==
    ASSUME QueueInv, UNCHANGED <<request, queueVars>>, pc' \in [Calls -> Places],
           \A c \in Calls : Active(c) \/ Active(c)' => pc'[c] = pc[c],
           \A c \in Calls : pc'[c] = "called" =>
               pc[c] = "called" \/ \A d \in Calls : ~Active(d)
    PROVE  QueueInv'
<1>1. \A d \in Calls : Active(d)' <=> Active(d)
  BY DEF Active
<1>2. UNCHANGED <<request, key, currentQueue, fileMutationQueues>>
  BY DEF queueVars
<1>3. \A d, e \in Calls : Rival(d, e)' <=> Rival(d, e)
  BY <1>1, <1>2 DEF Rival
<1>4. \A q, d \in Calls : LastIn(q, d)' <=> LastIn(q, d)
  BY <1>1, <1>2 DEF LastIn
<1>5. Types'
  BY <1>2 DEF QueueInv, Types
<1>6. InOrder'
  BY <1>1 DEF QueueInv, InOrder
<1>7. Lasts'
  BY <1>1, <1>2, <1>4 DEF QueueInv, Lasts, LastIn
<1>8. Chained'
  BY <1>1, <1>2, <1>3, <1>4 DEF QueueInv, Chained, LastIn
<1>9. OneWorks'
  BY <1>1, <1>3 DEF QueueInv, OneWorks, Front, Active
<1>. QED
  BY <1>5, <1>6, <1>7, <1>8, <1>9 DEF QueueInv

LEMMA StartKeeps == ASSUME QueueInv, CallMutations PROVE QueueInv'
<1>1. /\ pc' \in [Calls -> Places]
      /\ \A c \in Calls : pc[c] = "idle" /\ pc'[c] \in {"idle", "called"}
      /\ UNCHANGED <<request, queueVars>>
  BY DEF CallMutations, Places
<1>2. \A c \in Calls : ~Active(c) /\ ~Active(c)'
  BY <1>1 DEF Active, Working
<1>. QED
  BY <1>1, <1>2, OutsideKeeps

LEMMA RefusedKeeps == ASSUME QueueInv, NEW c \in Calls, RegisterFails(c) PROVE QueueInv'
<1>1. /\ pc' \in [Calls -> Places] /\ pc[c] = "called" /\ pc'[c] = "failed"
      /\ \A d \in Calls : d # c => pc'[d] = pc[d]
      /\ UNCHANGED <<request, queueVars>>
  BY DEF RegisterFails, FirstCalled, GoTo, QueueInv, Types, Places, Settled
<1>2. ~Active(c) /\ ~Active(c)'
  BY <1>1 DEF Active, Working
<1>. QED
  BY <1>1, <1>2, OutsideKeeps

-----------------------------------------------------------------------------
(* What a step of a call does to the queue: it enters, is refused, goes on *)
(* or leaves.                                                              *)
LEMMA StepInQueue ==
    ASSUME QueueInv, NEW c \in Calls, FileStep(c)
    PROVE  \/ Register(c)
           \/ RegisterFails(c)
           \/ /\ Front(c) /\ UNCHANGED <<request, queueVars>>
              /\ \E to \in Working : GoTo(c, to)
           \/ /\ Front(c) /\ UNCHANGED request
              /\ \E how \in Settled : Release(c, how)
<1>1. CASE Register(c) \/ RegisterFails(c)
  BY <1>1
<1>2. CASE Begin(c)
  <2>1. Front(c)
    BY <1>2, FrontOf DEF Begin
  <2>. QED
    BY <1>2, <2>1 DEF Begin, GoesOn, Fails, Working, Settled
<1>3. CASE pc[c] \in Working /\ (MadeDirectory(c) \/ Accessed(c) \/ Read(c))
  <2>1. Front(c)
    BY <1>3, FrontOf
  <2>. QED
    BY <1>3, <2>1 DEF MadeDirectory, Accessed, Read, GoesOn, Fails, Working, Settled
<1>4. CASE pc[c] \in Working /\ (Opened(c) \/ OpenFails(c) \/ Wrote(c))
  <2>1. Front(c)
    BY <1>4, FrontOf
  <2>. QED
    BY <1>4, <2>1 DEF Opened, OpenFails, Wrote, Fails, Working, Settled
<1>. QED
  BY <1>1, <1>2, <1>3, <1>4 DEF FileStep, MadeDirectory, Accessed, Read, Opened, OpenFails,
     Wrote, Working

LEMMA QueueInit == FileInit => QueueInv
<1>. SUFFICES ASSUME FileInit PROVE QueueInv
  OBVIOUS
<1>1. /\ request \in [Calls -> Request]
      /\ pc = [c \in Calls |-> "idle"]
  BY DEF FileInit, CallsInit
<1>2. key \in [Calls -> Keys]
  BY <1>1 DEF FileInit, File, Keys, Request
<1>3. Types
  BY <1>1, <1>2 DEF FileInit, Types, Places
<1>4. \A c \in Calls : pc[c] = "idle" /\ ~Active(c)
  BY <1>1 DEF Active, Working
<1>. QED
  BY <1>3, <1>4 DEF QueueInv, InOrder, Lasts, Chained, OneWorks, Active

LEMMA QueueNext == QueueInv /\ [FileNext]_fileVars => QueueInv'
<1>. SUFFICES ASSUME QueueInv, [FileNext]_fileVars PROVE QueueInv'
  OBVIOUS
<1>1. CASE CallMutations
  BY <1>1, StartKeeps
<1>2. ASSUME NEW c \in Calls, FileStep(c) PROVE QueueInv'
  BY <1>2, StepInQueue, RegisterKeeps, RefusedKeeps, MoveKeeps, ReleaseKeeps
<1>3. CASE Abort \/ UNCHANGED fileVars
  <2>1. UNCHANGED <<request, pc, queueVars>>
    BY <1>3 DEF Abort, fileVars
  <2>2. \A c \in Calls : Active(c)' <=> Active(c)
    BY <2>1 DEF Active
  <2>. QED
    BY <2>1, <2>2, OutsideKeeps DEF QueueInv, Types
<1>. QED
  BY <1>1, <1>2, <1>3 DEF FileNext

(* Whatever paths lead through links, no two calls registered under one    *)
(* key work on its file at a time.                                         *)
OneAtATime ==
    \A c, d \in Calls :
        pc[c] \in Working /\ pc[d] \in Working /\ key[c] = key[d] => c = d

THEOREM KeysExclude == FileSpec => []OneAtATime
<1>1. QueueInv => OneAtATime
  BY Order DEF QueueInv, OneWorks, Front, Rival, Active, OneAtATime
<1>. QED
  BY <1>1, QueueInit, QueueNext, PTL DEF FileSpec

-----------------------------------------------------------------------------
(* With no links the calls of one file have one key; an edit works on a    *)
(* file there is, and what it has read is still what the file holds.       *)
DiskInv ==
    /\ DOMAIN content = Files /\ DOMAIN buffer = Calls
    /\ \A c \in Calls : key[c] = <<File(c), FALSE>>
    /\ \A c \in Calls : pc[c] = "mkdir" => request[c].tool # "edit"
    /\ \A c \in Calls :
          pc[c] = "writing" \/ (request[c].tool = "edit" /\ pc[c] \in {"reading", "opening"})
              => File(c) \in exists
    /\ \A c \in Calls :
          request[c].tool = "edit" /\ pc[c] = "opening" => buffer[c] = content[File(c)]

Inv == QueueInv /\ DiskInv

LEMMA FileOf == ASSUME QueueInv, NEW c \in Calls PROVE File(c) \in Files
<1>1. request[c] \in Request
  BY DEF QueueInv, Types
<1>. QED
  BY <1>1 DEF File, Request

LEMMA OneAtAFile ==
    ASSUME Inv, NEW c \in Calls, NEW d \in Calls,
           pc[c] \in Working, pc[d] \in Working, File(c) = File(d)
    PROVE  c = d
<1>1. key[c] = key[d]
  BY DEF Inv, DiskInv
<1>2. Front(c) /\ Front(d)
  BY DEF Inv, QueueInv, OneWorks
<1>. QED
  BY <1>1, <1>2, Order DEF Front, Rival

(* The file system stays as it is while a call goes on or leaves.          *)
LEMMA StillDisk ==
    ASSUME Inv, NEW c \in Calls, NEW to \in Places, GoTo(c, to),
           UNCHANGED <<request, key, diskVars>>,
           to = "mkdir" => request[c].tool # "edit",
           to # "writing",
           request[c].tool = "edit" /\ to \in {"reading", "opening"} => File(c) \in exists,
           request[c].tool = "edit" /\ to = "opening" => buffer[c] = content[File(c)]
    PROVE  DiskInv'
<1>1. pc'[c] = to /\ \A d \in Calls : d # c => pc'[d] = pc[d]
  BY DEF GoTo, Inv, QueueInv, Types
<1>. QED
  BY <1>1 DEF Inv, DiskInv, diskVars, File

LEMMA DiskStep ==
    ASSUME Links = {FALSE}, Inv, NEW c \in Calls, FileStep(c)
    PROVE  DiskInv'
<1>1. CASE Register(c)
  <2>1. request[c] \in Request
    BY DEF Inv, QueueInv, Types
  <2>2. Key(c) = <<File(c), FALSE>>
    BY <2>1 DEF Key, Request
  <2>3. pc'[c] = "waiting" /\ \A d \in Calls : d # c => pc'[d] = pc[d]
    BY <1>1 DEF Register, GoTo, Inv, QueueInv, Types
  <2>4. key'[c] = Key(c) /\ \A d \in Calls : d # c => key'[d] = key[d]
    BY <1>1 DEF Register, Inv, QueueInv, Types
  <2>5. UNCHANGED <<request, exists, content, buffer>>
    BY <1>1 DEF Register, diskVars
  <2>6. (\A d \in Calls : key[d] = <<File(d), FALSE>>)'
    BY <2>2, <2>4, <2>5 DEF Inv, DiskInv, File
  <2>. QED
    BY <2>3, <2>5, <2>6 DEF Inv, DiskInv, File
<1>2. CASE RegisterFails(c)
  BY <1>2, StillDisk DEF RegisterFails, queueVars, Places, Settled
<1>3. CASE Begin(c)
  BY <1>3, StillDisk DEF Begin, GoesOn, Fails, Release, queueVars, Places, Settled, Working
<1>4. CASE MadeDirectory(c)
  <2>1. request[c].tool # "edit" /\ UNCHANGED <<request, key, diskVars>>
    BY <1>4 DEF MadeDirectory, GoesOn, Fails, Release, queueVars, Inv, DiskInv
  <2>2. GoTo(c, "opening") \/ GoTo(c, "failed")
    BY <1>4 DEF MadeDirectory, GoesOn, Fails, Release
  <2>. QED
    BY <2>1, <2>2, StillDisk DEF Places, Settled, Working
<1>5. CASE Accessed(c)
  <2>1. UNCHANGED <<request, key, diskVars>>
    BY <1>5 DEF Accessed, GoesOn, Fails, Release, queueVars
  <2>2. (File(c) \in exists /\ GoTo(c, "reading")) \/ GoTo(c, "failed")
    BY <1>5 DEF Accessed, GoesOn, Fails, Release
  <2>. QED
    BY <2>1, <2>2, StillDisk DEF Places, Settled, Working
<1>6. CASE Read(c)
  <2>1. CASE GoTo(c, "opening") /\ buffer' = [buffer EXCEPT ![c] = content[File(c)]]
    <3>1. pc'[c] = "opening" /\ \A d \in Calls : d # c => pc'[d] = pc[d]
      BY <2>1 DEF GoTo, Inv, QueueInv, Types
    <3>2. /\ DOMAIN buffer' = Calls /\ buffer'[c] = content[File(c)]
          /\ \A d \in Calls : d # c => buffer'[d] = buffer[d]
      BY <2>1 DEF Inv, DiskInv
    <3>3. pc[c] = "reading" /\ UNCHANGED <<request, key, exists, content>>
      BY <1>6 DEF Read, GoesOn, Fails, Release, queueVars
    <3>. QED
      BY <3>1, <3>2, <3>3 DEF Inv, DiskInv, File
  <2>2. CASE GoTo(c, "failed") /\ UNCHANGED buffer
    <3>1. UNCHANGED <<request, key, diskVars>>
      BY <1>6, <2>2 DEF Read, GoesOn, Fails, Release, queueVars, diskVars
    <3>. QED
      BY <2>2, <3>1, StillDisk DEF Places, Settled
  <2>. QED
    BY <1>6, <2>1, <2>2 DEF Read, GoesOn, Fails, Release
<1>7. CASE OpenFails(c)
  BY <1>7, StillDisk DEF OpenFails, Fails, Release, Places, Settled
<1>8. ASSUME pc[c] \in Working, NEW to \in Places, to \notin {"mkdir", "reading", "opening"},
             GoTo(c, to), NEW text, content' = [content EXCEPT ![File(c)] = text],
             exists \subseteq exists', File(c) \in exists',
             UNCHANGED <<request, key, buffer>>
      PROVE  DiskInv'
  <2>1. pc'[c] = to /\ \A d \in Calls : d # c => pc'[d] = pc[d]
    BY <1>8 DEF GoTo, Inv, QueueInv, Types
  <2>2. \A d \in Calls : d # c /\ pc[d] = "opening" => File(d) # File(c)
    BY <1>8, OneAtAFile DEF Working
  <2>3. \A d \in Calls : d # c /\ pc[d] = "opening" => content'[File(d)] = content[File(d)]
    BY <1>8, <2>2, FileOf DEF Inv, DiskInv
  <2>4. DOMAIN content' = Files /\ UNCHANGED <<request, key, buffer>>
    BY <1>8 DEF Inv, DiskInv
  <2>5. exists \subseteq exists' /\ File(c) \in exists'
    BY <1>8
  <2>6. ASSUME NEW d \in Calls PROVE pc'[d] = "mkdir" => request[d].tool # "edit"
    BY <1>8, <2>1 DEF Inv, DiskInv
  <2>7. ASSUME NEW d \in Calls,
               pc'[d] = "writing" \/ (request[d].tool = "edit" /\ pc'[d] \in {"reading", "opening"})
        PROVE  File(d) \in exists'
    BY <1>8, <2>1, <2>5, <2>7 DEF Inv, DiskInv
  <2>8. ASSUME NEW d \in Calls, request[d].tool = "edit", pc'[d] = "opening"
        PROVE  buffer[d] = content'[File(d)]
    BY <1>8, <2>1, <2>3, <2>8 DEF Inv, DiskInv
  <2>9. \A d \in Calls : File(d)' = File(d) /\ key[d] = <<File(d), FALSE>>
    BY <2>4 DEF File, Inv, DiskInv
  <2>. QED
    BY <2>4, <2>6, <2>7, <2>8, <2>9 DEF Inv, DiskInv
<1>9. CASE Opened(c)
  BY <1>9, <1>8 DEF Opened, Working, Places, queueVars
<1>10. CASE Wrote(c)
  <2>1. File(c) \in exists
    BY <1>10 DEF Wrote, Inv, DiskInv
  <2>. QED
    BY <1>10, <2>1, <1>8 DEF Wrote, Release, Working, Places, Settled
<1>. QED
  BY <1>1, <1>2, <1>3, <1>4, <1>5, <1>6, <1>7, <1>9, <1>10 DEF FileStep

LEMMA DiskInit == FileInit => DiskInv
<1>. SUFFICES ASSUME FileInit PROVE DiskInv
  OBVIOUS
<1>1. \A c \in Calls : pc[c] = "idle" /\ key[c] = <<File(c), FALSE>>
  BY DEF FileInit
<1>2. DOMAIN content = Files /\ DOMAIN buffer = Calls
  BY DEF FileInit
<1>. QED
  BY <1>1, <1>2 DEF DiskInv

LEMMA InvNext == Links = {FALSE} /\ Inv /\ [FileNext]_fileVars => Inv'
<1>. SUFFICES ASSUME Links = {FALSE}, Inv, [FileNext]_fileVars PROVE DiskInv'
  BY QueueNext DEF Inv
<1>1. CASE CallMutations
  <2>1. \A c \in Calls : pc'[c] \in {"idle", "called"}
    BY <1>1 DEF CallMutations
  <2>. QED
    BY <1>1, <2>1 DEF CallMutations, Inv, DiskInv, File, queueVars, diskVars
<1>2. ASSUME NEW c \in Calls, FileStep(c) PROVE DiskInv'
  BY <1>2, DiskStep
<1>3. CASE Abort \/ UNCHANGED fileVars
  BY <1>3 DEF Abort, fileVars, Inv, DiskInv, File, queueVars, diskVars
<1>. QED
  BY <1>1, <1>2, <1>3 DEF FileNext

-----------------------------------------------------------------------------
(* What a file holds for the abstract specification.                       *)
Held ==
    /\ Contents = [f \in Files |-> Contents[f]]
    /\ \A c \in Calls : pc[c] = "writing" => Contents[File(c)] = FinalContent(c)
    /\ \A f \in Files : (\A c \in Calls : ~IsWriting(c, f)) => Contents[f] = content[f]

LEMMA ContentsHeld == Inv => Held
<1>. SUFFICES ASSUME Inv PROVE Held
  OBVIOUS
<1>1. ASSUME NEW c \in Calls, pc[c] = "writing"
      PROVE  Contents[File(c)] = FinalContent(c)
  <2>1. File(c) \in Files /\ IsWriting(c, File(c))
    BY <1>1, FileOf DEF Inv, IsWriting
  <2>2. \A d \in Calls : IsWriting(d, File(c)) => d = c
    BY <1>1, OneAtAFile DEF IsWriting, Working
  <2>3. (CHOOSE d \in Calls : IsWriting(d, File(c))) = c
    BY <2>1, <2>2
  <2>. QED
    BY <2>1, <2>3 DEF Contents
<1>2. ASSUME NEW f \in Files, \A c \in Calls : ~IsWriting(c, f)
      PROVE  Contents[f] = content[f]
  BY <1>2 DEF Contents
<1>3. Contents = [f \in Files |-> Contents[f]]
  BY DEF Contents
<1>. QED
  BY <1>1, <1>2, <1>3 DEF Held

Applied == {c \in Calls : pc[c] \in {"writing", "done"}}

(* A step that opens no file and ends no write does not show.              *)
Still ==
    /\ UNCHANGED <<request, exists, content>>
    /\ \A d \in Calls :
          /\ pc'[d] = "writing" <=> pc[d] = "writing"
          /\ pc'[d] = "done" <=> pc[d] = "done"
          /\ pc[d] = "writing" => buffer'[d] = buffer[d]

LEMMA GoesStill ==
    ASSUME QueueInv, NEW c \in Calls, NEW to, to \notin {"writing", "done"}, GoTo(c, to),
           pc[c] \notin {"writing", "done"}, UNCHANGED <<request, exists, content>>,
           \A d \in Calls : d # c => buffer'[d] = buffer[d]
    PROVE  Still
<1>1. pc'[c] = to /\ \A d \in Calls : d # c => pc'[d] = pc[d]
  BY DEF GoTo, QueueInv, Types
<1>. QED
  BY <1>1 DEF Still

LEMMA StepStill ==
    ASSUME Inv, NEW c \in Calls, FileStep(c)
    PROVE  Still \/ Opened(c) \/ Wrote(c)
<1>. USE DEF Inv
<1>1. CASE Register(c) \/ RegisterFails(c)
  BY <1>1, GoesStill DEF Register, RegisterFails, FirstCalled, diskVars
<1>2. CASE Begin(c)
  BY <1>2, GoesStill DEF Begin, GoesOn, Fails, Release, diskVars
<1>3. CASE MadeDirectory(c) \/ Accessed(c) \/ OpenFails(c)
  BY <1>3, GoesStill DEF MadeDirectory, Accessed, OpenFails, GoesOn, Fails, Release, diskVars
<1>4. CASE Read(c)
  <2>1. \A d \in Calls : d # c => buffer'[d] = buffer[d]
    BY <1>4 DEF Read, DiskInv
  <2>. QED
    BY <1>4, <2>1, GoesStill DEF Read, GoesOn, Fails, Release
<1>. QED
  BY <1>1, <1>2, <1>3, <1>4 DEF FileStep

LEMMA NextStill ==
    ASSUME Inv, [FileNext]_fileVars
    PROVE  Still \/ \E c \in Calls : Opened(c) \/ Wrote(c)
<1>1. CASE CallMutations
  BY <1>1 DEF CallMutations, Still, diskVars
<1>2. ASSUME NEW c \in Calls, FileStep(c)
      PROVE  Still \/ \E d \in Calls : Opened(d) \/ Wrote(d)
  BY <1>2, StepStill
<1>3. CASE Abort \/ UNCHANGED fileVars
  BY <1>3 DEF Abort, fileVars, Still, diskVars
<1>. QED
  BY <1>1, <1>2, <1>3 DEF FileNext

LEMMA StillHidden ==
    ASSUME Inv, Held, Held', Still
    PROVE  UNCHANGED <<request, exists, Contents, Applied>>
<1>1. ASSUME NEW f \in Files PROVE Contents'[f] = Contents[f]
  <2>1. CASE \E c \in Calls : IsWriting(c, f)
    <3>1. PICK c \in Calls : pc[c] = "writing" /\ File(c) = f
      BY <2>1 DEF IsWriting
    <3>2. pc'[c] = "writing" /\ File(c)' = f /\ FinalContent(c)' = FinalContent(c)
      BY <3>1 DEF Still, File, FinalContent
    <3>. QED
      BY <3>1, <3>2 DEF Held
  <2>2. CASE \A c \in Calls : ~IsWriting(c, f)
    <3>1. \A c \in Calls : ~IsWriting(c, f)'
      BY <2>2 DEF IsWriting, File, Still
    <3>. QED
      BY <2>2, <3>1 DEF Held, Still
  <2>. QED
    BY <2>1, <2>2
<1>2. Contents' = Contents
  BY <1>1 DEF Held
<1>3. Applied' = Applied
  BY DEF Applied, Still
<1>. QED
  BY <1>2, <1>3 DEF Still

(* The end of a write does not show either: it was the one at its file.    *)
LEMMA WroteHidden ==
    ASSUME Inv, Held, Held', NEW c \in Calls, Wrote(c)
    PROVE  UNCHANGED <<request, exists, Contents, Applied>>
<1>1. /\ pc[c] = "writing" /\ pc'[c] = "done"
      /\ \A d \in Calls : d # c => pc'[d] = pc[d]
      /\ UNCHANGED <<request, exists, buffer>>
  BY DEF Wrote, Release, GoTo, Inv, QueueInv, Types
<1>2. /\ content'[File(c)] = FinalContent(c)
      /\ \A f \in Files : f # File(c) => content'[f] = content[f]
  BY FileOf DEF Wrote, Inv, DiskInv
<1>3. \A d \in Calls : pc[d] = "writing" /\ File(d) = File(c) => d = c
  BY <1>1, OneAtAFile DEF Working
<1>4. \A d \in Calls, f \in Files : f # File(c) => (IsWriting(d, f)' <=> IsWriting(d, f))
  BY <1>1 DEF IsWriting, File
<1>5. ASSUME NEW f \in Files PROVE Contents'[f] = Contents[f]
  <2>1. CASE f = File(c)
    <3>1. \A d \in Calls : ~IsWriting(d, f)'
      BY <1>1, <1>3, <2>1 DEF IsWriting, File
    <3>. QED
      BY <1>1, <1>2, <2>1, <3>1 DEF Held
  <2>2. CASE f # File(c) /\ \E d \in Calls : IsWriting(d, f)
    <3>1. PICK d \in Calls : pc[d] = "writing" /\ File(d) = f
      BY <2>2 DEF IsWriting
    <3>2. pc'[d] = "writing" /\ File(d)' = f /\ FinalContent(d)' = FinalContent(d)
      BY <1>1, <2>2, <3>1 DEF File, FinalContent
    <3>. QED
      BY <3>1, <3>2 DEF Held
  <2>3. CASE f # File(c) /\ \A d \in Calls : ~IsWriting(d, f)
    BY <1>2, <1>4, <2>3 DEF Held
  <2>. QED
    BY <2>1, <2>2, <2>3
<1>6. Contents' = Contents
  BY <1>5 DEF Held
<1>7. Applied' = Applied
  BY <1>1 DEF Applied
<1>. QED
  BY <1>1, <1>6, <1>7

(* A mutation takes effect when it opens its file.                         *)
LEMMA OpenedMutates ==
    ASSUME Inv, Held, Held', NEW c \in Calls, Opened(c)
    PROVE  Atomic!Mutate(c)
<1>1. /\ pc[c] = "opening" /\ pc'[c] = "writing"
      /\ \A d \in Calls : d # c => pc'[d] = pc[d]
      /\ UNCHANGED <<request, buffer>> /\ exists' = exists \cup {File(c)}
  BY DEF Opened, GoTo, Inv, QueueInv, Types
<1>2. \A f \in Files : f # File(c) => content'[f] = content[f]
  BY DEF Opened, Inv, DiskInv
<1>3. File(c) \in Files /\ \A d \in Calls : ~IsWriting(d, File(c))
  BY <1>1, OneAtAFile, FileOf DEF Working, IsWriting, Inv
<1>4. Contents[File(c)] = content[File(c)]
  BY <1>3 DEF Held
<1>5. Contents'[File(c)] = FinalContent(c)
  BY <1>1 DEF Held, File, FinalContent
<1>6. FinalContent(c) =
         IF request[c].tool = "edit" THEN Append(Contents[File(c)], c) ELSE <<c>>
  BY <1>1, <1>4 DEF FinalContent, Inv, DiskInv
<1>7. \A d \in Calls, f \in Files : f # File(c) => (IsWriting(d, f)' <=> IsWriting(d, f))
  BY <1>1 DEF IsWriting, File
<1>8. ASSUME NEW f \in Files, f # File(c) PROVE Contents'[f] = Contents[f]
  <2>1. CASE \E d \in Calls : IsWriting(d, f)
    <3>1. PICK d \in Calls : pc[d] = "writing" /\ File(d) = f
      BY <2>1 DEF IsWriting
    <3>2. pc'[d] = "writing" /\ File(d)' = f /\ FinalContent(d)' = FinalContent(d)
      BY <1>1, <3>1 DEF File, FinalContent
    <3>. QED
      BY <3>1, <3>2 DEF Held
  <2>2. CASE \A d \in Calls : ~IsWriting(d, f)
    BY <1>2, <1>7, <1>8, <2>2 DEF Held
  <2>. QED
    BY <2>1, <2>2
<1>9. Contents' = [Contents EXCEPT ![File(c)] = FinalContent(c)]
  BY <1>3, <1>5, <1>8 DEF Held
<1>10. c \notin Applied /\ Applied' = Applied \cup {c}
  BY <1>1 DEF Applied
<1>11. request[c].tool = "edit" => File(c) \in exists
  BY <1>1 DEF Inv, DiskInv
<1>. QED
  BY <1>1, <1>6, <1>9, <1>10, <1>11 DEF Atomic!Mutate, Applied, File

(* "Serialize file mutation operations targeting the same file": if no     *)
(* path leads through a link, edits and writes of a file that overlap      *)
(* leave what they would one after another.                                *)
THEOREM FilesAreAtomic ==
    ASSUME Links = {FALSE} PROVE FileSpec => ImplementsAtomicFiles
<1>1. FileInit => Inv
  BY QueueInit, DiskInit DEF Inv
<1>2. Inv /\ [FileNext]_fileVars => Inv'
  BY InvNext
<1>3. FileInit => Atomic!Init
  BY DEF FileInit, Atomic!Init, Contents, IsWriting
<1>4. Inv /\ Held /\ Held' /\ [FileNext]_fileVars =>
         [\E c \in Calls : Atomic!Mutate(c)]_Atomic!vars
  <2>. SUFFICES ASSUME Inv, Held, Held', [FileNext]_fileVars
                PROVE  [\E c \in Calls : Atomic!Mutate(c)]_Atomic!vars
    OBVIOUS
  <2>1. CASE Still
    BY <2>1, StillHidden DEF Atomic!vars, Applied
  <2>2. ASSUME NEW c \in Calls, Opened(c)
        PROVE  [\E d \in Calls : Atomic!Mutate(d)]_Atomic!vars
    BY <2>2, OpenedMutates
  <2>3. ASSUME NEW c \in Calls, Wrote(c)
        PROVE  [\E d \in Calls : Atomic!Mutate(d)]_Atomic!vars
    BY <2>3, WroteHidden DEF Atomic!vars, Applied
  <2>. QED
    BY <2>1, <2>2, <2>3, NextStill
<1>. QED
  BY <1>1, <1>2, <1>3, <1>4, ContentsHeld, PTL DEF FileSpec, ImplementsAtomicFiles, Atomic!Spec

(* The same of a batch with calls of an MCP server among them: the server, *)
(* its timeouts and its failures leave the files to these rules.           *)
THEOREM BatchIsAtomic ==
    ASSUME Links = {FALSE} PROVE Spec => ImplementsAtomicFiles
<1>1. Init => FileInit
  BY DEF Init
<1>2. [Next]_vars => [FileNext]_fileVars
  BY DEF Next, vars, FileNext, StartBatch, FileWork, AbortBatch
<1>. QED
  BY <1>1, <1>2, FilesAreAtomic, PTL DEF Spec, FileSpec

-----------------------------------------------------------------------------
(* A call waits only as long as its timeout is set; an answer that goes to *)
(* another call of the same id, a lost process or a stop cannot leave it   *)
(* waiting without one.                                                    *)
WaitingIsTimed == \A c \in Calls : sent[c] = "sent" => c \in timers

LEMMA SettleOnly ==
    ASSUME NEW cs, NEW how \in Settled, Settle(cs, how)
    PROVE  \A c \in Calls : sent'[c] = "sent" => sent[c] = "sent" /\ c \notin cs
BY DEF Settle, Settled

(* What does not touch the timers only ends waits.                         *)
LEMMA UntimedKeeps ==
    ASSUME WaitingIsTimed, UNCHANGED timers,
           \A c \in Calls : sent'[c] = "sent" => sent[c] = "sent"
    PROVE  WaitingIsTimed'
BY DEF WaitingIsTimed

LEMMA ServerKeeps ==
    ASSUME WaitingIsTimed,
           startServer \/ stopServer \/ (\E t \in Starts : Connected(t) \/ StartFails(t) \/ ProcessEnds(t))
               \/ \E s \in stopping : Stopped(s)
    PROVE  WaitingIsTimed'
<1>1. CASE startServer
  BY <1>1, UntimedKeeps DEF startServer, requestVars
<1>2. CASE stopServer
  <2>1. UNCHANGED timers /\ (CloseTransport(transport) \/ UNCHANGED sent)
    BY <1>2 DEF stopServer
  <2>. QED
    BY <2>1, SettleOnly, UntimedKeeps DEF CloseTransport, Settled
<1>3. ASSUME NEW t \in Starts, Connected(t) \/ StartFails(t) PROVE WaitingIsTimed'
  BY <1>3, UntimedKeeps DEF Connected, StartFails, requestVars
<1>4. ASSUME NEW t \in Starts, ProcessEnds(t) PROVE WaitingIsTimed'
  BY <1>4, SettleOnly, UntimedKeeps DEF ProcessEnds, CloseTransport, Settled
<1>5. ASSUME NEW s \in stopping, Stopped(s) PROVE WaitingIsTimed'
  BY <1>5, UntimedKeeps DEF Stopped, requestVars
<1>. QED
  BY <1>1, <1>2, <1>3, <1>4, <1>5

LEMMA CallKeeps ==
    ASSUME WaitingIsTimed, NEW c \in Calls, Answered(c) \/ TimesOut(c)
    PROVE  WaitingIsTimed'
<1>1. CASE Answered(c)
  BY <1>1, SettleOnly, UntimedKeeps DEF Answered, Settled
<1>2. CASE TimesOut(c)
  <2>1. Settle({c}, "failed") /\ timers' = timers \ {c}
    BY <1>2 DEF TimesOut, Rejects, Settle
  <2>. QED
    BY <2>1, SettleOnly DEF WaitingIsTimed, Settled
<1>. QED
  BY <1>1, <1>2

THEOREM CallsAreTimed == Spec => []WaitingIsTimed
<1>1. Init => WaitingIsTimed
  BY DEF Init, McpInit, WaitingIsTimed
<1>2. WaitingIsTimed /\ [Next]_vars => WaitingIsTimed'
  <2>. SUFFICES ASSUME WaitingIsTimed, [Next]_vars PROVE WaitingIsTimed'
    OBVIOUS
  <2>1. CASE StartBatch
    <3>1. CASE sent' = [c \in Calls |-> IF IsMcp(c) THEN "failed" ELSE "idle"]
      BY <3>1 DEF WaitingIsTimed
    <3>2. CASE timers' = McpCalls /\ sent' = [c \in Calls |-> IF IsMcp(c) THEN "sent" ELSE "idle"]
      BY <3>2 DEF WaitingIsTimed, McpCalls
    <3>. QED
      BY <2>1, <3>1, <3>2 DEF StartBatch, callTools
  <2>2. CASE AbortBatch
    <3>1. timers' = timers \ handlers /\ Settle(handlers, "failed")
      BY <2>2 DEF AbortBatch, AbortCalls
    <3>. QED
      BY <3>1, SettleOnly DEF WaitingIsTimed, Settled
  <2>3. CASE McpStep
    BY <2>3, ServerKeeps, CallKeeps DEF McpStep
  <2>4. CASE UNCHANGED mcpVars
    BY <2>4, UntimedKeeps DEF mcpVars, requestVars
  <2>. QED
    BY <2>1, <2>2, <2>3, <2>4 DEF Next, FileWork, vars
<1>. QED
  BY <1>1, <1>2, PTL DEF Spec

(* The tools offered are those of the start whose transport calls take,    *)
(* and it is open, unless a stop that has not returned is closing it or    *)
(* its process ended by itself: for any number of starts and stops under   *)
(* way, none of them leaves tools behind that lead nowhere.  startServer,  *)
(* stopServer and the transport's "close" handler.                         *)
THEOREM OfferedIsReachable == Spec => []ToolsReachable
<1>1. Init => ToolsReachable
  BY DEF Init, McpInit, ToolsReachable
<1>2. ToolsReachable /\ [Next]_vars => ToolsReachable'
  <2>. SUFFICES ASSUME ToolsReachable, [Next]_vars PROVE ToolsReachable'
    OBVIOUS
  <2>1. CASE startServer
    BY <2>1 DEF startServer, ToolsReachable, Open
  <2>2. CASE stopServer
    <3>1. CASE transport # 0
      <4>1. /\ transport' = transport /\ UNCHANGED <<registered, ended>>
            /\ closed' = closed \cup {transport}
            /\ stopping' = stopping \cup
                  {[stop |-> stops', of |-> latest, closes |-> transport]}
        BY <2>2, <3>1 DEF stopServer, CloseTransport, DuringClose
      <4>. DEFINE made == [stop |-> stops', of |-> latest, closes |-> transport]
      <4>2. made \in stopping' /\ made.closes = transport'
        BY <4>1
      <4>3. \E s \in stopping' : s.closes = transport'
        BY <4>2
      <4>. QED
        BY <4>1, <4>3 DEF ToolsReachable
    <3>2. CASE transport = 0
      BY <2>2, <3>2 DEF stopServer, ToolsReachable
    <3>. QED
      BY <3>1, <3>2
  <2>3. ASSUME NEW t \in Starts, Connected(t) PROVE ToolsReachable'
    BY <2>3 DEF Connected, ToolsReachable, Open
  <2>4. ASSUME NEW t \in Starts, StartFails(t) PROVE ToolsReachable'
    BY <2>4 DEF StartFails, ToolsReachable, Open
  <2>5. ASSUME NEW t \in Starts, ProcessEnds(t) PROVE ToolsReachable'
    <3>1. /\ UNCHANGED <<transport, registered, stopping>>
          /\ closed' = closed \cup {t} /\ ended' = ended \cup {t}
      BY <2>5 DEF ProcessEnds, CloseTransport, serverVars
    <3>. QED
      BY <3>1 DEF ToolsReachable, Open
  <2>6. ASSUME NEW s \in stopping, Stopped(s) PROVE ToolsReachable'
    BY <2>6 DEF Stopped, ToolsReachable
  <2>7. ASSUME NEW c \in Calls, Answered(c) \/ TimesOut(c) PROVE ToolsReachable'
    BY <2>7 DEF Answered, TimesOut, serverVars, ToolsReachable, Open
  <2>8. CASE StartBatch \/ AbortBatch
    BY <2>8 DEF StartBatch, AbortBatch, callTools, AbortCalls, serverVars, ToolsReachable, Open
  <2>9. CASE UNCHANGED mcpVars
    BY <2>9 DEF mcpVars, serverVars, ToolsReachable, Open
  <2>. QED
    BY <2>1, <2>2, <2>3, <2>4, <2>5, <2>6, <2>7, <2>8, <2>9 DEF Next, McpStep, FileWork, vars
<1>. QED
  BY <1>1, <1>2, PTL DEF Spec

=============================================================================
