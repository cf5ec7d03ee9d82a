-------------------------- MODULE AuthStorageProofs --------------------------
(***************************************************************************)
(* For any processes and calls: while no lock is taken from a live process *)
(* its holder is alone with the file, so that what it read is what it      *)
(* replaces, no write undoes another and the token the server takes next   *)
(* reaches the file.                                                       *)
(***************************************************************************)
EXTENDS AuthStorage, TLAPS

Live(c) == proc(c) \in alive

(* Between taking the lock and giving it back.                             *)
Inside(c) ==
    at[c] \in {"reading", "asking", "granted", "refused", "writing", "releasing",
               "unwinding"}

(* What the operation of a call says of where the call can be.             *)
Shape ==
    \A c \in Calls :
        /\ awaits[c] => op(c) = "getApiKey"
        /\ at[c] \in {"asking", "granted", "refused"} => awaits[c]
        /\ at[c] = "writing" => op(c) # "reload"

Exclusion ==
    "stolen" \notin mishaps =>
        \A c \in Calls : Live(c) =>
            /\ Inside(c) => c \in holds
            /\ c \in holds => lock = c
            /\ c \notin compromised

SawFile ==
    mishaps \subseteq {"lost"} =>
        \A c \in Calls :
            Live(c) /\ at[c] \in {"asking", "granted", "writing"} => saw[c] = file

Newest ==
    mishaps = {} =>
        \A c \in Calls : Live(c) =>
            /\ at[c] = "asking" => saw[c].token = valid
            /\ op(c) = "getApiKey" /\ at[c] \in {"granted", "writing"}
                 => saw[c].token + 1 = valid

AuthInv == TypeOK /\ Shape /\ Exclusion /\ SawFile /\ Newest /\ NothingUndone /\ TokenKept

-----------------------------------------------------------------------------
(* A step of one call moves that call only.                                *)
LEMMA Moves ==
    ASSUME TypeOK, NEW c \in Calls, NEW place \in Places, GoTo(c, place)
    PROVE  /\ at' \in [Calls -> Places]
           /\ at'[c] = place
           /\ \A d \in Calls \ {c} : at'[d] = at[d]
BY DEF TypeOK, GoTo

LEMMA InitTypes == AuthInit => TypeOK
BY AuthAssumption DEF AuthInit, TypeOK, Credentials, Empty, Places

LEMMA RequestTypes ==
    ASSUME TypeOK, NEW c \in Calls
    PROVE  proc(c) \in Processes /\ op(c) \in Ops
BY AuthAssumption DEF TypeOK, proc, op

LEMMA MergeTypes ==
    ASSUME TypeOK, NEW c \in Calls, NEW r \in Credentials, op(c) # "reload"
    PROVE  Merge(c, r) \in Credentials
<1>1. saw[c] \in Credentials /\ given[c] \in Calls \cup {0}
  BY DEF TypeOK
<1>2. op(c) \in {"getApiKey", "set", "logout"}
  BY RequestTypes DEF Ops
<1>3. WithGiven(c, r) \in Credentials
  BY <1>1 DEF WithGiven, Credentials
<1>. QED
  BY <1>1, <1>2, <1>3 DEF Merge, Credentials

LEMMA StepTypes ==
    ASSUME TypeOK, Shape, NEW c \in Calls, Step(c)
    PROVE  TypeOK'
<1>. USE DEF Places
<1>1. proc(c) \in Processes /\ op(c) \in Ops /\ UNCHANGED <<request, alive>>
  BY RequestTypes DEF Step
<1>2. CASE Start(c)
  <2>1. PICK place \in Places : GoTo(c, place)
    BY <1>1, <1>2 DEF Start, Ops
  <2>2. awaits' \in [Calls -> BOOLEAN]
    BY <1>1, <1>2 DEF Start, TypeOK, NeedsRefresh, Ops
  <2>3. \/ UNCHANGED data
        \/ Remember(c, [data[proc(c)] EXCEPT !.key = c])
        \/ Remember(c, [data[proc(c)] EXCEPT !.token = 0])
    BY <1>1, <1>2 DEF Start, Ops
  <2>4. data[proc(c)] \in Credentials
    BY <1>1 DEF TypeOK
  <2>5. /\ [data[proc(c)] EXCEPT !.key = c] \in Credentials
        /\ [data[proc(c)] EXCEPT !.token = 0] \in Credentials
    BY <2>4 DEF Credentials
  <2>6. data' \in [Processes -> Credentials]
    BY <1>1, <2>3, <2>5 DEF TypeOK, Remember
  <2>7. given' \in [Calls -> Calls \cup {0}]
    BY <1>1, <1>2 DEF Start, TypeOK, Ops
  <2>. QED
    BY <1>1, <1>2, <2>1, <2>2, <2>6, <2>7, Moves DEF Start, TypeOK, fileVars, lockVars, serverVars
<1>3. CASE Acquire(c)
  BY <1>1, <1>3, Moves DEF Acquire, TypeOK, memoryVars, fileVars, serverVars
<1>4. CASE Locked(c)
  <2>1. PICK place \in Places : GoTo(c, place)
    BY <1>4 DEF Locked
  <2>. QED
    BY <1>1, <1>4, <2>1, Moves DEF Locked, TypeOK, fileVars, lockVars, serverVars
<1>5. CASE Read(c)
  <2>1. PICK place \in Places : GoTo(c, place)
    BY <1>5 DEF Read
  <2>2. saw' \in [Calls -> Credentials]
    BY <1>5 DEF Read, TypeOK
  <2>3. data' \in [Processes -> Credentials] /\ loadError' \subseteq Processes
    BY <1>1, <1>5 DEF Read, TypeOK, Remember, memoryVars
  <2>. QED
    BY <1>1, <1>5, <2>1, <2>2, <2>3, Moves DEF Read, TypeOK, fileVars, lockVars, serverVars
<1>6. CASE Refreshed(c)
  <2>1. PICK place \in Places : GoTo(c, place)
    BY <1>6 DEF Refreshed
  <2>2. Merge(c, saw[c]) \in Credentials
    BY <1>6, MergeTypes DEF Refreshed, TypeOK, Shape
  <2>3. data' \in [Processes -> Credentials] /\ loadError' \subseteq Processes
    BY <1>1, <1>6, <2>2 DEF Refreshed, TypeOK, Remember
  <2>. QED
    BY <1>1, <1>6, <2>1, <2>3, Moves DEF Refreshed, TypeOK, fileVars, lockVars, serverVars
<1>7. CASE RefreshFails(c)
  BY <1>1, <1>7, Moves DEF RefreshFails, TypeOK, memoryVars, fileVars, lockVars, serverVars
<1>8. CASE Write(c)
  <2>1. Merge(c, saw[c]) \in Credentials /\ Merge(c, stored) \in Credentials
    BY <1>8, MergeTypes DEF Write, TypeOK, Shape
  <2>. QED
    BY <1>1, <1>8, <2>1, Moves DEF Write, Base, TypeOK, memoryVars, lockVars, serverVars
<1>9. CASE Release(c)
  <2>1. PICK place \in Places : GoTo(c, place)
    BY <1>9 DEF Release
  <2>2. Empty \in Credentials
    BY DEF Empty, Credentials
  <2>. QED
    BY <1>1, <1>9, <2>1, <2>2, Moves DEF Release, TypeOK, memoryVars, fileVars, serverVars
<1>. QED
  BY <1>2, <1>3, <1>4, <1>5, <1>6, <1>7, <1>8, <1>9 DEF Step

LEMMA NextTypes ==
    ASSUME TypeOK, Shape, [Next]_vars
    PROVE  TypeOK'
<1>1. ASSUME NEW c \in Calls, Serve(c) PROVE TypeOK'
  <2>1. PICK place \in Places : GoTo(c, place)
    BY <1>1 DEF Serve, Places
  <2>2. valid' \in Nat \ {0} /\ expired' \in 0..valid'
    BY <1>1 DEF Serve, TypeOK
  <2>. QED
    BY <1>1, <2>1, <2>2, Moves DEF Serve, TypeOK, memoryVars, fileVars, lockVars
<1>2. ASSUME NEW c \in Calls, Update(c) PROVE TypeOK'
  BY <1>2 DEF Update, TypeOK, memoryVars, fileVars, callVars, serverVars
<1>3. CASE Ages
  BY <1>3 DEF Ages, TypeOK, memoryVars, fileVars, callVars, serverVars
<1>4. CASE Expires
  BY <1>4 DEF Expires, TypeOK, memoryVars, fileVars, lockVars, callVars
<1>5. ASSUME NEW p \in Processes, Crash(p) PROVE TypeOK'
  <2>1. Empty \in Credentials
    BY DEF Empty, Credentials
  <2>. QED
    BY <1>5, <2>1 DEF Crash, TypeOK, memoryVars, lockVars, callVars, serverVars
<1>6. CASE UNCHANGED vars
  BY <1>6 DEF vars, TypeOK, memoryVars, fileVars, lockVars, callVars, serverVars
<1>. QED
  BY <1>1, <1>2, <1>3, <1>4, <1>5, <1>6, StepTypes DEF Next

-----------------------------------------------------------------------------
LEMMA ShapeHolds ==
    ASSUME TypeOK, Shape, [Next]_vars
    PROVE  Shape'
<1>. USE DEF Places
<1>1. UNCHANGED request /\ \A d \in Calls : op(d)' = op(d)
  BY DEF Next, Step, Serve, Update, Ages, Expires, Crash, vars, op
<1>2. ASSUME NEW c \in Calls, Start(c) PROVE Shape'
  <2>1. CASE op(c) = "getApiKey"
    BY <1>1, <1>2, <2>1, Moves DEF Start, Shape, TypeOK
  <2>2. CASE op(c) # "getApiKey"
    <3>1. op(c) \in Ops
      BY RequestTypes
    <3>2. UNCHANGED awaits /\ (GoTo(c, "done") \/ GoTo(c, "locking"))
      BY <1>2, <2>2, <3>1 DEF Start, Ops
    <3>. QED
      BY <1>1, <3>2, Moves DEF Shape
  <2>. QED
    BY <2>1, <2>2
<1>3. ASSUME NEW c \in Calls, Acquire(c) PROVE Shape'
  BY <1>1, <1>3, Moves DEF Acquire, Shape
<1>4. ASSUME NEW c \in Calls, Locked(c) PROVE Shape'
  <2>1. GoTo(c, "done") \/ GoTo(c, "locking")
    BY <1>4 DEF Locked
  <2>. QED
    BY <1>1, <1>4, <2>1, Moves DEF Locked, Shape, TypeOK
<1>5. ASSUME NEW c \in Calls, Read(c) PROVE Shape'
  <2>1. \/ GoTo(c, "unwinding") \/ GoTo(c, "releasing")
        \/ GoTo(c, "writing") /\ op(c) \in {"set", "logout"}
        \/ GoTo(c, "asking") /\ awaits[c]
    BY <1>5 DEF Read
  <2>2. UNCHANGED awaits
    BY <1>5 DEF Read
  <2>. QED
    BY <1>1, <2>1, <2>2, Moves DEF Shape
<1>6. ASSUME NEW c \in Calls, Serve(c) \/ Refreshed(c) \/ RefreshFails(c) PROVE Shape'
  <2>1. /\ awaits[c] /\ op(c) = "getApiKey" /\ UNCHANGED awaits
        /\ \E place \in {"granted", "refused", "writing", "unwinding"} : GoTo(c, place)
    BY <1>6 DEF Serve, Refreshed, RefreshFails, Shape
  <2>. QED
    BY <1>1, <2>1, Moves DEF Shape
<1>7. ASSUME NEW c \in Calls, Write(c) PROVE Shape'
  BY <1>1, <1>7, Moves DEF Write, Shape
<1>8. ASSUME NEW c \in Calls, Release(c) PROVE Shape'
  <2>1. GoTo(c, "done") \/ GoTo(c, "locking")
    BY <1>8 DEF Release
  <2>. QED
    BY <1>1, <1>8, <2>1, Moves DEF Release, Shape, TypeOK
<1>9. CASE UNCHANGED callVars
  BY <1>1, <1>9 DEF callVars, Shape
<1>. QED
  BY <1>2, <1>3, <1>4, <1>5, <1>6, <1>7, <1>8, <1>9
     DEF Next, Step, Update, Ages, Expires, Crash, vars

(* What has happened stays known, and the dead stay dead.                  *)
LEMMA Grows ==
    ASSUME [Next]_vars
    PROVE  /\ mishaps \subseteq mishaps' /\ alive' \subseteq alive
           /\ \A c \in Calls : proc(c)' = proc(c) /\ op(c)' = op(c)
<1>1. UNCHANGED request
  BY DEF Next, Step, Serve, Update, Ages, Expires, Crash, vars
<1>2. alive' \subseteq alive
  BY DEF Next, Step, Serve, Update, Ages, Expires, Crash, vars
<1>3. mishaps \subseteq mishaps'
  BY DEF Next, Step, Start, Acquire, Locked, Read, Refreshed, RefreshFails, Write, Release,
         Serve, Update, Ages, Expires, Crash, vars
<1>. QED
  BY <1>1, <1>2, <1>3 DEF proc, op

LEMMA ExclusionHolds ==
    ASSUME TypeOK, Exclusion, [Next]_vars
    PROVE  Exclusion'
<1>. USE DEF Places
<1>. SUFFICES ASSUME "stolen" \notin mishaps' PROVE Exclusion'
  BY DEF Exclusion
<1>1. /\ \A d \in Calls : Live(d)' => Live(d)
      /\ \A d \in Calls : Live(d) => /\ Inside(d) => d \in holds
                                     /\ d \in holds => lock = d
                                     /\ d \notin compromised
  BY Grows DEF Exclusion, Live
(* Steps that leave the lock alone and move nobody inside.                 *)
<1>2. ASSUME UNCHANGED <<lock, holds, compromised>>, \A d \in Calls : Inside(d)' => Inside(d)
      PROVE  Exclusion'
  BY <1>1, <1>2 DEF Exclusion
<1>3. ASSUME NEW c \in Calls, Start(c) \/ Locked(c) PROVE Exclusion'
  <2>1. GoTo(c, "done") \/ GoTo(c, "locking")
    BY <1>3, RequestTypes DEF Start, Locked, Ops
  <2>2. \A d \in Calls : Inside(d)' => Inside(d)
    BY <2>1, Moves DEF Inside
  <2>. QED
    BY <1>2, <1>3, <2>2 DEF Start, Locked, lockVars
<1>4. ASSUME NEW c \in Calls, Turn(c), Acquire(c) PROVE Exclusion'
  <2>1. lock = NoCall \/ proc(lock) \notin alive
    BY <1>4 DEF Acquire
  <2>2. \A d \in Calls : Live(d) => d \notin holds /\ ~Inside(d)
    BY <1>1, <2>1, AuthAssumption DEF Live
  <2>3. \A d \in Calls : Inside(d)' => Inside(d) \/ d = c
    BY <1>4, Moves DEF Acquire, Inside
  <2>. QED
    BY <1>1, <1>4, <2>2, <2>3 DEF Acquire, Exclusion
<1>5. ASSUME NEW c \in Calls,
             Read(c) \/ Serve(c) \/ Refreshed(c) \/ RefreshFails(c) \/ Write(c)
      PROVE  Exclusion'
  <2>1. Inside(c) /\ UNCHANGED lockVars
    BY <1>5 DEF Read, Serve, Refreshed, RefreshFails, Write, Inside
  <2>2. \A d \in Calls \ {c} : at'[d] = at[d]
    BY <1>5 DEF Read, Serve, Refreshed, RefreshFails, Write, GoTo, TypeOK
  <2>. QED
    BY <1>2, <2>1, <2>2 DEF lockVars, Inside
<1>6. ASSUME NEW c \in Calls, Turn(c), Release(c) PROVE Exclusion'
  <2>1. c \in holds /\ lock = c
    BY <1>1, <1>6 DEF Release, Inside, Turn, Live
  <2>2. \A d \in Calls : Live(d) /\ d # c => d \notin holds /\ ~Inside(d)
    BY <1>1, <2>1
  <2>3. GoTo(c, "done") \/ GoTo(c, "locking")
    BY <1>6 DEF Release
  <2>4. \A d \in Calls : Live(d)' => ~Inside(d)' /\ d \notin holds'
    BY <1>1, <1>6, <2>2, <2>3, Moves DEF Release, Inside
  <2>. QED
    BY <1>1, <1>6, <2>4 DEF Release, Exclusion
<1>7. ASSUME NEW c \in Calls, Update(c) PROVE Exclusion'
  <2>1. lock = c
    BY <1>1, <1>7 DEF Update, Turn, Live
  <2>. QED
    BY <1>2, <1>7, <2>1 DEF Update, callVars, Inside
<1>8. ASSUME NEW p \in Processes, Crash(p) PROVE Exclusion'
  <2>1. UNCHANGED <<holds, compromised, callVars>> /\ alive' = alive \ {p}
    BY <1>8 DEF Crash
  <2>2. CASE UNCHANGED lock
    BY <1>2, <2>1, <2>2 DEF callVars, Inside
  <2>3. CASE ~UNCHANGED lock
    <3>1. PICK c \in holds : c \in Calls /\ proc(c) = p /\ p \in alive
      BY <1>8, <2>3 DEF Crash
    <3>2. \A d \in Calls : Live(d) /\ d # c => d \notin holds /\ ~Inside(d)
      BY <1>1, <3>1 DEF Live
    <3>3. ~Live(c)'
      BY <2>1, <3>1, Grows DEF Live
    <3>. QED
      BY <1>1, <2>1, <3>2, <3>3 DEF Exclusion, callVars, Inside
  <2>. QED
    BY <2>2, <2>3
<1>9. CASE UNCHANGED <<lock, holds, compromised, callVars>>
  BY <1>2, <1>9 DEF callVars, Inside
<1>. QED
  BY <1>3, <1>4, <1>5, <1>6, <1>7, <1>8, <1>9
     DEF Next, Step, Ages, Expires, vars, lockVars

-----------------------------------------------------------------------------
(* Whoever is inside and alive is there alone.                             *)
LEMMA Alone ==
    ASSUME Exclusion, "stolen" \notin mishaps, NEW c \in Calls, NEW d \in Calls,
           Live(c), Inside(c), Live(d), Inside(d)
    PROVE  c = d
BY DEF Exclusion

LEMMA WritesWhatItSaw ==
    ASSUME SawFile, NothingUndone, mishaps \subseteq {"lost"},
           NEW c \in Calls, Turn(c), Write(c)
    PROVE  saw[c] = file /\ file = stored
BY DEF SawFile, NothingUndone, Turn, Live, Write

LEMMA SawFileHolds ==
    ASSUME TypeOK, Exclusion, SawFile, [Next]_vars
    PROVE  SawFile'
<1>. USE DEF Places
<1>. SUFFICES ASSUME mishaps' \subseteq {"lost"} PROVE SawFile'
  BY DEF SawFile
<1>. DEFINE Holding(d) == at[d] \in {"asking", "granted", "writing"}
<1>1. /\ mishaps \subseteq {"lost"} /\ "stolen" \notin mishaps
      /\ \A d \in Calls : Live(d)' => Live(d)
      /\ \A d \in Calls : Live(d) /\ Holding(d) => saw[d] = file
  BY Grows DEF SawFile, Live
<1>2. ASSUME UNCHANGED file,
             \A d \in Calls : Holding(d)' => Holding(d) /\ saw'[d] = saw[d]
      PROVE  SawFile'
  BY <1>1, <1>2 DEF SawFile
<1>3. ASSUME NEW c \in Calls, Start(c) \/ Locked(c) \/ Acquire(c) \/ Release(c)
      PROVE  SawFile'
  <2>1. GoTo(c, "done") \/ GoTo(c, "locking") \/ GoTo(c, "reading")
    BY <1>3, RequestTypes DEF Start, Locked, Acquire, Release, Ops
  <2>2. UNCHANGED file /\ \A d \in Calls \ {c} : saw'[d] = saw[d]
    BY <1>3 DEF Start, Locked, Acquire, Release, fileVars, TypeOK
  <2>. QED
    BY <1>2, <2>1, <2>2, Moves
<1>4. ASSUME NEW c \in Calls, Read(c) PROVE SawFile'
  <2>1. UNCHANGED file /\ \A d \in Calls \ {c} : saw'[d] = saw[d] /\ at'[d] = at[d]
    BY <1>4 DEF Read, GoTo, fileVars, TypeOK
  <2>2. at'[c] \in {"asking", "granted", "writing"} => saw'[c] = file
    BY <1>4, Moves DEF Read, TypeOK
  <2>. QED
    BY <1>1, <2>1, <2>2 DEF SawFile
<1>5. ASSUME NEW c \in Calls, Serve(c) \/ Refreshed(c) \/ RefreshFails(c) PROVE SawFile'
  <2>1. UNCHANGED <<file, saw>>
    BY <1>5 DEF Serve, Refreshed, RefreshFails, fileVars
  <2>2. \E place \in Places : GoTo(c, place)
    BY <1>5 DEF Serve, Refreshed, RefreshFails
  <2>3. \A d \in Calls : Holding(d)' => Holding(d)
    BY <1>5, <2>2, Moves DEF Serve, Refreshed, RefreshFails, GoTo
  <2>. QED
    BY <1>2, <2>1, <2>3
<1>6. ASSUME NEW c \in Calls, Turn(c), Write(c) PROVE SawFile'
  <2>1. \A d \in Calls \ {c} : ~(Live(d) /\ Holding(d))
    BY <1>1, <1>6, Alone DEF Write, Inside, Turn, Live
  <2>. QED
    BY <1>1, <1>6, <2>1, Moves DEF Write, SawFile
<1>7. ASSUME NEW p \in Processes, Crash(p) PROVE SawFile'
  <2>1. UNCHANGED <<file, callVars>>
    BY <1>7 DEF Crash
  <2>. QED
    BY <1>2, <2>1 DEF callVars
<1>8. CASE UNCHANGED <<file, callVars>>
  BY <1>2, <1>8 DEF callVars
<1>. QED
  BY <1>3, <1>4, <1>5, <1>6, <1>7, <1>8
     DEF Next, Step, Update, Ages, Expires, vars, fileVars

LEMMA UndoneHolds ==
    ASSUME SawFile, NothingUndone, [Next]_vars
    PROVE  NothingUndone'
<1>. SUFFICES ASSUME mishaps' \subseteq {"lost"} PROVE file' = stored'
  BY DEF NothingUndone
<1>1. mishaps \subseteq {"lost"} /\ file = stored
  BY Grows DEF NothingUndone
<1>2. ASSUME NEW c \in Calls, Turn(c), Write(c) PROVE file' = stored'
  BY <1>1, <1>2, WritesWhatItSaw DEF Write, Base
<1>3. ASSUME NEW p \in Processes, Crash(p) PROVE file' = stored'
  BY <1>1, <1>3 DEF Crash
<1>4. CASE UNCHANGED fileVars
  BY <1>1, <1>4 DEF fileVars
<1>. QED
  BY <1>2, <1>3, <1>4
     DEF Next, Step, Start, Acquire, Locked, Read, Refreshed, RefreshFails, Release, Serve,
         Update, Ages, Expires, vars

-----------------------------------------------------------------------------
(* What a refresh reads is the token that the server takes: nobody else is *)
(* on the way to the file with a newer one.                                *)
LEMMA ReadsNewest ==
    ASSUME TypeOK, Exclusion, TokenKept, mishaps = {},
           NEW c \in Calls, Live(c), at[c] = "reading", NeedsRefresh(file)
    PROVE  file.token = valid
<1>1. \A d \in Calls : ~Brings(d)
  BY Alone DEF Brings, Inside, Live
<1>. QED
  BY <1>1 DEF TokenKept, NeedsRefresh

LEMMA NewestHolds ==
    ASSUME TypeOK, Shape, Exclusion, Newest, TokenKept, [Next]_vars
    PROVE  Newest'
<1>. USE DEF Places
<1>. SUFFICES ASSUME mishaps' = {} PROVE Newest'
  BY DEF Newest
<1>. DEFINE Asks(d)     == at[d] = "asking"
            Refreshes(d) == op(d) = "getApiKey" /\ at[d] \in {"granted", "writing"}
<1>1. /\ mishaps = {} /\ "stolen" \notin mishaps
      /\ \A d \in Calls : /\ Live(d)' => Live(d)
                          /\ op(d)' = op(d)
      /\ \A d \in Calls : Live(d) => /\ Asks(d) => saw[d].token = valid
                                     /\ Refreshes(d) => saw[d].token + 1 = valid
  BY Grows DEF Newest, Live
<1>2. ASSUME UNCHANGED valid,
             \A d \in Calls : /\ Asks(d)' => Asks(d) /\ saw'[d] = saw[d]
                              /\ Refreshes(d)' => Refreshes(d) /\ saw'[d] = saw[d]
      PROVE  Newest'
  BY <1>1, <1>2 DEF Newest
<1>3. ASSUME NEW c \in Calls, Start(c) \/ Locked(c) \/ Acquire(c) \/ Release(c)
      PROVE  Newest'
  <2>1. GoTo(c, "done") \/ GoTo(c, "locking") \/ GoTo(c, "reading")
    BY <1>3, RequestTypes DEF Start, Locked, Acquire, Release, Ops
  <2>2. UNCHANGED valid /\ \A d \in Calls \ {c} : saw'[d] = saw[d]
    BY <1>3 DEF Start, Locked, Acquire, Release, serverVars, TypeOK
  <2>. QED
    BY <1>1, <1>2, <2>1, <2>2, Moves
<1>4. ASSUME NEW c \in Calls, Turn(c), Read(c) PROVE Newest'
  <2>1. UNCHANGED valid /\ \A d \in Calls \ {c} : saw'[d] = saw[d] /\ at'[d] = at[d]
    BY <1>4 DEF Read, GoTo, serverVars, TypeOK
  <2>2. Asks(c)' => saw'[c].token = valid
    <3>. SUFFICES ASSUME Asks(c)' PROVE saw'[c].token = valid
      OBVIOUS
    <3>1. saw'[c] = file /\ NeedsRefresh(file)
      BY <1>4, Moves DEF Read, TypeOK
    <3>. QED
      BY <1>1, <1>4, <3>1, ReadsNewest DEF Read, Turn, Live
  <2>3. ~Refreshes(c)'
    BY <1>1, <1>4, Moves DEF Read
  <2>. QED
    BY <1>1, <2>1, <2>2, <2>3 DEF Newest
<1>5. ASSUME NEW c \in Calls, Serve(c) PROVE Newest'
  <2>1. UNCHANGED saw /\ (GoTo(c, "granted") \/ GoTo(c, "refused"))
    BY <1>5 DEF Serve
  <2>2. CASE UNCHANGED valid
    <3>1. GoTo(c, "refused")
      BY <1>5, <2>2 DEF Serve, TypeOK
    <3>. QED
      BY <1>1, <1>2, <2>1, <2>2, <3>1, Moves
  <2>3. CASE ~UNCHANGED valid
    <3>1. /\ saw[c].token = valid /\ valid' = valid + 1 /\ GoTo(c, "granted")
          /\ Live(c) /\ Inside(c)
      BY <1>5, <2>3, Grows DEF Serve, Live, Inside
    <3>2. \A d \in Calls \ {c} : Live(d) => ~Asks(d) /\ ~Refreshes(d)
      BY <1>1, <3>1, Alone DEF Inside
    <3>. QED
      BY <1>1, <2>1, <3>1, <3>2, Moves DEF Newest
  <2>. QED
    BY <2>2, <2>3
<1>6. ASSUME NEW c \in Calls, Refreshed(c) \/ RefreshFails(c) \/ Write(c) PROVE Newest'
  <2>1. UNCHANGED <<valid, saw>>
    BY <1>6 DEF Refreshed, RefreshFails, Write, serverVars
  <2>2. \A d \in Calls \ {c} : at'[d] = at[d]
    BY <1>6 DEF Refreshed, RefreshFails, Write, GoTo, TypeOK
  <2>3. ~Asks(c)' /\ (Refreshes(c)' => Refreshes(c))
    BY <1>1, <1>6, Moves DEF Refreshed, RefreshFails, Write
  <2>. QED
    BY <1>1, <1>2, <2>1, <2>2, <2>3
<1>7. CASE UNCHANGED <<valid, callVars>>
  BY <1>1, <1>2, <1>7 DEF callVars
<1>. QED
  BY <1>3, <1>4, <1>5, <1>6, <1>7
     DEF Next, Step, Update, Ages, Expires, Crash, vars, serverVars

-----------------------------------------------------------------------------
(* A call goes on bringing the newest token, or has brought it.            *)
LEMMA BringsOn ==
    ASSUME TypeOK, Exclusion, NothingUndone, SawFile, [Next]_vars, mishaps' = {},
           NEW d \in Calls, Brings(d), UNCHANGED valid
    PROVE  Brings(d)' \/ file'.token = valid
<1>. USE DEF Places
<1>1. /\ mishaps = {} /\ op(d)' = op(d) /\ proc(d)' = proc(d)
      /\ Live(d) /\ Inside(d) /\ d \notin compromised
  BY Grows DEF Brings, Live, Inside, Exclusion
<1>2. ASSUME UNCHANGED <<alive, at, saw>> PROVE Brings(d)'
  BY <1>1, <1>2 DEF Brings
<1>3. ASSUME NEW c \in Calls \ {d}, Step(c) \/ Serve(c) PROVE Brings(d)'
  <2>1. UNCHANGED alive
    BY <1>3 DEF Step, Serve
  <2>2. \E place \in Places : GoTo(c, place)
    <3>1. CASE Start(c)
      BY <3>1, RequestTypes DEF Start, Ops
    <3>2. CASE Locked(c) \/ Read(c) \/ Refreshed(c) \/ Release(c)
      BY <3>2 DEF Locked, Read, Refreshed, Release
    <3>3. CASE Acquire(c) \/ RefreshFails(c) \/ Write(c) \/ Serve(c)
      BY <3>3 DEF Acquire, RefreshFails, Write, Serve
    <3>. QED
      BY <1>3, <3>1, <3>2, <3>3 DEF Step
  <2>3. UNCHANGED saw \/ \E r : saw' = [saw EXCEPT ![c] = r]
    BY <1>3 DEF Step, Serve, Start, Acquire, Locked, Read, Refreshed, RefreshFails, Write,
                Release
  <2>4. at'[d] = at[d] /\ saw'[d] = saw[d]
    BY <1>3, <2>2, <2>3, Moves DEF TypeOK
  <2>. QED
    BY <1>1, <2>1, <2>4 DEF Brings
<1>4. CASE Step(d)
  <2>1. CASE Refreshed(d)
    <3>1. GoTo(d, "writing") /\ UNCHANGED <<saw, alive>>
      BY <1>1, <1>4, <2>1 DEF Refreshed, Step
    <3>. QED
      BY <1>1, <3>1, Moves DEF Brings
  <2>2. CASE Write(d)
    <3>1. file' = [WithGiven(d, saw[d]) EXCEPT !.token = saw[d].token + 1]
      BY <1>1, <2>2 DEF Write, Base, Merge, Brings
    <3>2. saw[d] \in Credentials /\ given[d] \in Calls \cup {0}
      BY DEF TypeOK
    <3>3. WithGiven(d, saw[d]) \in Credentials
      BY <3>2 DEF WithGiven, Credentials
    <3>. QED
      BY <3>1, <3>3 DEF Brings, Credentials
  <2>3. ~RefreshFails(d)
    BY <1>4 DEF RefreshFails, Brings
  <2>. QED
    BY <1>4, <2>1, <2>2, <2>3 DEF Step, Start, Acquire, Locked, Read, Release, Brings
<1>5. ~Serve(d)
  BY DEF Serve, Brings
<1>6. ASSUME NEW p \in Processes, Crash(p) PROVE Brings(d)'
  <2>1. p # proc(d)
    BY <1>6 DEF Crash, Brings
  <2>. QED
    BY <1>1, <1>6, <2>1 DEF Crash, callVars, Brings
<1>. QED
  BY <1>2, <1>3, <1>4, <1>5, <1>6
     DEF Next, Step, Update, Ages, Expires, vars, callVars

(* Only a refresh changes the token in the file, and a logout.             *)
LEMMA TokenChanges ==
    ASSUME TypeOK, Shape, Exclusion, SawFile, NothingUndone, [Next]_vars, mishaps' = {},
           \A d \in Calls : ~Brings(d), Newest
    PROVE  file'.token \in {0, file.token}
<1>1. mishaps = {}
  BY Grows
<1>2. ASSUME NEW c \in Calls, Turn(c), Write(c) PROVE file'.token \in {0, file.token}
  <2>1. saw[c] = file /\ file \in Credentials
    BY <1>1, <1>2, WritesWhatItSaw DEF TypeOK
  <2>2. op(c) # "getApiKey"
    BY <1>1, <1>2 DEF Write, Turn, Live, Newest, Brings
  <2>3. op(c) \in {"set", "logout"}
    BY <1>2, <2>2, RequestTypes DEF Write, Shape, Ops
  <2>. QED
    BY <1>2, <2>1, <2>3 DEF Write, Base, Merge, Credentials
<1>3. ASSUME NEW p \in Processes, Crash(p) PROVE file' = file
  BY <1>3 DEF Crash
<1>4. CASE UNCHANGED file
  BY <1>4
<1>. QED
  BY <1>2, <1>3, <1>4
     DEF Next, Step, Start, Acquire, Locked, Read, Refreshed, RefreshFails, Release, Serve,
         Update, Ages, Expires, vars, fileVars

LEMMA TokenHolds ==
    ASSUME AuthInv, [Next]_vars, Newest'
    PROVE  TokenKept'
<1>. USE DEF AuthInv
<1>. SUFFICES ASSUME mishaps' = {} PROVE TokenKept'
  BY DEF TokenKept
<1>1. \A c \in Calls : at'[c] = "asking" /\ (proc(c) \in alive)' => saw'[c].token = valid'
  BY DEF Newest, Live
<1>2. mishaps = {}
  BY Grows
<1>3. CASE UNCHANGED valid
  <2>1. CASE \E d \in Calls : Brings(d)
    BY <1>1, <1>3, <2>1, BringsOn DEF TokenKept
  <2>2. CASE \A d \in Calls : ~Brings(d)
    BY <1>1, <1>2, <1>3, <2>2, TokenChanges DEF TokenKept
  <2>. QED
    BY <2>1, <2>2
<1>4. ASSUME NEW c \in Calls, Serve(c), valid' # valid PROVE TokenKept'
  <2>1. /\ saw[c].token = valid /\ valid' = valid + 1 /\ GoTo(c, "granted")
        /\ proc(c) \in alive /\ UNCHANGED <<saw, alive>> /\ at[c] = "asking"
    BY <1>4 DEF Serve
  <2>2. op(c) = "getApiKey" /\ op(c)' = op(c) /\ proc(c)' = proc(c)
    BY <2>1, Grows DEF Shape
  <2>3. Brings(c)'
    BY <2>1, <2>2, Moves DEF Brings, Places
  <2>. QED
    BY <1>1, <2>3 DEF TokenKept
<1>5. UNCHANGED valid \/ \E c \in Calls : Serve(c)
  BY DEF Next, Step, Start, Acquire, Locked, Read, Refreshed, RefreshFails, Write, Release,
         Update, Ages, Expires, Crash, vars, serverVars
<1>. QED
  BY <1>3, <1>4, <1>5

-----------------------------------------------------------------------------
LEMMA AuthInvariant == Spec => []AuthInv
<1>1. AuthInit => AuthInv
  <2>. SUFFICES ASSUME AuthInit PROVE AuthInv
    OBVIOUS
  <2>1. TypeOK
    BY InitTypes
  <2>2. Shape /\ Exclusion /\ SawFile /\ Newest
    BY DEF AuthInit, Shape, Exclusion, SawFile, Newest, Inside
  <2>3. NothingUndone /\ TokenKept
    BY DEF AuthInit, NothingUndone, TokenKept
  <2>. QED
    BY <2>1, <2>2, <2>3 DEF AuthInv
<1>2. AuthInv /\ [Next]_vars => AuthInv'
  <2>. SUFFICES ASSUME AuthInv, [Next]_vars PROVE AuthInv'
    OBVIOUS
  <2>1. TypeOK' /\ Shape'
    BY NextTypes, ShapeHolds DEF AuthInv
  <2>2. Exclusion' /\ SawFile' /\ NothingUndone'
    BY ExclusionHolds, SawFileHolds, UndoneHolds DEF AuthInv
  <2>3. Newest'
    BY NewestHolds DEF AuthInv
  <2>. QED
    BY <2>1, <2>2, <2>3, TokenHolds DEF AuthInv
<1>. QED
  BY <1>1, <1>2, PTL DEF Spec

(* For any processes and calls, with crashes and locks that are given up:  *)
(* a refresh token is used once and its successor reaches the file, while  *)
(* no answer is lost, no live process's lock taken and no write torn.      *)
THEOREM TokensAreKept == Spec => []TokenKept
BY AuthInvariant, PTL DEF AuthInv

(* For any processes and calls, with crashes, failed refreshes and lost    *)
(* answers, no write undoes another - as long as no lock of a live process *)
(* is taken and no write is torn by the end of its process: the README's   *)
(* section 9 has a run in which a lock taken from a live process undoes    *)
(* one.                                                                    *)
THEOREM NoWriteUndone == Spec => []NothingUndone
BY AuthInvariant, PTL DEF AuthInv

=============================================================================
