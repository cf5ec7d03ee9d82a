---------------------------- MODULE AuthStorage ----------------------------
(***************************************************************************)
(* AuthStorage and FileAuthStorageBackend of                               *)
(* packages/coding-agent/src/core/auth-storage.ts: the processes of the    *)
(* agent share auth.json, which holds an OAuth credential and the API key  *)
(* of another provider.  Each change of the file is made under a lock on   *)
(* disk (proper-lockfile), and a refresh of the OAuth token holds that     *)
(* lock while it waits for the server.                                     *)
(*                                                                         *)
(* The server gives the tokens numbers and takes a refresh token once: the *)
(* answer to it holds the next.  A key is named by the call that set it.   *)
(* A call of a synchronous operation keeps its process busy until it ends; *)
(* calls of other processes go on between any two steps of it.             *)
(***************************************************************************)
EXTENDS Naturals

CONSTANTS
    Calls,        \* of getApiKey, set, logout or reload: positive numbers
    Processes,
    Requests,     \* what is asked of whom: functions from Calls to [proc, op]
    MaxExpiries,  \* bound: times that the access token expires
    NoCall

Ops == {"getApiKey", "set", "logout", "reload"}

ASSUME AuthAssumption ==
    /\ Calls \subseteq Nat \ {0} /\ NoCall \notin Calls
    /\ Requests \subseteq [Calls -> [proc : Processes, op : Ops]]
    /\ MaxExpiries \in Nat

VARIABLES
    request,    \* of each call: its process and operation
    alive,      \* the processes that have not died
    data,       \* this.data of each process
    loadError,  \* the processes whose loadError is set
    file,       \* the content of auth.json
    lock, age,  \* who made the lock, and how old its mtime is
    holds,      \* the calls whose process has an entry for the lock they took
    compromised,  \* the calls whose lockCompromised is set
    at,         \* where each call is
    awaits,     \* the calls that are inside withLockAsync
    saw,        \* what a call has read in the file
    shares,     \* the calls whose currentData is this.data of their process
    given,      \* the key that was set in such a currentData, 0 for none
    valid,      \* server: the refresh token it takes
    expired,    \* tokens up to this one have expired
    stored,     \* history: the credentials that were written last, each alone
    mishaps     \* history: what happened to the calls from outside

callVars   == <<at, awaits, saw, shares, given>>
lockVars   == <<lock, age, holds, compromised>>
memoryVars == <<data, loadError>>
fileVars   == <<file, stored>>
serverVars == <<valid, expired>>
vars == <<request, alive, memoryVars, fileVars, lockVars, callVars, serverVars, mishaps>>

Credentials == [token : Nat, key : Calls \cup {0}]
Empty       == [token |-> 0, key |-> 0]

proc(c) == request[c].proc
op(c)   == request[c].op

(* The key that currentData has got while the call waited for the server.  *)
WithGiven(c, credentials) ==
    [credentials EXCEPT !.key = IF given[c] = 0 THEN credentials.key ELSE given[c]]

-----------------------------------------------------------------------------
(* Faults: what some of the definitions below would be with a bug, to see  *)
(* that the properties find it.  No definition uses them.                  *)
Cached(c)       == data[proc(c)]
NeverGivesUp(c) == awaits[c]
AccessTokenOnly(c, credentials) ==
    CASE op(c) = "getApiKey" -> WithGiven(c, credentials)
      [] op(c) = "set"       -> [credentials EXCEPT !.key = c]
      [] op(c) = "logout"    -> [credentials EXCEPT !.token = 0]

-----------------------------------------------------------------------------
AuthInit ==
    /\ request \in Requests
    /\ alive = Processes /\ loadError = {}
    /\ file = [token |-> 1, key |-> 0] /\ stored = file
    /\ data = [p \in Processes |-> file]
    /\ lock = NoCall /\ age = "fresh" /\ holds = {} /\ compromised = {}
    /\ at = [c \in Calls |-> "idle"]
    /\ awaits = [c \in Calls |-> FALSE]
    /\ saw = [c \in Calls |-> Empty]
    /\ shares = {} /\ given = [c \in Calls |-> 0]
    /\ valid = 1 /\ expired = 0
    /\ mishaps = {}

(* A call that is inside a stretch of code without an await.               *)
Blocking(c) ==
    \/ at[c] \notin {"idle", "done"} /\ ~awaits[c]
    \/ at[c] = "writing"

Turn(c) ==
    /\ proc(c) \in alive
    /\ \A d \in Calls \ {c} : proc(d) = proc(c) => ~Blocking(d)

GoTo(c, place) == at' = [at EXCEPT ![c] = place]
Remember(c, credentials) == data' = [data EXCEPT ![proc(c)] = credentials]
Sharing(c) == {d \in shares : proc(d) = proc(c)}

(* The operations begin.  A credential that has not expired, or no         *)
(* credential, needs no lock; a change that follows a failed reload stays  *)
(* in memory.  A refresh has made its currentData this.data, so that what  *)
(* is set while it waits is in both; a logout is too, but the refresh puts *)
(* its credential back.                                                    *)
NeedsRefresh(credentials) == credentials.token # 0 /\ credentials.token <= expired

Start(c) ==
    /\ at[c] = "idle"
    /\ CASE op(c) = "getApiKey" ->
              /\ GoTo(c, IF NeedsRefresh(data[proc(c)]) THEN "locking" ELSE "done")
              /\ awaits' = [awaits EXCEPT ![c] = NeedsRefresh(data[proc(c)])]
              /\ UNCHANGED <<data, given>>
         [] op(c) = "set" ->
              /\ Remember(c, [data[proc(c)] EXCEPT !.key = c])
              /\ given' = [d \in Calls |-> IF d \in Sharing(c) THEN c ELSE given[d]]
              /\ GoTo(c, IF proc(c) \in loadError THEN "done" ELSE "locking")
              /\ UNCHANGED awaits
         [] op(c) = "logout" ->
              /\ Remember(c, [data[proc(c)] EXCEPT !.token = 0])
              /\ GoTo(c, IF proc(c) \in loadError THEN "done" ELSE "locking")
              /\ UNCHANGED <<awaits, given>>
         [] op(c) = "reload" -> GoTo(c, "locking") /\ UNCHANGED <<data, awaits, given>>
    /\ UNCHANGED <<loadError, fileVars, lockVars, saw, shares, serverVars, mishaps>>

-----------------------------------------------------------------------------
(* The lock is free, or old enough to be taken away: older than ten        *)
(* seconds for lockSync, and than thirty for lock of withLockAsync.        *)
Stale(c) == age \in (IF awaits[c] THEN {"stale"} ELSE {"old", "stale"})

Acquire(c) ==
    /\ at[c] = "locking" /\ (lock = NoCall \/ Stale(c))
    /\ lock' = c /\ age' = "fresh"
    /\ holds' = {d \in holds : proc(d) # proc(c)} \cup {c}
    /\ mishaps' = IF lock # NoCall /\ proc(lock) \in alive
                  THEN mishaps \cup {"stolen"} ELSE mishaps
    /\ GoTo(c, "reading")
    /\ UNCHANGED <<memoryVars, fileVars, compromised, awaits, saw, shares, given, serverVars>>

(* ELOCKED after the last attempt.  getApiKey then reads the file again.   *)
GivesUp(c) == TRUE

Locked(c) ==
    /\ at[c] = "locking" /\ lock # NoCall /\ ~Stale(c) /\ GivesUp(c)
    /\ GoTo(c, IF awaits[c] THEN "locking" ELSE "done")
    /\ awaits' = [awaits EXCEPT ![c] = FALSE]
    /\ loadError' = IF ~awaits[c] /\ op(c) \in {"getApiKey", "reload"}
                    THEN loadError \cup {proc(c)} ELSE loadError
    /\ UNCHANGED <<data, fileVars, lockVars, saw, shares, given, serverVars, mishaps>>

(* The file as it is under the lock; a lock that was lost in between is an *)
(* error.                                                                  *)
Read(c) ==
    /\ at[c] = "reading"
    /\ IF c \in compromised
       THEN GoTo(c, "unwinding") /\ UNCHANGED <<memoryVars, saw, shares>>
       ELSE /\ saw' = [saw EXCEPT ![c] = file]
            /\ IF op(c) \in {"set", "logout"}
               THEN GoTo(c, "writing") /\ UNCHANGED <<memoryVars, shares>>
               ELSE /\ Remember(c, file)
                    /\ loadError' = loadError \ {proc(c)}
                    /\ GoTo(c, IF awaits[c] /\ NeedsRefresh(file)
                               THEN "asking" ELSE "releasing")
                    /\ shares' = (shares \ Sharing(c)) \cup {c}
    /\ UNCHANGED <<fileVars, lockVars, awaits, given, serverVars, mishaps>>

(* The token server: a refresh token is good for one refresh.              *)
Serve(c) ==
    /\ at[c] = "asking"
    /\ IF saw[c].token = valid
       THEN /\ valid' = valid + 1 /\ GoTo(c, "granted")
            /\ mishaps' = IF proc(c) \in alive THEN mishaps ELSE mishaps \cup {"lost"}
       ELSE GoTo(c, "refused") /\ UNCHANGED <<valid, mishaps>>
    /\ UNCHANGED <<request, alive, expired, memoryVars, fileVars, lockVars, awaits, saw,
                   shares, given>>

(* What a call writes: one provider's credential, merged into what it read.*)
Base(c) == saw[c]
Merge(c, credentials) ==
    CASE op(c) = "getApiKey" ->
            [WithGiven(c, credentials) EXCEPT !.token = saw[c].token + 1]
      [] op(c) = "set"       -> [credentials EXCEPT !.key = c]
      [] op(c) = "logout"    -> [credentials EXCEPT !.token = 0]

(* The answer has come: it is in memory before the lock is looked at.      *)
Refreshed(c) ==
    /\ at[c] = "granted"
    /\ Remember(c, Merge(c, saw[c])) /\ shares' = shares \ Sharing(c)
    /\ loadError' = loadError \ {proc(c)}
    /\ GoTo(c, IF c \in compromised THEN "unwinding" ELSE "writing")
    /\ UNCHANGED <<fileVars, lockVars, awaits, saw, given, serverVars, mishaps>>

(* An error instead of an answer: the server refuses, or the network fails *)
(* before or after the server has seen the request.                        *)
RefreshFails(c) ==
    /\ at[c] \in {"asking", "granted", "refused"}
    /\ mishaps' = IF at[c] = "granted" THEN mishaps \cup {"lost"} ELSE mishaps
    /\ GoTo(c, "unwinding")
    /\ UNCHANGED <<memoryVars, fileVars, lockVars, awaits, saw, shares, given, serverVars>>

Write(c) ==
    /\ at[c] = "writing"
    /\ file' = Merge(c, Base(c))
    /\ stored' = Merge(c, stored)
    /\ GoTo(c, "releasing")
    /\ UNCHANGED <<memoryVars, lockVars, awaits, saw, shares, given, serverVars, mishaps>>

(* unlock takes the directory away, whoever made it.  After an error       *)
(* getApiKey reads the file again, in case another process has refreshed.  *)
Release(c) ==
    /\ at[c] \in {"releasing", "unwinding"}
    /\ lock' = IF c \in holds THEN NoCall ELSE lock
    /\ age' = IF c \in holds THEN "fresh" ELSE age
    /\ holds' = holds \ {c} /\ compromised' = compromised \ {c}
    /\ saw' = [saw EXCEPT ![c] = Empty]
    /\ shares' = shares \ {c} /\ given' = [given EXCEPT ![c] = 0]
    /\ GoTo(c, IF at[c] = "releasing" THEN "done" ELSE "locking")
    /\ awaits' = [awaits EXCEPT ![c] = FALSE]
    /\ UNCHANGED <<memoryVars, fileVars, serverVars, mishaps>>

-----------------------------------------------------------------------------
(* The timer of an asynchronous lock, every fifteen seconds: the mtime is  *)
(* set again, unless the lock is gone or another's.                        *)
Update(c) ==
    /\ c \in holds /\ awaits[c] /\ Turn(c)
    /\ IF lock = c
       THEN /\ age \in {"old", "stale"} /\ age' = "fresh"
            /\ UNCHANGED <<holds, compromised>>
       ELSE /\ holds' = holds \ {c} /\ compromised' = compromised \cup {c}
            /\ UNCHANGED age
    /\ UNCHANGED <<request, alive, lock, memoryVars, fileVars, callVars, serverVars,
                   mishaps>>

(* Time passes: for a lock that waits for the server, or whose process is  *)
(* dead.  A synchronous operation is over within the ten seconds.          *)
Ages ==
    /\ lock # NoCall /\ (awaits[lock] \/ proc(lock) \notin alive)
    /\ age # "stale" /\ age' = IF age = "fresh" THEN "old" ELSE "stale"
    /\ UNCHANGED <<request, alive, memoryVars, fileVars, lock, holds, compromised,
                   callVars, serverVars, mishaps>>

Expires ==
    /\ expired < valid /\ valid <= MaxExpiries /\ expired' = valid
    /\ UNCHANGED <<request, alive, memoryVars, fileVars, lockVars, callVars, valid,
                   mishaps>>

(* A process ends.  If it exits between two of its events it takes its     *)
(* lock away; killed it leaves the lock, and between the two halves of a   *)
(* write an empty file.                                                    *)
Crash(p) ==
    LET Own == {c \in Calls : proc(c) = p}
    IN  /\ p \in alive /\ alive' = alive \ {p}
        /\ \E how \in {"exits", "killed", "torn"} :
             /\ how = "exits" => \A c \in Own : ~Blocking(c)
             /\ how = "torn"  => \E c \in Own : at[c] = "writing"
             /\ file' = IF how = "torn" THEN Empty ELSE file
             /\ lock' = IF how = "exits" /\ Own \cap holds # {} THEN NoCall ELSE lock
             /\ mishaps' = mishaps \cup (IF how = "torn" THEN {"torn"} ELSE {})
                    \cup (IF \E c \in Own : /\ op(c) = "getApiKey"
                                            /\ at[c] \in {"granted", "writing"}
                          THEN {"lost"} ELSE {})
        /\ UNCHANGED <<request, memoryVars, stored, age, holds, compromised, callVars,
                       serverVars>>

-----------------------------------------------------------------------------
Step(c) ==
    /\ Turn(c)
    /\ \/ Start(c) \/ Acquire(c) \/ Locked(c) \/ Read(c)
       \/ Refreshed(c) \/ RefreshFails(c) \/ Write(c) \/ Release(c)
    /\ UNCHANGED <<request, alive>>

Next ==
    \/ \E c \in Calls : Step(c)
    \/ \E c \in Calls : Serve(c) \/ Update(c)
    \/ Ages \/ Expires
    \/ \E p \in Processes : Crash(p)

(* Processes run, and the token server answers or the connection fails.    *)
Fairness == \A c \in Calls : WF_vars(Step(c))

Spec == AuthInit /\ [][Next]_vars /\ Fairness

-----------------------------------------------------------------------------
Places == {"idle", "locking", "reading", "asking", "granted", "refused", "writing",
           "releasing", "unwinding", "done"}

TypeOK ==
    /\ request \in Requests /\ alive \subseteq Processes
    /\ data \in [Processes -> Credentials] /\ loadError \subseteq Processes
    /\ file \in Credentials /\ stored \in Credentials
    /\ lock \in Calls \cup {NoCall} /\ age \in {"fresh", "old", "stale"}
    /\ holds \subseteq Calls /\ compromised \subseteq Calls
    /\ at \in [Calls -> Places] /\ awaits \in [Calls -> BOOLEAN]
    /\ saw \in [Calls -> Credentials]
    /\ shares \subseteq Calls /\ given \in [Calls -> Calls \cup {0}]
    /\ valid \in Nat \ {0} /\ expired \in 0..valid
    /\ mishaps \subseteq {"stolen", "lost", "torn"}

(* A call that brings the newest token to the file.                        *)
Brings(c) ==
    /\ op(c) = "getApiKey" /\ proc(c) \in alive
    /\ at[c] \in {"granted", "writing"} /\ saw[c].token + 1 = valid

(* A refresh token is used once, and what the server gave for it is not    *)
(* lost: unless an answer was lost, a lock was taken from a live process   *)
(* or a write was torn, the file has the token that the server takes, or   *)
(* none after a logout, or the call that will write it is on its way; and  *)
(* a call asks the server with that token only.                            *)
TokenKept ==
    mishaps = {} =>
        /\ \/ file.token \in {0, valid}
           \/ \E c \in Calls : Brings(c)
        /\ \A c \in Calls : at[c] = "asking" /\ proc(c) \in alive => saw[c].token = valid

(* No write of a credential takes back what another call has written, of   *)
(* the same or of the other provider, as long as the lock was never taken  *)
(* from a live process and no write was torn by the end of its process:    *)
(* either can undo a write.                                                *)
NothingUndone == mishaps \subseteq {"lost"} => file = stored

(* Every call ends, whatever waits for the lock and whoever died with it.  *)
CallsEnd ==
    \A c \in Calls : at[c] # "idle" ~> at[c] = "done" \/ proc(c) \notin alive

(* A provider that was logged out stays so, since nobody logs in again.    *)
LogoutIsKept ==
    \A c \in Calls :
        op(c) = "logout" /\ at[c] = "done" => data[proc(c)].token = 0

=============================================================================
