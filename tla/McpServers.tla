----------------------------- MODULE McpServers -----------------------------
(***************************************************************************)
(* McpServerManager and StdioTransport of                                  *)
(* packages/coding-agent/src/core/mcp/server-manager.ts, for one server:   *)
(* each start makes a process with a transport of its own, which takes the *)
(* place of the one before when it is connected; requests wait for an      *)
(* answer, a timeout, an abort or the end of the transport.                *)
(*                                                                         *)
(* Starts, stops and calls overlap: the commands /mcp:start and /mcp:stop  *)
(* do not wait for each other, nor for the tools that are running.         *)
(***************************************************************************)
EXTENDS ToolCalls

CONSTANTS
    MaxStarts,  \* bound: calls of startServer
    MaxStops    \* bound: calls of stopServer

ASSUME McpBounds == MaxStarts \in Nat /\ MaxStops \in Nat

VARIABLES
    latest,      \* servers.get(name): the latest start, 0 before the first
    starting,    \* the starts that wait for initialize and tools/list
    state,       \* McpServerState.state of each start
    transport,   \* transports.get(name): the start it comes from, or 0
    closed,      \* the transports that are closed
    ended,       \* history: those whose process ended by itself
    registered,  \* the start whose tools the bridge offers, 0 for none
    offered,     \* whether it ever did: the model knows them
    stopping,    \* state objects of the stops that wait for close()
    stops,       \* counter
    sent,        \* whether a call's request waits or how it ended
    sentTo, callId,    \* the transport and the id of its request
    pending,     \* of each transport: the calls in its map of pending requests
    unanswered,  \* the calls whose request the server has not answered
    timers, handlers   \* the calls whose timeout and abort handler are set

serverVars  == <<latest, starting, state, transport, registered, offered, stopping, stops>>
requestVars == <<sent, sentTo, callId, pending, unanswered, timers, handlers>>
mcpVars     == <<serverVars, closed, ended, requestVars>>

Starts == 1..MaxStarts

-----------------------------------------------------------------------------
(* Faults: what some of the definitions below would be with a bug, to see  *)
(* that the properties find it.  No definition uses them.                  *)
WhilePending(c) == c \in pending[sentTo[c]]
DroppedAtOnce   == 0

-----------------------------------------------------------------------------
McpInit ==
    /\ latest = 0 /\ transport = 0 /\ registered = 0 /\ offered = FALSE /\ stops = 0
    /\ state = [t \in Starts |-> "stopped"]
    /\ starting = {} /\ closed = {} /\ ended = {} /\ stopping = {}
    /\ sent = [c \in Calls |-> "idle"]
    /\ sentTo = [c \in Calls |-> 0] /\ callId = [c \in Calls |-> 0]
    /\ pending = [t \in Starts |-> {}]
    /\ unanswered = {} /\ timers = {} /\ handlers = {}

Open(t) == t \notin closed

(* Requests of one transport with one id: the map holds the last of them.  *)
Others(t, c) == {d \in pending[t] : callId[d] # callId[c]}
SameId(t, c) == pending[t] \ Others(t, c)
Settle(cs, how) ==
    sent' = [c \in Calls |-> IF c \in cs /\ sent[c] = "sent" THEN how ELSE sent[c]]

(* The calls of the server's tools in the answer.  Without one the server  *)
(* makes no difference, and it is not started.                             *)
McpCalls == {c \in Calls : IsMcp(c)}

(* The transport closes, or its process ends: what is pending is rejected. *)
CloseTransport(t) ==
    /\ closed' = closed \cup {t}
    /\ Settle(pending[t], "failed")
    /\ pending' = [pending EXCEPT ![t] = {}]

-----------------------------------------------------------------------------
startServer ==
    /\ McpCalls # {} /\ latest < MaxStarts /\ latest' = latest + 1
    /\ starting' = starting \cup {latest + 1}
    /\ state' = [state EXCEPT ![latest + 1] = "connecting"]
    /\ UNCHANGED <<transport, closed, ended, registered, offered, stopping, stops,
                   requestVars>>

(* initialize and tools/list have answered: connected, with or without     *)
(* tools.                                                                  *)
Connected(t) ==
    /\ t \in starting /\ Open(t)
    /\ starting' = starting \ {t}
    /\ transport' = t
    /\ state' = [state EXCEPT ![t] = "connected"]
    /\ registered' \in {0, t} /\ offered' = (offered \/ registered' # 0)
    /\ UNCHANGED <<latest, closed, ended, stopping, stops, requestVars>>

(* One of them is refused or times out, or the process ended.              *)
StartFails(t) ==
    /\ t \in starting
    /\ starting' = starting \ {t}
    /\ state' = [state EXCEPT ![t] = "error"]
    /\ UNCHANGED <<latest, transport, closed, ended, registered, offered, stopping, stops,
                   requestVars>>

(* The bridge and transports are not told of it.                           *)
ProcessEnds(t) ==
    /\ t <= latest /\ Open(t)
    /\ CloseTransport(t) /\ ended' = ended \cup {t}
    /\ UNCHANGED <<serverVars, sentTo, callId, unanswered, timers, handlers>>

(* The entry of transports is deleted when close() has returned.           *)
DuringClose == transport

stopServer ==
    /\ latest # 0 /\ stops < MaxStops /\ stops' = stops + 1
    /\ IF transport # 0
       THEN /\ CloseTransport(transport)
            /\ handlers' = handlers \ pending[transport]
            /\ stopping' = stopping \cup {[stop |-> stops', of |-> latest, closes |-> transport]}
            /\ transport' = DuringClose
            /\ UNCHANGED <<state, registered>>
       ELSE /\ state' = [state EXCEPT ![latest] = "stopped"]
            /\ registered' = 0
            /\ UNCHANGED <<transport, closed, stopping, sent, pending, handlers>>
    /\ UNCHANGED <<latest, starting, ended, offered, sentTo, callId, unanswered, timers>>

(* close() has returned: the process is gone, or killed after two seconds. *)
Stopped(s) ==
    /\ stopping' = stopping \ {s}
    /\ transport' = 0
    /\ state' = [state EXCEPT ![s.of] = "stopped"]
    /\ registered' = 0
    /\ UNCHANGED <<latest, starting, closed, ended, offered, stops, requestVars>>

-----------------------------------------------------------------------------
(* The id of a call is made of the time: calls started in one millisecond  *)
(* have the same id, written here as the first call of that millisecond.   *)
CallIds ==
    {id \in [Calls -> Calls] :
        \A c, d \in Calls : id[c] <= c /\ (id[c] <= d /\ d <= c => id[d] = id[c])}

callTools ==
    /\ \A c \in Calls : sent[c] = "idle"
    /\ McpCalls # {} => offered
    /\ IF aborted \/ transport \in closed \cup {0}
       THEN /\ sent' = [c \in Calls |-> IF IsMcp(c) THEN "failed" ELSE "idle"]
            /\ UNCHANGED <<sentTo, callId, pending, unanswered, timers, handlers>>
       ELSE /\ sent' = [c \in Calls |-> IF IsMcp(c) THEN "sent" ELSE "idle"]
            /\ sentTo' = [c \in Calls |-> IF IsMcp(c) THEN transport ELSE 0]
            /\ \E id \in CallIds :
                 /\ callId' = [c \in Calls |-> IF IsMcp(c) THEN id[c] ELSE 0]
                 /\ pending' = [pending EXCEPT ![transport] =
                       {c \in McpCalls : \A d \in McpCalls : d > c => id[d] # id[c]}]
            /\ unanswered' = McpCalls /\ timers' = McpCalls /\ handlers' = McpCalls
    /\ UNCHANGED <<request, aborted, serverVars, closed, ended>>

(* processBuffer: the answer to c's request goes to whoever waits under    *)
(* its id.                                                                 *)
Answered(c) ==
    LET t == sentTo[c]
    IN  /\ c \in unanswered /\ Open(t)
        /\ unanswered' = unanswered \ {c}
        /\ pending' = [pending EXCEPT ![t] = Others(t, c)]
        /\ handlers' = handlers \ SameId(t, c)
        /\ Settle(SameId(t, c), "done")
        /\ UNCHANGED <<serverVars, closed, ended, sentTo, callId, timers>>

(* The timeout is not cleared by an answer; its rejection then comes late. *)
Rejects(c) == TRUE

TimesOut(c) ==
    /\ c \in timers /\ timers' = timers \ {c}
    /\ handlers' = handlers \ {c}
    /\ pending' = [pending EXCEPT ![sentTo[c]] = Others(sentTo[c], c)]
    /\ Settle({d \in {c} : Rejects(d)}, "failed")
    /\ UNCHANGED <<serverVars, closed, ended, sentTo, callId, unanswered>>

(* The abort handlers that are still set: each takes its timeout and the   *)
(* map's entry of its id away and rejects.                                 *)
AbortCalls ==
    /\ pending' = [t \in Starts |->
          {d \in pending[t] : \A c \in handlers : sentTo[c] = t => callId[c] # callId[d]}]
    /\ timers' = timers \ handlers /\ handlers' = {}
    /\ Settle(handlers, "failed")
    /\ UNCHANGED <<serverVars, closed, ended, sentTo, callId, unanswered>>

McpStep ==
    \/ startServer \/ stopServer
    \/ \E t \in Starts : Connected(t) \/ StartFails(t) \/ ProcessEnds(t)
    \/ \E s \in stopping : Stopped(s)
    \/ \E c \in Calls : Answered(c) \/ TimesOut(c)

-----------------------------------------------------------------------------
(* The tools offered are those of the start whose transport calls take,    *)
(* however starts and stops overlap, and that transport is open.  There    *)
(* are two exceptions: a stop that is closing it has not returned, or its  *)
(* process ended by itself, which deactivates no tool.                     *)
ToolsReachable ==
    registered # 0 =>
        /\ transport = registered
        /\ Open(transport) \/ transport \in ended \/ \E s \in stopping : s.closes = transport

(* "Tools activate/deactivate automatically as servers connect/disconnect":*)
(* what the second exception breaks.                                       *)
OfferedIsOpen == registered # 0 => Open(registered) \/ stopping # {}

(* A call gets the answer to its own request.                              *)
OwnAnswers == \A c \in Calls : sent[c] = "done" => c \notin unanswered

(* The state shown of a server is that of its tools: a server shown as     *)
(* stopped offers none.                                                    *)
StoppedOffersNone == registered # 0 => latest # 0 /\ state[latest] # "stopped"

=============================================================================
