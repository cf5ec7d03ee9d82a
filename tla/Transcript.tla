----------------------------- MODULE Transcript -----------------------------
(***************************************************************************)
(* What an agent promises about its transcript, whatever the loop, the     *)
(* queues and concurrent tools do: it grows by one message at a time and   *)
(* only during a run; the calls of an assistant message are answered one   *)
(* by one in source order; and nothing else is said before all are         *)
(* answered, unless the run was broken off by an abort or an exception.    *)
(***************************************************************************)
EXTENDS Messages

VARIABLES
    log,     \* the transcript
    open,    \* calls that wait for their result, in source order
    active,  \* a run is active
    broken   \* it was aborted or it has failed

Batches == UNION {[1..n -> Calls] : n \in 0..MaxCalls}

tvars == <<log, open, active, broken>>

TInit == log = <<>> /\ open = <<>> /\ active = FALSE /\ broken = FALSE

MayContinue == active /\ (open = <<>> \/ broken)

Begin == ~active /\ active' = TRUE /\ broken' = FALSE /\ open' = <<>> /\ UNCHANGED log

Break == active /\ broken' = TRUE /\ UNCHANGED <<log, open, active>>

SayUser(m) ==
    /\ MayContinue
    /\ log' = Append(log, m)
    /\ UNCHANGED <<open, active, broken>>

SayAssistant(calls, stop) ==
    /\ MayContinue
    /\ log' = Append(log, Assistant(calls, stop))
    /\ open' = IF stop = "stop" THEN calls ELSE <<>>
    /\ UNCHANGED <<active, broken>>

Answer ==
    /\ active /\ open # <<>>
    /\ log' = Append(log, ToolResult(Head(open)))
    /\ open' = Tail(open)
    /\ UNCHANGED <<active, broken>>

End ==
    /\ MayContinue
    /\ active' = FALSE /\ broken' = FALSE /\ open' = <<>>
    /\ UNCHANGED log

Clear == log' = <<>> /\ UNCHANGED <<open, active, broken>>

TNext ==
    \/ Begin \/ Break \/ Answer \/ End \/ Clear
    \/ \E m \in UserMessage : SayUser(m)
    \/ \E calls \in Batches, stop \in Stops : SayAssistant(calls, stop)

TSpec == TInit /\ [][TNext]_tvars
=============================================================================
