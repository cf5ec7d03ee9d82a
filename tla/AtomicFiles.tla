----------------------------- MODULE AtomicFiles -----------------------------
(***************************************************************************)
(* What the edit and write tools promise together: every mutation of a     *)
(* file takes effect at once and at most once, an edit on what the file    *)
(* holds at that moment.                                                   *)
(***************************************************************************)
EXTENDS Sequences

CONSTANTS Calls, Files

VARIABLES
    request,   \* what each call is to do
    exists,    \* the files there are
    contents,  \* of each file: the calls whose text it holds
    applied    \* the calls that took effect

vars == <<request, exists, contents, applied>>

Init == applied = {} /\ contents = [f \in Files |-> <<>>]

Mutate(c) ==
    /\ c \notin applied /\ applied' = applied \cup {c}
    /\ LET f == request[c].file
       IN  /\ request[c].tool = "edit" => f \in exists
           /\ exists' = exists \cup {f}
           /\ contents' = [contents EXCEPT ![f] =
                 IF request[c].tool = "edit" THEN Append(contents[f], c) ELSE <<c>>]
    /\ UNCHANGED request

Spec == Init /\ [][\E c \in Calls : Mutate(c)]_vars

=============================================================================
