------------------------------- MODULE MCAuth -------------------------------
EXTENDS AuthStorage

(* One process asks for the key, the other sets one; call 2 is any         *)
(* operation of either.                                                    *)
MCRequests ==
    {r \in [Calls -> [proc : Processes, op : Ops]] :
        /\ r[1] = [proc |-> 1, op |-> "getApiKey"]
        /\ r[3] = [proc |-> 2, op |-> "set"]}

=============================================================================
