------------------------------- MODULE MCTools -------------------------------
EXTENDS ToolBatch

(* Three calls that edit or write, or two calls of any kind.               *)
MCBatches ==
    [Calls -> {"edit", "write"}]
        \cup {b \in [Calls -> Tools] : \A c \in Calls : b[c] = "refused" <=> c = 3}

=============================================================================
