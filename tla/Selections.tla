---------------------------- MODULE Selections ----------------------------
(***************************************************************************)
(* Choosing elements of a sequence by their places: what the code's        *)
(* filters and loops over entries do.  It is a recursive function, which   *)
(* can be proved about, as SelectSeq and the folds cannot.                 *)
(***************************************************************************)
EXTENDS Naturals, Sequences

(* The elements of s at the positions in I, in their order.                *)
Chosen(s, I) ==
    LET upTo[i \in 0..Len(s)] ==
            IF i = 0 THEN <<>>
            ELSE IF i \in I THEN Append(upTo[i - 1], s[i]) ELSE upTo[i - 1]
    IN  upTo[Len(s)]

===========================================================================
