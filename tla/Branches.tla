------------------------------ MODULE Branches ------------------------------
(***************************************************************************)
(* What a session promises: a tree of entries that only grows.  An entry   *)
(* is appended to the leaf and becomes the leaf; a move is itself recorded *)
(* at the leaf it leaves.  Nothing is ever rewritten, so each entry stays  *)
(* on the branch it was appended to.                                       *)
(***************************************************************************)
EXTENDS Naturals, FiniteSets

CONSTANT Ids   \* the entry ids; 0 is the root

VARIABLES
    parent,    \* [entries -> the entry or root each was appended to]
    leaf       \* the entry the next one is appended to

bvars == <<parent, leaf>>

Nodes == DOMAIN parent

BInit == parent = [n \in {} |-> 0] /\ leaf = 0

Add(n) ==
    /\ n \notin Nodes
    /\ parent' = [m \in Nodes \cup {n} |-> IF m = n THEN leaf ELSE parent[m]]

Grow(n) == Add(n) /\ leaf' = n

Move(n, target) == Add(n) /\ target \in Nodes \cup {0} /\ leaf' = target

BNext == \E n \in Ids : Grow(n) \/ \E target \in Ids \cup {0} : Move(n, target)

BSpec == BInit /\ [][BNext]_bvars
=============================================================================
