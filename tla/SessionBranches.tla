-------------------------- MODULE SessionBranches --------------------------
(***************************************************************************)
(* A session with one caller at a time implements Branches: the tree is    *)
(* what the file says, so that an entry counts once it is on disk.         *)
(***************************************************************************)
EXTENDS SessionTree

Persisted == SetOf(Parsed(file))

(* The parent of each entry, by its id.                                    *)
TreeOf(P) == [id \in {e.id : e \in P} |-> (CHOOSE e \in P : e.id = id).parentId]

B == INSTANCE Branches WITH
        parent <- TreeOf(Persisted),
        leaf   <- LeafOf(Parsed(file))

(* Every append and every move, also one that a crash interrupts, takes    *)
(* effect at once or not at all, and no entry is ever moved or lost.       *)
ImplementsBranches == B!BSpec
=============================================================================
