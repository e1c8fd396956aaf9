-------------------------- MODULE MCPersistentTree --------------------------
(* PersistentTree, without history variables, on a few cells and keys.     *)
EXTENDS PersistentTree, TLC

CONSTANTS n1, n2, n3

VARIABLE shape      \* which of two bounds a behaviour keeps to

MCNode3 == {n1, n2, n3}
MCData3 == {1, 2, 3}
MCCells == {1, 2, 3}

CellSymmetry == Permutations(Node)

SafeInit == Init /\ shape = "wide"
SafeSpec == SafeInit /\ [][Next /\ UNCHANGED shape]_<<vars, shape>>

(* Bound: a "deep" behaviour has up to MaxRevs revisions of one cell with  *)
(* one key, which make a tree of any shape; a "wide" one has two revisions *)
(* of up to two nodes and a backup, by tidy callers who then change one    *)
(* node at a time.  Cells are handed out in their order.                   *)
InOrderOfCells == \A c \in fresh' : \A d \in Node : d > c => d \in fresh'

Work == insertedList \cup erasedList \cup (saved \cap inTree)

Bounded ==
    /\ InOrderOfCells
    /\ \/ shape = "deep" /\ {2, 3} \subseteq fresh' /\ data'[1] \in {1, NULL}
       \/ /\ shape = "wide" /\ Len(revs') <= 2 /\ Cardinality(inTree') <= 2 /\ Tidy
          /\ Len(revs') = 2 => Cardinality(Work') <= 1

BoundedInit == Init /\ shape \in {"deep", "wide"}
BoundedSpec ==
    /\ BoundedInit
    /\ [][Next /\ Bounded /\ UNCHANGED shape]_<<vars, shape>>
    /\ WF_<<vars, shape>>(UpdateStep /\ UNCHANGED shape)
=============================================================================
