---------------------------- MODULE MCTreeHistory ---------------------------
(* TreeHistory on a few cells, two keys and a few revisions.               *)
EXTENDS TreeHistory, TLC

CONSTANTS n1, n2, n3

MCNode3 == {n1, n2, n3}
MCData2 == {1, 2}

(* Bound: with all three cells in use there are no more than two revisions.*)
CellsOrRevisions == Len(revs) = MaxRevs => fresh # {}

CellSymmetry == Permutations(Node)
=============================================================================
