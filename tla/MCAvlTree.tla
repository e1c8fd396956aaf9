------------------------------ MODULE MCAvlTree -----------------------------
(***************************************************************************)
(* AvlTree on eight nodes.  A node is given data from its own small set    *)
(* only: nodes are interchangeable, so their order of arrival, which the   *)
(* actions leave open, puts the data in every order all the same.          *)
(***************************************************************************)
EXTENDS AvlTree

Note(on, off) == [on |-> on, off |-> off, midipitch |-> 0]

MCNode == 1 .. 8

(* Nodes 2 and 3 compare equal; 4 may be changed to be first; the long     *)
(* notes 1 and 5 decide the values kept high up in the tree.               *)
MCHolds ==
    << {Note(1, 3), Note(1, 9)}, {Note(2, 3)}, {Note(2, 3)},
       {Note(0, 1), Note(3, 5)}, {Note(4, 5), Note(4, 8)}, {Note(5, 6)},
       {Note(6, 7)}, {Note(7, 8)} >>
=============================================================================
