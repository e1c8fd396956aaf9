---------------------------- MODULE OrderedList -----------------------------
(***************************************************************************)
(* What a tree of src/bst.c is to the code that walks it: a list of nodes  *)
(* in the order of their data, in which a node goes behind the nodes whose *)
(* data compare equal to its own.  AvlTree implements this.                *)
(***************************************************************************)
EXTENDS Integers, SequencesExt

CONSTANTS
    Node,       \* the nodes
    Holds,      \* Holds[n]: the data node n may be given
    Cmp(_, _)   \* the tree's comparison, with the sign C's has

VARIABLES
    list,       \* the nodes, first to last
    datum       \* datum[n] for each node in the list

lvars == <<list, datum>>

Init ==
    /\ list = <<>>
    /\ datum = <<>>

(* The list l, with the data d, after node n came in with datum x.         *)
NotAfter(l, d, x) == {i \in DOMAIN l : Cmp(x, d[l[i]]) >= 0}

Filed(l, d, n, x) == InsertAt(l, Cardinality(NotAfter(l, d, x)) + 1, n)

Insert(n, x) ==
    /\ n \notin ToSet(list)
    /\ list' = Filed(list, datum, n, x)
    /\ datum' = [m \in DOMAIN datum \cup {n} |-> IF m = n THEN x ELSE datum[m]]

(* The nodes from position i up to, not including, position j.             *)
EraseRange(i, j) ==
    /\ i <= j
    /\ list' = SubSeq(list, 1, i - 1) \o SubSeq(list, j, Len(list))
    /\ datum' = [n \in ToSet(list') |-> datum[n]]

Change(n, x) ==
    /\ \E i \in DOMAIN list : list[i] = n /\ list' = Filed(RemoveAt(list, i), datum, n, x)
    /\ datum' = [datum EXCEPT ![n] = x]

Next ==
    \/ \E n \in Node : \E x \in Holds[n] : Insert(n, x) \/ Change(n, x)
    \/ \E i, j \in 1 .. (Len(list) + 1) : EraseRange(i, j)

Spec == Init /\ [][Next]_lvars
=============================================================================
