--------------------------- MODULE VersionedStore ---------------------------
(***************************************************************************)
(* What libvomid's persistent tree promises the code that uses it: a       *)
(* working set of items, each with a datum, and a history of versions of   *)
(* it.  A version, once taken, never changes; going back to one is a       *)
(* single step, whatever was done since; and an item keeps its identity    *)
(* across versions, which is why an item that the current version holds    *)
(* is not handed out again while it is out of the working set.             *)
(*                                                                         *)
(* The tree of src/bst.c implements this (module TreeHistory).             *)
(***************************************************************************)
EXTENDS Naturals, Sequences

CONSTANTS
    Item,   \* the tree's nodes; their addresses are what users keep
    Data,   \* what a node holds
    NULL    \* "not in the working set"

VARIABLES
    work,   \* the working set: the datum of each item, NULL for the others
    cur,    \* the version the working set started from, 0 before the first
    snap    \* the versions taken so far

svars == <<work, cur, snap>>

Empty == [i \in Item |-> NULL]

Init ==
    /\ work = Empty
    /\ cur = 0
    /\ snap = <<>>

(* A new item is neither in the working set nor in the current version.    *)
Put(i, d) ==
    /\ work[i] = NULL
    /\ cur # 0 => snap[cur][i] = NULL
    /\ work' = [work EXCEPT ![i] = d]
    /\ UNCHANGED <<cur, snap>>

Remove(I) ==
    /\ \A i \in I : work[i] # NULL
    /\ work' = [i \in Item |-> IF i \in I THEN NULL ELSE work[i]]
    /\ UNCHANGED <<cur, snap>>

Set(i, d) ==
    /\ work[i] # NULL
    /\ work' = [work EXCEPT ![i] = d]
    /\ UNCHANGED <<cur, snap>>

(* Committing an unchanged working set need not take a version: then the   *)
(* step leaves everything as it is.                                        *)
Commit ==
    /\ snap' = Append(snap, work)
    /\ cur' = Len(snap) + 1
    /\ UNCHANGED work

Checkout(v) ==
    /\ work' = snap[v]
    /\ cur' = v
    /\ UNCHANGED snap

Reset ==
    /\ work' = Empty
    /\ cur' = 0
    /\ snap' = <<>>

Next ==
    \/ \E i \in Item, d \in Data : Put(i, d) \/ Set(i, d)
    \/ \E I \in SUBSET Item : Remove(I)
    \/ Commit
    \/ \E v \in DOMAIN snap : Checkout(v)
    \/ Reset

Spec == Init /\ [][Next]_svars
=============================================================================
