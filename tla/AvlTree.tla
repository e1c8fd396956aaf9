------------------------------ MODULE AvlTree -------------------------------
(***************************************************************************)
(* The shape layer of src/bst.c: an AVL tree of nodes linked by child[],   *)
(* parent and idx, kept balanced by single and double rotations, with a    *)
(* value each node keeps for its subtree (tree->upd).  Revisions are left  *)
(* to module PersistentTree: here tree->tip is NULL, and erasing frees.    *)
(*                                                                         *)
(* The tree is the one of the notes of a track or of a channel: data are   *)
(* note times compared by note_cmp, the value kept is the subtree's last   *)
(* off time, and range_() of vomid_local.h looks notes up by it.           *)
(*                                                                         *)
(* An action is a whole call.  The algorithms are operators on a record t  *)
(* that has one function per member of bst_node_t.                         *)
(***************************************************************************)
EXTENDS Integers, FiniteSets, SequencesExt

CONSTANTS
    Node,       \* the nodes malloc may hand out
    HEAD,       \* &tree->head
    NULL,
    Holds,      \* bound: Holds[n], the data node n may be given
    Channel     \* whether upd() is the one of channel.c, or that of track.c

ASSUME HeadAssumption ==
    HEAD \notin Node /\ NULL \notin Node /\ NULL # HEAD /\ IsFiniteSet(Node)
ASSUME HoldsAssumption ==
    \A n \in Node : Holds[n] \subseteq [on : Nat, off : Nat, midipitch : Nat]

VARIABLE tree

Cell == Node \cup {HEAD}
Datum == UNION {Holds[n] : n \in Node}

NoChildren == [dir \in 0 .. 1 |-> NULL]

(* bst_init: all of the head is 0, but its parent is itself.               *)
NoNodes ==
    [child   |-> [c \in Cell |-> NoChildren],
     parent  |-> [c \in Cell |-> IF c = HEAD THEN HEAD ELSE NULL],
     idx     |-> [c \in Cell |-> 0],
     balance |-> [c \in Cell |-> 0],
     data    |-> [n \in Node |-> NULL],
     maxOff  |-> [n \in Node |-> -1],
     inTree  |-> {},
     size    |-> 0]

Init == tree = NoNodes

(* The loops of the code: none goes round more often than there are nodes. *)
Rounds == Cardinality(Node)

Repeat(Round(_), x) ==
    LET after[k \in 0 .. Rounds] == IF k = 0 THEN x ELSE Round(after[k - 1])
    IN  after[Rounds]

-----------------------------------------------------------------------------
(* note_cmp: by on time, then off time, then pitch.                        *)
Cmp(a, b) == IF a.on # b.on THEN a.on - b.on
             ELSE IF a.off # b.off THEN a.off - b.off
             ELSE a.midipitch - b.midipitch

Linked(t, n, dir, c) == [t EXCEPT !.parent[c] = n, !.idx[c] = dir]

FixChild(t, n, dir) ==
    LET c == t.child[n][dir] IN IF c = NULL THEN t ELSE Linked(t, n, dir, c)

SetChild(t, n, dir, c) == FixChild([t EXCEPT !.child[n][dir] = c], n, dir)

(* swap: exchange two nodes' places; b may be a child of a.                *)
Crossed(t, a, b) ==
    [t EXCEPT !.child[t.parent[a]][t.idx[a]] = b, !.child[t.parent[b]][t.idx[b]] = a]

Exchanged(t, a, b) ==
    [t EXCEPT !.parent[a]  = t.parent[b],  !.parent[b]  = t.parent[a],
              !.child[a]   = t.child[b],   !.child[b]   = t.child[a],
              !.balance[a] = t.balance[b], !.balance[b] = t.balance[a],
              !.idx[a]     = t.idx[b],     !.idx[b]     = t.idx[a]]

FixChildren(t, n) == FixChild(FixChild(t, n, 0), n, 1)

Swap(t, a, b) == FixChildren(FixChildren(Exchanged(Crossed(t, a, b), a, b), a), b)

(* upd() of track.c takes the children's max_off, that of channel.c their  *)
(* off times.                                                              *)
ChildOff(t, n, dir) ==
    LET c == t.child[n][dir] IN
    IF c = NULL THEN -1 ELSE IF Channel THEN t.data[c].off ELSE t.maxOff[c]

Upd(t, n) ==
    [t EXCEPT !.maxOff[n] =
        Max({t.data[n].off, ChildOff(t, n, 0), ChildOff(t, n, 1)})]

\* Mutant: the value is computed for the node only.
UpdateNode(t, n) == IF n = HEAD THEN t ELSE Upd(t, n)

UpdateRound(x) ==
    IF x.at = HEAD THEN x
    ELSE [tree |-> Upd(x.tree, x.at), at |-> x.tree.parent[x.at]]

UpdateToTop(t, n) == Repeat(UpdateRound, [tree |-> t, at |-> n]).tree

-----------------------------------------------------------------------------
Side(cond) == IF cond THEN 1 ELSE 0

\* Mutant: every rotation is taken to lower the subtree.
AlwaysLower(t, c) == 1

(* What rebalance returns: rotating lowers the subtree unless c was even.  *)
Lowers(t, c) == t.balance[c]

SetBalance(t, n, balance) == [t EXCEPT !.balance[n] = balance]

(* The balances after a double rotation: r was under c, c under node n.    *)
DoubleBalance(t, n, c, r, dir) ==
    LET toNode == t.balance[r] # 0 /\ dir = Side(t.balance[r] > 0)
        toC == t.balance[r] # 0 /\ dir # Side(t.balance[r] > 0)
        t1 == SetBalance(t, n, IF toNode THEN -t.balance[r] ELSE 0)
    IN  SetBalance(SetBalance(t1, c, IF toC THEN -t.balance[r] ELSE 0), r, 0)

SingleBalance(t, n, c, dir) ==
    LET tilt == IF t.balance[c] # 0 THEN 0 ELSE IF dir = 1 THEN 1 ELSE -1
    IN  SetBalance(SetBalance(t, n, tilt), c, -tilt)

(* r, below n, takes its place, and n goes under r on side dir.            *)
Turned(t, n, r, dir) ==
    LET t1 == SetChild(t, t.parent[n], t.idx[n], r)
        t2 == SetChild(t1, n, 1 - dir, t1.child[r][dir])
    IN  SetChild(t2, r, dir, n)

(* In a double rotation r was under c: c goes under r on the other side.   *)
TurnedAlso(t, c, r, dir) ==
    Upd(SetChild(SetChild(t, c, dir, t.child[r][1 - dir]), r, 1 - dir, c), c)

IsDouble(t, n, c) == t.balance[c] # 0 /\ (t.balance[n] > 0) # (t.balance[c] > 0)

Rotated(t, n, c, dir) ==
    LET r == t.child[c][dir] IN
    IF IsDouble(t, n, c)
    THEN DoubleBalance(TurnedAlso(Turned(t, n, r, dir), c, r, dir), n, c, r, dir)
    ELSE SingleBalance(Turned(t, n, c, dir), n, c, dir)

Rebalance(t, n) ==
    LET dir == Side(t.balance[n] > 0)
        c == t.child[n][1 - dir]
    IN  IF t.balance[n] \in -1 .. 1 THEN [tree |-> t, lower |-> 0]
        ELSE [tree |-> UpdateToTop(Rotated(t, n, c, dir), n), lower |-> Lowers(t, c)]

-----------------------------------------------------------------------------
\* Mutant: a new node goes before the nodes that compare equal to it.
GoesRightStrict(t, n, i) == Cmp(t.data[n], t.data[i]) > 0

GoesRight(t, n, i) == Cmp(t.data[n], t.data[i]) >= 0

PlaceRound(t, n, x) ==
    LET c == t.child[x.at][x.dir] IN
    IF c = NULL THEN x ELSE [at |-> c, dir |-> Side(GoesRight(t, n, c))]

Place(t, n) == Repeat(LAMBDA x : PlaceRound(t, n, x), [at |-> HEAD, dir |-> 0])

(* The subtree of x.at on side x.dir is one higher than before.            *)
GrownRound(x) ==
    LET i == x.at
        t1 == SetBalance(x.tree, i, x.tree.balance[i] + (IF x.dir = 1 THEN -1 ELSE 1))
        r == Rebalance(t1, i)
    IN  IF i = HEAD THEN x
        ELSE IF t1.balance[i] = 0 THEN [x EXCEPT !.tree = t1, !.at = HEAD]
        ELSE IF r.lower # 0 THEN [x EXCEPT !.tree = r.tree, !.at = HEAD]
        ELSE [tree |-> r.tree, at |-> r.tree.parent[i], dir |-> r.tree.idx[i]]

Grown(t, i, dir) == Repeat(GrownRound, [tree |-> t, at |-> i, dir |-> dir]).tree

InsertNode(t, n) ==
    LET t1 == [t EXCEPT !.balance[n] = 0, !.child[n] = NoChildren]
        place == Place(t1, n)
        t2 == UpdateToTop(SetChild(t1, place.at, place.dir, n), n)
        t3 == Grown(t2, place.at, place.dir)
    IN  [t3 EXCEPT !.inTree = @ \cup {n}, !.size = @ + 1]

-----------------------------------------------------------------------------
ChildMost(t, n, dir) ==
    Repeat(LAMBDA m : IF t.child[m][dir] = NULL THEN m ELSE t.child[m][dir], n)

\* Mutant: the climb stops at the parent.
ClimbOnce(t, n, dir) == t.parent[n]

Climb(t, n, dir) ==
    t.parent[Repeat(LAMBDA m : IF m # HEAD /\ t.idx[m] = dir THEN t.parent[m] ELSE m, n)]

(* bst_node_adj: the next node (dir = 1) or the previous one (dir = 0).    *)
Adj(t, n, dir) ==
    IF t.child[n][dir] # NULL THEN ChildMost(t, t.child[n][dir], 1 - dir)
    ELSE Climb(t, n, dir)

(* The subtree of x.at on side x.dir is one lower than before.  The parent *)
(* and the side of x.at are read before it is rotated down.                *)
ShrunkRound(x) ==
    LET i == x.at
        t1 == SetBalance(x.tree, i, x.tree.balance[i] + (IF x.dir = 1 THEN 1 ELSE -1))
        r == Rebalance(t1, i)
    IN  IF i = HEAD THEN x
        ELSE IF t1.balance[i] # 0 /\ r.lower = 0 THEN [x EXCEPT !.tree = r.tree, !.at = HEAD]
        ELSE [tree |-> r.tree, at |-> x.tree.parent[i], dir |-> x.tree.idx[i]]

Shrunk(t, i, dir) == Repeat(ShrunkRound, [tree |-> t, at |-> i, dir |-> dir]).tree

EraseNode(t, n) ==
    LET next == Adj(t, n, 1)
        t1 == IF t.child[n][0] # NULL /\ t.child[n][1] # NULL
              THEN Swap(t, n, next) ELSE t
        only == IF t1.child[n][0] # NULL THEN t1.child[n][0] ELSE t1.child[n][1]
        t2 == SetChild(t1, t1.parent[n], t1.idx[n], only)
        t3 == UpdateToTop(t2, t2.parent[n])
        t4 == Shrunk(t3, t3.parent[n], t3.idx[n])
    IN  [tree |-> [t4 EXCEPT !.inTree = @ \ {n}, !.size = @ - 1],
         next |-> next]

(* free(): whatever the nodes of S hold is gone.                           *)
Freed(t, S) ==
    [t EXCEPT !.child = [c \in Cell |-> IF c \in S THEN NoChildren ELSE @[c]],
              !.parent = [c \in Cell |-> IF c \in S THEN NULL ELSE @[c]],
              !.idx = [c \in Cell |-> IF c \in S THEN 0 ELSE @[c]],
              !.balance = [c \in Cell |-> IF c \in S THEN 0 ELSE @[c]],
              !.data = [n \in Node |-> IF n \in S THEN NULL ELSE @[n]],
              !.maxOff = [n \in Node |-> IF n \in S THEN -1 ELSE @[n]]]

EraseRangeRound(end, x) ==
    LET e == EraseNode(x.tree, x.at) IN
    IF x.at = end THEN x ELSE [tree |-> Freed(e.tree, {x.at}), at |-> e.next]

EraseRangeFrom(t, beg, end) ==
    Repeat(LAMBDA x : EraseRangeRound(end, x), [tree |-> t, at |-> beg]).tree

-----------------------------------------------------------------------------
(* Lookups.                                                                *)

\* Mutant: bst_bound takes the first node past the bound.
ReachesPast(t, i, d, bound) == Cmp(t.data[i], d) > bound

Reaches(t, i, d, bound) == Cmp(t.data[i], d) >= bound

BoundRound(t, d, bound, x) ==
    IF x.at = NULL THEN x
    ELSE IF Reaches(t, x.at, d, bound) THEN [at |-> t.child[x.at][0], ret |-> x.at]
    ELSE [x EXCEPT !.at = t.child[x.at][1]]

(* bst_lower_bound is Bound(t, d, 0), bst_upper_bound Bound(t, d, 1).      *)
Bound(t, d, bound) ==
    Repeat(LAMBDA x : BoundRound(t, d, bound, x), [at |-> t.child[HEAD][0], ret |-> HEAD]).ret

Find(t, d) ==
    LET lb == Bound(t, d, 0) IN
    IF lb = HEAD THEN NULL ELSE IF Cmp(t.data[lb], d) # 0 THEN NULL ELSE lb

\* Mutant: a subtree is searched by the off time of its root only.
MayReachRootOnly(t, c, s) == c # NULL /\ t.data[c].off > s

MayReach(t, c, s) == IF c = NULL THEN FALSE ELSE t.maxOff[c] > s

(* range_: the nodes handed to the callback, in the order of the calls.    *)
RangeRound(t, s, e, found) ==
    [m \in Node |->
        LET l == t.child[m][0]
            r == t.child[m][1]
            begins == t.data[m].on < e
        IN  (IF s < t.data[m].off /\ begins THEN <<m>> ELSE <<>>)
              \o (IF MayReach(t, l, s) THEN found[l] ELSE <<>>)
              \o (IF MayReach(t, r, s) /\ begins THEN found[r] ELSE <<>>)]

RangeFrom(t, n, s, e) ==
    Repeat(LAMBDA found : RangeRound(t, s, e, found), [m \in Node |-> <<>>])[n]

InRange(t, s, e) ==
    LET root == t.child[HEAD][0] IN
    IF root = NULL THEN <<>> ELSE RangeFrom(t, root, s, e)

-----------------------------------------------------------------------------
(* The calls.                                                              *)
Insert(n, d) ==
    /\ n \notin tree.inTree
    /\ tree' = InsertNode([tree EXCEPT !.data[n] = d], n)

Erase(n) ==
    /\ n \in tree.inTree
    /\ tree' = Freed(EraseNode(tree, n).tree, {n})

(* end is not before beg.                                                  *)
EraseRange(beg, end) ==
    /\ beg \in tree.inTree
    /\ \/ end = HEAD
       \/ end \in tree.inTree /\ Cmp(tree.data[beg], tree.data[end]) < 0
    /\ tree' = EraseRangeFrom(tree, beg, end)

(* bst_change: the data first, then the node is taken out and put back.    *)
Change(n, d) ==
    /\ n \in tree.inTree
    /\ tree' = InsertNode(EraseNode([tree EXCEPT !.data[n] = d], n).tree, n)

Cleared(t) ==
    [SetChild(Freed(t, t.inTree), HEAD, 0, NULL) EXCEPT !.inTree = {}, !.size = 0]

Clear == tree' = Cleared(tree)

Next ==
    \/ \E n \in Node : \E d \in Holds[n] : Insert(n, d)
    \/ \E n \in Node : Erase(n)
    \/ \E beg \in Node, end \in Cell : EraseRange(beg, end)
    \/ \E n \in Node : \E d \in Holds[n] : Change(n, d)
    \/ Clear

Spec == Init /\ [][Next]_tree

-----------------------------------------------------------------------------
(* What a subtree comes to, told from what its two subtrees come to.       *)
OrderRound(t, order) ==
    [m \in Node \cup {NULL} |->
        IF m = NULL THEN <<>> ELSE order[t.child[m][0]] \o <<m>> \o order[t.child[m][1]]]

InOrder(t, n) ==
    Repeat(LAMBDA order : OrderRound(t, order), [m \in Node \cup {NULL} |-> <<>>])[n]

Listed == InOrder(tree, tree.child[HEAD][0])

HeightRound(t, high) ==
    [m \in Node \cup {NULL} |->
        IF m = NULL THEN 0 ELSE 1 + Max({high[t.child[m][0]], high[t.child[m][1]]})]

Height(t, n) ==
    Repeat(LAMBDA high : HeightRound(t, high), [m \in Node \cup {NULL} |-> 0])[n]

(* balance tells the difference in height of the two subtrees, exactly:    *)
(* one rotation too few or a wrong balance after one, and the tree drifts  *)
(* out of shape over the calls that follow.                                *)
Balanced ==
    \A n \in tree.inTree :
        tree.balance[n] = Height(tree, tree.child[n][0])
                            - Height(tree, tree.child[n][1])

(* The nodes linked are those with in_tree set; stepping over parent and   *)
(* idx meets them in the order the child pointers put them in, forwards    *)
(* and backwards, and ends at the head; and tree_size is their number.     *)
StepsInOrder ==
    LET path == <<HEAD>> \o Listed \o <<HEAD>> IN
    /\ ToSet(Listed) = tree.inTree /\ Len(Listed) = tree.size
    /\ \A i \in 1 .. Len(Listed) :
          Adj(tree, path[i + 1], 1) = path[i + 2] /\ Adj(tree, path[i + 1], 0) = path[i]
    /\ Adj(tree, HEAD, 0) = path[Len(path) - 1]

(* The tree is a list in the order of its data, equal data in the order    *)
(* they came: rotations, the exchange of two nodes and the return value of *)
(* bst_erase, which bst_erase_range goes by, never lose or move a node.    *)
List == INSTANCE OrderedList
            WITH list <- Listed,
                 datum <- [n \in tree.inTree |-> tree.data[n]]

ImplementsList == List!Spec

(* Bounds and bst_find are those of the list, for every datum and bound.   *)
FirstOf(S) ==
    IF S = {} THEN HEAD
    ELSE Listed[Min({i \in DOMAIN Listed : Listed[i] \in S})]

SearchesFind ==
    \A d \in Datum :
        LET equal == {n \in tree.inTree : Cmp(tree.data[n], d) = 0} IN
        /\ \A bound \in 0 .. 1 :
              Bound(tree, d, bound)
                = FirstOf({n \in tree.inTree : Cmp(tree.data[n], d) >= bound})
        /\ Find(tree, d) = IF equal = {} THEN NULL ELSE FirstOf(equal)

(* The value kept for a subtree is its last off time after every call,     *)
(* bst.c:17, "just like in Cormen book", whatever was rotated.             *)
SubtreeOffs(n) == {tree.data[m].off : m \in ToSet(InOrder(tree, n))}

KeepsMaxOff == \A n \in tree.inTree : tree.maxOff[n] = Max(SubtreeOffs(n))

(* A range lookup hands every note that sounds in it to the callback, once. *)
Times == UNION {{d.on, d.off} : d \in Datum}

RangeFindsAll ==
    \A s, e \in Times :
        s < e => LET found == InRange(tree, s, e) IN
                 /\ IsInjective(found)
                 /\ ToSet(found) = {n \in tree.inTree :
                                       s < tree.data[n].off /\ tree.data[n].on < e}
=============================================================================
