--------------------------- MODULE AvlShapeProofs ---------------------------
(***************************************************************************)
(* What the algorithms of module AvlTree do to the shape of a tree: how    *)
(* rotations, a new leaf, a step to the next node, a node unlinked and the *)
(* exchange of two nodes leave the links, the balances and the values      *)
(* kept.  Module AvlProofs goes on to the calls and to what holds after    *)
(* each of them.                                                           *)
(*                                                                         *)
(* A tree in shape has a view: the cells Y that are linked, the head among *)
(* them and last of all, each at its place pos in the order of the tree,   *)
(* and for each the stretch lo .. hi of places that its subtree takes.     *)
(* A child on side 0 takes the stretch up to its parent's place, one on    *)
(* side 1 the stretch behind it, so that linear arithmetic tells what a    *)
(* rotation, a new leaf or the exchange of two nodes does to the order.    *)
(* high is the height of each subtree.                                     *)
(***************************************************************************)
EXTENDS AvlTree, NumberFacts, FiniteSetTheorems, TLAPS

(* The members of bst_node_t and bst_t, each a function on its cells.      *)
Typed(t) ==
    \E ds, os :
        t \in [child : [Cell -> [0 .. 1 -> Node \cup {NULL}]],
               parent : [Cell -> Cell \cup {NULL}], idx : [Cell -> 0 .. 1],
               balance : [Cell -> Int], data : [Node -> ds], maxOff : [Node -> os],
               inTree : SUBSET Node, size : Int]

SameLinks(t, u) == u.child = t.child /\ u.parent = t.parent /\ u.idx = t.idx
SameRest(t, u) == u.data = t.data /\ u.inTree = t.inTree /\ u.size = t.size

(* What fix_child and set_child do: n's child on side d knows its place.   *)
ChildFixed(t, u, n, d) ==
    /\ Typed(u) /\ SameRest(t, u) /\ u.balance = t.balance /\ u.maxOff = t.maxOff
    /\ u.child = t.child
    /\ \A m \in Cell : u.parent[m] = IF m = t.child[n][d] THEN n ELSE t.parent[m]
    /\ \A m \in Cell : u.idx[m] = IF m = t.child[n][d] THEN d ELSE t.idx[m]

ChildSet(t, u, n, d, c) ==
    /\ Typed(u) /\ SameRest(t, u) /\ u.balance = t.balance /\ u.maxOff = t.maxOff
    /\ \A m \in Cell : \A e \in 0 .. 1 :
          u.child[m][e] = IF m = n /\ e = d THEN c ELSE t.child[m][e]
    /\ \A m \in Cell : u.parent[m] = IF m = c THEN n ELSE t.parent[m]
    /\ \A m \in Cell : u.idx[m] = IF m = c THEN d ELSE t.idx[m]

LEMMA FixChildIs ==
    ASSUME NEW t, Typed(t), NEW n \in Cell, NEW d \in 0 .. 1
    PROVE  ChildFixed(t, FixChild(t, n, d), n, d)
  <1>1. CASE t.child[n][d] = NULL
    <2>1. FixChild(t, n, d) = t
      BY <1>1 DEF FixChild
    <2>2. \A m \in Cell : m # t.child[n][d]
      BY <1>1, HeadAssumption DEF Cell
    <2> QED
      BY <2>1, <2>2 DEF SameRest, ChildFixed
  <1>2. CASE t.child[n][d] # NULL
    <2>1. t.child[n][d] \in Cell
      BY <1>2 DEF Cell, Typed
    <2>2. FixChild(t, n, d) = Linked(t, n, d, t.child[n][d])
      BY <1>2 DEF FixChild
    <2> DEFINE c == t.child[n][d]
    <2> DEFINE u == Linked(t, n, d, c)
    <2>3. /\ Typed(u) /\ SameRest(t, u) /\ u.balance = t.balance /\ u.maxOff = t.maxOff
          /\ u.child = t.child
          /\ \A m \in Cell : u.parent[m] = IF m = c THEN n ELSE t.parent[m]
          /\ \A m \in Cell : u.idx[m] = IF m = c THEN d ELSE t.idx[m]
      <3> HIDE DEF c
      <3>1. c \in Cell
        BY <2>1 DEF c
      <3> QED
        BY <3>1 DEF Typed, SameRest, Linked
    <2> QED
      BY <2>2, <2>3 DEF ChildFixed
  <1> QED
    BY <1>1, <1>2

LEMMA SetChildIs ==
    ASSUME NEW t, Typed(t), NEW n \in Cell, NEW d \in 0 .. 1, NEW c \in Node \cup {NULL}
    PROVE  ChildSet(t, SetChild(t, n, d, c), n, d, c)
  <1> DEFINE t1 == [t EXCEPT !.child[n][d] = c]
  <1>1. /\ Typed(t1) /\ SameRest(t, t1) /\ t1.balance = t.balance /\ t1.maxOff = t.maxOff
        /\ t1.parent = t.parent /\ t1.idx = t.idx
        /\ \A m \in Cell : \A e \in 0 .. 1 :
              t1.child[m][e] = IF m = n /\ e = d THEN c ELSE t.child[m][e]
    BY DEF Typed, SameRest
  <1>2. SetChild(t, n, d, c) = FixChild(t1, n, d)
    BY DEF SetChild
  <1> HIDE DEF t1
  <1>3. t1.child[n][d] = c
    BY <1>1
  <1>4. Typed(t1)
    BY <1>1
  <1>5. ChildFixed(t1, FixChild(t1, n, d), n, d)
    BY <1>4, FixChildIs
  <1> QED
    BY <1>1, <1>2, <1>3, <1>5 DEF ChildSet, ChildFixed, SameRest

(* upd() of a node alters the value kept for it only.                      *)
Told(t, m) == Max({t.data[m].off, ChildOff(t, m, 0), ChildOff(t, m, 1)})

Told1(t, u, n) ==
    /\ Typed(u) /\ SameLinks(t, u) /\ SameRest(t, u) /\ u.balance = t.balance
    /\ \A m \in Node : u.maxOff[m] = IF m = n THEN Told(t, n) ELSE t.maxOff[m]

LEMMA UpdIs ==
    ASSUME NEW t, Typed(t), NEW n \in Node
    PROVE  Told1(t, Upd(t, n), n)
  <1> DEFINE x == Told(t, n)
  <1>1. Upd(t, n) = [t EXCEPT !.maxOff[n] = x]
    BY DEF Upd, Told
  <1> HIDE DEF x
  <1>2. /\ SameLinks(t, Upd(t, n)) /\ SameRest(t, Upd(t, n))
        /\ Upd(t, n).balance = t.balance
        /\ \A m \in Node : Upd(t, n).maxOff[m] = IF m = n THEN x ELSE t.maxOff[m]
    BY <1>1 DEF Typed, SameLinks, SameRest
  <1>3. Typed(Upd(t, n))
    <2>1. PICK ds, os :
              t \in [child : [Cell -> [0 .. 1 -> Node \cup {NULL}]],
                     parent : [Cell -> Cell \cup {NULL}], idx : [Cell -> 0 .. 1],
                     balance : [Cell -> Int], data : [Node -> ds], maxOff : [Node -> os],
                     inTree : SUBSET Node, size : Int]
      BY DEF Typed
    <2>2. Upd(t, n) \in [child : [Cell -> [0 .. 1 -> Node \cup {NULL}]],
                     parent : [Cell -> Cell \cup {NULL}], idx : [Cell -> 0 .. 1],
                     balance : [Cell -> Int], data : [Node -> ds],
                     maxOff : [Node -> os \cup {x}],
                     inTree : SUBSET Node, size : Int]
      BY <1>1, <2>1, SMTT(30)
    <2> QED
      BY <2>2 DEF Typed
  <1> QED
    BY <1>2, <1>3 DEF x, Told1
-----------------------------------------------------------------------------
(* A tree in shape: the places of the cells, and the stretch of each.      *)
FirstPlace(pos, lo, m, d) == IF d = 0 THEN lo[m] ELSE pos[m] + 1
LastPlace(pos, hi, m, d) == IF d = 0 THEN pos[m] - 1 ELSE hi[m]

Stretches(Y, pos, lo, hi) ==
    /\ HEAD \in Y /\ Y \subseteq Cell
    /\ pos \in [Y -> Nat] /\ lo \in [Y -> Nat] /\ hi \in [Y -> Nat]
    /\ \A m \in Y : 1 <= lo[m] /\ lo[m] <= pos[m] /\ pos[m] <= hi[m]
    /\ \A m \in Y \ {HEAD} : hi[m] < pos[HEAD]
    /\ lo[HEAD] = 1 /\ hi[HEAD] = pos[HEAD]
    /\ \A m, n \in Y : pos[m] = pos[n] => m = n
    /\ \A k \in 1 .. pos[HEAD] : \E m \in Y : pos[m] = k

Hung(t, Y, pos, lo, hi, m, d) ==
    /\ t.child[m][d] = NULL => FirstPlace(pos, lo, m, d) = LastPlace(pos, hi, m, d) + 1
    /\ t.child[m][d] # NULL =>
          /\ t.child[m][d] \in Y \ {HEAD}
          /\ t.parent[t.child[m][d]] = m /\ t.idx[t.child[m][d]] = d
          /\ lo[t.child[m][d]] = FirstPlace(pos, lo, m, d)
          /\ hi[t.child[m][d]] = LastPlace(pos, hi, m, d)

Down(t, Y, pos, lo, hi) ==
    \A m \in Y : \A d \in 0 .. 1 : Hung(t, Y, pos, lo, hi, m, d)

Up(t, Y) ==
    /\ t.parent[HEAD] = HEAD /\ t.idx[HEAD] = 0
    /\ \A m \in Y \ {HEAD} :
          t.parent[m] \in Y /\ t.idx[m] \in 0 .. 1 /\ t.child[t.parent[m]][t.idx[m]] = m

Shape(t, Y, pos, lo, hi) ==
    Stretches(Y, pos, lo, hi) /\ Down(t, Y, pos, lo, hi) /\ Up(t, Y)

(* m's subtree has the cell i.                                             *)
Has(pos, lo, hi, m, i) == lo[m] <= pos[i] /\ pos[i] <= hi[m]

LEMMA NullIsNone == NULL \notin Cell /\ HEAD \in Cell /\ HEAD # NULL
  BY HeadAssumption DEF Cell

LEMMA InNode == ASSUME NEW Y, Y \subseteq Cell, NEW m \in Y \ {HEAD} PROVE m \in Node
  BY DEF Cell

(* The cells are a permutation of their places.                            *)
LEMMA StretchesFit ==
    ASSUME NEW Y, NEW pos, NEW lo, NEW hi, Stretches(Y, pos, lo, hi)
    PROVE  /\ IsFiniteSet(Y) /\ Cardinality(Y) = pos[HEAD]
           /\ Rounds \in Nat /\ pos[HEAD] \in 1 .. (Rounds + 1)
  <1>1. IsFiniteSet(Node) /\ HEAD \notin Node
    BY HeadAssumption
  <1>2. Rounds \in Nat /\ IsFiniteSet(Cell) /\ Cardinality(Cell) = Rounds + 1
    BY <1>1, FS_CardinalityType, FS_AddElement DEF Rounds, Cell
  <1>3. IsFiniteSet(Y) /\ Cardinality(Y) <= Cardinality(Cell) /\ Cardinality(Y) \in Nat
    BY <1>2, FS_Subset, FS_CardinalityType DEF Stretches
  <1>4. pos[HEAD] \in Nat /\ 1 <= pos[HEAD]
    BY DEF Stretches
  <1>5. \A m \in Y : pos[m] \in 1 .. pos[HEAD]
    BY DEF Stretches
  <1>6. pos \in Bijection(Y, 1 .. pos[HEAD])
    <2>1. pos \in [Y -> 1 .. pos[HEAD]]
      BY <1>5 DEF Stretches
    <2>2. pos \in Injection(Y, 1 .. pos[HEAD])
      BY <2>1 DEF Stretches, Injection, IsInjective
    <2>3. pos \in Surjection(Y, 1 .. pos[HEAD])
      BY <2>1 DEF Stretches, Surjection
    <2> QED
      BY <2>2, <2>3 DEF Bijection
  <1>7. ExistsBijection(Y, 1 .. pos[HEAD])
    BY <1>6 DEF ExistsBijection
  <1>8. IsFiniteSet(1 .. pos[HEAD]) /\ Cardinality(1 .. pos[HEAD]) = pos[HEAD]
    BY <1>4, FS_Interval
  <1>9. Cardinality(Y) = Cardinality(1 .. pos[HEAD])
    BY <1>3, <1>7, <1>8, FS_Bijection
  <1> QED
    BY <1>2, <1>3, <1>4, <1>8, <1>9

(* Whoever has a cell below it has that cell's parent.                     *)
LEMMA HasParent ==
    ASSUME NEW t, NEW Y, NEW pos, NEW lo, NEW hi, Shape(t, Y, pos, lo, hi),
           NEW m \in Y, NEW i \in Y \ {HEAD}, m # i, Has(pos, lo, hi, m, i)
    PROVE  Has(pos, lo, hi, m, t.parent[i])
  <1> DEFINE Bad == {n \in Y : n # i /\ Has(pos, lo, hi, n, i)
                               /\ ~Has(pos, lo, hi, n, t.parent[i])}
  <1> DEFINE f == [n \in Y |-> hi[n] - lo[n]]
  <1> SUFFICES ASSUME Bad # {} PROVE FALSE
    OBVIOUS
  <1>1. PICK n \in Bad : \A o \in Bad : f[n] <= f[o]
    <2>1. \A n \in Y : hi[n] - lo[n] \in Nat
      BY DEF Shape, Stretches
    <2>2. \A n \in Bad : f[n] \in Nat
      BY <2>1
    <2> HIDE DEF f, Bad
    <2> QED
      BY <2>2, LeastBy
  <1>2. n \in Y /\ n # i /\ Has(pos, lo, hi, n, i) /\ ~Has(pos, lo, hi, n, t.parent[i])
    BY <1>1
  <1>3. PICK d \in 0 .. 1 : FirstPlace(pos, lo, n, d) <= pos[i] /\ pos[i] <= LastPlace(pos, hi, n, d)
    <2>1. pos[i] \in Nat /\ pos[n] \in Nat /\ pos[i] # pos[n]
      BY <1>2 DEF Shape, Stretches
    <2>2. lo[n] <= pos[i] /\ pos[i] <= hi[n]
      BY <1>2 DEF Has
    <2>3. CASE pos[i] < pos[n]
      BY <2>1, <2>2, <2>3 DEF FirstPlace, LastPlace
    <2>4. CASE pos[n] < pos[i]
      BY <2>1, <2>2, <2>4 DEF FirstPlace, LastPlace
    <2> QED
      BY <2>1, <2>3, <2>4
  <1> DEFINE c == t.child[n][d]
  <1>4. c # NULL
    <2>1. FirstPlace(pos, lo, n, d) \in Nat /\ LastPlace(pos, hi, n, d) \in Int /\ pos[i] \in Nat
      BY <1>2 DEF Shape, Stretches, FirstPlace, LastPlace
    <2>2. c = NULL => FirstPlace(pos, lo, n, d) = LastPlace(pos, hi, n, d) + 1
      BY <1>2 DEF Shape, Down, Hung
    <2> QED
      BY <1>3, <2>1, <2>2
  <1>5. /\ c \in Y \ {HEAD} /\ t.parent[c] = n
        /\ lo[c] = FirstPlace(pos, lo, n, d) /\ hi[c] = LastPlace(pos, hi, n, d)
    BY <1>2, <1>4 DEF Shape, Down, Hung
  <1>6. c # i
    <2> SUFFICES ASSUME c = i PROVE FALSE
      OBVIOUS
    <2>1. t.parent[i] = n
      BY <1>5
    <2>2. Has(pos, lo, hi, n, n)
      BY <1>2 DEF Shape, Stretches, Has
    <2> QED
      BY <1>2, <2>1, <2>2
  <1>7. lo[n] <= lo[c] /\ hi[c] <= hi[n] /\ hi[c] - lo[c] < hi[n] - lo[n]
    BY <1>2, <1>5 DEF Shape, Stretches, FirstPlace, LastPlace
  <1>8. Has(pos, lo, hi, c, i)
    BY <1>3, <1>5 DEF Has
  <1>9. c \notin Bad
    <2>1. f[c] = hi[c] - lo[c] /\ f[n] = hi[n] - lo[n]
      BY <1>2, <1>5
    <2>2. hi[c] - lo[c] \in Int /\ hi[n] - lo[n] \in Int
      BY <1>2, <1>5 DEF Shape, Stretches
    <2> HIDE DEF f, Bad, c
    <2>3. c \in Bad => f[n] <= f[c]
      BY <1>1
    <2> QED
      BY <1>7, <2>1, <2>2, <2>3
  <1>10. Has(pos, lo, hi, c, t.parent[i])
    BY <1>5, <1>6, <1>8, <1>9
  <1>11. t.parent[i] \in Y
    BY DEF Shape, Up
  <1>12. Has(pos, lo, hi, n, t.parent[i])
    <2>1. /\ pos[t.parent[i]] \in Nat /\ lo[n] \in Nat /\ hi[n] \in Nat
          /\ lo[c] \in Nat /\ hi[c] \in Nat
      BY <1>2, <1>5, <1>11 DEF Shape, Stretches
    <2> QED
      BY <1>7, <1>10, <2>1 DEF Has
  <1> QED
    BY <1>2, <1>12

(* A parent's stretch is wider, and has its children's.                    *)
LEMMA ParentIs ==
    ASSUME NEW t, NEW Y, NEW pos, NEW lo, NEW hi, Shape(t, Y, pos, lo, hi),
           NEW i \in Y \ {HEAD}
    PROVE  /\ t.parent[i] \in Y /\ t.idx[i] \in 0 .. 1 /\ t.child[t.parent[i]][t.idx[i]] = i
           /\ t.parent[i] # i
           /\ lo[i] = FirstPlace(pos, lo, t.parent[i], t.idx[i])
           /\ hi[i] = LastPlace(pos, hi, t.parent[i], t.idx[i])
           /\ lo[t.parent[i]] <= lo[i] /\ hi[i] <= hi[t.parent[i]]
           /\ hi[i] - lo[i] < hi[t.parent[i]] - lo[t.parent[i]]
  <1> DEFINE p == t.parent[i]
  <1> DEFINE d == t.idx[i]
  <1>1. p \in Y /\ d \in 0 .. 1 /\ t.child[p][d] = i
    BY DEF Shape, Up
  <1>2. i # NULL
    BY NullIsNone DEF Shape, Stretches
  <1>3. lo[i] = FirstPlace(pos, lo, p, d) /\ hi[i] = LastPlace(pos, hi, p, d)
    BY <1>1, <1>2 DEF Shape, Down, Hung
  <1> HIDE DEF p, d
  <1>4. lo[p] <= lo[i] /\ hi[i] <= hi[p] /\ hi[i] - lo[i] < hi[p] - lo[p]
    <2>1. /\ lo[p] \in Nat /\ hi[p] \in Nat /\ pos[p] \in Nat /\ lo[p] <= pos[p] /\ pos[p] <= hi[p]
      BY <1>1 DEF Shape, Stretches
    <2> QED
      BY <1>3, <2>1 DEF FirstPlace, LastPlace
  <1>5. p # i
    BY <1>1, <1>4 DEF Shape, Stretches
  <1> QED
    BY <1>1, <1>3, <1>4, <1>5 DEF p, d

LEMMA ChildIs ==
    ASSUME NEW t, NEW Y, NEW pos, NEW lo, NEW hi, Shape(t, Y, pos, lo, hi),
           NEW m \in Y, NEW d \in 0 .. 1, t.child[m][d] # NULL
    PROVE  /\ t.child[m][d] \in Y \ {HEAD} /\ t.child[m][d] # m
           /\ t.parent[t.child[m][d]] = m /\ t.idx[t.child[m][d]] = d
           /\ lo[t.child[m][d]] = FirstPlace(pos, lo, m, d)
           /\ hi[t.child[m][d]] = LastPlace(pos, hi, m, d)
           /\ lo[m] <= lo[t.child[m][d]] /\ hi[t.child[m][d]] <= hi[m]
           /\ hi[t.child[m][d]] - lo[t.child[m][d]] < hi[m] - lo[m]
  <1> DEFINE c == t.child[m][d]
  <1>1. c \in Y \ {HEAD} /\ t.parent[c] = m /\ t.idx[c] = d
        /\ lo[c] = FirstPlace(pos, lo, m, d) /\ hi[c] = LastPlace(pos, hi, m, d)
    BY DEF Shape, Down, Hung
  <1> HIDE DEF c
  <1>2. /\ t.parent[c] # c /\ lo[t.parent[c]] <= lo[c] /\ hi[c] <= hi[t.parent[c]]
        /\ hi[c] - lo[c] < hi[t.parent[c]] - lo[t.parent[c]]
    BY <1>1, ParentIs
  <1> QED
    BY <1>1, <1>2 DEF c

-----------------------------------------------------------------------------
(* What upd() last told a node's value from is what it would tell it from. *)
Fresh(t, m) == t.maxOff[m] = Told(t, m)

(* Every value is fresh but those of i and of the nodes above it.          *)
Kept(t, Y, pos, lo, hi, i) == \A m \in Y \ {HEAD} : Has(pos, lo, hi, m, i) \/ Fresh(t, m)

SameAt(t, u, m) ==
    /\ u.data[m] = t.data[m]
    /\ \A d \in 0 .. 1 :
          /\ u.child[m][d] = t.child[m][d]
          /\ t.child[m][d] # NULL => /\ u.data[t.child[m][d]] = t.data[t.child[m][d]]
                                     /\ u.maxOff[t.child[m][d]] = t.maxOff[t.child[m][d]]

LEMMA ToldSame ==
    ASSUME NEW t, NEW u, NEW m, SameAt(t, u, m)
    PROVE  Told(u, m) = Told(t, m)
  <1>1. \A d \in 0 .. 1 : ChildOff(u, m, d) = ChildOff(t, m, d)
    <2> SUFFICES ASSUME NEW d \in 0 .. 1 PROVE ChildOff(u, m, d) = ChildOff(t, m, d)
      OBVIOUS
    <2>1. u.child[m][d] = t.child[m][d]
      BY DEF SameAt
    <2> DEFINE c == t.child[m][d]
    <2>2. c # NULL => u.data[c] = t.data[c] /\ u.maxOff[c] = t.maxOff[c]
      BY DEF SameAt
    <2>3. /\ ChildOff(u, m, d) = IF c = NULL THEN -1 ELSE IF Channel THEN u.data[c].off ELSE u.maxOff[c]
          /\ ChildOff(t, m, d) = IF c = NULL THEN -1 ELSE IF Channel THEN t.data[c].off ELSE t.maxOff[c]
      BY <2>1 DEF ChildOff
    <2> HIDE DEF c
    <2> QED
      BY <2>2, <2>3
  <1>2. ChildOff(u, m, 0) = ChildOff(t, m, 0) /\ ChildOff(u, m, 1) = ChildOff(t, m, 1)
    BY <1>1
  <1>3. u.data[m].off = t.data[m].off
    BY DEF SameAt
  <1> QED
    BY <1>2, <1>3 DEF Told

LEMMA FreshSame ==
    ASSUME NEW t, NEW u, NEW m, SameAt(t, u, m), u.maxOff[m] = t.maxOff[m]
    PROVE  Fresh(u, m) <=> Fresh(t, m)
  BY ToldSame DEF Fresh

(* Shape is a matter of the links only.                                    *)
LEMMA ShapeSame ==
    ASSUME NEW t, NEW u, NEW Y, NEW pos, NEW lo, NEW hi, Shape(t, Y, pos, lo, hi), SameLinks(t, u)
    PROVE  Shape(u, Y, pos, lo, hi)
  BY DEF Shape, Down, Hung, Up, SameLinks

(* update_to_top: the values kept are the only thing it alters.            *)
OnlyValues(t, u) == Typed(u) /\ SameLinks(t, u) /\ SameRest(t, u) /\ u.balance = t.balance

UpStep(a, x, k) == UpdateRound(x)

UpGood(a, k, x) ==
    /\ OnlyValues(a.tree, x.tree)
    /\ x.at \in a.in
    /\ x.at = HEAD \/ a.hi[x.at] - a.lo[x.at] >= k
    /\ Kept(x.tree, a.in, a.pos, a.lo, a.hi, x.at)

UpLoop == INSTANCE FoldFacts WITH Step <- UpStep, Sel <- ByMax, Good <- UpGood

LEMMA UpRoundKeeps ==
    ASSUME NEW t, NEW Y, NEW pos, NEW lo, NEW hi, Typed(t), Shape(t, Y, pos, lo, hi),
           NEW i \in Y \ {HEAD}, Kept(t, Y, pos, lo, hi, i)
    PROVE  /\ OnlyValues(t, Upd(t, i))
           /\ Kept(Upd(t, i), Y, pos, lo, hi, t.parent[i])
  <1> DEFINE u == Upd(t, i)
  <1>0. i \in Node /\ Y \subseteq Cell
    BY InNode DEF Shape, Stretches
  <1>1. Told1(t, u, i)
    BY <1>0, UpdIs
  <1> HIDE DEF u
  <1>2. OnlyValues(t, u)
    BY <1>1 DEF Told1, OnlyValues
  <1>3. Kept(u, Y, pos, lo, hi, t.parent[i])
    <2> SUFFICES ASSUME NEW m \in Y \ {HEAD}, ~Has(pos, lo, hi, m, t.parent[i])
                 PROVE  Fresh(u, m)
      BY DEF Kept
    <2>1. m \in Node /\ m \in Y
      BY <1>0, InNode
    <2>2. \A d \in 0 .. 1 : t.child[m][d] # NULL => t.child[m][d] \in Node /\ t.child[m][d] # i
      <3> SUFFICES ASSUME NEW d \in 0 .. 1, t.child[m][d] # NULL
                   PROVE  t.child[m][d] \in Node /\ t.child[m][d] # i
        OBVIOUS
      <3>1. t.child[m][d] \in Y \ {HEAD} /\ t.parent[t.child[m][d]] = m
        BY <2>1 DEF Shape, Down, Hung
      <3>2. Has(pos, lo, hi, m, m)
        BY <2>1 DEF Shape, Stretches, Has
      <3>3. t.child[m][d] \in Node
        BY <3>1, <1>0, InNode
      <3> QED
        BY <3>1, <3>2, <3>3
    <2>3. SameAt(t, u, m)
      BY <1>1, <2>2 DEF SameAt, Told1, SameLinks, SameRest
    <2>4. CASE m = i
      BY <1>1, <2>1, <2>3, <2>4, ToldSame DEF Fresh, Told1
    <2>5. CASE m # i
      <3>1. ~Has(pos, lo, hi, m, i)
        BY <2>1, <2>5, HasParent
      <3>2. Fresh(t, m)
        BY <3>1 DEF Kept
      <3>3. u.maxOff[m] = t.maxOff[m]
        BY <1>1, <2>1, <2>5 DEF Told1
      <3> QED
        BY <2>3, <3>2, <3>3, FreshSame
    <2> QED
      BY <2>4, <2>5
  <1> QED
    BY <1>2, <1>3 DEF u

LEMMA UpdateToTopIs ==
    ASSUME NEW t, NEW Y, NEW pos, NEW lo, NEW hi, Typed(t), Shape(t, Y, pos, lo, hi),
           NEW i \in Y, Kept(t, Y, pos, lo, hi, i)
    PROVE  /\ OnlyValues(t, UpdateToTop(t, i))
           /\ Kept(UpdateToTop(t, i), Y, pos, lo, hi, HEAD)
  <1> DEFINE a == [tree |-> t, in |-> Y, pos |-> pos, lo |-> lo, hi |-> hi]
  <1> DEFINE s == [tree |-> t, at |-> i]
  <1>1. a.tree = t /\ a.in = Y /\ a.pos = pos /\ a.lo = lo /\ a.hi = hi
    OBVIOUS
  <1>2. s.tree = t /\ s.at = i
    OBVIOUS
  <1>3. UpdateToTop(t, i) = UpLoop!Loop(a, s, Rounds).tree
    BY DEF UpdateToTop, Repeat, UpLoop!Loop, UpLoop!IsLoop, UpStep
  <1> HIDE DEF a, s
  <1>4. UpGood(a, 0, s)
    <2>1. i = HEAD \/ hi[i] - lo[i] >= 0
      BY DEF Shape, Stretches
    <2>2. OnlyValues(t, t)
      BY DEF OnlyValues, SameLinks, SameRest
    <2> QED
      BY <1>1, <1>2, <2>1, <2>2 DEF UpGood
  <1>5. \A k \in 1 .. Rounds : \A x : UpGood(a, k - 1, x) => UpGood(a, k, UpStep(a, x, k))
    <2> SUFFICES ASSUME NEW k \in 1 .. Rounds, NEW x, UpGood(a, k - 1, x)
                 PROVE  UpGood(a, k, UpdateRound(x))
      BY DEF UpStep
    <2>1. /\ OnlyValues(t, x.tree) /\ x.at \in Y
          /\ x.at = HEAD \/ hi[x.at] - lo[x.at] >= k - 1
          /\ Kept(x.tree, Y, pos, lo, hi, x.at)
      BY <1>1 DEF UpGood
    <2>2. CASE x.at = HEAD
      <3>1. UpdateRound(x) = x
        BY <2>2 DEF UpdateRound
      <3> QED
        BY <1>1, <2>1, <2>2, <3>1 DEF UpGood
    <2>3. CASE x.at # HEAD
      <3> DEFINE n == x.at
      <3> DEFINE y == [tree |-> Upd(x.tree, n), at |-> x.tree.parent[n]]
      <3>1. UpdateRound(x) = y
        BY <2>3 DEF UpdateRound
      <3>2. y.tree = Upd(x.tree, n) /\ y.at = x.tree.parent[n]
        OBVIOUS
      <3> HIDE DEF n, y
      <3>3. n \in Y \ {HEAD} /\ x.at = n
        BY <2>1, <2>3 DEF n
      <3>4. Typed(x.tree) /\ Shape(x.tree, Y, pos, lo, hi)
        BY <2>1, ShapeSame DEF OnlyValues
      <3>5. Kept(x.tree, Y, pos, lo, hi, n)
        BY <2>1 DEF n
      <3>6. OnlyValues(x.tree, y.tree) /\ Kept(y.tree, Y, pos, lo, hi, y.at)
        BY <3>2, <3>3, <3>4, <3>5, UpRoundKeeps
      <3>7. OnlyValues(t, y.tree)
        BY <2>1, <3>6 DEF OnlyValues, SameLinks, SameRest
      <3>8. y.at \in Y /\ hi[n] - lo[n] < hi[y.at] - lo[y.at]
        BY <3>2, <3>3, <3>4, ParentIs
      <3>9. hi[y.at] - lo[y.at] >= k
        <4>1. hi[n] \in Nat /\ lo[n] \in Nat /\ hi[y.at] \in Nat /\ lo[y.at] \in Nat
          BY <3>3, <3>8 DEF Shape, Stretches
        <4>2. hi[n] - lo[n] >= k - 1
          BY <2>1, <3>3
        <4> QED
          BY <3>8, <4>1, <4>2
      <3> QED
        BY <1>1, <3>1, <3>6, <3>7, <3>8, <3>9 DEF UpGood
    <2> QED
      BY <2>2, <2>3
  <1>6. Rounds \in Nat /\ pos[HEAD] \in 1 .. (Rounds + 1)
    BY StretchesFit DEF Shape
  <1>7. UpGood(a, Rounds, UpLoop!Loop(a, s, Rounds))
    BY <1>4, <1>5, <1>6, UpLoop!LoopGood
  <1> DEFINE z == UpLoop!Loop(a, s, Rounds)
  <1>8. /\ OnlyValues(t, z.tree) /\ z.at \in Y
        /\ z.at = HEAD \/ hi[z.at] - lo[z.at] >= Rounds
        /\ Kept(z.tree, Y, pos, lo, hi, z.at)
    BY <1>1, <1>7 DEF UpGood
  <1> HIDE DEF z
  <1>9. z.at = HEAD
    <2> SUFFICES ASSUME z.at # HEAD PROVE FALSE
      OBVIOUS
    <2>1. /\ hi[z.at] \in Nat /\ lo[z.at] \in Nat /\ 1 <= lo[z.at] /\ hi[z.at] < pos[HEAD]
      BY <1>8 DEF Shape, Stretches
    <2> QED
      BY <1>6, <1>8, <2>1
  <1> QED
    BY <1>3, <1>8, <1>9 DEF z

-----------------------------------------------------------------------------
(* A rotation: r takes n's place, and n what r had on side dir.            *)
LinksTurned(t, u, n, r, dir) ==
    /\ \A m \in Cell : \A e \in 0 .. 1 :
          u.child[m][e] = IF m = n /\ e = 1 - dir THEN t.child[r][dir]
                          ELSE IF m = r /\ e = dir THEN n
                          ELSE IF m = t.parent[n] /\ e = t.idx[n] THEN r
                          ELSE t.child[m][e]
    /\ \A m \in Cell :
          u.parent[m] = IF m = n THEN r ELSE IF m = r THEN t.parent[n]
                        ELSE IF m = t.child[r][dir] THEN n ELSE t.parent[m]
    /\ \A m \in Cell :
          u.idx[m] = IF m = n THEN dir ELSE IF m = r THEN t.idx[n]
                     ELSE IF m = t.child[r][dir] THEN 1 - dir ELSE t.idx[m]

OnlyLinks(t, u) ==
    Typed(u) /\ SameRest(t, u) /\ u.balance = t.balance /\ u.maxOff = t.maxOff

LEMMA TurnedIs ==
    ASSUME NEW t, Typed(t), NEW n \in Node, NEW r \in Node, NEW dir \in 0 .. 1,
           t.parent[n] \in Cell, t.idx[n] \in 0 .. 1, n # r, t.parent[n] \notin {n, r},
           t.child[r][dir] \notin {n, r}
    PROVE  OnlyLinks(t, Turned(t, n, r, dir)) /\ LinksTurned(t, Turned(t, n, r, dir), n, r, dir)
  <1> DEFINE p == t.parent[n]
  <1> DEFINE i == t.idx[n]
  <1> DEFINE t1 == SetChild(t, p, i, r)
  <1> DEFINE t2 == SetChild(t1, n, 1 - dir, t1.child[r][dir])
  <1> DEFINE t3 == SetChild(t2, r, dir, n)
  <1>1. Turned(t, n, r, dir) = t3
    BY DEF Turned
  <1>2. p \in Cell /\ i \in 0 .. 1 /\ p # n /\ p # r /\ n \in Cell /\ r \in Cell
        /\ 1 - dir \in 0 .. 1 /\ r \in Node \cup {NULL} /\ n \in Node \cup {NULL}
    BY DEF Cell
  <1>3. ChildSet(t, t1, p, i, r)
    BY <1>2, SetChildIs
  <1> HIDE DEF t1
  <1>4. t1.child[r][dir] = t.child[r][dir]
    BY <1>2, <1>3 DEF ChildSet
  <1>5. ChildSet(t1, t2, n, 1 - dir, t1.child[r][dir])
    <2>1. t1.child[r][dir] \in Node \cup {NULL}
      BY <1>2, <1>4 DEF Typed
    <2>2. Typed(t1)
      BY <1>3 DEF ChildSet
    <2> QED
      BY <1>2, <2>1, <2>2, SetChildIs
  <1> HIDE DEF t2
  <1>6. ChildSet(t2, t3, r, dir, n)
    <2>1. Typed(t2)
      BY <1>5 DEF ChildSet
    <2> QED
      BY <1>2, <2>1, SetChildIs
  <1> HIDE DEF t3, p, i
  <1>7. OnlyLinks(t, t3)
    BY <1>3, <1>5, <1>6 DEF OnlyLinks, ChildSet, SameRest
  <1>8. \A m \in Cell : \A e \in 0 .. 1 :
          t3.child[m][e] = IF m = n /\ e = 1 - dir THEN t.child[r][dir]
                           ELSE IF m = r /\ e = dir THEN n
                           ELSE IF m = p /\ e = i THEN r
                           ELSE t.child[m][e]
    <2> SUFFICES ASSUME NEW m \in Cell, NEW e \in 0 .. 1
                 PROVE  t3.child[m][e] = IF m = n /\ e = 1 - dir THEN t.child[r][dir]
                           ELSE IF m = r /\ e = dir THEN n
                           ELSE IF m = p /\ e = i THEN r
                           ELSE t.child[m][e]
      OBVIOUS
    <2>1. t3.child[m][e] = IF m = r /\ e = dir THEN n ELSE t2.child[m][e]
      BY <1>6 DEF ChildSet
    <2>2. t2.child[m][e] = IF m = n /\ e = 1 - dir THEN t.child[r][dir] ELSE t1.child[m][e]
      BY <1>4, <1>5 DEF ChildSet
    <2>3. t1.child[m][e] = IF m = p /\ e = i THEN r ELSE t.child[m][e]
      BY <1>3 DEF ChildSet
    <2> QED
      BY <1>2, <2>1, <2>2, <2>3
  <1>9. \A m \in Cell :
          /\ t3.parent[m] = IF m = n THEN r ELSE IF m = r THEN p
                            ELSE IF m = t.child[r][dir] THEN n ELSE t.parent[m]
          /\ t3.idx[m] = IF m = n THEN dir ELSE IF m = r THEN i
                         ELSE IF m = t.child[r][dir] THEN 1 - dir ELSE t.idx[m]
    <2> SUFFICES ASSUME NEW m \in Cell
                 PROVE  /\ t3.parent[m] = IF m = n THEN r ELSE IF m = r THEN p
                            ELSE IF m = t.child[r][dir] THEN n ELSE t.parent[m]
                        /\ t3.idx[m] = IF m = n THEN dir ELSE IF m = r THEN i
                            ELSE IF m = t.child[r][dir] THEN 1 - dir ELSE t.idx[m]
      OBVIOUS
    <2>1. /\ t3.parent[m] = IF m = n THEN r ELSE t2.parent[m]
          /\ t3.idx[m] = IF m = n THEN dir ELSE t2.idx[m]
      BY <1>6 DEF ChildSet
    <2>2. /\ t2.parent[m] = IF m = t.child[r][dir] THEN n ELSE t1.parent[m]
          /\ t2.idx[m] = IF m = t.child[r][dir] THEN 1 - dir ELSE t1.idx[m]
      BY <1>4, <1>5 DEF ChildSet
    <2>3. /\ t1.parent[m] = IF m = r THEN p ELSE t.parent[m]
          /\ t1.idx[m] = IF m = r THEN i ELSE t.idx[m]
      BY <1>3 DEF ChildSet
    <2> QED
      BY <1>2, <2>1, <2>2, <2>3
  <1> QED
    BY <1>1, <1>7, <1>8, <1>9 DEF LinksTurned, p, i

(* The places stay; r has n's stretch, and n what is left of it past r.    *)
TurnedLo(Y, pos, lo, n, r, dir) ==
    [m \in Y |-> IF m = r THEN lo[n] ELSE IF m = n /\ dir = 1 THEN pos[r] + 1 ELSE lo[m]]

TurnedHi(Y, pos, hi, n, r, dir) ==
    [m \in Y |-> IF m = r THEN hi[n] ELSE IF m = n /\ dir = 0 THEN pos[r] - 1 ELSE hi[m]]

LEMMA ShapeTurned ==
    ASSUME NEW t, NEW Y, NEW pos, NEW lo, NEW hi, Shape(t, Y, pos, lo, hi),
           NEW u, NEW n \in Y \ {HEAD}, NEW dir \in 0 .. 1, NEW r,
           r = t.child[n][1 - dir], r # NULL, LinksTurned(t, u, n, r, dir)
    PROVE  Shape(u, Y, pos, TurnedLo(Y, pos, lo, n, r, dir), TurnedHi(Y, pos, hi, n, r, dir))
  <1> DEFINE lo2 == TurnedLo(Y, pos, lo, n, r, dir)
  <1> DEFINE hi2 == TurnedHi(Y, pos, hi, n, r, dir)
  <1> DEFINE p == t.parent[n]
  <1> DEFINE i == t.idx[n]
  <1> DEFINE M == t.child[r][dir]
  <1>1. \A m \in Y : /\ lo2[m] = IF m = r THEN lo[n] ELSE IF m = n /\ dir = 1 THEN pos[r] + 1
                                 ELSE lo[m]
                     /\ hi2[m] = IF m = r THEN hi[n] ELSE IF m = n /\ dir = 0 THEN pos[r] - 1
                                 ELSE hi[m]
    BY DEF TurnedLo, TurnedHi
  <1>2. DOMAIN lo2 = Y /\ DOMAIN hi2 = Y /\ lo2 = [m \in Y |-> lo2[m]] /\ hi2 = [m \in Y |-> hi2[m]]
    BY DEF TurnedLo, TurnedHi
  <1>3. /\ r \in Y \ {HEAD} /\ r # n /\ t.parent[r] = n /\ t.idx[r] = 1 - dir
        /\ lo[r] = FirstPlace(pos, lo, n, 1 - dir) /\ hi[r] = LastPlace(pos, hi, n, 1 - dir)
        /\ 1 - dir \in 0 .. 1
    <2>1. 1 - dir \in 0 .. 1
      OBVIOUS
    <2> QED
      BY <2>1, ChildIs
  <1>4. /\ p \in Y /\ i \in 0 .. 1 /\ t.child[p][i] = n /\ p # n /\ p # r
        /\ lo[n] = FirstPlace(pos, lo, p, i) /\ hi[n] = LastPlace(pos, hi, p, i)
    <2>1. /\ p \in Y /\ i \in 0 .. 1 /\ t.child[p][i] = n /\ p # n
          /\ lo[n] = FirstPlace(pos, lo, p, i) /\ hi[n] = LastPlace(pos, hi, p, i)
          /\ hi[n] - lo[n] < hi[p] - lo[p]
      BY ParentIs
    <2>2. hi[r] - lo[r] < hi[n] - lo[n]
      BY <1>3, ParentIs
    <2>3. /\ hi[p] \in Nat /\ lo[p] \in Nat /\ hi[n] \in Nat /\ lo[n] \in Nat
          /\ hi[r] \in Nat /\ lo[r] \in Nat
      BY <1>3, <2>1 DEF Shape, Stretches
    <2>4. p # r
      BY <2>1, <2>2, <2>3
    <2> QED
      BY <2>1, <2>4
  <1>5. M # NULL => /\ M \in Y \ {HEAD} /\ M # r /\ t.parent[M] = r /\ t.idx[M] = dir
                    /\ lo[M] = FirstPlace(pos, lo, r, dir) /\ hi[M] = LastPlace(pos, hi, r, dir)
    <2> SUFFICES ASSUME t.child[r][dir] # NULL
                 PROVE  /\ M \in Y \ {HEAD} /\ M # r /\ t.parent[M] = r /\ t.idx[M] = dir
                        /\ lo[M] = FirstPlace(pos, lo, r, dir)
                        /\ hi[M] = LastPlace(pos, hi, r, dir)
      OBVIOUS
    <2>1. r \in Y
      BY <1>3
    <2> QED
      BY <2>1, ChildIs
  <1>6. M = NULL => FirstPlace(pos, lo, r, dir) = LastPlace(pos, hi, r, dir) + 1
    BY <1>3 DEF Shape, Down, Hung
  <1>7. Y \subseteq Cell /\ HEAD \in Y /\ NULL \notin Y
    BY NullIsNone DEF Shape, Stretches
  <1>8. M # n
    BY <1>3, <1>4, <1>5, <1>7
  <1>9. \A m \in Y : \A e \in 0 .. 1 :
          u.child[m][e] = IF m = n /\ e = 1 - dir THEN M
                          ELSE IF m = r /\ e = dir THEN n
                          ELSE IF m = p /\ e = i THEN r
                          ELSE t.child[m][e]
    BY <1>7 DEF LinksTurned
  <1>10. \A m \in Y :
          /\ u.parent[m] = IF m = n THEN r ELSE IF m = r THEN p
                           ELSE IF m = M THEN n ELSE t.parent[m]
          /\ u.idx[m] = IF m = n THEN dir ELSE IF m = r THEN i
                        ELSE IF m = M THEN 1 - dir ELSE t.idx[m]
    BY <1>7 DEF LinksTurned
  <1>11. \A m \in Y : /\ pos[m] \in Nat /\ lo[m] \in Nat /\ hi[m] \in Nat
                      /\ lo[m] <= pos[m] /\ pos[m] <= hi[m] /\ 1 <= lo[m]
    BY DEF Shape, Stretches
  <1> HIDE DEF lo2, hi2, p, i, M
  <1>12. Stretches(Y, pos, lo2, hi2)
    <2>1. \A m \in Y : /\ lo2[m] \in Nat /\ hi2[m] \in Nat
                       /\ 1 <= lo2[m] /\ lo2[m] <= pos[m] /\ pos[m] <= hi2[m]
      <3> SUFFICES ASSUME NEW m \in Y
                   PROVE  /\ lo2[m] \in Nat /\ hi2[m] \in Nat
                          /\ 1 <= lo2[m] /\ lo2[m] <= pos[m] /\ pos[m] <= hi2[m]
        OBVIOUS
      <3>1. /\ pos[m] \in Nat /\ lo[m] \in Nat /\ hi[m] \in Nat
            /\ pos[n] \in Nat /\ lo[n] \in Nat /\ hi[n] \in Nat
            /\ pos[r] \in Nat /\ lo[r] \in Nat /\ hi[r] \in Nat
            /\ lo[m] <= pos[m] /\ pos[m] <= hi[m] /\ 1 <= lo[m]
            /\ lo[n] <= pos[n] /\ pos[n] <= hi[n] /\ 1 <= lo[n]
            /\ lo[r] <= pos[r] /\ pos[r] <= hi[r] /\ 1 <= lo[r]
        BY <1>3, <1>11
      <3>2. CASE dir = 0
        BY <1>1, <1>3, <3>1, <3>2 DEF FirstPlace, LastPlace
      <3>3. CASE dir = 1
        BY <1>1, <1>3, <3>1, <3>3 DEF FirstPlace, LastPlace
      <3> QED
        BY <3>2, <3>3
    <2>2. lo2 \in [Y -> Nat] /\ hi2 \in [Y -> Nat]
      BY <1>2, <2>1
    <2>3. \A m \in Y \ {HEAD} : hi2[m] < pos[HEAD]
      BY <1>1, <1>3, <1>7, <1>11 DEF Shape, Stretches
    <2>4. lo2[HEAD] = 1 /\ hi2[HEAD] = pos[HEAD]
      BY <1>1, <1>3, <1>7 DEF Shape, Stretches
    <2> QED
      BY <2>1, <2>2, <2>3, <2>4 DEF Shape, Stretches
  <1>13. Down(u, Y, pos, lo2, hi2)
    <2> SUFFICES ASSUME NEW m \in Y, NEW e \in 0 .. 1 PROVE Hung(u, Y, pos, lo2, hi2, m, e)
      BY DEF Down
    <2>0. /\ pos[m] \in Nat /\ lo[m] \in Nat /\ hi[m] \in Nat
          /\ pos[n] \in Nat /\ lo[n] \in Nat /\ hi[n] \in Nat
          /\ pos[r] \in Nat /\ lo[r] \in Nat /\ hi[r] \in Nat
          /\ pos[p] \in Nat /\ lo[p] \in Nat /\ hi[p] \in Nat
      BY <1>3, <1>4, <1>11
    <2>1. CASE m = n /\ e = 1 - dir
      <3>1. u.child[m][e] = M
        BY <1>9, <2>1
      <3>2. CASE M = NULL
        <4>1. FirstPlace(pos, lo2, m, e) = LastPlace(pos, hi2, m, e) + 1
          BY <1>1, <1>3, <1>6, <2>0, <2>1, <3>2 DEF FirstPlace, LastPlace
        <4> QED
          BY <3>1, <3>2, <4>1 DEF Hung
      <3>3. CASE M # NULL
        <4>1. M \in Y \ {HEAD} /\ u.parent[M] = m /\ u.idx[M] = e
          BY <1>5, <1>8, <1>10, <2>1, <3>3
        <4>2. lo2[M] = lo[M] /\ hi2[M] = hi[M]
          BY <1>1, <1>5, <1>8, <3>3
        <4>3. lo[M] = FirstPlace(pos, lo2, m, e) /\ hi[M] = LastPlace(pos, hi2, m, e)
          BY <1>1, <1>3, <1>5, <2>0, <2>1, <3>3 DEF FirstPlace, LastPlace
        <4> QED
          BY <3>1, <3>3, <4>1, <4>2, <4>3 DEF Hung
      <3> QED
        BY <3>2, <3>3
    <2>2. CASE m = r /\ e = dir
      <3>1. u.child[m][e] = n
        BY <1>3, <1>9, <2>2
      <3>2. u.parent[n] = m /\ u.idx[n] = e /\ n # NULL
        BY <1>3, <1>7, <1>10, <2>2
      <3>3. lo2[n] = FirstPlace(pos, lo2, m, e) /\ hi2[n] = LastPlace(pos, hi2, m, e)
        BY <1>1, <1>3, <2>0, <2>2 DEF FirstPlace, LastPlace
      <3> QED
        BY <3>1, <3>2, <3>3 DEF Hung
    <2>3. CASE m = p /\ e = i
      <3>1. u.child[m][e] = r
        BY <1>4, <1>9, <2>3
      <3>2. u.parent[r] = m /\ u.idx[r] = e
        BY <1>3, <1>10, <2>3
      <3>3. lo2[r] = FirstPlace(pos, lo2, m, e) /\ hi2[r] = LastPlace(pos, hi2, m, e)
        BY <1>1, <1>3, <1>4, <2>0, <2>3 DEF FirstPlace, LastPlace
      <3> QED
        BY <1>3, <3>1, <3>2, <3>3 DEF Hung
    <2>4. CASE ~(m = n /\ e = 1 - dir) /\ ~(m = r /\ e = dir) /\ ~(m = p /\ e = i)
      <3> DEFINE c == t.child[m][e]
      <3>1. u.child[m][e] = c
        BY <1>9, <2>4
      <3>2. FirstPlace(pos, lo2, m, e) = FirstPlace(pos, lo, m, e) /\ LastPlace(pos, hi2, m, e) = LastPlace(pos, hi, m, e)
        <4>1. CASE m = n
          BY <1>1, <1>3, <2>4, <4>1 DEF FirstPlace, LastPlace
        <4>2. CASE m = r
          BY <1>1, <1>3, <2>0, <2>4, <4>2 DEF FirstPlace, LastPlace
        <4>3. CASE m # n /\ m # r
          BY <1>1, <4>3 DEF FirstPlace, LastPlace
        <4> QED
          BY <4>1, <4>2, <4>3
      <3>3. CASE c = NULL
        <4>1. FirstPlace(pos, lo, m, e) = LastPlace(pos, hi, m, e) + 1
          BY <3>3 DEF Shape, Down, Hung
        <4> QED
          BY <3>1, <3>2, <3>3, <4>1 DEF Hung
      <3>4. CASE c # NULL
        <4>1. /\ c \in Y \ {HEAD} /\ t.parent[c] = m /\ t.idx[c] = e
              /\ lo[c] = FirstPlace(pos, lo, m, e) /\ hi[c] = LastPlace(pos, hi, m, e)
          BY <3>4, ChildIs
        <4> HIDE DEF c
        <4>2. c # n /\ c # r
          BY <1>3, <2>4, <4>1 DEF p, i
        <4>3. c # M
          BY <1>5, <1>7, <2>4, <4>1
        <4> QED
          BY <1>1, <1>10, <3>1, <3>2, <3>4, <4>1, <4>2, <4>3 DEF Hung
      <3> QED
        BY <3>3, <3>4
    <2> QED
      BY <2>1, <2>2, <2>3, <2>4
  <1>14. Up(u, Y)
    <2>1. u.parent[HEAD] = HEAD /\ u.idx[HEAD] = 0
      <3>1. HEAD # M
        BY <1>5, <1>7
      <3>2. t.parent[HEAD] = HEAD /\ t.idx[HEAD] = 0
        BY DEF Shape, Up
      <3> QED
        BY <1>3, <1>7, <1>10, <3>1, <3>2
    <2>2. ASSUME NEW m \in Y \ {HEAD}
          PROVE  u.parent[m] \in Y /\ u.idx[m] \in 0 .. 1 /\ u.child[u.parent[m]][u.idx[m]] = m
      <3>1. CASE m = n
        BY <1>3, <1>9, <1>10, <3>1
      <3>2. CASE m = r
        BY <1>3, <1>4, <1>9, <1>10, <3>2
      <3>3. CASE m # n /\ m # r /\ m = M
        BY <1>3, <1>9, <1>10, <3>3
      <3>4. CASE m # n /\ m # r /\ m # M
        <4>1. /\ t.parent[m] \in Y /\ t.idx[m] \in 0 .. 1
              /\ t.child[t.parent[m]][t.idx[m]] = m
          BY DEF Shape, Up
        <4>2. u.parent[m] = t.parent[m] /\ u.idx[m] = t.idx[m]
          BY <1>10, <3>4
        <4>3. /\ ~(t.parent[m] = n /\ t.idx[m] = 1 - dir) /\ ~(t.parent[m] = r /\ t.idx[m] = dir)
              /\ ~(t.parent[m] = p /\ t.idx[m] = i)
          BY <1>4, <3>4, <4>1 DEF M
        <4> QED
          BY <1>9, <4>1, <4>2, <4>3
      <3> QED
        BY <3>1, <3>2, <3>3, <3>4
    <2> QED
      BY <2>1, <2>2 DEF Up
  <1> QED
    BY <1>12, <1>13, <1>14 DEF Shape, lo2, hi2

-----------------------------------------------------------------------------
(* All values are fresh: what a call starts from and ends with.            *)
AllFresh(t, Y) == \A m \in Y \ {HEAD} : Fresh(t, m)

LEMMA KeptHead ==
    ASSUME NEW t, NEW Y, NEW pos, NEW lo, NEW hi, Stretches(Y, pos, lo, hi)
    PROVE  Kept(t, Y, pos, lo, hi, HEAD) <=> AllFresh(t, Y)
  <1>1. \A m \in Y \ {HEAD} : ~Has(pos, lo, hi, m, HEAD)
    BY DEF Stretches, Has
  <1> QED
    BY <1>1 DEF Kept, AllFresh

(* New links leave a value fresh where a node keeps its children.          *)
SameChildren(t, u, m) == \A d \in 0 .. 1 : u.child[m][d] = t.child[m][d]

LEMMA FreshChildren ==
    ASSUME NEW t, NEW u, u.data = t.data, u.maxOff = t.maxOff, NEW m, SameChildren(t, u, m),
           Fresh(t, m)
    PROVE  Fresh(u, m)
  <1>1. SameAt(t, u, m)
    BY DEF SameAt, SameChildren
  <1> QED
    BY <1>1, FreshSame

(* Below r, n and what a rotation moved lie inside the stretch of r.       *)
LEMMA TurnedHas ==
    ASSUME NEW t, NEW Y, NEW pos, NEW lo, NEW hi, Shape(t, Y, pos, lo, hi),
           NEW n \in Y \ {HEAD}, NEW m \in Y, m = n \/ m = t.parent[n]
    PROVE  Has(pos, lo, hi, m, n)
  <1>1. t.parent[n] \in Y /\ lo[t.parent[n]] <= lo[n] /\ hi[n] <= hi[t.parent[n]]
    BY ParentIs
  <1>2. /\ lo[n] <= pos[n] /\ pos[n] <= hi[n] /\ lo[n] \in Nat /\ pos[n] \in Nat /\ hi[n] \in Nat
        /\ lo[t.parent[n]] \in Nat /\ hi[t.parent[n]] \in Nat
    BY <1>1 DEF Shape, Stretches
  <1> QED
    BY <1>1, <1>2 DEF Has

LEMMA KeptTurned ==
    ASSUME NEW t, NEW Y, NEW pos, NEW lo, NEW hi, Shape(t, Y, pos, lo, hi), AllFresh(t, Y),
           NEW u, NEW n \in Y \ {HEAD}, NEW dir \in 0 .. 1, NEW r,
           r = t.child[n][1 - dir], r # NULL, LinksTurned(t, u, n, r, dir),
           u.data = t.data, u.maxOff = t.maxOff
    PROVE  Kept(u, Y, pos, TurnedLo(Y, pos, lo, n, r, dir), TurnedHi(Y, pos, hi, n, r, dir), n)
  <1> DEFINE lo2 == TurnedLo(Y, pos, lo, n, r, dir)
  <1> DEFINE hi2 == TurnedHi(Y, pos, hi, n, r, dir)
  <1>1. 1 - dir \in 0 .. 1 /\ Y \subseteq Cell
    BY DEF Shape, Stretches
  <1>2. r \in Y \ {HEAD} /\ r # n
    BY <1>1, ChildIs
  <1>3. t.parent[n] \in Y /\ t.parent[n] # n /\ lo[t.parent[n]] <= lo[n] /\ hi[n] <= hi[t.parent[n]]
    BY ParentIs
  <1>4. Shape(u, Y, pos, lo2, hi2)
    BY ShapeTurned
  <1>5. u.parent[n] = r
    BY <1>1 DEF LinksTurned
  <1>6. u.parent[r] = t.parent[n]
    BY <1>1, <1>2 DEF LinksTurned
  <1> HIDE DEF lo2, hi2
  <1>7. Has(pos, lo2, hi2, n, n) /\ Has(pos, lo2, hi2, r, n)
    BY <1>2, <1>4, <1>5, TurnedHas
  <1>8. Has(pos, lo2, hi2, t.parent[n], n)
    <2>1. t.parent[n] # r
      BY <1>2, <1>4, <1>6, ParentIs
    <2>2. t.parent[n] = u.parent[u.parent[n]]
      BY <1>5, <1>6
    <2>3. Has(pos, lo2, hi2, t.parent[n], r)
      BY <1>2, <1>3, <1>4, <1>6, TurnedHas
    <2>4. /\ lo2[t.parent[n]] <= lo2[r] /\ hi2[r] <= hi2[t.parent[n]]
      BY <1>2, <1>4, <1>6, ParentIs
    <2>5. /\ lo2[t.parent[n]] \in Nat /\ hi2[t.parent[n]] \in Nat /\ lo2[r] \in Nat
          /\ hi2[r] \in Nat /\ pos[n] \in Nat
      BY <1>2, <1>3, <1>4 DEF Shape, Stretches
    <2> QED
      BY <1>7, <2>4, <2>5 DEF Has
  <1>9. ASSUME NEW m \in Y \ {HEAD}, ~Has(pos, lo2, hi2, m, n)
        PROVE  Fresh(u, m)
    <2>1. m # n /\ m # r /\ m # t.parent[n]
      BY <1>7, <1>8, <1>9
    <2>2. SameChildren(t, u, m)
      BY <1>1, <2>1 DEF LinksTurned, SameChildren
    <2>3. Fresh(t, m)
      BY DEF AllFresh
    <2> QED
      BY <2>2, <2>3, FreshChildren
  <1> QED
    BY <1>9 DEF Kept, lo2, hi2

(* The second half of a double rotation, after r went to n's place.  As    *)
(* links, the two halves are c and then n turned below r.                  *)
DoubleLinks(t, u, n, c, r, dir) ==
    \A m \in Cell : \A d \in 0 .. 1 :
        u.child[m][d] = IF m = n /\ d = 1 - dir THEN t.child[r][dir]
                        ELSE IF m = r /\ d = dir THEN n
                        ELSE IF m = r /\ d = 1 - dir THEN c
                        ELSE IF m = c /\ d = dir THEN t.child[r][1 - dir]
                        ELSE IF m = t.parent[n] /\ d = t.idx[n] THEN r
                        ELSE t.child[m][d]

LEMMA TurnedAlsoIs ==
    ASSUME NEW t, Typed(t), NEW n \in Node, NEW c \in Node, NEW r \in Node, NEW dir \in 0 .. 1,
           t.parent[n] \in Cell, t.idx[n] \in 0 .. 1, n # r, n # c, c # r,
           t.parent[n] \notin {n, c, r}, t.child[n][1 - dir] = c, t.child[c][dir] = r,
           t.parent[c] = n, t.idx[c] = 1 - dir,
           t.child[r][0] \notin {n, c, r}, t.child[r][1] \notin {n, c, r},
           t.child[r][0] # t.child[r][1] \/ t.child[r][0] = NULL,
           NEW v, LinksTurned(t, v, c, r, 1 - dir),
           NEW w, w = TurnedAlso(Turned(t, n, r, dir), c, r, dir)
    PROVE  /\ LinksTurned(v, w, n, r, dir) /\ DoubleLinks(t, w, n, c, r, dir)
           /\ Typed(w) /\ SameRest(t, w) /\ w.balance = t.balance
           /\ \A m \in Node : m # c => w.maxOff[m] = t.maxOff[m]
           /\ w.maxOff[c] = Told(w, c) \/ \E d \in 0 .. 1 : w.child[c][d] = c
  <1> DEFINE a == t.child[r][1 - dir]
  <1> DEFINE b == t.child[r][dir]
  <1> DEFINE p == t.parent[n]
  <1> DEFINE i == t.idx[n]
  <1> DEFINE t3 == Turned(t, n, r, dir)
  <1> DEFINE t4 == SetChild(t3, c, dir, t3.child[r][1 - dir])
  <1> DEFINE t5 == SetChild(t4, r, 1 - dir, c)
  <1>1. w = Upd(t5, c)
    BY DEF TurnedAlso
  <1>2. /\ n \in Cell /\ c \in Cell /\ r \in Cell /\ 1 - dir \in 0 .. 1 /\ 1 - (1 - dir) = dir
        /\ dir # 1 - dir /\ c \in Node \cup {NULL}
        /\ NULL \notin Cell
    BY NullIsNone DEF Cell
  <1>3. /\ a \in Node \cup {NULL} /\ a \notin {n, c, r} /\ b \notin {n, c, r}
        /\ a # b \/ a = NULL
    <2>1. a \in Node \cup {NULL}
      BY <1>2 DEF Typed
    <2>2. CASE dir = 0
      BY <2>1, <2>2
    <2>3. CASE dir = 1
      BY <2>1, <2>3
    <2> QED
      BY <2>2, <2>3
  <1>4. OnlyLinks(t, t3) /\ LinksTurned(t, t3, n, r, dir)
    BY <1>3, TurnedIs
  <1>5. Typed(t3)
    BY <1>4 DEF OnlyLinks
  <1> HIDE DEF t3
  <1>6. t3.child[r][1 - dir] = a
    BY <1>2, <1>4 DEF LinksTurned
  <1>7. ChildSet(t3, t4, c, dir, t3.child[r][1 - dir])
    <2>1. t3.child[r][1 - dir] \in Node \cup {NULL}
      BY <1>3, <1>6
    <2> QED
      BY <1>2, <1>5, <2>1, SetChildIs
  <1>8. Typed(t4)
    BY <1>7 DEF ChildSet
  <1> HIDE DEF t4
  <1>9. ChildSet(t4, t5, r, 1 - dir, c)
    BY <1>2, <1>8, SetChildIs
  <1>10. Typed(t5)
    BY <1>9 DEF ChildSet
  <1> HIDE DEF t5
  <1>11. Told1(t5, w, c)
    BY <1>1, <1>10, UpdIs
  <1>12. Typed(w) /\ SameRest(t, w) /\ w.balance = t.balance /\ t5.maxOff = t.maxOff
    BY <1>4, <1>7, <1>9, <1>11 DEF Told1, ChildSet, OnlyLinks, SameRest
  <1>13. \A m \in Node : w.maxOff[m] = IF m = c THEN Told(t5, c) ELSE t.maxOff[m]
    BY <1>11, <1>12 DEF Told1
  <1>14. w.maxOff[c] = Told(w, c) \/ \E d \in 0 .. 1 : w.child[c][d] = c
    <2> SUFFICES ASSUME \A d \in 0 .. 1 : w.child[c][d] # c PROVE w.maxOff[c] = Told(w, c)
      OBVIOUS
    <2>1. w.child = t5.child /\ w.data = t5.data
      BY <1>11 DEF Told1, SameLinks, SameRest
    <2>2. \A d \in 0 .. 1 : t5.child[c][d] # NULL => t5.child[c][d] \in Node
      BY <1>2, <1>10 DEF Typed
    <2>3. \A m \in Node : m # c => w.maxOff[m] = t5.maxOff[m]
      BY <1>11 DEF Told1
    <2>4. SameAt(t5, w, c)
      BY <2>1, <2>2, <2>3 DEF SameAt
    <2>5. Told(w, c) = Told(t5, c)
      BY <2>4, ToldSame
    <2> QED
      BY <1>13, <2>5
  <1> HIDE DEF a, b, p, i
  <1>15. \A m \in Cell : \A e \in 0 .. 1 :
           w.child[m][e] = IF m = n /\ e = 1 - dir THEN b
                           ELSE IF m = r /\ e = dir THEN n
                           ELSE IF m = r /\ e = 1 - dir THEN c
                           ELSE IF m = c /\ e = dir THEN a
                           ELSE IF m = p /\ e = i THEN r
                           ELSE t.child[m][e]
    <2> SUFFICES ASSUME NEW m \in Cell, NEW e \in 0 .. 1
                 PROVE  w.child[m][e] = IF m = n /\ e = 1 - dir THEN b
                           ELSE IF m = r /\ e = dir THEN n
                           ELSE IF m = r /\ e = 1 - dir THEN c
                           ELSE IF m = c /\ e = dir THEN a
                           ELSE IF m = p /\ e = i THEN r
                           ELSE t.child[m][e]
      OBVIOUS
    <2>1. w.child[m][e] = IF m = r /\ e = 1 - dir THEN c ELSE t4.child[m][e]
      BY <1>9, <1>11 DEF ChildSet, Told1, SameLinks
    <2>2. t4.child[m][e] = IF m = c /\ e = dir THEN a ELSE t3.child[m][e]
      BY <1>6, <1>7 DEF ChildSet
    <2>3. t3.child[m][e] = IF m = n /\ e = 1 - dir THEN b
                           ELSE IF m = r /\ e = dir THEN n
                           ELSE IF m = p /\ e = i THEN r
                           ELSE t.child[m][e]
      BY <1>4 DEF LinksTurned, b, p, i
    <2>4. p # n /\ p # c /\ p # r
      BY DEF p
    <2> QED
      BY <1>2, <2>1, <2>2, <2>3, <2>4
  <1>16. \A m \in Cell :
           /\ w.parent[m] = IF m = c THEN r ELSE IF m = a THEN c ELSE IF m = n THEN r
                            ELSE IF m = r THEN p ELSE IF m = b THEN n ELSE t.parent[m]
           /\ w.idx[m] = IF m = c THEN 1 - dir ELSE IF m = a THEN dir ELSE IF m = n THEN dir
                         ELSE IF m = r THEN i ELSE IF m = b THEN 1 - dir ELSE t.idx[m]
    <2> SUFFICES ASSUME NEW m \in Cell
                 PROVE  /\ w.parent[m] = IF m = c THEN r ELSE IF m = a THEN c
                            ELSE IF m = n THEN r
                            ELSE IF m = r THEN p ELSE IF m = b THEN n ELSE t.parent[m]
                        /\ w.idx[m] = IF m = c THEN 1 - dir ELSE IF m = a THEN dir
                            ELSE IF m = n THEN dir
                            ELSE IF m = r THEN i ELSE IF m = b THEN 1 - dir ELSE t.idx[m]
      OBVIOUS
    <2>1. /\ w.parent[m] = IF m = c THEN r ELSE t4.parent[m]
          /\ w.idx[m] = IF m = c THEN 1 - dir ELSE t4.idx[m]
      BY <1>9, <1>11 DEF ChildSet, Told1, SameLinks
    <2>2. /\ t4.parent[m] = IF m = a THEN c ELSE t3.parent[m]
          /\ t4.idx[m] = IF m = a THEN dir ELSE t3.idx[m]
      BY <1>6, <1>7 DEF ChildSet
    <2>3. /\ t3.parent[m] = IF m = n THEN r ELSE IF m = r THEN p
                            ELSE IF m = b THEN n ELSE t.parent[m]
          /\ t3.idx[m] = IF m = n THEN dir ELSE IF m = r THEN i
                         ELSE IF m = b THEN 1 - dir ELSE t.idx[m]
      BY <1>4 DEF LinksTurned, b, p, i
    <2> QED
      BY <2>1, <2>2, <2>3
  <1>17. /\ \A m \in Cell : \A e \in 0 .. 1 :
              v.child[m][e] = IF m = c /\ e = dir THEN a
                              ELSE IF m = r /\ e = 1 - dir THEN c
                              ELSE IF m = n /\ e = 1 - dir THEN r
                              ELSE t.child[m][e]
         /\ \A m \in Cell :
              v.parent[m] = IF m = c THEN r ELSE IF m = r THEN n
                            ELSE IF m = a THEN c ELSE t.parent[m]
         /\ \A m \in Cell :
              v.idx[m] = IF m = c THEN 1 - dir ELSE IF m = r THEN 1 - dir
                         ELSE IF m = a THEN dir ELSE t.idx[m]
    BY <1>2 DEF LinksTurned, a
  <1>18. v.child[r][dir] = b /\ v.parent[n] = p /\ v.idx[n] = i
    BY <1>2, <1>3, <1>17 DEF b, p, i
  <1>19. LinksTurned(v, w, n, r, dir)
    <2>1. ASSUME NEW m \in Cell, NEW e \in 0 .. 1
          PROVE  w.child[m][e] = IF m = n /\ e = 1 - dir THEN b
                          ELSE IF m = r /\ e = dir THEN n
                          ELSE IF m = p /\ e = i THEN r
                          ELSE v.child[m][e]
      <3>1. w.child[m][e] = IF m = n /\ e = 1 - dir THEN b
                           ELSE IF m = r /\ e = dir THEN n
                           ELSE IF m = r /\ e = 1 - dir THEN c
                           ELSE IF m = c /\ e = dir THEN a
                           ELSE IF m = p /\ e = i THEN r
                           ELSE t.child[m][e]
        BY <1>15
      <3>2. v.child[m][e] = IF m = c /\ e = dir THEN a
                              ELSE IF m = r /\ e = 1 - dir THEN c
                              ELSE IF m = n /\ e = 1 - dir THEN r
                              ELSE t.child[m][e]
        BY <1>17
      <3>3. p # n /\ p # c /\ p # r
        BY DEF p
      <3> QED
        BY <1>2, <3>1, <3>2, <3>3
    <2>2. ASSUME NEW m \in Cell
          PROVE  /\ w.parent[m] = IF m = n THEN r ELSE IF m = r THEN p
                                  ELSE IF m = b THEN n ELSE v.parent[m]
                 /\ w.idx[m] = IF m = n THEN dir ELSE IF m = r THEN i
                               ELSE IF m = b THEN 1 - dir ELSE v.idx[m]
      <3>1. /\ w.parent[m] = IF m = c THEN r ELSE IF m = a THEN c ELSE IF m = n THEN r
                            ELSE IF m = r THEN p ELSE IF m = b THEN n ELSE t.parent[m]
            /\ w.idx[m] = IF m = c THEN 1 - dir ELSE IF m = a THEN dir ELSE IF m = n THEN dir
                         ELSE IF m = r THEN i ELSE IF m = b THEN 1 - dir ELSE t.idx[m]
        BY <1>16
      <3>2. /\ v.parent[m] = IF m = c THEN r ELSE IF m = r THEN n
                            ELSE IF m = a THEN c ELSE t.parent[m]
            /\ v.idx[m] = IF m = c THEN 1 - dir ELSE IF m = r THEN 1 - dir
                         ELSE IF m = a THEN dir ELSE t.idx[m]
        BY <1>17
      <3>3. m # NULL
        BY <1>2
      <3> QED
        BY <1>3, <3>1, <3>2, <3>3
    <2> QED
      BY <1>18, <2>1, <2>2 DEF LinksTurned
  <1>20. DoubleLinks(t, w, n, c, r, dir)
    BY <1>15 DEF DoubleLinks, a, b, p, i
  <1> QED
    BY <1>12, <1>13, <1>14, <1>19, <1>20

-----------------------------------------------------------------------------
(* Heights.  While the slot (i, s) has grown by e and the nodes above have *)
(* not been told, their heights and balances are as if it had not.         *)
Max2(a, b) == IF a >= b THEN a ELSE b

Deep(t, high, m, d) == IF t.child[m][d] = NULL THEN 0 ELSE high[t.child[m][d]]

Seen(t, high, i, s, e, m, d) ==
    IF m = i /\ d = s THEN Deep(t, high, m, d) - e ELSE Deep(t, high, m, d)

Level(t, high, i, s, e, m) ==
    /\ high[m] = 1 + Max2(Seen(t, high, i, s, e, m, 0), Seen(t, high, i, s, e, m, 1))
    /\ t.balance[m] = Seen(t, high, i, s, e, m, 0) - Seen(t, high, i, s, e, m, 1)

Leveled(t, Y, high, i, s, e) ==
    /\ high \in [Y -> Nat \ {0}]
    /\ \A m \in Y \ {HEAD} : Level(t, high, i, s, e, m)

Even(t, Y) == \A m \in Y \ {HEAD} : t.balance[m] \in -1 .. 1

OnlyBalances(t, u) ==
    Typed(u) /\ SameLinks(t, u) /\ SameRest(t, u) /\ u.maxOff = t.maxOff

BalanceSet(t, u, n, x) ==
    /\ OnlyBalances(t, u)
    /\ \A m \in Cell : u.balance[m] = IF m = n THEN x ELSE t.balance[m]

LEMMA SetBalanceIs ==
    ASSUME NEW t, Typed(t), NEW n \in Cell, NEW x \in Int
    PROVE  BalanceSet(t, SetBalance(t, n, x), n, x)
  BY DEF OnlyBalances, Typed, SameLinks, SameRest, SetBalance, BalanceSet

SingleBalances(t, u, n, c, dir) ==
    \A m \in Cell :
        u.balance[m] =
            IF m = n THEN (IF t.balance[c] # 0 THEN 0 ELSE IF dir = 1 THEN 1 ELSE -1)
            ELSE IF m = c THEN (IF t.balance[c] # 0 THEN 0 ELSE IF dir = 1 THEN -1 ELSE 1)
            ELSE t.balance[m]

LEMMA SingleBalanceIs ==
    ASSUME NEW t, Typed(t), NEW n \in Cell, NEW c \in Cell, n # c, NEW dir \in 0 .. 1
    PROVE  /\ OnlyBalances(t, SingleBalance(t, n, c, dir))
           /\ SingleBalances(t, SingleBalance(t, n, c, dir), n, c, dir)
  <1> DEFINE x == IF t.balance[c] # 0 THEN 0 ELSE IF dir = 1 THEN 1 ELSE -1
  <1> DEFINE y == -x
  <1> DEFINE t1 == SetBalance(t, n, x)
  <1> DEFINE u == SetBalance(t1, c, y)
  <1>1. SingleBalance(t, n, c, dir) = u
    BY DEF SingleBalance
  <1>2. /\ x = IF t.balance[c] # 0 THEN 0 ELSE IF dir = 1 THEN 1 ELSE -1
        /\ y = IF t.balance[c] # 0 THEN 0 ELSE IF dir = 1 THEN -1 ELSE 1
        /\ x \in Int /\ y \in Int
    OBVIOUS
  <1> HIDE DEF x, y
  <1>3. BalanceSet(t, t1, n, x)
    BY <1>2, SetBalanceIs
  <1> HIDE DEF t1
  <1>4. BalanceSet(t1, u, c, y)
    <2>1. Typed(t1)
      BY <1>3 DEF BalanceSet, OnlyBalances
    <2> QED
      BY <1>2, <2>1, SetBalanceIs
  <1> HIDE DEF u
  <1>5. OnlyBalances(t, u)
    BY <1>3, <1>4 DEF BalanceSet, OnlyBalances, SameLinks, SameRest
  <1>6. \A m \in Cell : u.balance[m] = IF m = n THEN x ELSE IF m = c THEN y ELSE t.balance[m]
    BY <1>3, <1>4 DEF BalanceSet
  <1> QED
    BY <1>1, <1>2, <1>5, <1>6 DEF SingleBalances

(* r leaned away from the side that n goes to, or towards it.              *)
Away(t, r, dir) == t.balance[r] # 0 /\ (dir = 1 <=> t.balance[r] > 0)
Towards(t, r, dir) == t.balance[r] # 0 /\ (dir = 1 <=> t.balance[r] < 0)

DoubleBalances(t, u, n, c, r, dir) ==
    \A m \in Cell :
        u.balance[m] = IF m = n THEN (IF Away(t, r, dir) THEN -t.balance[r] ELSE 0)
                       ELSE IF m = c THEN (IF Towards(t, r, dir) THEN -t.balance[r] ELSE 0)
                       ELSE IF m = r THEN 0
                       ELSE t.balance[m]

LEMMA DoubleBalanceIs ==
    ASSUME NEW t, Typed(t), NEW n \in Cell, NEW c \in Cell, NEW r \in Cell,
           n # c, n # r, c # r, NEW dir \in 0 .. 1
    PROVE  /\ OnlyBalances(t, DoubleBalance(t, n, c, r, dir))
           /\ DoubleBalances(t, DoubleBalance(t, n, c, r, dir), n, c, r, dir)
  <1> DEFINE x == IF t.balance[r] # 0 /\ dir = Side(t.balance[r] > 0) THEN -t.balance[r] ELSE 0
  <1> DEFINE y == IF t.balance[r] # 0 /\ dir # Side(t.balance[r] > 0) THEN -t.balance[r] ELSE 0
  <1> DEFINE t1 == SetBalance(t, n, x)
  <1> DEFINE t2 == SetBalance(t1, c, y)
  <1> DEFINE u == SetBalance(t2, r, 0)
  <1>1. DoubleBalance(t, n, c, r, dir) = u
    BY DEF DoubleBalance
  <1>2. x \in Int /\ y \in Int
    BY DEF Typed, Side
  <1>3. /\ x = IF Away(t, r, dir) THEN -t.balance[r] ELSE 0
        /\ y = IF Towards(t, r, dir) THEN -t.balance[r] ELSE 0
    BY DEF Typed, Side, Away, Towards
  <1> HIDE DEF x, y
  <1>4. BalanceSet(t, t1, n, x)
    BY <1>2, SetBalanceIs
  <1> HIDE DEF t1
  <1>5. BalanceSet(t1, t2, c, y)
    <2>1. Typed(t1)
      BY <1>4 DEF BalanceSet, OnlyBalances
    <2> QED
      BY <1>2, <2>1, SetBalanceIs
  <1> HIDE DEF t2
  <1>6. BalanceSet(t2, u, r, 0)
    <2>1. Typed(t2)
      BY <1>5 DEF BalanceSet, OnlyBalances
    <2> QED
      BY <2>1, SetBalanceIs
  <1> HIDE DEF u
  <1>7. OnlyBalances(t, u)
    BY <1>4, <1>5, <1>6 DEF BalanceSet, OnlyBalances, SameLinks, SameRest
  <1>8. \A m \in Cell : u.balance[m] = IF m = n THEN x ELSE IF m = c THEN y
                                       ELSE IF m = r THEN 0 ELSE t.balance[m]
    BY <1>4, <1>5, <1>6 DEF BalanceSet
  <1> QED
    BY <1>1, <1>3, <1>7, <1>8 DEF DoubleBalances

(* A level tells nothing but what a node sees on its two sides.            *)
LEMMA LevelSame ==
    ASSUME NEW t, NEW u, NEW high, NEW high2, NEW i, NEW s, NEW e, NEW i2, NEW s2, NEW e2, NEW m,
           Level(t, high, i, s, e, m), high2[m] = high[m], u.balance[m] = t.balance[m],
           Seen(u, high2, i2, s2, e2, m, 0) = Seen(t, high, i, s, e, m, 0),
           Seen(u, high2, i2, s2, e2, m, 1) = Seen(t, high, i, s, e, m, 1)
    PROVE  Level(u, high2, i2, s2, e2, m)
  BY DEF Level

(* Away from the nodes T of a rotation that puts r at n's place, the links *)
(* and the levels stay.                                                    *)
Apart(t, u, Y, high, high2, n, r, T, m) ==
    /\ n \in T /\ r \in T /\ m \notin T
    /\ \A k \in T : k = n \/ t.parent[k] \in T
    /\ \A d \in 0 .. 1 : u.child[m][d] = IF m = t.parent[n] /\ d = t.idx[n] THEN r
                                         ELSE t.child[m][d]
    /\ \A k \in Y \ T : high2[k] = high[k]
    /\ u.balance[m] = t.balance[m]

LEMMA LevelElsewhere ==
    ASSUME NEW t, NEW Y, NEW pos, NEW lo, NEW hi, Shape(t, Y, pos, lo, hi),
           NEW u, NEW n \in Y \ {HEAD}, NEW r \in Y \ {HEAD}, NEW T, NEW m \in Y \ {HEAD},
           NEW high \in [Y -> Nat \ {0}], NEW high2 \in [Y -> Nat \ {0}],
           Apart(t, u, Y, high, high2, n, r, T, m),
           NEW e \in Int, NEW e2 \in Int, high2[r] - e2 = high[n] - e,
           Level(t, high, t.parent[n], t.idx[n], e, m)
    PROVE  Level(u, high2, t.parent[n], t.idx[n], e2, m)
  <1> DEFINE p == t.parent[n]
  <1> DEFINE i == t.idx[n]
  <1>1. p \in Y /\ i \in 0 .. 1 /\ t.child[p][i] = n
    BY ParentIs
  <1>2. NULL \notin Y
    BY NullIsNone DEF Shape, Stretches
  <1>3. \A d \in 0 .. 1 : Seen(u, high2, p, i, e2, m, d) = Seen(t, high, p, i, e, m, d)
    <2> SUFFICES ASSUME NEW d \in 0 .. 1
                 PROVE  Seen(u, high2, p, i, e2, m, d) = Seen(t, high, p, i, e, m, d)
      OBVIOUS
    <2>1. CASE m = p /\ d = i
      <3>1. u.child[m][d] = r /\ t.child[m][d] = n /\ r # NULL /\ n # NULL
        BY <1>1, <1>2, <2>1 DEF Apart
      <3> QED
        BY <2>1, <3>1 DEF Seen, Deep
    <2>2. CASE ~(m = p /\ d = i)
      <3> DEFINE c == t.child[m][d]
      <3>1. u.child[m][d] = c
        BY <2>2 DEF Apart
      <3>2. c # NULL => c \in Y /\ t.parent[c] = m /\ t.idx[c] = d
        BY DEF Shape, Down, Hung
      <3>3. c # NULL => c \notin T
        BY <2>2, <3>2 DEF Apart
      <3>4. Deep(u, high2, m, d) = Deep(t, high, m, d)
        BY <3>1, <3>2, <3>3 DEF Deep, Apart
      <3> QED
        BY <2>2, <3>4 DEF Seen
    <2> QED
      BY <2>1, <2>2
  <1>4. high2[m] = high[m] /\ u.balance[m] = t.balance[m]
    BY DEF Apart
  <1> HIDE DEF p, i
  <1>5. Level(t, high, p, i, e, m)
    BY DEF p, i
  <1>6. 0 \in 0 .. 1 /\ 1 \in 0 .. 1
    OBVIOUS
  <1>7. Level(u, high2, p, i, e2, m)
    BY <1>3, <1>4, <1>5, <1>6, LevelSame
  <1> QED
    BY <1>7 DEF p, i

-----------------------------------------------------------------------------
(* Rotations and heights.  Away from the slot that grew, a level tells the *)
(* heights of a node's two sides.                                          *)
LEMMA LevelIs ==
    ASSUME NEW t, NEW high, NEW i, NEW s, NEW e, NEW m, Level(t, high, i, s, e, m), m # i
    PROVE  /\ high[m] = 1 + Max2(Deep(t, high, m, 0), Deep(t, high, m, 1))
           /\ t.balance[m] = Deep(t, high, m, 0) - Deep(t, high, m, 1)
  BY DEF Level, Seen

LEMMA LevelFrom ==
    ASSUME NEW t, NEW high, NEW i, NEW s, NEW e, NEW m, m # i,
           high[m] = 1 + Max2(Deep(t, high, m, 0), Deep(t, high, m, 1)),
           t.balance[m] = Deep(t, high, m, 0) - Deep(t, high, m, 1)
    PROVE  Level(t, high, i, s, e, m)
  BY DEF Level, Seen

LEMMA DeepIsNat ==
    ASSUME NEW t, NEW Y, NEW pos, NEW lo, NEW hi, Shape(t, Y, pos, lo, hi),
           NEW high \in [Y -> Nat \ {0}], NEW m \in Y, NEW d \in 0 .. 1
    PROVE  Deep(t, high, m, d) \in Nat
  <1>1. t.child[m][d] # NULL => t.child[m][d] \in Y
    BY DEF Shape, Down, Hung
  <1> QED
    BY <1>1 DEF Deep

(* A node that leans by two has a child on the heavy side.                 *)
LEMMA HeavyChild ==
    ASSUME NEW t, NEW Y, NEW pos, NEW lo, NEW hi, Shape(t, Y, pos, lo, hi),
           NEW high \in [Y -> Nat \ {0}], NEW n \in Y \ {HEAD}, NEW s, NEW e, NEW dir \in 0 .. 1,
           Level(t, high, t.parent[n], s, e, n),
           dir = 1 => t.balance[n] > 0, dir = 0 => t.balance[n] < 0
    PROVE  t.child[n][1 - dir] # NULL
  <1>1. t.parent[n] # n
    BY ParentIs
  <1>2. t.balance[n] = Deep(t, high, n, 0) - Deep(t, high, n, 1)
    BY <1>1, LevelIs
  <1>3. Deep(t, high, n, 0) \in Nat /\ Deep(t, high, n, 1) \in Nat
    BY DeepIsNat
  <1>4. \A d \in 0 .. 1 : t.child[n][d] = NULL => Deep(t, high, n, d) = 0
    BY DEF Deep
  <1>5. CASE dir = 1
    BY <1>2, <1>3, <1>4, <1>5
  <1>6. CASE dir = 0
    BY <1>2, <1>3, <1>4, <1>6
  <1> QED
    BY <1>5, <1>6

LEMMA DeepMoved ==
    ASSUME NEW t, NEW u, NEW high, NEW high2, NEW m, NEW d, NEW m2, NEW d2,
           u.child[m2][d2] = t.child[m][d],
           t.child[m][d] # NULL => high2[t.child[m][d]] = high[t.child[m][d]]
    PROVE  Deep(u, high2, m2, d2) = Deep(t, high, m, d)
  BY DEF Deep

SingleHigh(Y, t, high, n, c) ==
    [m \in Y |-> IF m = n THEN (IF t.balance[c] = 0 THEN high[c] ELSE high[c] - 1)
                 ELSE IF m = c THEN (IF t.balance[c] = 0 THEN high[c] + 1 ELSE high[c])
                 ELSE high[m]]

LEMMA SingleLevels ==
    ASSUME NEW t, NEW Y, NEW pos, NEW lo, NEW hi, Shape(t, Y, pos, lo, hi),
           NEW n \in Y \ {HEAD}, NEW dir \in 0 .. 1, NEW c, c = t.child[n][1 - dir],
           NEW high, NEW e \in Int, Leveled(t, Y, high, t.parent[n], t.idx[n], e),
           t.balance[n] = (IF dir = 1 THEN 2 ELSE -2),
           t.balance[c] \in -1 .. 1, dir = 1 => t.balance[c] >= 0, dir = 0 => t.balance[c] <= 0,
           \A m \in Y \ {HEAD} : m # n => t.balance[m] \in -1 .. 1,
           NEW u, LinksTurned(t, u, n, c, dir), SingleBalances(t, u, n, c, dir)
    PROVE  /\ Leveled(u, Y, SingleHigh(Y, t, high, n, c), t.parent[n], t.idx[n],
                      e - (IF t.balance[c] = 0 THEN 0 ELSE 1))
           /\ Even(u, Y)
  <1> DEFINE high2 == SingleHigh(Y, t, high, n, c)
  <1> DEFINE p == t.parent[n]
  <1> DEFINE i == t.idx[n]
  <1> DEFINE e2 == e - (IF t.balance[c] = 0 THEN 0 ELSE 1)
  <1>1. high \in [Y -> Nat \ {0}] /\ \A m \in Y \ {HEAD} : Level(t, high, p, i, e, m)
    BY DEF Leveled
  <1>2. 1 - dir \in 0 .. 1 /\ dir # 1 - dir /\ Y \subseteq Cell /\ NULL \notin Y
    BY NullIsNone DEF Shape, Stretches
  <1>3. c # NULL
    BY <1>1, HeavyChild
  <1>4. c \in Y \ {HEAD} /\ c # n /\ t.parent[c] = n /\ t.idx[c] = 1 - dir
    BY <1>2, <1>3, ChildIs
  <1>5. p \in Y /\ i \in 0 .. 1 /\ p # n /\ p # c
    <2>1. /\ p \in Y /\ i \in 0 .. 1 /\ p # n /\ hi[n] - lo[n] < hi[p] - lo[p]
      BY ParentIs
    <2>2. hi[c] - lo[c] < hi[n] - lo[n]
      BY <1>4, ParentIs
    <2>3. /\ hi[n] \in Nat /\ lo[n] \in Nat /\ hi[p] \in Nat /\ lo[p] \in Nat
          /\ hi[c] \in Nat /\ lo[c] \in Nat
      BY <1>4, <2>1 DEF Shape, Stretches
    <2> QED
      BY <2>1, <2>2, <2>3
  <1> DEFINE H == high[c]
  <1> DEFINE A == Deep(t, high, n, dir)
  <1> DEFINE M == Deep(t, high, c, dir)
  <1> DEFINE K == Deep(t, high, c, 1 - dir)
  <1>6. Deep(t, high, n, 1 - dir) = H
    BY <1>3 DEF Deep
  <1>7. A \in Nat /\ M \in Nat /\ K \in Nat /\ H \in Nat \ {0}
    BY <1>1, <1>2, <1>4, DeepIsNat
  <1>8. /\ high[n] = 1 + Max2(Deep(t, high, n, 0), Deep(t, high, n, 1))
        /\ t.balance[n] = Deep(t, high, n, 0) - Deep(t, high, n, 1)
    BY <1>1, <1>5, LevelIs
  <1>9. /\ H = 1 + Max2(Deep(t, high, c, 0), Deep(t, high, c, 1))
        /\ t.balance[c] = Deep(t, high, c, 0) - Deep(t, high, c, 1)
    BY <1>1, <1>4, <1>5, LevelIs
  <1> HIDE DEF A, M, K, H
  <1>10. A = H - 2 /\ high[n] = H + 1
    <2>1. CASE dir = 1
      BY <1>6, <1>7, <1>8, <2>1 DEF Max2, A
    <2>2. CASE dir = 0
      BY <1>6, <1>7, <1>8, <2>2 DEF Max2, A
    <2> QED
      BY <2>1, <2>2
  <1>11. K = H - 1 /\ M = IF t.balance[c] = 0 THEN H - 1 ELSE H - 2
    <2>1. CASE dir = 1
      BY <1>7, <1>9, <2>1 DEF Max2, M, K
    <2>2. CASE dir = 0
      BY <1>7, <1>9, <2>2 DEF Max2, M, K
    <2> QED
      BY <2>1, <2>2
  <1>12. \A m \in Y : high2[m] =
            IF m = n THEN (IF t.balance[c] = 0 THEN H ELSE H - 1)
            ELSE IF m = c THEN (IF t.balance[c] = 0 THEN H + 1 ELSE H)
            ELSE high[m]
    BY DEF SingleHigh, H
  <1>13. high2 = [m \in Y |-> high2[m]]
    BY DEF SingleHigh
  <1> HIDE DEF high2, p, i
  <1>14. \A m \in Y : high2[m] \in Nat \ {0}
    BY <1>1, <1>7, <1>10, <1>12
  <1>15. high2 \in [Y -> Nat \ {0}]
    BY <1>13, <1>14
  <1>16. /\ u.child[n][1 - dir] = t.child[c][dir]
         /\ u.child[n][dir] = t.child[n][dir]
         /\ u.child[c][dir] = n
         /\ u.child[c][1 - dir] = t.child[c][1 - dir]
         /\ \A m \in Y \ {n, c} : \A d \in 0 .. 1 :
               u.child[m][d] = IF m = p /\ d = i THEN c ELSE t.child[m][d]
    BY <1>2, <1>4, <1>5 DEF LinksTurned, p, i
  <1>17. \A m \in {n, c} : \A d \in 0 .. 1 : ~(m = n /\ d = 1 - dir) /\ t.child[m][d] # NULL =>
            t.child[m][d] \in Y /\ t.child[m][d] \notin {n, c}
    <2> SUFFICES ASSUME NEW m \in {n, c}, NEW d \in 0 .. 1, ~(m = n /\ d = 1 - dir),
                        t.child[m][d] # NULL
                 PROVE  t.child[m][d] \in Y /\ t.child[m][d] \notin {n, c}
      OBVIOUS
    <2>1. m \in Y
      BY <1>4
    <2>2. t.child[m][d] \in Y /\ t.parent[t.child[m][d]] = m /\ t.idx[t.child[m][d]] = d
      BY <2>1, ChildIs
    <2> QED
      BY <1>4, <1>5, <2>2 DEF p
  <1>18. \A m \in {n, c} : \A d \in 0 .. 1 : ~(m = n /\ d = 1 - dir) /\ t.child[m][d] # NULL =>
            high2[t.child[m][d]] = high[t.child[m][d]]
    BY <1>12, <1>17
  <1>19. Deep(u, high2, n, 1 - dir) = M
    <2>1. t.child[c][dir] # NULL => high2[t.child[c][dir]] = high[t.child[c][dir]]
      BY <1>2, <1>4, <1>18
    <2>2. u.child[n][1 - dir] = t.child[c][dir]
      BY <1>16
    <2> QED
      BY <2>1, <2>2, DeepMoved DEF M
  <1>20. Deep(u, high2, n, dir) = A
    <2>1. t.child[n][dir] # NULL => high2[t.child[n][dir]] = high[t.child[n][dir]]
      BY <1>2, <1>18
    <2>2. u.child[n][dir] = t.child[n][dir]
      BY <1>16
    <2> QED
      BY <2>1, <2>2, DeepMoved DEF A
  <1>21. Deep(u, high2, c, 1 - dir) = K
    <2>1. t.child[c][1 - dir] # NULL => high2[t.child[c][1 - dir]] = high[t.child[c][1 - dir]]
      BY <1>2, <1>4, <1>18
    <2>2. u.child[c][1 - dir] = t.child[c][1 - dir]
      BY <1>16
    <2> QED
      BY <2>1, <2>2, DeepMoved DEF K
  <1>22. Deep(u, high2, c, dir) = high2[n]
    BY <1>2, <1>16 DEF Deep
  <1>23. /\ high2[n] = IF t.balance[c] = 0 THEN H ELSE H - 1
         /\ high2[c] = IF t.balance[c] = 0 THEN H + 1 ELSE H
    BY <1>4, <1>12
  <1>24. /\ u.balance[n] = IF t.balance[c] # 0 THEN 0 ELSE IF dir = 1 THEN 1 ELSE -1
         /\ u.balance[c] = IF t.balance[c] # 0 THEN 0 ELSE IF dir = 1 THEN -1 ELSE 1
         /\ \A m \in Y \ {n, c} : u.balance[m] = t.balance[m]
    BY <1>2, <1>4 DEF SingleBalances
  <1>25. Level(u, high2, p, i, e2, n)
    <2>1. /\ high2[n] = 1 + Max2(Deep(u, high2, n, 0), Deep(u, high2, n, 1))
          /\ u.balance[n] = Deep(u, high2, n, 0) - Deep(u, high2, n, 1)
      <3>1. CASE dir = 1
        <4>1. Deep(u, high2, n, 0) = M /\ Deep(u, high2, n, 1) = A
          BY <1>19, <1>20, <3>1
        <4> QED
          BY <1>7, <1>10, <1>11, <1>23, <1>24, <3>1, <4>1 DEF Max2
      <3>2. CASE dir = 0
        <4>1. Deep(u, high2, n, 1) = M /\ Deep(u, high2, n, 0) = A
          BY <1>19, <1>20, <3>2
        <4> QED
          BY <1>7, <1>10, <1>11, <1>23, <1>24, <3>2, <4>1 DEF Max2
      <3> QED
        BY <3>1, <3>2
    <2> QED
      BY <1>5, <2>1, LevelFrom
  <1>26. Level(u, high2, p, i, e2, c)
    <2>1. /\ high2[c] = 1 + Max2(Deep(u, high2, c, 0), Deep(u, high2, c, 1))
          /\ u.balance[c] = Deep(u, high2, c, 0) - Deep(u, high2, c, 1)
      <3>1. CASE dir = 1
        <4>1. Deep(u, high2, c, 0) = K /\ Deep(u, high2, c, 1) = high2[n]
          BY <1>21, <1>22, <3>1
        <4> QED
          BY <1>7, <1>10, <1>11, <1>23, <1>24, <3>1, <4>1 DEF Max2
      <3>2. CASE dir = 0
        <4>1. Deep(u, high2, c, 1) = K /\ Deep(u, high2, c, 0) = high2[n]
          BY <1>21, <1>22, <3>2
        <4> QED
          BY <1>7, <1>10, <1>11, <1>23, <1>24, <3>2, <4>1 DEF Max2
      <3> QED
        BY <3>1, <3>2
    <2> QED
      BY <1>5, <2>1, LevelFrom
  <1>27. \A m \in Y \ {HEAD} : m \notin {n, c} => Level(u, high2, p, i, e2, m)
    <2> SUFFICES ASSUME NEW m \in Y \ {HEAD}, m \notin {n, c}
                 PROVE  Level(u, high2, p, i, e2, m)
      OBVIOUS
    <2> DEFINE T == {n, c}
    <2>1. n \in T /\ c \in T /\ m \notin T /\ \A k \in T : k = n \/ t.parent[k] \in T
      BY <1>4
    <2>2. \A d \in 0 .. 1 : u.child[m][d] = IF m = p /\ d = i THEN c ELSE t.child[m][d]
      BY <1>16
    <2>3. \A k \in Y \ T : high2[k] = high[k]
      BY <1>12
    <2> HIDE DEF T
    <2>4. u.balance[m] = t.balance[m]
      BY <1>24
    <2>5. e2 \in Int /\ high2[c] - e2 = high[n] - e
      BY <1>7, <1>10, <1>23
    <2>6. Level(t, high, p, i, e, m)
      BY <1>1
    <2>7. Apart(t, u, Y, high, high2, n, c, T, m)
      BY <2>1, <2>2, <2>3, <2>4 DEF Apart, p, i
    <2> HIDE DEF e2
    <2> QED
      BY <1>1, <1>4, <1>15, <2>5, <2>6, <2>7, LevelElsewhere DEF p, i
  <1>28. Even(u, Y)
    BY <1>24 DEF Even
  <1> QED
    BY <1>15, <1>25, <1>26, <1>27, <1>28 DEF Leveled, high2, p, i

IsChild(t, n, d, c) == t.child[n][d] = c

DoubleHigh(Y, high, n, c, r) ==
    [m \in Y |-> IF m = n \/ m = c THEN high[c] - 1 ELSE IF m = r THEN high[c] ELSE high[m]]

LEMMA DoubleLevels ==
    ASSUME NEW t, NEW Y, NEW pos, NEW lo, NEW hi, Shape(t, Y, pos, lo, hi),
           NEW n \in Y \ {HEAD}, NEW dir \in 0 .. 1, NEW c, NEW r,
           IsChild(t, n, 1 - dir, c), IsChild(t, c, dir, r), c # NULL,
           NEW high, NEW e \in Int, Leveled(t, Y, high, t.parent[n], t.idx[n], e),
           t.balance[n] = (IF dir = 1 THEN 2 ELSE -2),
           t.balance[c] = (IF dir = 1 THEN -1 ELSE 1),
           \A m \in Y \ {HEAD} : m # n => t.balance[m] \in -1 .. 1,
           NEW u,
           DoubleLinks(t, u, n, c, r, dir), DoubleBalances(t, u, n, c, r, dir)
    PROVE  /\ Leveled(u, Y, DoubleHigh(Y, high, n, c, r), t.parent[n], t.idx[n], e - 1)
           /\ Even(u, Y)
  <1> DEFINE high2 == DoubleHigh(Y, high, n, c, r)
  <1> DEFINE p == t.parent[n]
  <1> DEFINE i == t.idx[n]
  <1>1. high \in [Y -> Nat \ {0}] /\ \A m \in Y \ {HEAD} : Level(t, high, p, i, e, m)
    BY DEF Leveled
  <1>2. 1 - dir \in 0 .. 1 /\ dir # 1 - dir /\ Y \subseteq Cell /\ NULL \notin Y
    BY NullIsNone DEF Shape, Stretches
  <1>3. c \in Y \ {HEAD} /\ c # n /\ t.parent[c] = n /\ t.idx[c] = 1 - dir
    BY <1>2, ChildIs DEF IsChild
  <1>4. p \in Y /\ i \in 0 .. 1 /\ p # n /\ hi[n] - lo[n] < hi[p] - lo[p]
    BY ParentIs
  <1>5. hi[c] - lo[c] < hi[n] - lo[n]
    BY <1>3, ParentIs
  <1>6. p # c
    <2>1. /\ hi[n] \in Nat /\ lo[n] \in Nat /\ hi[p] \in Nat /\ lo[p] \in Nat
          /\ hi[c] \in Nat /\ lo[c] \in Nat
      BY <1>3, <1>4 DEF Shape, Stretches
    <2> QED
      BY <1>4, <1>5, <2>1
  <1>7. t.balance[c] = Deep(t, high, c, 0) - Deep(t, high, c, 1)
        /\ high[c] = 1 + Max2(Deep(t, high, c, 0), Deep(t, high, c, 1))
    BY <1>1, <1>3, <1>6, LevelIs
  <1>8. r # NULL
    <2>1. Deep(t, high, c, 0) \in Nat /\ Deep(t, high, c, 1) \in Nat
      BY <1>1, <1>3, DeepIsNat
    <2>2. r = NULL => Deep(t, high, c, dir) = 0
      BY DEF Deep, IsChild
    <2>3. CASE dir = 1
      BY <1>7, <2>1, <2>2, <2>3
    <2>4. CASE dir = 0
      BY <1>7, <2>1, <2>2, <2>4
    <2> QED
      BY <2>3, <2>4
  <1>9. /\ r \in Y \ {HEAD} /\ r # c /\ t.parent[r] = c /\ t.idx[r] = dir
        /\ hi[r] - lo[r] < hi[c] - lo[c]
    <2>1. c \in Y /\ t.child[c][dir] # NULL
      BY <1>3, <1>8 DEF IsChild
    <2>2. /\ t.child[c][dir] \in Y \ {HEAD} /\ t.child[c][dir] # c
          /\ t.parent[t.child[c][dir]] = c /\ t.idx[t.child[c][dir]] = dir
          /\ hi[t.child[c][dir]] - lo[t.child[c][dir]] < hi[c] - lo[c]
      BY <2>1, ChildIs
    <2> QED
      BY <2>2 DEF IsChild
  <1>10. r # n /\ r # p
    <2>1. /\ hi[n] \in Nat /\ lo[n] \in Nat /\ hi[p] \in Nat /\ lo[p] \in Nat
          /\ hi[c] \in Nat /\ lo[c] \in Nat /\ hi[r] \in Nat /\ lo[r] \in Nat
      BY <1>3, <1>4, <1>9 DEF Shape, Stretches
    <2> QED
      BY <1>4, <1>5, <1>9, <2>1
  <1> DEFINE H == high[c]
  <1> DEFINE A == Deep(t, high, n, dir)
  <1> DEFINE K == Deep(t, high, c, 1 - dir)
  <1> DEFINE a == Deep(t, high, r, 1 - dir)
  <1> DEFINE b == Deep(t, high, r, dir)
  <1>11. Deep(t, high, n, 1 - dir) = H /\ Deep(t, high, c, dir) = high[r]
    <2>1. c # NULL
      OBVIOUS
    <2> QED
      BY <1>8, <2>1 DEF Deep, IsChild
  <1>12. A \in Nat /\ K \in Nat /\ a \in Nat /\ b \in Nat /\ H \in Nat \ {0} /\ high[r] \in Nat \ {0}
    BY <1>1, <1>2, <1>3, <1>9, DeepIsNat
  <1>13. /\ high[n] = 1 + Max2(Deep(t, high, n, 0), Deep(t, high, n, 1))
         /\ t.balance[n] = Deep(t, high, n, 0) - Deep(t, high, n, 1)
    BY <1>1, <1>4, LevelIs
  <1>14. /\ high[r] = 1 + Max2(Deep(t, high, r, 0), Deep(t, high, r, 1))
         /\ t.balance[r] = Deep(t, high, r, 0) - Deep(t, high, r, 1)
    BY <1>1, <1>9, <1>10, LevelIs
  <1>15. t.balance[r] \in -1 .. 1
    BY <1>9, <1>10
  <1> HIDE DEF A, K, H, a, b
  <1>16. A = H - 2 /\ high[n] = H + 1
    <2>1. CASE dir = 1
      BY <1>11, <1>12, <1>13, <2>1 DEF Max2, A
    <2>2. CASE dir = 0
      BY <1>11, <1>12, <1>13, <2>2 DEF Max2, A
    <2> QED
      BY <2>1, <2>2
  <1>17. K = H - 2 /\ high[r] = H - 1
    <2>1. CASE dir = 1
      BY <1>7, <1>11, <1>12, <2>1 DEF Max2, K, H
    <2>2. CASE dir = 0
      BY <1>7, <1>11, <1>12, <2>2 DEF Max2, K, H
    <2> QED
      BY <2>1, <2>2
  <1>18. \/ ~Away(t, r, dir) /\ ~Towards(t, r, dir) /\ a = H - 2 /\ b = H - 2
         \/ /\ Away(t, r, dir) /\ ~Towards(t, r, dir)
            /\ a = H - 2 /\ b = H - 3 /\ -t.balance[r] = (IF dir = 1 THEN -1 ELSE 1)
         \/ /\ Towards(t, r, dir) /\ ~Away(t, r, dir)
            /\ a = H - 3 /\ b = H - 2 /\ -t.balance[r] = (IF dir = 1 THEN 1 ELSE -1)
    <2>1. CASE dir = 1
      BY <1>12, <1>14, <1>15, <1>17, <2>1 DEF Max2, Away, Towards, a, b
    <2>2. CASE dir = 0
      BY <1>12, <1>14, <1>15, <1>17, <2>2 DEF Max2, Away, Towards, a, b
    <2> QED
      BY <2>1, <2>2
  <1>19. \A m \in Y : high2[m] = IF m = n \/ m = c THEN H - 1 ELSE IF m = r THEN H ELSE high[m]
    BY DEF DoubleHigh, H
  <1>20. high2 = [m \in Y |-> high2[m]]
    BY DEF DoubleHigh
  <1> HIDE DEF high2, p, i
  <1>21. high2 \in [Y -> Nat \ {0}]
    <2>1. \A m \in Y : high2[m] \in Nat \ {0}
      BY <1>1, <1>12, <1>17, <1>19
    <2> QED
      BY <1>20, <2>1
  <1>22. /\ u.child[n][1 - dir] = t.child[r][dir] /\ u.child[n][dir] = t.child[n][dir]
         /\ u.child[c][dir] = t.child[r][1 - dir] /\ u.child[c][1 - dir] = t.child[c][1 - dir]
         /\ u.child[r][dir] = n /\ u.child[r][1 - dir] = c
         /\ \A m \in Y \ {n, c, r} : \A d \in 0 .. 1 :
               u.child[m][d] = IF m = p /\ d = i THEN r ELSE t.child[m][d]
    BY <1>2, <1>3, <1>4, <1>6, <1>9, <1>10 DEF DoubleLinks, p, i
  <1>23. \A m \in {n, c, r} : \A d \in 0 .. 1 :
            ~(m = n /\ d = 1 - dir) /\ ~(m = c /\ d = dir) /\ t.child[m][d] # NULL =>
            high2[t.child[m][d]] = high[t.child[m][d]]
    <2> SUFFICES ASSUME NEW m \in {n, c, r}, NEW d \in 0 .. 1,
                        ~(m = n /\ d = 1 - dir) /\ ~(m = c /\ d = dir) /\ t.child[m][d] # NULL
                 PROVE  high2[t.child[m][d]] = high[t.child[m][d]]
      OBVIOUS
    <2>1. m \in Y
      BY <1>3, <1>9
    <2>2. t.child[m][d] \in Y /\ t.parent[t.child[m][d]] = m /\ t.idx[t.child[m][d]] = d
      BY <2>1, ChildIs
    <2>3. t.child[m][d] \notin {n, c, r}
      BY <1>3, <1>4, <1>6, <1>9, <1>10, <2>2 DEF p
    <2> QED
      BY <1>19, <2>2, <2>3
  <1>24. Deep(u, high2, n, 1 - dir) = b
    <2>1. t.child[r][dir] # NULL => high2[t.child[r][dir]] = high[t.child[r][dir]]
      BY <1>2, <1>9, <1>10, <1>23
    <2> QED
      BY <1>22, <2>1, DeepMoved DEF b
  <1>25. Deep(u, high2, n, dir) = A
    <2>1. t.child[n][dir] # NULL => high2[t.child[n][dir]] = high[t.child[n][dir]]
      BY <1>2, <1>3, <1>23
    <2> QED
      BY <1>22, <2>1, DeepMoved DEF A
  <1>26. Deep(u, high2, c, 1 - dir) = K
    <2>1. t.child[c][1 - dir] # NULL => high2[t.child[c][1 - dir]] = high[t.child[c][1 - dir]]
      BY <1>2, <1>3, <1>23
    <2> QED
      BY <1>22, <2>1, DeepMoved DEF K
  <1>27. Deep(u, high2, c, dir) = a
    <2>1. t.child[r][1 - dir] # NULL => high2[t.child[r][1 - dir]] = high[t.child[r][1 - dir]]
      BY <1>2, <1>9, <1>10, <1>23
    <2> QED
      BY <1>22, <2>1, DeepMoved DEF a
  <1>28. Deep(u, high2, r, dir) = H - 1 /\ Deep(u, high2, r, 1 - dir) = H - 1
    BY <1>2, <1>3, <1>19, <1>22 DEF Deep
  <1>29. high2[n] = H - 1 /\ high2[c] = H - 1 /\ high2[r] = H
    BY <1>3, <1>9, <1>10, <1>19
  <1>30. /\ u.balance[n] = IF Away(t, r, dir)
                           THEN -t.balance[r] ELSE 0
         /\ u.balance[c] = IF Towards(t, r, dir)
                           THEN -t.balance[r] ELSE 0
         /\ u.balance[r] = 0
         /\ \A m \in Y \ {n, c, r} : u.balance[m] = t.balance[m]
    BY <1>2, <1>3, <1>9, <1>10 DEF DoubleBalances
  <1>31. Level(u, high2, p, i, e - 1, n)
    <2>1. /\ high2[n] = 1 + Max2(Deep(u, high2, n, 0), Deep(u, high2, n, 1))
          /\ u.balance[n] = Deep(u, high2, n, 0) - Deep(u, high2, n, 1)
      <3>1. CASE dir = 1
        <4>1. Deep(u, high2, n, 0) = b /\ Deep(u, high2, n, 1) = A
          BY <1>24, <1>25, <3>1
        <4> QED
          BY <1>12, <1>16, <1>18, <1>29, <1>30, <3>1, <4>1 DEF Max2
      <3>2. CASE dir = 0
        <4>1. Deep(u, high2, n, 1) = b /\ Deep(u, high2, n, 0) = A
          BY <1>24, <1>25, <3>2
        <4> QED
          BY <1>12, <1>16, <1>18, <1>29, <1>30, <3>2, <4>1 DEF Max2
      <3> QED
        BY <3>1, <3>2
    <2> QED
      BY <1>4, <2>1, LevelFrom
  <1>32. Level(u, high2, p, i, e - 1, c)
    <2>1. /\ high2[c] = 1 + Max2(Deep(u, high2, c, 0), Deep(u, high2, c, 1))
          /\ u.balance[c] = Deep(u, high2, c, 0) - Deep(u, high2, c, 1)
      <3>1. CASE dir = 1
        <4>1. Deep(u, high2, c, 0) = K /\ Deep(u, high2, c, 1) = a
          BY <1>26, <1>27, <3>1
        <4> QED
          BY <1>12, <1>17, <1>18, <1>29, <1>30, <3>1, <4>1 DEF Max2
      <3>2. CASE dir = 0
        <4>1. Deep(u, high2, c, 1) = K /\ Deep(u, high2, c, 0) = a
          BY <1>26, <1>27, <3>2
        <4> QED
          BY <1>12, <1>17, <1>18, <1>29, <1>30, <3>2, <4>1 DEF Max2
      <3> QED
        BY <3>1, <3>2
    <2> QED
      BY <1>6, <2>1, LevelFrom
  <1>33. Level(u, high2, p, i, e - 1, r)
    <2>1. /\ high2[r] = 1 + Max2(Deep(u, high2, r, 0), Deep(u, high2, r, 1))
          /\ u.balance[r] = Deep(u, high2, r, 0) - Deep(u, high2, r, 1)
      <3>1. Deep(u, high2, r, 0) = H - 1 /\ Deep(u, high2, r, 1) = H - 1
        <4>1. dir = 0 \/ dir = 1
          OBVIOUS
        <4> QED
          BY <1>28, <4>1
      <3> QED
        BY <1>12, <1>29, <1>30, <3>1 DEF Max2
    <2> QED
      BY <1>10, <2>1, LevelFrom
  <1>34. \A m \in Y \ {HEAD} : m \notin {n, c, r} => Level(u, high2, p, i, e - 1, m)
    <2> SUFFICES ASSUME NEW m \in Y \ {HEAD}, m \notin {n, c, r}
                 PROVE  Level(u, high2, p, i, e - 1, m)
      OBVIOUS
    <2> DEFINE T == {n, c, r}
    <2> DEFINE e2 == e - 1
    <2>1. n \in T /\ r \in T /\ m \notin T /\ \A k \in T : k = n \/ t.parent[k] \in T
      BY <1>3, <1>9
    <2>2. \A d \in 0 .. 1 : u.child[m][d] = IF m = p /\ d = i THEN r ELSE t.child[m][d]
      BY <1>22
    <2>3. \A k \in Y \ T : high2[k] = high[k]
      BY <1>19
    <2> HIDE DEF T
    <2>4. u.balance[m] = t.balance[m]
      BY <1>30
    <2>5. e2 \in Int /\ high2[r] - e2 = high[n] - e
      BY <1>12, <1>16, <1>29
    <2>6. Level(t, high, p, i, e, m)
      BY <1>1
    <2> HIDE DEF e2
    <2>7. r \in Y \ {HEAD} /\ high \in [Y -> Nat \ {0}]
      BY <1>1, <1>9
    <2>8. Apart(t, u, Y, high, high2, n, r, T, m)
      BY <2>1, <2>2, <2>3, <2>4 DEF Apart, p, i
    <2>9. Level(t, high, t.parent[n], t.idx[n], e, m)
      BY <2>6 DEF p, i
    <2>10. Level(u, high2, t.parent[n], t.idx[n], e2, m)
      BY <1>21, <2>5, <2>7, <2>8, <2>9, LevelElsewhere
    <2> QED
      BY <2>10 DEF e2, p, i
  <1>35. Even(u, Y)
    <2>1. u.balance[n] \in -1 .. 1 /\ u.balance[c] \in -1 .. 1 /\ u.balance[r] \in -1 .. 1
      BY <1>15, <1>30
    <2> QED
      BY <1>30, <2>1 DEF Even
  <1> QED
    BY <1>21, <1>31, <1>32, <1>33, <1>34, <1>35 DEF Leveled, high2, p, i

-----------------------------------------------------------------------------
(* A whole tree, but for the slot (i, s) that is e higher than was told.   *)
Fit(t, Y, pos, lo, hi, high, i, s, e) ==
    /\ Typed(t) /\ Shape(t, Y, pos, lo, hi) /\ AllFresh(t, Y)
    /\ Leveled(t, Y, high, i, s, e) /\ Even(t, Y)

(* The same, and node n, that has the slot, may lean by two.               *)
Leaning(t, Y, pos, lo, hi, high, n, e) ==
    /\ Typed(t) /\ Shape(t, Y, pos, lo, hi) /\ AllFresh(t, Y)
    /\ Leveled(t, Y, high, t.parent[n], t.idx[n], e)
    /\ \A m \in Y \ {HEAD} : m # n => t.balance[m] \in -1 .. 1

Righted(t, u, Y, pos, lo, hi, i, s, e) ==
    /\ SameRest(t, u)
    /\ \E lo2, hi2, high2 : /\ Fit(u, Y, pos, lo2, hi2, high2, i, s, e)
                            /\ lo2[i] = lo[i] /\ hi2[i] = hi[i]

LEMMA LevelSameLinks ==
    ASSUME NEW t, NEW u, SameLinks(t, u), NEW high, NEW i, NEW s, NEW e, NEW m,
           u.balance[m] = t.balance[m], Level(t, high, i, s, e, m)
    PROVE  Level(u, high, i, s, e, m)
  BY DEF Level, Seen, Deep, SameLinks

LEMMA KeptSame ==
    ASSUME NEW t, NEW u, SameLinks(t, u), SameRest(t, u), u.maxOff = t.maxOff,
           NEW Y, NEW pos, NEW lo, NEW hi, NEW i, Kept(t, Y, pos, lo, hi, i)
    PROVE  Kept(u, Y, pos, lo, hi, i)
  <1>1. ASSUME NEW m, Fresh(t, m) PROVE Fresh(u, m)
    <2>1. SameAt(t, u, m)
      BY DEF SameAt, SameLinks, SameRest
    <2> QED
      BY <1>1, <2>1, FreshSame
  <1> QED
    BY <1>1 DEF Kept

LEMMA RightedBy ==
    ASSUME NEW w, NEW Y, NEW pos, NEW lo2, NEW hi2, NEW high2, Typed(w),
           Shape(w, Y, pos, lo2, hi2), NEW n \in Y, Kept(w, Y, pos, lo2, hi2, n),
           NEW i, NEW s, NEW e, Leveled(w, Y, high2, i, s, e), Even(w, Y)
    PROVE  /\ Fit(UpdateToTop(w, n), Y, pos, lo2, hi2, high2, i, s, e)
           /\ SameRest(w, UpdateToTop(w, n))
  <1> DEFINE u == UpdateToTop(w, n)
  <1>1. OnlyValues(w, u) /\ Kept(u, Y, pos, lo2, hi2, HEAD)
    BY UpdateToTopIs
  <1> HIDE DEF u
  <1>2. SameLinks(w, u) /\ SameRest(w, u) /\ Typed(u) /\ u.balance = w.balance
    BY <1>1 DEF OnlyValues
  <1>3. Shape(u, Y, pos, lo2, hi2)
    BY <1>2, ShapeSame
  <1>4. AllFresh(u, Y)
    BY <1>1, KeptHead DEF Shape
  <1>5. Leveled(u, Y, high2, i, s, e)
    BY <1>2, LevelSameLinks DEF Leveled
  <1>6. Even(u, Y)
    BY <1>2 DEF Even
  <1> QED
    BY <1>2, <1>3, <1>4, <1>5, <1>6 DEF Fit, u

(* The nodes of a rotation, one below the other, are distinct.             *)
LEMMA Below ==
    ASSUME NEW t, NEW Y, NEW pos, NEW lo, NEW hi, Shape(t, Y, pos, lo, hi),
           NEW n \in Y \ {HEAD}, NEW d \in 0 .. 1, NEW c, IsChild(t, n, d, c), c # NULL
    PROVE  /\ c \in Y \ {HEAD} /\ c # n /\ t.parent[c] = n /\ t.idx[c] = d
           /\ t.parent[n] \in Y /\ t.parent[n] # n /\ t.parent[n] # c /\ t.idx[n] \in 0 .. 1
           /\ \A e \in 0 .. 1 : t.child[c][e] \notin {n, c, t.parent[n]}
  <1>1. c \in Y \ {HEAD} /\ c # n /\ t.parent[c] = n /\ t.idx[c] = d
        /\ hi[c] - lo[c] < hi[n] - lo[n]
    BY ChildIs DEF IsChild
  <1> DEFINE p == t.parent[n]
  <1>2. p \in Y /\ p # n /\ t.idx[n] \in 0 .. 1 /\ hi[n] - lo[n] < hi[p] - lo[p]
    BY ParentIs
  <1>3. \A m \in Y : hi[m] - lo[m] \in Int
    BY DEF Shape, Stretches
  <1>4. p # c
    <2>1. hi[n] - lo[n] \in Int /\ hi[p] - lo[p] \in Int /\ hi[c] - lo[c] \in Int
      BY <1>1, <1>2, <1>3
    <2> HIDE DEF p
    <2> QED
      BY <1>1, <1>2, <2>1
  <1>5. ASSUME NEW e \in 0 .. 1 PROVE t.child[c][e] \notin {n, c, p}
    <2>1. NULL \notin Y
      BY NullIsNone DEF Shape, Stretches
    <2>2. CASE t.child[c][e] = NULL
      BY <1>1, <1>2, <2>1, <2>2
    <2>3. CASE t.child[c][e] # NULL
      <3> DEFINE g == t.child[c][e]
      <3>1. g \in Y \ {HEAD} /\ g # c /\ hi[g] - lo[g] < hi[c] - lo[c]
        BY <1>1, <2>3, ChildIs
      <3>2. /\ hi[n] - lo[n] \in Int /\ hi[p] - lo[p] \in Int /\ hi[c] - lo[c] \in Int
            /\ hi[g] - lo[g] \in Int
        BY <1>1, <1>2, <1>3, <3>1
      <3> HIDE DEF p, g
      <3>3. g # n /\ g # p
        BY <1>1, <1>2, <3>1, <3>2
      <3> QED
        BY <3>1, <3>3 DEF g
    <2> QED
      BY <2>2, <2>3
  <1> QED
    BY <1>1, <1>2, <1>4, <1>5

LeansOver(t, n, dir) == t.balance[n] = IF dir = 1 THEN 2 ELSE -2

SingleDone(t, n, c, dir) == UpdateToTop(SingleBalance(Turned(t, n, c, dir), n, c, dir), n)

LEMMA SingleRights ==
    ASSUME NEW t, NEW Y, NEW pos, NEW lo, NEW hi, NEW high, NEW n \in Y \ {HEAD}, NEW e \in Int,
           Leaning(t, Y, pos, lo, hi, high, n, e), NEW dir \in 0 .. 1, LeansOver(t, n, dir),
           NEW c, IsChild(t, n, 1 - dir, c), c # NULL, ~IsDouble(t, n, c)
    PROVE  Righted(t, SingleDone(t, n, c, dir), Y, pos, lo, hi, t.parent[n], t.idx[n],
                   e - (IF t.balance[c] = 0 THEN 0 ELSE 1))
  <1> DEFINE p == t.parent[n]
  <1> DEFINE i == t.idx[n]
  <1> DEFINE v == Turned(t, n, c, dir)
  <1> DEFINE w == SingleBalance(v, n, c, dir)
  <1> DEFINE lo2 == TurnedLo(Y, pos, lo, n, c, dir)
  <1> DEFINE hi2 == TurnedHi(Y, pos, hi, n, c, dir)
  <1> DEFINE high2 == SingleHigh(Y, t, high, n, c)
  <1> DEFINE e2 == e - (IF t.balance[c] = 0 THEN 0 ELSE 1)
  <1>1. /\ Typed(t) /\ Shape(t, Y, pos, lo, hi) /\ AllFresh(t, Y)
        /\ Leveled(t, Y, high, t.parent[n], t.idx[n], e)
        /\ \A m \in Y \ {HEAD} : m # n => t.balance[m] \in -1 .. 1
    BY DEF Leaning
  <1>2. Y \subseteq Cell /\ HEAD \in Y /\ 1 - dir \in 0 .. 1
    BY <1>1 DEF Shape, Stretches
  <1>3. /\ c \in Y \ {HEAD} /\ c # n /\ p \in Y /\ p # n /\ p # c /\ i \in 0 .. 1
        /\ t.child[c][dir] \notin {n, c}
    BY <1>1, <1>2, Below
  <1>4. n \in Node /\ c \in Node /\ p \in Cell
    BY <1>2, <1>3, InNode
  <1>5. OnlyLinks(t, v) /\ LinksTurned(t, v, n, c, dir)
    BY <1>1, <1>3, <1>4, TurnedIs
  <1>6. c = t.child[n][1 - dir]
    BY DEF IsChild
  <1>7. Shape(v, Y, pos, lo2, hi2)
    BY <1>1, <1>5, <1>6, ShapeTurned
  <1>8. Kept(v, Y, pos, lo2, hi2, n)
    BY <1>1, <1>5, <1>6, KeptTurned DEF OnlyLinks, SameRest
  <1>9. lo2[p] = lo[p] /\ hi2[p] = hi[p]
    BY <1>3 DEF TurnedLo, TurnedHi
  <1>10. v.balance = t.balance /\ Typed(v) /\ SameRest(t, v)
    BY <1>5 DEF OnlyLinks
  <1> HIDE DEF v, lo2, hi2
  <1>11. OnlyBalances(v, w) /\ SingleBalances(t, w, n, c, dir)
    <2>1. n \in Cell /\ c \in Cell
      BY <1>4 DEF Cell
    <2> QED
      BY <1>3, <1>10, <2>1, SingleBalanceIs DEF SingleBalances
  <1> HIDE DEF w
  <1>12. Typed(w) /\ SameLinks(v, w) /\ SameRest(v, w) /\ w.maxOff = v.maxOff
    BY <1>11 DEF OnlyBalances
  <1>13. LinksTurned(t, w, n, c, dir)
    BY <1>5, <1>12 DEF LinksTurned, SameLinks
  <1>14. Shape(w, Y, pos, lo2, hi2) /\ Kept(w, Y, pos, lo2, hi2, n)
    BY <1>7, <1>8, <1>12, ShapeSame, KeptSame
  <1>15. t.balance[c] \in -1 .. 1
    BY <1>1, <1>3
  <1>16. (dir = 1 => t.balance[c] >= 0) /\ (dir = 0 => t.balance[c] <= 0)
    BY <1>15 DEF IsDouble, LeansOver
  <1>17. Leveled(w, Y, high2, t.parent[n], t.idx[n], e2) /\ Even(w, Y)
    BY <1>1, <1>6, <1>11, <1>13, <1>15, <1>16, SingleLevels DEF LeansOver
  <1> HIDE DEF high2, e2
  <1> DEFINE u == UpdateToTop(w, n)
  <1>18. Fit(u, Y, pos, lo2, hi2, high2, t.parent[n], t.idx[n], e2) /\ SameRest(w, u)
    BY <1>12, <1>14, <1>17, RightedBy
  <1>19. u = SingleDone(t, n, c, dir)
    BY DEF SingleDone, w, v
  <1> HIDE DEF u
  <1>20. SameRest(t, u)
    BY <1>10, <1>12, <1>18 DEF SameRest
  <1>21. Righted(t, u, Y, pos, lo, hi, t.parent[n], t.idx[n], e2)
    BY <1>9, <1>18, <1>20 DEF Righted
  <1> QED
    BY <1>19, <1>21 DEF e2

DoubleDone(t, n, c, r, dir) ==
    UpdateToTop(DoubleBalance(TurnedAlso(Turned(t, n, r, dir), c, r, dir), n, c, r, dir), n)

(* A double rotation, as links, is one of c below r and one of n below r.  *)
LEMMA DoubleTurns ==
    ASSUME NEW t, NEW Y, NEW pos, NEW lo, NEW hi, Typed(t), Shape(t, Y, pos, lo, hi),
           AllFresh(t, Y), NEW n \in Y \ {HEAD}, NEW dir \in 0 .. 1, NEW c, NEW r,
           IsChild(t, n, 1 - dir, c), c # NULL, IsChild(t, c, dir, r), r # NULL,
           NEW w, w = TurnedAlso(Turned(t, n, r, dir), c, r, dir)
    PROVE  /\ Typed(w) /\ SameRest(t, w) /\ w.balance = t.balance /\ DoubleLinks(t, w, n, c, r, dir)
           /\ c \in Y \ {HEAD} /\ r \in Y \ {HEAD} /\ n # c /\ n # r /\ c # r
           /\ \E lo2, hi2 : /\ Shape(w, Y, pos, lo2, hi2) /\ Kept(w, Y, pos, lo2, hi2, n)
                            /\ lo2[t.parent[n]] = lo[t.parent[n]]
                            /\ hi2[t.parent[n]] = hi[t.parent[n]]
  <1> DEFINE p == t.parent[n]
  <1> DEFINE i == t.idx[n]
  <1> DEFINE v == Turned(t, c, r, 1 - dir)
  <1> DEFINE lo1 == TurnedLo(Y, pos, lo, c, r, 1 - dir)
  <1> DEFINE hi1 == TurnedHi(Y, pos, hi, c, r, 1 - dir)
  <1> DEFINE lo2 == TurnedLo(Y, pos, lo1, n, r, dir)
  <1> DEFINE hi2 == TurnedHi(Y, pos, hi1, n, r, dir)
  <1>1. Y \subseteq Cell /\ HEAD \in Y /\ 1 - dir \in 0 .. 1 /\ 1 - dir # dir
        /\ 1 - (1 - dir) = dir /\ NULL \notin Y
    BY NullIsNone DEF Shape, Stretches
  <1>2. /\ c \in Y \ {HEAD} /\ c # n /\ p \in Y /\ p # n /\ p # c /\ i \in 0 .. 1
        /\ t.parent[c] = n /\ t.idx[c] = 1 - dir
        /\ \A d \in 0 .. 1 : t.child[c][d] \notin {n, c, p}
    BY <1>1, Below
  <1>3. /\ r \in Y \ {HEAD} /\ r # c /\ t.parent[r] = c /\ t.idx[r] = dir
        /\ \A d \in 0 .. 1 : t.child[r][d] \notin {c, r, t.parent[c]}
    BY <1>1, <1>2, Below
  <1>4. r # n /\ r # p
    BY <1>2 DEF IsChild
  <1>5. t.child[r][0] # t.child[r][1] \/ t.child[r][0] = NULL
    <2>1. t.child[r][0] # NULL => t.idx[t.child[r][0]] = 0
      BY <1>3, ChildIs
    <2>2. t.child[r][1] # NULL => t.idx[t.child[r][1]] = 1
      BY <1>3, ChildIs
    <2> QED
      BY <2>1, <2>2
  <1>6. n \in Node /\ c \in Node /\ r \in Node /\ p \in Cell
    BY <1>1, <1>2, <1>3, InNode
  <1>7. OnlyLinks(t, v) /\ LinksTurned(t, v, c, r, 1 - dir)
    <2>1. t.parent[c] \in Cell /\ t.idx[c] \in 0 .. 1 /\ t.parent[c] \notin {c, r}
      BY <1>1, <1>2, <1>4
    <2>2. t.child[r][1 - dir] \notin {c, r}
      BY <1>1, <1>3
    <2> QED
      BY <1>1, <1>3, <1>6, <2>1, <2>2, TurnedIs
  <1>8. r = t.child[c][1 - (1 - dir)]
    BY <1>1 DEF IsChild
  <1>9. Shape(v, Y, pos, lo1, hi1)
    BY <1>1, <1>2, <1>7, <1>8, ShapeTurned
  <1> HIDE DEF v
  <1>10. /\ LinksTurned(v, w, n, r, dir) /\ DoubleLinks(t, w, n, c, r, dir)
         /\ Typed(w) /\ SameRest(t, w) /\ w.balance = t.balance
         /\ \A m \in Node : m # c => w.maxOff[m] = t.maxOff[m]
         /\ w.maxOff[c] = Told(w, c) \/ \E d \in 0 .. 1 : w.child[c][d] = c
    <2>1. p \notin {n, c, r} /\ t.child[r][0] \notin {n, c, r} /\ t.child[r][1] \notin {n, c, r}
      BY <1>2, <1>3, <1>4
    <2>2. t.child[n][1 - dir] = c /\ t.child[c][dir] = r
      BY DEF IsChild
    <2> HIDE DEF p, i
    <2>3. t.parent[n] \in Cell /\ t.idx[n] \in 0 .. 1 /\ t.parent[n] \notin {n, c, r}
      BY <1>1, <1>2, <2>1 DEF p, i
    <2> QED
      BY <1>2, <1>3, <1>4, <1>5, <1>6, <1>7, <2>1, <2>2, <2>3, TurnedAlsoIs
  <1>11. v.child[n][1 - dir] = r /\ v.parent[n] = p /\ v.idx[n] = i
    <2>1. \A d \in 0 .. 1 : t.child[r][d] # n
      BY <1>2, <1>3
    <2> QED
      BY <1>1, <1>2, <1>3, <1>4, <1>6, <1>7, <2>1 DEF LinksTurned
  <1>12. Shape(w, Y, pos, lo2, hi2)
    <2>1. r = v.child[n][1 - dir]
      BY <1>11
    <2> HIDE DEF lo1, hi1
    <2> QED
      BY <1>9, <1>10, <2>1, ShapeTurned
  <1>13. lo2[p] = lo[p] /\ hi2[p] = hi[p]
    BY <1>2, <1>4 DEF TurnedLo, TurnedHi
  <1> HIDE DEF lo1, hi1, lo2, hi2
  <1>14. w.parent[n] = r /\ w.parent[r] = p
    <2>1. n \in Cell /\ r \in Cell
      BY <1>1, <1>3
    <2>2. w.parent[n] = r
      BY <1>10, <2>1 DEF LinksTurned
    <2>3. w.parent[r] = v.parent[n]
      BY <1>4, <1>10, <2>1 DEF LinksTurned
    <2> QED
      BY <1>11, <2>2, <2>3
  <1>15. Has(pos, lo2, hi2, n, n) /\ Has(pos, lo2, hi2, r, n)
    BY <1>3, <1>12, <1>14, TurnedHas
  <1>16. Has(pos, lo2, hi2, p, n)
    <2>1. /\ lo2[p] <= lo2[r] /\ hi2[r] <= hi2[p]
      BY <1>3, <1>12, <1>14, ParentIs
    <2>2. /\ lo2[p] \in Nat /\ hi2[p] \in Nat /\ lo2[r] \in Nat
          /\ hi2[r] \in Nat /\ pos[n] \in Nat
      BY <1>2, <1>3, <1>12 DEF Shape, Stretches
    <2> QED
      BY <1>15, <2>1, <2>2 DEF Has
  <1>17. w.maxOff[c] = Told(w, c)
    <2>1. \A d \in 0 .. 1 : w.child[c][d] # c
      <3>1. \A d \in 0 .. 1 : t.child[r][d] # c /\ t.child[c][d] # c
        BY <1>2, <1>3
      <3> QED
        BY <1>1, <1>2, <1>3, <1>4, <1>6, <1>10, <3>1 DEF DoubleLinks
    <2> QED
      BY <1>10, <2>1
  <1>18. ASSUME NEW m \in Y \ {HEAD}, ~Has(pos, lo2, hi2, m, n)
         PROVE  Fresh(w, m)
    <2>1. m # n /\ m # r /\ m # p
      BY <1>15, <1>16, <1>18
    <2>2. CASE m = c
      BY <1>17, <2>2 DEF Fresh
    <2>3. CASE m # c
      <3>1. m \in Node /\ m \in Cell
        BY <1>1, InNode
      <3>2. \A d \in 0 .. 1 : w.child[m][d] = t.child[m][d]
        BY <1>10, <2>1, <2>3, <3>1 DEF DoubleLinks
      <3>3. \A d \in 0 .. 1 : t.child[m][d] # NULL => t.child[m][d] \in Node /\ t.child[m][d] # c
        <4> SUFFICES ASSUME NEW d \in 0 .. 1, t.child[m][d] # NULL
                     PROVE  t.child[m][d] \in Node /\ t.child[m][d] # c
          OBVIOUS
        <4>1. t.child[m][d] \in Y \ {HEAD} /\ t.parent[t.child[m][d]] = m
          BY ChildIs
        <4> QED
          BY <1>1, <1>2, <2>1, <4>1, InNode
      <3>4. SameAt(t, w, m)
        BY <1>10, <3>2, <3>3 DEF SameAt, SameRest
      <3>5. w.maxOff[m] = t.maxOff[m]
        BY <1>10, <2>3, <3>1
      <3>6. Fresh(t, m)
        BY DEF AllFresh
      <3> QED
        BY <3>4, <3>5, <3>6, FreshSame
    <2> QED
      BY <2>2, <2>3
  <1>19. Kept(w, Y, pos, lo2, hi2, n)
    BY <1>18 DEF Kept
  <1> QED
    BY <1>2, <1>3, <1>4, <1>10, <1>12, <1>13, <1>19

LEMMA DoubleRights ==
    ASSUME NEW t, NEW Y, NEW pos, NEW lo, NEW hi, NEW high, NEW n \in Y \ {HEAD}, NEW e \in Int,
           Leaning(t, Y, pos, lo, hi, high, n, e), NEW dir \in 0 .. 1, LeansOver(t, n, dir),
           NEW c, IsChild(t, n, 1 - dir, c), c # NULL,
           NEW r, IsChild(t, c, dir, r), r # NULL, IsDouble(t, n, c)
    PROVE  Righted(t, DoubleDone(t, n, c, r, dir), Y, pos, lo, hi, t.parent[n], t.idx[n], e - 1)
  <1> DEFINE v == TurnedAlso(Turned(t, n, r, dir), c, r, dir)
  <1> DEFINE w == DoubleBalance(v, n, c, r, dir)
  <1> DEFINE high2 == DoubleHigh(Y, high, n, c, r)
  <1>1. /\ Typed(t) /\ Shape(t, Y, pos, lo, hi) /\ AllFresh(t, Y)
        /\ Leveled(t, Y, high, t.parent[n], t.idx[n], e)
        /\ \A m \in Y \ {HEAD} : m # n => t.balance[m] \in -1 .. 1
    BY DEF Leaning
  <1> HIDE DEF v
  <1>2. /\ Typed(v) /\ SameRest(t, v) /\ v.balance = t.balance /\ DoubleLinks(t, v, n, c, r, dir)
        /\ c \in Y \ {HEAD} /\ r \in Y \ {HEAD} /\ n # c /\ n # r /\ c # r
        /\ \E lo2, hi2 : /\ Shape(v, Y, pos, lo2, hi2) /\ Kept(v, Y, pos, lo2, hi2, n)
                         /\ lo2[t.parent[n]] = lo[t.parent[n]]
                         /\ hi2[t.parent[n]] = hi[t.parent[n]]
    BY <1>1, DoubleTurns DEF v
  <1>3. PICK lo2, hi2 : /\ Shape(v, Y, pos, lo2, hi2) /\ Kept(v, Y, pos, lo2, hi2, n)
                        /\ lo2[t.parent[n]] = lo[t.parent[n]]
                        /\ hi2[t.parent[n]] = hi[t.parent[n]]
    BY <1>2
  <1>4. OnlyBalances(v, w) /\ DoubleBalances(v, w, n, c, r, dir)
    <2>1. n \in Cell /\ c \in Cell /\ r \in Cell
      BY <1>1, <1>2 DEF Shape, Stretches
    <2> QED
      BY <1>2, <2>1, DoubleBalanceIs
  <1> HIDE DEF w
  <1>5. DoubleBalances(t, w, n, c, r, dir)
    BY <1>2, <1>4 DEF DoubleBalances, Away, Towards
  <1>6. Typed(w) /\ SameLinks(v, w) /\ SameRest(v, w) /\ w.maxOff = v.maxOff
    BY <1>4 DEF OnlyBalances
  <1>7. DoubleLinks(t, w, n, c, r, dir)
    BY <1>2, <1>6 DEF DoubleLinks, SameLinks
  <1>8. Shape(w, Y, pos, lo2, hi2) /\ Kept(w, Y, pos, lo2, hi2, n)
    BY <1>3, <1>6, ShapeSame, KeptSame
  <1>9. t.balance[c] = IF dir = 1 THEN -1 ELSE 1
    <2>1. t.balance[c] \in -1 .. 1
      BY <1>1, <1>2
    <2> QED
      BY <2>1 DEF IsDouble, LeansOver
  <1>10. Leveled(w, Y, high2, t.parent[n], t.idx[n], e - 1) /\ Even(w, Y)
    BY <1>1, <1>5, <1>7, <1>9, DoubleLevels DEF LeansOver
  <1> HIDE DEF high2
  <1> DEFINE u == UpdateToTop(w, n)
  <1> DEFINE e2 == e - 1
  <1>11. Fit(u, Y, pos, lo2, hi2, high2, t.parent[n], t.idx[n], e2) /\ SameRest(w, u)
    <2>1. Leveled(w, Y, high2, t.parent[n], t.idx[n], e2)
      BY <1>10
    <2> HIDE DEF e2
    <2> QED
      BY <1>6, <1>8, <1>10, <2>1, RightedBy
  <1>12. u = DoubleDone(t, n, c, r, dir)
    BY DEF DoubleDone, w, v
  <1> HIDE DEF u, e2
  <1>13. SameRest(t, u)
    BY <1>2, <1>6, <1>11 DEF SameRest
  <1>14. Righted(t, u, Y, pos, lo, hi, t.parent[n], t.idx[n], e2)
    BY <1>3, <1>11, <1>13 DEF Righted
  <1> QED
    BY <1>12, <1>14 DEF e2

-----------------------------------------------------------------------------
(* rebalance() keeps the places, and says whether the subtree got lower.   *)
LEMMA RebalanceRights ==
    ASSUME NEW t, NEW Y, NEW pos, NEW lo, NEW hi, NEW high, NEW n \in Y \ {HEAD}, NEW e \in Int,
           Leaning(t, Y, pos, lo, hi, high, n, e), NEW dir \in 0 .. 1, LeansOver(t, n, dir)
    PROVE  /\ t.child[n][1 - dir] \in Y \ {HEAD}
           /\ Rebalance(t, n).lower = t.balance[t.child[n][1 - dir]]
           /\ Righted(t, Rebalance(t, n).tree, Y, pos, lo, hi, t.parent[n], t.idx[n],
                      e - (IF Rebalance(t, n).lower = 0 THEN 0 ELSE 1))
  <1> DEFINE c == t.child[n][1 - dir]
  <1>1. /\ Typed(t) /\ Shape(t, Y, pos, lo, hi) /\ AllFresh(t, Y)
        /\ Leveled(t, Y, high, t.parent[n], t.idx[n], e)
        /\ \A m \in Y \ {HEAD} : m # n => t.balance[m] \in -1 .. 1
    BY DEF Leaning
  <1>2. 1 - dir \in 0 .. 1 /\ IsChild(t, n, 1 - dir, c) /\ NULL \notin Y
    BY <1>1, NullIsNone DEF IsChild, Shape, Stretches
  <1>3. c # NULL
    BY <1>1, HeavyChild DEF LeansOver, Leveled
  <1>4. c \in Y \ {HEAD} /\ c # n /\ t.parent[c] = n /\ t.parent[n] # c
    BY <1>1, <1>2, <1>3, Below
  <1>5. t.balance[c] \in -1 .. 1
    BY <1>1, <1>4
  <1>6. t.balance[n] \notin -1 .. 1 /\ dir = Side(t.balance[n] > 0)
    BY DEF LeansOver, Side
  <1>7. /\ Rebalance(t, n).tree = UpdateToTop(Rotated(t, n, c, dir), n)
        /\ Rebalance(t, n).lower = t.balance[c]
    <2> DEFINE d == Side(t.balance[n] > 0)
    <2>1. Rebalance(t, n) =
              IF t.balance[n] \in -1 .. 1 THEN [tree |-> t, lower |-> 0]
              ELSE [tree |-> UpdateToTop(Rotated(t, n, t.child[n][1 - d], d), n),
                    lower |-> Lowers(t, t.child[n][1 - d])]
      BY DEF Rebalance
    <2> HIDE DEF d
    <2>2. d = dir
      BY <1>6 DEF d
    <2> QED
      BY <1>6, <2>1, <2>2 DEF Lowers
  <1> DEFINE u == Rebalance(t, n).tree
  <1> HIDE DEF u
  <1>8. Righted(t, u, Y, pos, lo, hi, t.parent[n], t.idx[n],
                e - (IF t.balance[c] = 0 THEN 0 ELSE 1))
    <2>1. CASE IsDouble(t, n, c)
      <3> DEFINE r == t.child[c][dir]
      <3>1. t.balance[c] # 0 /\ t.balance[c] = IF dir = 1 THEN -1 ELSE 1
        BY <1>5, <2>1 DEF IsDouble, LeansOver
      <3>2. r # NULL
        <4>1. Level(t, high, t.parent[n], t.idx[n], e, c) /\ high \in [Y -> Nat \ {0}]
          BY <1>1, <1>4 DEF Leveled
        <4>2. t.balance[c] = Deep(t, high, c, 0) - Deep(t, high, c, 1)
          BY <1>4, <4>1, LevelIs
        <4>3. Deep(t, high, c, 0) \in Nat /\ Deep(t, high, c, 1) \in Nat
          BY <1>1, <1>4, <4>1, DeepIsNat
        <4>4. r = NULL => Deep(t, high, c, dir) = 0
          BY DEF Deep
        <4> HIDE DEF c, r
        <4>5. dir = 0 \/ dir = 1
          OBVIOUS
        <4> QED
          BY <3>1, <4>2, <4>3, <4>4, <4>5
      <3>3. IsChild(t, c, dir, r)
        BY DEF IsChild
      <3>4. u = DoubleDone(t, n, c, r, dir)
        BY <1>7, <2>1 DEF Rotated, DoubleDone, u
      <3> HIDE DEF c, r
      <3>5. Righted(t, u, Y, pos, lo, hi, t.parent[n], t.idx[n], e - 1)
        BY <1>2, <1>3, <2>1, <3>2, <3>3, <3>4, DoubleRights
      <3> QED
        BY <3>1, <3>5
    <2>2. CASE ~IsDouble(t, n, c)
      <3>1. u = SingleDone(t, n, c, dir)
        BY <1>7, <2>2 DEF Rotated, SingleDone, u
      <3> HIDE DEF c
      <3> QED
        BY <1>2, <1>3, <2>2, <3>1, SingleRights
    <2> QED
      BY <2>1, <2>2
  <1> QED
    BY <1>4, <1>7, <1>8 DEF u

LEMMA RebalanceRests ==
    ASSUME NEW t, NEW n, t.balance[n] \in -1 .. 1
    PROVE  Rebalance(t, n) = [tree |-> t, lower |-> 0]
  BY DEF Rebalance

-----------------------------------------------------------------------------
(* The node told that its slot grew or shrunk: the slot above is next.     *)
Told2(t, high, i) ==
    [high EXCEPT ![i] = 1 + Max2(Deep(t, high, i, 0), Deep(t, high, i, 1))]

Leant(t, i, s, e) == t.balance[i] + (IF s = 1 THEN -e ELSE e)

LEMMA LevelsTold ==
    ASSUME NEW t, NEW Y, NEW pos, NEW lo, NEW hi, Typed(t), Shape(t, Y, pos, lo, hi),
           NEW i \in Y \ {HEAD}, NEW s \in 0 .. 1, NEW e \in Int, NEW high,
           Leveled(t, Y, high, i, s, e),
           NEW u, BalanceSet(t, u, i, Leant(t, i, s, e))
    PROVE  /\ Leveled(u, Y, Told2(t, high, i), t.parent[i], t.idx[i],
                      Told2(t, high, i)[i] - high[i])
           /\ Told2(t, high, i)[i] - high[i] \in Int
           /\ u.balance[i] = Deep(t, high, i, 0) - Deep(t, high, i, 1)
           /\ Deep(t, high, i, 0) \in Nat /\ Deep(t, high, i, 1) \in Nat
           /\ Told2(t, high, i)[i] = 1 + Max2(Deep(t, high, i, 0), Deep(t, high, i, 1))
  <1> DEFINE high2 == Told2(t, high, i)
  <1> DEFINE e2 == high2[i] - high[i]
  <1> DEFINE p == t.parent[i]
  <1> DEFINE d == t.idx[i]
  <1> DEFINE A == Deep(t, high, i, 0)
  <1> DEFINE B == Deep(t, high, i, 1)
  <1>1. high \in [Y -> Nat \ {0}] /\ \A m \in Y \ {HEAD} : Level(t, high, i, s, e, m)
    BY DEF Leveled
  <1>2. A \in Nat /\ B \in Nat
    BY <1>1, DeepIsNat
  <1>3. \A m \in Y : high2[m] = IF m = i THEN 1 + Max2(A, B) ELSE high[m]
    BY <1>1 DEF Told2
  <1>4. high2 \in [Y -> Nat \ {0}]
    BY <1>1, <1>2 DEF Told2, Max2
  <1>5. i \in Cell /\ Typed(u) /\ SameLinks(t, u) /\ \A m \in Y \ {HEAD} :
           u.balance[m] = IF m = i THEN t.balance[i] + (IF s = 1 THEN -e ELSE e) ELSE t.balance[m]
    BY DEF BalanceSet, OnlyBalances, Shape, Stretches, Leant
  <1>6. p \in Y /\ d \in 0 .. 1 /\ p # i /\ t.child[p][d] = i
    BY ParentIs
  <1>7. u.balance[i] = A - B
    <2>1. t.balance[i] = Seen(t, high, i, s, e, i, 0) - Seen(t, high, i, s, e, i, 1)
      BY <1>1 DEF Level
    <2>2. CASE s = 0
      <3>1. Seen(t, high, i, s, e, i, 0) = A - e /\ Seen(t, high, i, s, e, i, 1) = B
        BY <2>2 DEF Seen
      <3> HIDE DEF A, B
      <3> QED
        BY <1>2, <1>5, <2>1, <2>2, <3>1
    <2>3. CASE s = 1
      <3>1. Seen(t, high, i, s, e, i, 0) = A /\ Seen(t, high, i, s, e, i, 1) = B - e
        BY <2>3 DEF Seen
      <3> HIDE DEF A, B
      <3> QED
        BY <1>2, <1>5, <2>1, <2>3, <3>1
    <2> QED
      BY <2>2, <2>3
  <1>8. e2 \in Int /\ high2[i] = 1 + Max2(A, B)
    BY <1>1, <1>3, <1>4
  <1> HIDE DEF high2, e2
  <1>9. \A m \in Y \ {HEAD} : \A k \in 0 .. 1 :
           ~(m = p /\ k = d) => Deep(u, high2, m, k) = Deep(t, high, m, k)
    <2> SUFFICES ASSUME NEW m \in Y \ {HEAD}, NEW k \in 0 .. 1, ~(m = p /\ k = d)
                 PROVE  Deep(u, high2, m, k) = Deep(t, high, m, k)
      OBVIOUS
    <2>1. u.child[m][k] = t.child[m][k]
      BY <1>5 DEF SameLinks
    <2>2. t.child[m][k] # NULL => t.child[m][k] \in Y /\ t.child[m][k] # i
      <3>1. t.child[m][k] # NULL =>
               t.child[m][k] \in Y /\ t.parent[t.child[m][k]] = m /\ t.idx[t.child[m][k]] = k
        BY ChildIs
      <3> QED
        BY <3>1
    <2> QED
      BY <1>3, <2>1, <2>2 DEF Deep
  <1>10. Level(u, high2, p, d, e2, i)
    <2>1. Deep(u, high2, i, 0) = A /\ Deep(u, high2, i, 1) = B
      BY <1>6, <1>9
    <2> HIDE DEF A, B, p
    <2> QED
      BY <1>6, <1>7, <1>8, <2>1, LevelFrom
  <1>11. ASSUME NEW m \in Y \ {HEAD}, m # i
         PROVE  Level(u, high2, p, d, e2, m)
    <2>1. Level(t, high, i, s, e, m) /\ high2[m] = high[m] /\ u.balance[m] = t.balance[m]
      BY <1>1, <1>3, <1>5, <1>11
    <2>2. \A k \in 0 .. 1 : Seen(u, high2, p, d, e2, m, k) = Seen(t, high, i, s, e, m, k)
      <3> SUFFICES ASSUME NEW k \in 0 .. 1
                   PROVE  Seen(u, high2, p, d, e2, m, k) = Seen(t, high, i, s, e, m, k)
        OBVIOUS
      <3>1. Seen(t, high, i, s, e, m, k) = Deep(t, high, m, k)
        BY <1>11 DEF Seen
      <3>2. CASE m = p /\ k = d
        <4>1. u.child[m][k] = i /\ t.child[m][k] = i /\ i # NULL
          BY <1>5, <1>6, <3>2, NullIsNone DEF SameLinks
        <4>2. Deep(u, high2, m, k) = high2[i] /\ Deep(t, high, m, k) = high[i]
          BY <4>1 DEF Deep
        <4>3. Seen(u, high2, p, d, e2, m, k) = high2[i] - e2
          BY <3>2, <4>2 DEF Seen
        <4>4. high2[i] \in Nat /\ high[i] \in Nat
          BY <1>1, <1>4
        <4> QED
          BY <3>1, <4>2, <4>3, <4>4 DEF e2
      <3>3. CASE ~(m = p /\ k = d)
        BY <1>9, <3>1, <3>3 DEF Seen
      <3> QED
        BY <3>2, <3>3
    <2>3. 0 \in 0 .. 1 /\ 1 \in 0 .. 1
      OBVIOUS
    <2> HIDE DEF p, d
    <2> QED
      BY <2>1, <2>2, <2>3, LevelSame
  <1> QED
    BY <1>2, <1>4, <1>7, <1>8, <1>10, <1>11 DEF Leveled, high2, e2

-----------------------------------------------------------------------------
(* No slot is out of step: the tree is as between two calls.               *)
LEMMA FitDone ==
    ASSUME NEW t, NEW Y, NEW pos, NEW lo, NEW hi, NEW high, NEW i, NEW s,
           Fit(t, Y, pos, lo, hi, high, i, s, 0), NEW s2, NEW e2
    PROVE  Fit(t, Y, pos, lo, hi, high, HEAD, s2, e2)
  <1>1. high \in [Y -> Nat \ {0}] /\ Shape(t, Y, pos, lo, hi)
    BY DEF Fit, Leveled
  <1>2. ASSUME NEW m \in Y \ {HEAD}
        PROVE  Level(t, high, HEAD, s2, e2, m)
    <2>1. Level(t, high, i, s, 0, m)
      BY DEF Fit, Leveled
    <2>2. Deep(t, high, m, 0) \in Nat /\ Deep(t, high, m, 1) \in Nat
      BY <1>1, DeepIsNat
    <2>3. \A d \in 0 .. 1 : Seen(t, high, i, s, 0, m, d) = Deep(t, high, m, d)
      BY <2>2 DEF Seen
    <2>4. \A d \in 0 .. 1 : Seen(t, high, HEAD, s2, e2, m, d) = Deep(t, high, m, d)
      BY DEF Seen
    <2> QED
      BY <2>1, <2>3, <2>4 DEF Level
  <1> QED
    BY <1>1, <1>2 DEF Fit, Leveled

InRound(Y, x) == \E S : x \in [tree : S, at : Y, dir : 0 .. 1]

(* The subtree that grew leans, but for a new leaf.                        *)
GrewThere(t, high, i, s) ==
    /\ t.child[i][s] # NULL
    /\ t.balance[t.child[i][s]] # 0 \/ high[t.child[i][s]] = 1

Higher(t, Y, pos, wide, y) ==
    /\ SameRest(t, y.tree) /\ InRound(Y, y)
    /\ \E lo2, hi2, high2 :
          /\ Fit(y.tree, Y, pos, lo2, hi2, high2, y.at, y.dir, 1)
          /\ y.at = HEAD \/ /\ hi2[y.at] - lo2[y.at] > wide
                            /\ GrewThere(y.tree, high2, y.at, y.dir)

Lower(t, Y, pos, wide, y) ==
    /\ SameRest(t, y.tree) /\ InRound(Y, y)
    /\ \E lo2, hi2, high2 :
          /\ Fit(y.tree, Y, pos, lo2, hi2, high2, y.at, y.dir, -1)
          /\ y.at = HEAD \/ hi2[y.at] - lo2[y.at] > wide

(* Node i was told: what is above its slot is out of step by e2 now.       *)
TellIs(t, u, Y, pos, lo, hi, high, i, s, e, high2) ==
    /\ Typed(u) /\ SameLinks(t, u) /\ SameRest(t, u) /\ Shape(u, Y, pos, lo, hi)
    /\ AllFresh(u, Y)
    /\ \A m \in Y \ {HEAD} : m # i => u.balance[m] = t.balance[m]
    /\ \A m \in Y : m # i => high2[m] = high[m]
    /\ Leveled(u, Y, high2, t.parent[i], t.idx[i], high2[i] - high[i])
    /\ u.balance[i] = Deep(t, high, i, 0) - Deep(t, high, i, 1)
    /\ s = 0 => u.balance[i] \in (e - 1) .. (e + 1)
    /\ s = 1 => u.balance[i] \in (-e - 1) .. (-e + 1)
    /\ e = 1 => high2[i] - high[i] = IF u.balance[i] = 0 THEN 0 ELSE 1
    /\ e = -1 => high2[i] - high[i] = IF u.balance[i] = 0 THEN -1 ELSE 0

LEMMA AllFreshSame ==
    ASSUME NEW t, NEW u, SameLinks(t, u), SameRest(t, u), u.maxOff = t.maxOff, NEW Y,
           AllFresh(t, Y)
    PROVE  AllFresh(u, Y)
  <1>1. ASSUME NEW m, Fresh(t, m) PROVE Fresh(u, m)
    <2>1. SameAt(t, u, m)
      BY DEF SameAt, SameLinks, SameRest
    <2> QED
      BY <1>1, <2>1, FreshSame
  <1> QED
    BY <1>1 DEF AllFresh

LEMMA Telling ==
    ASSUME NEW t, NEW Y, NEW pos, NEW lo, NEW hi, NEW high, NEW i \in Y \ {HEAD}, NEW s \in 0 .. 1,
           NEW e \in {-1, 1}, Fit(t, Y, pos, lo, hi, high, i, s, e)
    PROVE  \E high2 : TellIs(t, SetBalance(t, i, Leant(t, i, s, e)),
                             Y, pos, lo, hi, high, i, s, e, high2)
  <1> DEFINE b == Leant(t, i, s, e)
  <1> DEFINE u == SetBalance(t, i, b)
  <1> DEFINE high2 == Told2(t, high, i)
  <1>1. Typed(t) /\ Shape(t, Y, pos, lo, hi) /\ AllFresh(t, Y) /\ Leveled(t, Y, high, i, s, e)
        /\ Even(t, Y) /\ e \in Int
    BY DEF Fit
  <1>2. i \in Cell /\ b \in Int /\ t.balance[i] \in -1 .. 1
    BY <1>1 DEF Shape, Stretches, Even, Typed, Leant
  <1>3. BalanceSet(t, u, i, b)
    BY <1>1, <1>2, SetBalanceIs
  <1> DEFINE A == Deep(t, high, i, 0)
  <1> DEFINE B == Deep(t, high, i, 1)
  <1>4. /\ Leveled(u, Y, high2, t.parent[i], t.idx[i], high2[i] - high[i])
        /\ high2[i] - high[i] \in Int /\ u.balance[i] = A - B
        /\ A \in Nat /\ B \in Nat /\ high2[i] = 1 + Max2(A, B)
    <2> HIDE DEF u
    <2>1. BalanceSet(t, u, i, Leant(t, i, s, e))
      BY <1>3
    <2> QED
      BY <1>1, <2>1, LevelsTold
  <1>5. /\ high[i] = 1 + Max2(Seen(t, high, i, s, e, i, 0), Seen(t, high, i, s, e, i, 1))
        /\ high \in [Y -> Nat \ {0}]
    BY <1>1 DEF Leveled, Level
  <1>6. \A m \in Y : m # i => high2[m] = high[m]
    BY <1>5 DEF Told2
  <1>7. u.balance[i] = b
    BY <1>2, <1>3 DEF BalanceSet
  <1>8. s = 0 => Seen(t, high, i, s, e, i, 0) = A - e /\ Seen(t, high, i, s, e, i, 1) = B
    BY DEF Seen
  <1>9. s = 1 => Seen(t, high, i, s, e, i, 0) = A /\ Seen(t, high, i, s, e, i, 1) = B - e
    BY DEF Seen
  <1> DEFINE y == u.balance[i]
  <1> DEFINE h == high[i]
  <1> DEFINE h2 == high2[i]
  <1>10. /\ s = 0 => y \in (e - 1) .. (e + 1)
         /\ s = 1 => y \in (-e - 1) .. (-e + 1)
    <2>1. e = 1 \/ e = -1
      OBVIOUS
    <2> HIDE DEF y
    <2> QED
      BY <1>2, <1>7, <2>1 DEF y, Leant
  <1>11. /\ e = 1 => h2 - h = IF y = 0 THEN 0 ELSE 1
         /\ e = -1 => h2 - h = IF y = 0 THEN -1 ELSE 0
    <2>1. (s = 0 => h = 1 + Max2(A - e, B)) /\ (s = 1 => h = 1 + Max2(A, B - e))
      BY <1>5, <1>8, <1>9
    <2>2. h2 = 1 + Max2(A, B) /\ y = A - B /\ A \in Nat /\ B \in Nat
      BY <1>4
    <2>3. e = 1 \/ e = -1
      OBVIOUS
    <2>4. s = 0 \/ s = 1
      OBVIOUS
    <2> HIDE DEF h, h2, y, A, B, high2, u
    <2>5. CASE s = 0
      BY <1>10, <2>1, <2>2, <2>3, <2>5 DEF Max2
    <2>6. CASE s = 1
      BY <1>10, <2>1, <2>2, <2>3, <2>6 DEF Max2
    <2> QED
      BY <2>4, <2>5, <2>6
  <1>12. /\ Typed(u) /\ SameLinks(t, u) /\ SameRest(t, u) /\ u.maxOff = t.maxOff
         /\ \A m \in Y \ {HEAD} : m # i => u.balance[m] = t.balance[m]
    BY <1>1, <1>3 DEF BalanceSet, OnlyBalances, Shape, Stretches
  <1> HIDE DEF u, high2
  <1>13. Shape(u, Y, pos, lo, hi) /\ AllFresh(u, Y)
    BY <1>1, <1>12, ShapeSame, AllFreshSame
  <1>14. TellIs(t, u, Y, pos, lo, hi, high, i, s, e, high2)
    BY <1>4, <1>6, <1>10, <1>11, <1>12, <1>13 DEF TellIs
  <1> QED
    BY <1>14 DEF u

LEMMA TellLeans ==
    ASSUME NEW t, NEW u, NEW Y, NEW pos, NEW lo, NEW hi, NEW high, NEW i, NEW s, NEW e,
           Fit(t, Y, pos, lo, hi, high, i, s, e), NEW high2,
           TellIs(t, u, Y, pos, lo, hi, high, i, s, e, high2)
    PROVE  Leaning(u, Y, pos, lo, hi, high2, i, high2[i] - high[i])
  <1> DEFINE e2 == high2[i] - high[i]
  <1>1. /\ Typed(u) /\ SameLinks(t, u) /\ Shape(u, Y, pos, lo, hi) /\ AllFresh(u, Y)
        /\ Leveled(u, Y, high2, t.parent[i], t.idx[i], e2)
        /\ \A m \in Y \ {HEAD} : m # i => u.balance[m] = t.balance[m]
    BY DEF TellIs
  <1>2. \A m \in Y \ {HEAD} : t.balance[m] \in -1 .. 1
    BY DEF Fit, Even
  <1> HIDE DEF e2
  <1>3. Leaning(u, Y, pos, lo, hi, high2, i, e2)
    BY <1>1, <1>2 DEF Leaning, SameLinks
  <1> QED
    BY <1>3 DEF e2

LEMMA TellRests ==
    ASSUME NEW t, NEW u, NEW Y, NEW pos, NEW lo, NEW hi, NEW high, NEW i, NEW s, NEW e,
           Fit(t, Y, pos, lo, hi, high, i, s, e), NEW high2,
           TellIs(t, u, Y, pos, lo, hi, high, i, s, e, high2), u.balance[i] \in -1 .. 1
    PROVE  Fit(u, Y, pos, lo, hi, high2, t.parent[i], t.idx[i], high2[i] - high[i])
  BY DEF TellIs, Fit, Even

LEMMA GrownRoundKeeps ==
    ASSUME NEW x, NEW Y, NEW pos, NEW lo, NEW hi, NEW high, InRound(Y, x), x.at # HEAD,
           Fit(x.tree, Y, pos, lo, hi, high, x.at, x.dir, 1), GrewThere(x.tree, high, x.at, x.dir)
    PROVE  Higher(x.tree, Y, pos, hi[x.at] - lo[x.at], GrownRound(x))
  <1> DEFINE t == x.tree
  <1> DEFINE i == x.at
  <1> DEFINE s == x.dir
  <1> DEFINE u == SetBalance(t, i, Leant(t, i, s, 1))
  <1> DEFINE R == Rebalance(u, i)
  <1> DEFINE p == t.parent[i]
  <1> DEFINE d == t.idx[i]
  <1> DEFINE x1 == [x EXCEPT !.tree = u, !.at = HEAD]
  <1> DEFINE x2 == [x EXCEPT !.tree = R.tree, !.at = HEAD]
  <1> DEFINE x3 == [tree |-> R.tree, at |-> R.tree.parent[i], dir |-> R.tree.idx[i]]
  <1>1. i \in Y \ {HEAD} /\ s \in 0 .. 1
    BY DEF InRound
  <1>2. GrownRound(x) = IF u.balance[i] = 0 THEN x1 ELSE IF R.lower # 0 THEN x2 ELSE x3
    BY DEF GrownRound, Leant
  <1>3. /\ x1.tree = u /\ x1.at = HEAD /\ x1.dir = s /\ InRound(Y \cup {HEAD}, x1)
        /\ x2.tree = R.tree /\ x2.at = HEAD /\ x2.dir = s /\ InRound(Y \cup {HEAD}, x2)
    BY DEF InRound
  <1>4. x3.tree = R.tree /\ x3.at = R.tree.parent[i] /\ x3.dir = R.tree.idx[i]
        /\ (R.tree.parent[i] \in Y /\ R.tree.idx[i] \in 0 .. 1 => InRound(Y, x3))
    <2> DEFINE rt == R.tree
    <2> DEFINE rp == R.tree.parent[i]
    <2> DEFINE ri == R.tree.idx[i]
    <2> HIDE DEF rt, rp, ri
    <2> DEFINE y == [tree |-> rt, at |-> rp, dir |-> ri]
    <2>1. rp \in Y /\ ri \in 0 .. 1 => y \in [tree : {rt}, at : Y, dir : 0 .. 1]
      OBVIOUS
    <2>2. y.tree = rt /\ y.at = rp /\ y.dir = ri
      OBVIOUS
    <2>3. x3 = y
      BY DEF rt, rp, ri
    <2> HIDE DEF y, x3
    <2>4. rp \in Y /\ ri \in 0 .. 1 => InRound(Y, y)
      BY <2>1 DEF InRound
    <2> QED
      BY <2>2, <2>3, <2>4 DEF rt, rp, ri
  <1> HIDE DEF x1, x2, x3
  <1>5. PICK high2 : TellIs(t, u, Y, pos, lo, hi, high, i, s, 1, high2)
    <2> HIDE DEF u, t, i, s
    <2> QED
      BY <1>1, Telling DEF u, t, i, s
  <1> DEFINE e2 == high2[i] - high[i]
  <1> HIDE DEF u, R
  <1>6. /\ Typed(u) /\ SameLinks(t, u) /\ SameRest(t, u) /\ Shape(u, Y, pos, lo, hi)
        /\ \A m \in Y \ {HEAD} : m # i => u.balance[m] = t.balance[m]
        /\ \A m \in Y : m # i => high2[m] = high[m]
        /\ u.balance[i] = Deep(t, high, i, 0) - Deep(t, high, i, 1)
        /\ s = 0 => u.balance[i] \in 0 .. 2
        /\ s = 1 => u.balance[i] \in -2 .. 0
        /\ e2 = IF u.balance[i] = 0 THEN 0 ELSE 1
    BY <1>5 DEF TellIs
  <1>7. HEAD \in Y /\ Y \cup {HEAD} = Y /\ Shape(t, Y, pos, lo, hi)
    BY <1>6 DEF Fit, Shape, Stretches
  <1>8. p \in Y /\ d \in 0 .. 1 /\ t.child[p][d] = i /\ hi[i] - lo[i] < hi[p] - lo[p]
        /\ u.parent[i] = p /\ u.idx[i] = d /\ u.child[p][d] = i /\ i # NULL
    BY <1>1, <1>6, <1>7, ParentIs, NullIsNone DEF SameLinks, Shape, Stretches
  <1>9. CASE u.balance[i] = 0
    <2>1. u.balance[i] \in -1 .. 1 /\ e2 = 0
      BY <1>6, <1>9
    <2>2. Fit(u, Y, pos, lo, hi, high2, p, d, e2)
      BY <1>5, <2>1, TellRests
    <2>3. Fit(u, Y, pos, lo, hi, high2, HEAD, s, 1)
      BY <2>1, <2>2, FitDone
    <2> QED
      BY <1>2, <1>3, <1>6, <1>7, <1>9, <2>3 DEF Higher
  <1>10. CASE u.balance[i] \in {-1, 1}
    <2>1. u.balance[i] \in -1 .. 1 /\ e2 = 1 /\ u.balance[i] # 0
      BY <1>6, <1>10
    <2>2. R.tree = u /\ R.lower = 0
      BY <2>1, RebalanceRests DEF R
    <2>3. Fit(u, Y, pos, lo, hi, high2, p, d, 1)
      BY <1>5, <2>1, TellRests
    <2>4. GrewThere(u, high2, p, d)
      BY <1>8, <2>1 DEF GrewThere
    <2>5. GrownRound(x) = x3 /\ x3.tree = u /\ x3.at = p /\ x3.dir = d
      BY <1>2, <1>4, <1>8, <2>1, <2>2
    <2>6. InRound(Y, x3)
      BY <1>4, <1>8, <2>2
    <2> HIDE DEF p, d, e2
    <2> QED
      BY <1>6, <1>8, <2>3, <2>4, <2>5, <2>6 DEF Higher
  <1>11. CASE u.balance[i] \in {-2, 2}
    <2>1. e2 = 1 /\ u.balance[i] # 0 /\ u.balance[i] = IF 1 - s = 1 THEN 2 ELSE -2
      BY <1>1, <1>6, <1>11
    <2>2. Leaning(u, Y, pos, lo, hi, high2, i, e2)
      BY <1>5, TellLeans
    <2>3. 1 - s \in 0 .. 1 /\ 1 - (1 - s) = s
      BY <1>1
    <2> DEFINE o == 1 - s
    <2>4. LeansOver(u, i, o)
      BY <2>1 DEF LeansOver
    <2> HIDE DEF e2
    <2>5. e2 \in Int /\ o \in 0 .. 1
      BY <2>1, <2>3
    <2>6. /\ u.child[i][1 - o] \in Y \ {HEAD} /\ R.lower = u.balance[u.child[i][1 - o]]
          /\ Righted(u, R.tree, Y, pos, lo, hi, u.parent[i], u.idx[i],
                      e2 - (IF R.lower = 0 THEN 0 ELSE 1))
      <3> HIDE DEF o
      <3> QED
        BY <1>1, <2>2, <2>4, <2>5, RebalanceRights DEF R
    <2>7. R.lower # 0
      <3>1. u.child[i][s] = t.child[i][s] /\ u.child[i][s] \in Y \ {HEAD}
            /\ R.lower = u.balance[t.child[i][s]]
        BY <1>6, <2>3, <2>6 DEF SameLinks
      <3>2. t.child[i][s] # i /\ t.child[i][s] # NULL
        <4>1. t.child[i][s] # NULL
          BY DEF GrewThere
        <4>2. i \in Y /\ s \in 0 .. 1
          BY <1>1
        <4> HIDE DEF t, i, s
        <4> QED
          BY <1>7, <4>1, <4>2, ChildIs
      <3>3. R.lower = t.balance[t.child[i][s]]
        BY <1>6, <3>1, <3>2
      <3>4. high[t.child[i][s]] # 1
        <4>1. Deep(t, high, i, s) = high[t.child[i][s]]
          BY <3>2 DEF Deep
        <4>2. high \in [Y -> Nat \ {0}]
          BY DEF Fit, Leveled
        <4>3. Deep(t, high, i, 0) \in Nat /\ Deep(t, high, i, 1) \in Nat
          BY <1>1, <1>7, <4>2, DeepIsNat
        <4>4. s = 0 \/ s = 1
          BY <1>1
        <4> HIDE DEF t, i, s
        <4> QED
          BY <1>6, <1>11, <4>1, <4>3, <4>4
      <3> QED
        BY <3>3, <3>4 DEF GrewThere
    <2>8. PICK lo2, hi2, high3 : Fit(R.tree, Y, pos, lo2, hi2, high3, u.parent[i], u.idx[i], 0)
      BY <2>1, <2>6, <2>7 DEF Righted
    <2>9. Fit(R.tree, Y, pos, lo2, hi2, high3, HEAD, s, 1)
      BY <2>8, FitDone
    <2>10. SameRest(t, R.tree)
      BY <1>6, <2>6 DEF Righted, SameRest
    <2>11. GrownRound(x) = x2
      BY <1>2, <2>1, <2>7
    <2> QED
      BY <1>3, <1>7, <2>9, <2>10, <2>11 DEF Higher
  <1> QED
    <2>1. u.balance[i] \in 0 .. 2 \/ u.balance[i] \in -2 .. 0
      BY <1>1, <1>6
    <2> QED
      BY <1>9, <1>10, <1>11, <2>1

LEMMA ShrunkRoundKeeps ==
    ASSUME NEW x, NEW Y, NEW pos, NEW lo, NEW hi, NEW high, InRound(Y, x), x.at # HEAD,
           Fit(x.tree, Y, pos, lo, hi, high, x.at, x.dir, -1)
    PROVE  Lower(x.tree, Y, pos, hi[x.at] - lo[x.at], ShrunkRound(x))
  <1> DEFINE t == x.tree
  <1> DEFINE i == x.at
  <1> DEFINE s == x.dir
  <1> DEFINE u == SetBalance(t, i, Leant(t, i, s, -1))
  <1> DEFINE R == Rebalance(u, i)
  <1> DEFINE p == t.parent[i]
  <1> DEFINE d == t.idx[i]
  <1> DEFINE x2 == [x EXCEPT !.tree = R.tree, !.at = HEAD]
  <1> DEFINE x3 == [tree |-> R.tree, at |-> p, dir |-> d]
  <1>1. i \in Y \ {HEAD} /\ s \in 0 .. 1
    BY DEF InRound
  <1>2. ShrunkRound(x) = IF u.balance[i] # 0 /\ R.lower = 0 THEN x2 ELSE x3
    <2>1. Leant(t, i, s, -1) = t.balance[i] + (IF s = 1 THEN 1 ELSE -1)
      BY DEF Leant
    <2> QED
      BY <2>1 DEF ShrunkRound
  <1>3. x2.tree = R.tree /\ x2.at = HEAD /\ x2.dir = s /\ InRound(Y \cup {HEAD}, x2)
    BY DEF InRound
  <1>4. x3.tree = R.tree /\ x3.at = p /\ x3.dir = d
        /\ (p \in Y /\ d \in 0 .. 1 => InRound(Y, x3))
    <2> DEFINE rt == R.tree
    <2> HIDE DEF rt, p, d
    <2> DEFINE y == [tree |-> rt, at |-> p, dir |-> d]
    <2>1. p \in Y /\ d \in 0 .. 1 => y \in [tree : {rt}, at : Y, dir : 0 .. 1]
      OBVIOUS
    <2>2. y.tree = rt /\ y.at = p /\ y.dir = d
      OBVIOUS
    <2>3. x3 = y
      BY DEF rt
    <2> HIDE DEF y, x3
    <2>4. p \in Y /\ d \in 0 .. 1 => InRound(Y, y)
      BY <2>1 DEF InRound
    <2> QED
      BY <2>2, <2>3, <2>4 DEF rt
  <1> HIDE DEF x2, x3
  <1>5. PICK high2 : TellIs(t, u, Y, pos, lo, hi, high, i, s, -1, high2)
    <2> DEFINE e == -1
    <2>1. e \in {-1, 1} /\ e = -1
      OBVIOUS
    <2>2. Fit(t, Y, pos, lo, hi, high, i, s, e)
      OBVIOUS
    <2> HIDE DEF u, t, i, s, e
    <2>3. \E high2 : TellIs(t, SetBalance(t, i, Leant(t, i, s, e)), Y, pos, lo, hi, high, i, s, e, high2)
      BY <1>1, <2>1, <2>2, Telling
    <2> QED
      BY <2>3 DEF u, e
  <1> DEFINE e2 == high2[i] - high[i]
  <1> HIDE DEF u, R
  <1>6. /\ Typed(u) /\ SameLinks(t, u) /\ SameRest(t, u) /\ Shape(u, Y, pos, lo, hi)
        /\ s = 0 => u.balance[i] \in -2 .. 0
        /\ s = 1 => u.balance[i] \in 0 .. 2
        /\ e2 = IF u.balance[i] = 0 THEN -1 ELSE 0
    BY <1>5 DEF TellIs
  <1>7. HEAD \in Y /\ Y \cup {HEAD} = Y /\ Shape(t, Y, pos, lo, hi)
    BY <1>6 DEF Fit, Shape, Stretches
  <1>8. p \in Y /\ d \in 0 .. 1 /\ hi[i] - lo[i] < hi[p] - lo[p]
        /\ u.parent[i] = p /\ u.idx[i] = d
    BY <1>1, <1>6, <1>7, ParentIs DEF SameLinks
  <1>9. CASE u.balance[i] = 0
    <2>1. u.balance[i] \in -1 .. 1 /\ e2 = -1
      BY <1>6, <1>9
    <2>2. R.tree = u /\ R.lower = 0
      BY <2>1, RebalanceRests DEF R
    <2>3. Fit(u, Y, pos, lo, hi, high2, p, d, e2)
      BY <1>5, <2>1, TellRests
    <2>4. Fit(u, Y, pos, lo, hi, high2, p, d, -1)
      BY <2>1, <2>3
    <2>5. ShrunkRound(x) = x3 /\ x3.tree = u /\ x3.at = p /\ x3.dir = d /\ InRound(Y, x3)
      BY <1>2, <1>4, <1>8, <1>9, <2>2
    <2> HIDE DEF p, d, e2
    <2> QED
      BY <1>6, <1>8, <2>4, <2>5 DEF Lower
  <1>10. CASE u.balance[i] \in {-1, 1}
    <2>1. u.balance[i] \in -1 .. 1 /\ e2 = 0 /\ u.balance[i] # 0
      BY <1>6, <1>10
    <2>2. R.tree = u /\ R.lower = 0
      BY <2>1, RebalanceRests DEF R
    <2>3. Fit(u, Y, pos, lo, hi, high2, p, d, e2)
      BY <1>5, <2>1, TellRests
    <2>4. Fit(u, Y, pos, lo, hi, high2, HEAD, s, -1)
      BY <2>1, <2>3, FitDone
    <2>5. ShrunkRound(x) = x2
      BY <1>2, <2>1, <2>2
    <2> HIDE DEF p, d, e2
    <2> QED
      BY <1>3, <1>6, <1>7, <2>2, <2>4, <2>5 DEF Lower
  <1>11. CASE u.balance[i] \in {-2, 2}
    <2>1. e2 = 0 /\ u.balance[i] # 0 /\ u.balance[i] = IF s = 1 THEN 2 ELSE -2
      BY <1>1, <1>6, <1>11
    <2>2. Leaning(u, Y, pos, lo, hi, high2, i, e2)
      <3> HIDE DEF t, i, s, u
      <3> QED
        BY <1>5, TellLeans DEF t, i, s
    <2>3. LeansOver(u, i, s)
      BY <2>1 DEF LeansOver
    <2> HIDE DEF e2
    <2>4. e2 \in Int
      BY <2>1
    <2>5. Righted(u, R.tree, Y, pos, lo, hi, u.parent[i], u.idx[i],
                  e2 - (IF R.lower = 0 THEN 0 ELSE 1))
      BY <1>1, <2>2, <2>3, <2>4, RebalanceRights DEF R
    <2>6. SameRest(t, R.tree)
      BY <1>6, <2>5 DEF Righted, SameRest
    <2>7. CASE R.lower = 0
      <3>1. PICK lo2, hi2, high3 : Fit(R.tree, Y, pos, lo2, hi2, high3, u.parent[i], u.idx[i], 0)
        BY <2>1, <2>5, <2>7 DEF Righted
      <3>2. Fit(R.tree, Y, pos, lo2, hi2, high3, HEAD, s, -1)
        BY <3>1, FitDone
      <3>3. ShrunkRound(x) = x2
        BY <1>2, <2>1, <2>7
      <3> QED
        BY <1>3, <1>7, <2>6, <3>2, <3>3 DEF Lower
    <2>8. CASE R.lower # 0
      <3>1. PICK lo2, hi2, high3 :
               /\ Fit(R.tree, Y, pos, lo2, hi2, high3, u.parent[i], u.idx[i], -1)
               /\ lo2[u.parent[i]] = lo[u.parent[i]] /\ hi2[u.parent[i]] = hi[u.parent[i]]
        BY <2>1, <2>5, <2>8 DEF Righted
      <3>2. ShrunkRound(x) = x3 /\ x3.tree = R.tree /\ x3.at = p /\ x3.dir = d /\ InRound(Y, x3)
        BY <1>2, <1>4, <1>8, <2>8
      <3>3. Fit(R.tree, Y, pos, lo2, hi2, high3, p, d, -1)
        BY <1>8, <3>1
      <3>4. hi2[p] - lo2[p] > hi[i] - lo[i]
        <4>1. hi2[p] = hi[p] /\ lo2[p] = lo[p]
          BY <1>8, <3>1
        <4>2. hi[p] \in Nat /\ lo[p] \in Nat /\ hi[i] \in Nat /\ lo[i] \in Nat
          BY <1>1, <1>7, <1>8 DEF Shape, Stretches
        <4> HIDE DEF p, i
        <4> QED
          BY <1>8, <4>1, <4>2
      <3> HIDE DEF p, d
      <3> QED
        BY <2>6, <3>2, <3>3, <3>4 DEF Lower
    <2> QED
      BY <2>7, <2>8
  <1> QED
    <2>1. u.balance[i] \in 0 .. 2 \/ u.balance[i] \in -2 .. 0
      BY <1>1, <1>6
    <2> QED
      BY <1>9, <1>10, <1>11, <2>1

GrowStep(a, x, k) == GrownRound(x)
GrowGood(a, k, x) == Higher(a.tree, a.in, a.pos, k - 1, x)
GrowLoop == INSTANCE FoldFacts WITH Step <- GrowStep, Sel <- ByMax, Good <- GrowGood

ShrinkStep(a, x, k) == ShrunkRound(x)
ShrinkGood(a, k, x) == Lower(a.tree, a.in, a.pos, k - 1, x)
ShrinkLoop == INSTANCE FoldFacts WITH Step <- ShrinkStep, Sel <- ByMax, Good <- ShrinkGood

(* A tree as it is between two calls, its places given.                    *)
Whole(t, Y, pos) == \E lo, hi, high : Fit(t, Y, pos, lo, hi, high, HEAD, 0, 0)

LEMMA WideIsTop ==
    ASSUME NEW Y, NEW pos, NEW lo, NEW hi, Stretches(Y, pos, lo, hi), NEW m \in Y \ {HEAD}
    PROVE  hi[m] - lo[m] < Rounds /\ hi[m] - lo[m] \in Nat
  <1>1. Rounds \in Nat /\ pos[HEAD] \in 1 .. (Rounds + 1)
    BY StretchesFit
  <1>2. lo[m] \in Nat /\ hi[m] \in Nat /\ hi[m] < pos[HEAD] /\ 1 <= lo[m] /\ lo[m] <= hi[m]
    BY DEF Stretches
  <1> QED
    BY <1>1, <1>2

LEMMA GrownIs ==
    ASSUME NEW t, NEW Y, NEW pos, NEW lo, NEW hi, NEW high, NEW i \in Y, NEW s \in 0 .. 1,
           Fit(t, Y, pos, lo, hi, high, i, s, 1), GrewThere(t, high, i, s)
    PROVE  SameRest(t, Grown(t, i, s)) /\ Whole(Grown(t, i, s), Y, pos)
  <1> DEFINE a == [tree |-> t, in |-> Y, pos |-> pos]
  <1> DEFINE b == [tree |-> t, at |-> i, dir |-> s]
  <1>1. a.tree = t /\ a.in = Y /\ a.pos = pos
    OBVIOUS
  <1>2. b.tree = t /\ b.at = i /\ b.dir = s /\ b \in [tree : {t}, at : Y, dir : 0 .. 1]
    OBVIOUS
  <1>3. Grown(t, i, s) = GrowLoop!Loop(a, b, Rounds).tree
    BY DEF Grown, Repeat, GrowLoop!Loop, GrowLoop!IsLoop, GrowStep
  <1> HIDE DEF a, b
  <1>4. Shape(t, Y, pos, lo, hi) /\ Stretches(Y, pos, lo, hi)
    BY DEF Fit, Shape
  <1>5. Rounds \in Nat
    BY <1>4, StretchesFit
  <1>6. GrowGood(a, 0, b)
    <2>1. i = HEAD \/ hi[i] - lo[i] > 0 - 1
      <3>1. i # HEAD => hi[i] - lo[i] \in Nat
        BY <1>4, WideIsTop
      <3> DEFINE w == hi[i] - lo[i]
      <3> HIDE DEF w
      <3>2. w \in Nat => w > 0 - 1
        OBVIOUS
      <3> QED
        BY <3>1, <3>2 DEF w
    <2>2. SameRest(t, t) /\ InRound(Y, b)
      BY <1>2 DEF SameRest, InRound
    <2> QED
      BY <1>1, <1>2, <2>1, <2>2 DEF GrowGood, Higher
  <1>7. \A k \in 1 .. Rounds : \A x : GrowGood(a, k - 1, x) => GrowGood(a, k, GrowStep(a, x, k))
    <2> SUFFICES ASSUME NEW k \in 1 .. Rounds, NEW x, GrowGood(a, k - 1, x)
                 PROVE  GrowGood(a, k, GrownRound(x))
      BY DEF GrowStep
    <2>1. SameRest(t, x.tree) /\ InRound(Y, x)
      BY <1>1 DEF GrowGood, Higher
    <2>2. PICK lo1, hi1, high1 :
             /\ Fit(x.tree, Y, pos, lo1, hi1, high1, x.at, x.dir, 1)
             /\ x.at = HEAD \/ /\ hi1[x.at] - lo1[x.at] > k - 1 - 1
                               /\ GrewThere(x.tree, high1, x.at, x.dir)
      BY <1>1 DEF GrowGood, Higher
    <2>3. CASE x.at = HEAD
      <3>1. GrownRound(x) = x
        BY <2>3 DEF GrownRound
      <3> QED
        BY <1>1, <2>1, <2>2, <2>3, <3>1 DEF GrowGood, Higher
    <2>4. CASE x.at # HEAD
      <3> DEFINE y == GrownRound(x)
      <3> DEFINE w == hi1[x.at] - lo1[x.at]
      <3>1. Higher(x.tree, Y, pos, w, y)
        BY <2>1, <2>2, <2>4, GrownRoundKeeps
      <3>2. w \in Nat /\ w >= k - 1
        <4>1. x.at \in Y \ {HEAD} /\ Stretches(Y, pos, lo1, hi1)
          BY <2>1, <2>2, <2>4 DEF InRound, Fit, Shape
        <4>2. w \in Nat
          BY <4>1, WideIsTop
        <4>3. w > k - 1 - 1
          BY <2>2, <2>4
        <4> HIDE DEF w
        <4> QED
          BY <1>5, <4>2, <4>3
      <3> HIDE DEF w, y
      <3>3. PICK lo2, hi2, high2 :
               /\ Fit(y.tree, Y, pos, lo2, hi2, high2, y.at, y.dir, 1)
               /\ y.at = HEAD \/ /\ hi2[y.at] - lo2[y.at] > w
                                 /\ GrewThere(y.tree, high2, y.at, y.dir)
        BY <3>1 DEF Higher
      <3>4. SameRest(t, y.tree) /\ InRound(Y, y)
        BY <2>1, <3>1 DEF Higher, SameRest
      <3>5. y.at # HEAD => hi2[y.at] - lo2[y.at] > k - 1
        <4> DEFINE w2 == hi2[y.at] - lo2[y.at]
        <4>1. y.at # HEAD => w2 \in Nat
          BY <3>3, <3>4, WideIsTop DEF InRound, Fit, Shape
        <4>2. y.at # HEAD => w2 > w
          BY <3>3
        <4> HIDE DEF w2
        <4>3. y.at # HEAD => w2 > k - 1
          BY <3>2, <4>1, <4>2
        <4> QED
          BY <4>3 DEF w2
      <3>6. Higher(t, Y, pos, k - 1, y)
        BY <3>3, <3>4, <3>5 DEF Higher
      <3> QED
        BY <1>1, <3>6 DEF GrowGood, y
    <2> QED
      BY <2>3, <2>4
  <1>8. GrowGood(a, Rounds, GrowLoop!Loop(a, b, Rounds))
    BY <1>5, <1>6, <1>7, GrowLoop!LoopGood
  <1> DEFINE z == GrowLoop!Loop(a, b, Rounds)
  <1>9. SameRest(t, z.tree) /\ InRound(Y, z)
    BY <1>1, <1>8 DEF GrowGood, Higher
  <1>10. PICK lo2, hi2, high2 :
            /\ Fit(z.tree, Y, pos, lo2, hi2, high2, z.at, z.dir, 1)
            /\ z.at = HEAD \/ hi2[z.at] - lo2[z.at] > Rounds - 1
    BY <1>1, <1>8 DEF GrowGood, Higher
  <1> HIDE DEF z
  <1>11. z.at = HEAD
    <2> SUFFICES ASSUME z.at # HEAD PROVE FALSE
      OBVIOUS
    <2> DEFINE w == hi2[z.at] - lo2[z.at]
    <2>1. w \in Nat /\ w < Rounds
      BY <1>9, <1>10, WideIsTop DEF InRound, Fit, Shape
    <2>2. w > Rounds - 1
      BY <1>10
    <2> HIDE DEF w
    <2> QED
      BY <1>5, <2>1, <2>2
  <1>12. Fit(z.tree, Y, pos, lo2, hi2, high2, HEAD, 0, 0)
    <2>1. \A m \in Y \ {HEAD} : Level(z.tree, high2, HEAD, z.dir, 1, m)
                                => Level(z.tree, high2, HEAD, 0, 0, m)
      BY DEF Level, Seen
    <2> QED
      BY <1>10, <1>11, <2>1 DEF Fit, Leveled
  <1> QED
    BY <1>3, <1>9, <1>12 DEF z, Whole

LEMMA ShrunkIs ==
    ASSUME NEW t, NEW Y, NEW pos, NEW lo, NEW hi, NEW high, NEW i \in Y, NEW s \in 0 .. 1,
           Fit(t, Y, pos, lo, hi, high, i, s, -1)
    PROVE  SameRest(t, Shrunk(t, i, s)) /\ Whole(Shrunk(t, i, s), Y, pos)
  <1> DEFINE a == [tree |-> t, in |-> Y, pos |-> pos]
  <1> DEFINE b == [tree |-> t, at |-> i, dir |-> s]
  <1>1. a.tree = t /\ a.in = Y /\ a.pos = pos
    OBVIOUS
  <1>2. b.tree = t /\ b.at = i /\ b.dir = s /\ b \in [tree : {t}, at : Y, dir : 0 .. 1]
    OBVIOUS
  <1>3. Shrunk(t, i, s) = ShrinkLoop!Loop(a, b, Rounds).tree
    BY DEF Shrunk, Repeat, ShrinkLoop!Loop, ShrinkLoop!IsLoop, ShrinkStep
  <1> HIDE DEF a, b
  <1>4. Shape(t, Y, pos, lo, hi) /\ Stretches(Y, pos, lo, hi)
    BY DEF Fit, Shape
  <1>5. Rounds \in Nat
    BY <1>4, StretchesFit
  <1>6. ShrinkGood(a, 0, b)
    <2>1. i = HEAD \/ hi[i] - lo[i] > 0 - 1
      <3>1. i # HEAD => hi[i] - lo[i] \in Nat
        BY <1>4, WideIsTop
      <3> DEFINE w == hi[i] - lo[i]
      <3> HIDE DEF w
      <3>2. w \in Nat => w > 0 - 1
        OBVIOUS
      <3> QED
        BY <3>1, <3>2 DEF w
    <2>2. SameRest(t, t) /\ InRound(Y, b)
      BY <1>2 DEF SameRest, InRound
    <2> QED
      BY <1>1, <1>2, <2>1, <2>2 DEF ShrinkGood, Lower
  <1>7. \A k \in 1 .. Rounds : \A x : ShrinkGood(a, k - 1, x) => ShrinkGood(a, k, ShrinkStep(a, x, k))
    <2> SUFFICES ASSUME NEW k \in 1 .. Rounds, NEW x, ShrinkGood(a, k - 1, x)
                 PROVE  ShrinkGood(a, k, ShrunkRound(x))
      BY DEF ShrinkStep
    <2>1. SameRest(t, x.tree) /\ InRound(Y, x)
      BY <1>1 DEF ShrinkGood, Lower
    <2>2. PICK lo1, hi1, high1 :
             /\ Fit(x.tree, Y, pos, lo1, hi1, high1, x.at, x.dir, -1)
             /\ x.at = HEAD \/ hi1[x.at] - lo1[x.at] > k - 1 - 1
      BY <1>1 DEF ShrinkGood, Lower
    <2>3. CASE x.at = HEAD
      <3>1. ShrunkRound(x) = x
        BY <2>3 DEF ShrunkRound
      <3> QED
        BY <1>1, <2>1, <2>2, <2>3, <3>1 DEF ShrinkGood, Lower
    <2>4. CASE x.at # HEAD
      <3> DEFINE y == ShrunkRound(x)
      <3> DEFINE w == hi1[x.at] - lo1[x.at]
      <3>1. Lower(x.tree, Y, pos, w, y)
        BY <2>1, <2>2, <2>4, ShrunkRoundKeeps
      <3>2. w \in Nat /\ w >= k - 1
        <4>1. x.at \in Y \ {HEAD} /\ Stretches(Y, pos, lo1, hi1)
          BY <2>1, <2>2, <2>4 DEF InRound, Fit, Shape
        <4>2. w \in Nat
          BY <4>1, WideIsTop
        <4>3. w > k - 1 - 1
          BY <2>2, <2>4
        <4> HIDE DEF w
        <4> QED
          BY <1>5, <4>2, <4>3
      <3> HIDE DEF w, y
      <3>3. PICK lo2, hi2, high2 :
               /\ Fit(y.tree, Y, pos, lo2, hi2, high2, y.at, y.dir, -1)
               /\ y.at = HEAD \/ hi2[y.at] - lo2[y.at] > w
        BY <3>1 DEF Lower
      <3>4. SameRest(t, y.tree) /\ InRound(Y, y)
        BY <2>1, <3>1 DEF Lower, SameRest
      <3>5. y.at # HEAD => hi2[y.at] - lo2[y.at] > k - 1
        <4> DEFINE w2 == hi2[y.at] - lo2[y.at]
        <4>1. y.at # HEAD => w2 \in Nat
          BY <3>3, <3>4, WideIsTop DEF InRound, Fit, Shape
        <4>2. y.at # HEAD => w2 > w
          BY <3>3
        <4> HIDE DEF w2
        <4>3. y.at # HEAD => w2 > k - 1
          BY <3>2, <4>1, <4>2
        <4> QED
          BY <4>3 DEF w2
      <3>6. Lower(t, Y, pos, k - 1, y)
        BY <3>3, <3>4, <3>5 DEF Lower
      <3> QED
        BY <1>1, <3>6 DEF ShrinkGood, y
    <2> QED
      BY <2>3, <2>4
  <1>8. ShrinkGood(a, Rounds, ShrinkLoop!Loop(a, b, Rounds))
    BY <1>5, <1>6, <1>7, ShrinkLoop!LoopGood
  <1> DEFINE z == ShrinkLoop!Loop(a, b, Rounds)
  <1>9. SameRest(t, z.tree) /\ InRound(Y, z)
    BY <1>1, <1>8 DEF ShrinkGood, Lower
  <1>10. PICK lo2, hi2, high2 :
            /\ Fit(z.tree, Y, pos, lo2, hi2, high2, z.at, z.dir, -1)
            /\ z.at = HEAD \/ hi2[z.at] - lo2[z.at] > Rounds - 1
    BY <1>1, <1>8 DEF ShrinkGood, Lower
  <1> HIDE DEF z
  <1>11. z.at = HEAD
    <2> SUFFICES ASSUME z.at # HEAD PROVE FALSE
      OBVIOUS
    <2> DEFINE w == hi2[z.at] - lo2[z.at]
    <2>1. w \in Nat /\ w < Rounds
      BY <1>9, <1>10, WideIsTop DEF InRound, Fit, Shape
    <2>2. w > Rounds - 1
      BY <1>10
    <2> HIDE DEF w
    <2> QED
      BY <1>5, <2>1, <2>2
  <1>12. Fit(z.tree, Y, pos, lo2, hi2, high2, HEAD, 0, 0)
    <2>1. \A m \in Y \ {HEAD} : Level(z.tree, high2, HEAD, z.dir, -1, m)
                                => Level(z.tree, high2, HEAD, 0, 0, m)
      BY DEF Level, Seen
    <2> QED
      BY <1>10, <1>11, <2>1 DEF Fit, Leveled
  <1> QED
    BY <1>3, <1>9, <1>12 DEF z, Whole

-----------------------------------------------------------------------------
(* A new leaf n below a on side s: it takes place q, k being a's place.    *)
LeafLinks(t, u, Y, a, s, n) ==
    /\ \A m \in Y : \A d \in 0 .. 1 :
          u.child[m][d] = IF m = a /\ d = s THEN n ELSE t.child[m][d]
    /\ u.child[n][0] = NULL /\ u.child[n][1] = NULL
    /\ \A m \in Y : u.parent[m] = t.parent[m] /\ u.idx[m] = t.idx[m]
    /\ u.parent[n] = a /\ u.idx[n] = s

LeafPos(Y, pos, n, q) ==
    [m \in Y \cup {n} |-> IF m = n THEN q ELSE IF pos[m] >= q THEN pos[m] + 1 ELSE pos[m]]
LeafLo(Y, lo, n, q, k) ==
    [m \in Y \cup {n} |-> IF m = n THEN q ELSE IF lo[m] > k THEN lo[m] + 1 ELSE lo[m]]
LeafHi(Y, hi, n, q, k) ==
    [m \in Y \cup {n} |-> IF m = n THEN q ELSE IF hi[m] >= k THEN hi[m] + 1 ELSE hi[m]]

LEMMA ShapeLeaf ==
    ASSUME NEW t, NEW Y, NEW pos, NEW lo, NEW hi, Shape(t, Y, pos, lo, hi),
           NEW u, NEW n \in Node, n \notin Y, NEW a \in Y, NEW s \in 0 .. 1, t.child[a][s] = NULL,
           a = HEAD => s = 0, LeafLinks(t, u, Y, a, s, n)
    PROVE  /\ Shape(u, Y \cup {n}, LeafPos(Y, pos, n, FirstPlace(pos, lo, a, s)),
                    LeafLo(Y, lo, n, FirstPlace(pos, lo, a, s), pos[a]),
                    LeafHi(Y, hi, n, FirstPlace(pos, lo, a, s), pos[a]))
           /\ FirstPlace(pos, lo, a, s) = IF s = 0 THEN pos[a] ELSE pos[a] + 1
  <1> DEFINE q == FirstPlace(pos, lo, a, s)
  <1> DEFINE k == pos[a]
  <1> DEFINE Z == Y \cup {n}
  <1> DEFINE pos2 == LeafPos(Y, pos, n, q)
  <1> DEFINE lo2 == LeafLo(Y, lo, n, q, k)
  <1> DEFINE hi2 == LeafHi(Y, hi, n, q, k)
  <1>1. Stretches(Y, pos, lo, hi) /\ Down(t, Y, pos, lo, hi) /\ Up(t, Y)
    BY DEF Shape
  <1>2. /\ HEAD \in Y /\ Y \subseteq Cell /\ NULL \notin Z /\ n # HEAD /\ n # NULL /\ Z \subseteq Cell
        /\ Z \ {HEAD} = (Y \ {HEAD}) \cup {n}
    BY <1>1, NullIsNone, HeadAssumption DEF Stretches, Cell
  <1>3. \A m \in Y : /\ pos[m] \in Nat /\ lo[m] \in Nat /\ hi[m] \in Nat /\ 1 <= lo[m]
                     /\ lo[m] <= pos[m] /\ pos[m] <= hi[m] /\ (pos[m] = k => m = a)
                     /\ hi[m] <= pos[HEAD] /\ (m # HEAD => hi[m] < pos[HEAD])
    <2>1. lo[HEAD] = 1 /\ hi[HEAD] = pos[HEAD]
      BY <1>1 DEF Stretches
    <2>2. \A m \in Y : (m # HEAD => hi[m] < pos[HEAD]) /\ hi[m] \in Nat /\ pos[m] \in Nat
      BY <1>1 DEF Stretches
    <2>3. \A m \in Y : hi[m] <= pos[HEAD]
      BY <1>2, <2>1, <2>2
    <2> QED
      BY <1>1, <2>2, <2>3 DEF Stretches
  <1>4. (s = 0 => q = k /\ lo[a] = k) /\ (s = 1 => q = k + 1 /\ hi[a] = k)
    <2>1. q = LastPlace(pos, hi, a, s) + 1
      BY <1>1 DEF Down, Hung
    <2>2. pos[a] \in Nat /\ lo[a] \in Nat /\ hi[a] \in Nat
      BY <1>3
    <2>3. (s = 0 => q = lo[a]) /\ (s = 1 => q = pos[a] + 1)
      BY DEF FirstPlace
    <2>4. (s = 0 => LastPlace(pos, hi, a, s) = pos[a] - 1) /\ (s = 1 => LastPlace(pos, hi, a, s) = hi[a])
      BY DEF LastPlace
    <2> HIDE DEF q, k
    <2> QED
      BY <2>1, <2>2, <2>3, <2>4 DEF k
  <1>5. /\ \A m \in Y : /\ pos2[m] = IF pos[m] >= q THEN pos[m] + 1 ELSE pos[m]
                        /\ lo2[m] = IF lo[m] > k THEN lo[m] + 1 ELSE lo[m]
                        /\ hi2[m] = IF hi[m] >= k THEN hi[m] + 1 ELSE hi[m]
        /\ pos2[n] = q /\ lo2[n] = q /\ hi2[n] = q
    BY DEF LeafPos, LeafLo, LeafHi
  <1>6. /\ pos2 = [m \in Z |-> pos2[m]] /\ lo2 = [m \in Z |-> lo2[m]] /\ hi2 = [m \in Z |-> hi2[m]]
    BY DEF LeafPos, LeafLo, LeafHi
  <1>7. k \in Nat /\ 1 <= k /\ k <= pos[HEAD] /\ q \in Nat /\ 1 <= q /\ q <= pos[HEAD]
        /\ pos[HEAD] \in Nat /\ (s = 0 \/ s = 1) /\ (s = 1 => k < pos[HEAD])
    <2>1. k \in Nat /\ 1 <= lo[a] /\ lo[a] <= k /\ k <= hi[a] /\ hi[a] <= pos[HEAD]
          /\ hi[a] \in Nat /\ lo[a] \in Nat /\ pos[HEAD] \in Nat
      BY <1>2, <1>3
    <2>2. s = 1 => hi[a] < pos[HEAD]
      BY <1>3
    <2> HIDE DEF q, k
    <2> QED
      BY <1>4, <2>1, <2>2
  <1> HIDE DEF pos2, lo2, hi2, q, k
  <1>8. Stretches(Z, pos2, lo2, hi2)
    <2>1. \A m \in Z : /\ pos2[m] \in Nat /\ lo2[m] \in Nat /\ hi2[m] \in Nat /\ 1 <= lo2[m]
                       /\ lo2[m] <= pos2[m] /\ pos2[m] <= hi2[m]
      <3>1. CASE s = 0
        BY <1>3, <1>4, <1>5, <1>7, <3>1
      <3>2. CASE s = 1
        BY <1>3, <1>4, <1>5, <1>7, <3>2
      <3> QED
        BY <3>1, <3>2
    <2>2. pos2 \in [Z -> Nat] /\ lo2 \in [Z -> Nat] /\ hi2 \in [Z -> Nat]
      BY <1>6, <2>1
    <2>3. pos2[HEAD] = pos[HEAD] + 1 /\ lo2[HEAD] = 1 /\ hi2[HEAD] = pos[HEAD] + 1
      BY <1>1, <1>2, <1>3, <1>5, <1>7 DEF Stretches
    <2>4. \A m \in Z \ {HEAD} : hi2[m] < pos2[HEAD]
      BY <1>2, <1>3, <1>5, <1>7, <2>3
    <2>5. \A m, l \in Z : pos2[m] = pos2[l] => m = l
      <3>1. \A m, l \in Y : pos[m] = pos[l] => m = l
        BY <1>1 DEF Stretches
      <3>2. \A m, l \in Y : pos2[m] = pos2[l] => pos[m] = pos[l]
        BY <1>3, <1>5, <1>7
      <3>3. \A m \in Y : pos2[m] # q
        BY <1>3, <1>5, <1>7
      <3> QED
        BY <1>5, <3>1, <3>2, <3>3
    <2>6. \A j \in 1 .. pos2[HEAD] : \E m \in Z : pos2[m] = j
      <3> SUFFICES ASSUME NEW j \in 1 .. pos2[HEAD] PROVE \E m \in Z : pos2[m] = j
        OBVIOUS
      <3>1. \A j2 \in 1 .. pos[HEAD] : \E m \in Y : pos[m] = j2
        BY <1>1 DEF Stretches
      <3>2. CASE j < q
        <4>1. j \in 1 .. pos[HEAD]
          BY <1>7, <2>3, <3>2
        <4>2. PICK m \in Y : pos[m] = j
          BY <3>1, <4>1
        <4>3. pos2[m] = j
          BY <1>5, <1>7, <3>2, <4>2
        <4> QED
          BY <4>3
      <3>3. CASE j = q
        BY <1>5, <3>3
      <3>4. CASE j > q
        <4>1. j - 1 \in 1 .. pos[HEAD] /\ j - 1 >= q
          BY <1>7, <2>3, <3>4
        <4>2. PICK m \in Y : pos[m] = j - 1
          BY <3>1, <4>1
        <4>3. pos2[m] = j
          BY <1>5, <1>7, <4>1, <4>2
        <4> QED
          BY <4>3
      <3> QED
        BY <1>7, <2>3, <3>2, <3>3, <3>4
    <2> QED
      BY <1>2, <2>1, <2>2, <2>3, <2>4, <2>5, <2>6 DEF Stretches
  <1>9. ASSUME NEW m \in Z, NEW d \in 0 .. 1 PROVE Hung(u, Z, pos2, lo2, hi2, m, d)
    <2>1. CASE m = n
      <3>1. u.child[m][d] = NULL
        BY <2>1 DEF LeafLinks
      <3>2. FirstPlace(pos2, lo2, m, d) = LastPlace(pos2, hi2, m, d) + 1
        BY <1>5, <1>7, <2>1 DEF FirstPlace, LastPlace
      <3> QED
        BY <3>1, <3>2 DEF Hung
    <2>2. CASE m = a /\ d = s
      <3>1. u.child[m][d] = n /\ u.parent[n] = m /\ u.idx[n] = d
        BY <2>2 DEF LeafLinks
      <3>2. lo[a] \in Nat /\ hi[a] \in Nat /\ pos[a] = k /\ lo[a] <= k /\ k <= hi[a]
        BY <1>3 DEF k
      <3>3. lo2[n] = FirstPlace(pos2, lo2, m, d) /\ hi2[n] = LastPlace(pos2, hi2, m, d)
        <4>1. CASE s = 0
          BY <1>4, <1>5, <1>7, <2>2, <3>2, <4>1 DEF FirstPlace, LastPlace
        <4>2. CASE s = 1
          BY <1>4, <1>5, <1>7, <2>2, <3>2, <4>2 DEF FirstPlace, LastPlace
        <4> QED
          BY <4>1, <4>2
      <3> QED
        BY <1>2, <3>1, <3>3 DEF Hung
    <2>3. CASE m # n /\ ~(m = a /\ d = s)
      <3> DEFINE c == t.child[m][d]
      <3>1. m \in Y /\ u.child[m][d] = c
        BY <2>3 DEF LeafLinks
      <3>2. Hung(t, Y, pos, lo, hi, m, d)
        BY <1>1, <3>1 DEF Down
      <3>3. /\ pos[m] \in Nat /\ lo[m] \in Nat /\ hi[m] \in Nat /\ 1 <= lo[m]
            /\ lo[m] <= pos[m] /\ pos[m] <= hi[m] /\ (pos[m] = k => m = a)
        BY <1>3, <3>1
      <3>4. /\ pos2[m] = IF pos[m] >= q THEN pos[m] + 1 ELSE pos[m]
            /\ lo2[m] = IF lo[m] > k THEN lo[m] + 1 ELSE lo[m]
            /\ hi2[m] = IF hi[m] >= k THEN hi[m] + 1 ELSE hi[m]
        BY <1>5, <3>1
      <3>5. pos[a] = k
        BY DEF k
      <3>6. CASE c = NULL
        <4>1. FirstPlace(pos, lo, m, d) = LastPlace(pos, hi, m, d) + 1
          BY <3>2, <3>6 DEF Hung
        <4>2. FirstPlace(pos2, lo2, m, d) = LastPlace(pos2, hi2, m, d) + 1
          <5>1. CASE d = 0
            BY <1>4, <1>7, <2>3, <3>3, <3>4, <3>5, <4>1, <5>1 DEF FirstPlace, LastPlace
          <5>2. CASE d = 1
            BY <1>4, <1>7, <2>3, <3>3, <3>4, <3>5, <4>1, <5>2 DEF FirstPlace, LastPlace
          <5> QED
            BY <5>1, <5>2
        <4> QED
          BY <3>1, <3>6, <4>2 DEF Hung
      <3>7. CASE c # NULL
        <4>1. /\ c \in Y \ {HEAD} /\ t.parent[c] = m /\ t.idx[c] = d
              /\ lo[c] = FirstPlace(pos, lo, m, d) /\ hi[c] = LastPlace(pos, hi, m, d)
          BY <3>2, <3>7 DEF Hung
        <4> HIDE DEF c
        <4>2. u.parent[c] = m /\ u.idx[c] = d
          BY <4>1 DEF LeafLinks
        <4>3. /\ lo[c] \in Nat /\ hi[c] \in Nat
              /\ lo2[c] = IF lo[c] > k THEN lo[c] + 1 ELSE lo[c]
              /\ hi2[c] = IF hi[c] >= k THEN hi[c] + 1 ELSE hi[c]
          BY <1>3, <1>5, <4>1
        <4>4. lo2[c] = FirstPlace(pos2, lo2, m, d) /\ hi2[c] = LastPlace(pos2, hi2, m, d)
          <5>1. CASE d = 0
            BY <1>4, <1>7, <2>3, <3>3, <3>4, <3>5, <4>1, <4>3, <5>1 DEF FirstPlace, LastPlace
          <5>2. CASE d = 1
            BY <1>4, <1>7, <2>3, <3>3, <3>4, <3>5, <4>1, <4>3, <5>2 DEF FirstPlace, LastPlace
          <5> QED
            BY <5>1, <5>2
        <4> QED
          BY <3>1, <3>7, <4>1, <4>2, <4>4 DEF Hung
      <3> QED
        BY <3>6, <3>7
    <2> QED
      BY <2>1, <2>2, <2>3
  <1>10. Up(u, Z)
    <2>1. u.parent[HEAD] = HEAD /\ u.idx[HEAD] = 0
      BY <1>1, <1>2 DEF LeafLinks, Up
    <2>2. ASSUME NEW m \in Z \ {HEAD}
          PROVE  u.parent[m] \in Z /\ u.idx[m] \in 0 .. 1 /\ u.child[u.parent[m]][u.idx[m]] = m
      <3>1. CASE m = n
        BY <3>1 DEF LeafLinks
      <3>2. CASE m # n
        <4>1. /\ m \in Y \ {HEAD} /\ t.parent[m] \in Y /\ t.idx[m] \in 0 .. 1
              /\ t.child[t.parent[m]][t.idx[m]] = m
          BY <1>1, <3>2 DEF Up
        <4>2. u.parent[m] = t.parent[m] /\ u.idx[m] = t.idx[m]
          BY <4>1 DEF LeafLinks
        <4>3. ~(t.parent[m] = a /\ t.idx[m] = s)
          BY <1>2, <4>1
        <4> QED
          BY <4>1, <4>2, <4>3 DEF LeafLinks
      <3> QED
        BY <3>1, <3>2
    <2> QED
      BY <2>1, <2>2 DEF Up
  <1>11. Shape(u, Z, pos2, lo2, hi2)
    BY <1>8, <1>9, <1>10 DEF Shape, Down
  <1>12. q = IF s = 0 THEN k ELSE k + 1
    BY <1>4, <1>7
  <1> QED
    BY <1>11, <1>12 DEF pos2, lo2, hi2, q, k

-----------------------------------------------------------------------------
(* note_cmp is a total preorder.                                           *)
Notes == [on : Nat, off : Nat, midipitch : Nat]

LEMMA CmpIs ==
    ASSUME NEW a \in Notes, NEW b \in Notes
    PROVE  Cmp(a, b) \in Int /\ (Cmp(a, b) >= 0 <=> Cmp(b, a) <= 0) /\ Cmp(a, a) = 0
           /\ (Cmp(a, b) > 0 <=> Cmp(b, a) < 0)
  BY DEF Cmp, Notes

LEMMA CmpChain ==
    ASSUME NEW a \in Notes, NEW b \in Notes, NEW c \in Notes, Cmp(a, b) <= 0
    PROVE  Cmp(b, c) <= 0 => Cmp(a, c) <= 0
  BY DEF Cmp, Notes

LEMMA CmpRight ==
    ASSUME NEW a \in Notes, NEW b \in Notes, NEW c \in Notes, Cmp(a, b) <= 0
    PROVE  Cmp(c, b) >= 0 => Cmp(c, a) >= 0
  BY DEF Cmp, Notes

Sorted(t, Y, pos) ==
    \A m, l \in Y \ {HEAD} : pos[m] < pos[l] => Cmp(t.data[m], t.data[l]) <= 0

Dated(t, Y) == \A m \in Y \ {HEAD} : t.data[m] \in Notes

-----------------------------------------------------------------------------
(* Where a new node goes: the slot left empty between the nodes that       *)
(* compare less or equal and the others.                                   *)
Between(t, Y, pos, lo, hi, n, x) ==
    /\ x.at \in Y /\ x.dir \in 0 .. 1 /\ (x.at = HEAD => x.dir = 0)
    /\ \A m \in Y \ {HEAD} :
          /\ pos[m] < FirstPlace(pos, lo, x.at, x.dir) => GoesRight(t, n, m)
          /\ pos[m] > LastPlace(pos, hi, x.at, x.dir) => ~GoesRight(t, n, m)

PlaceStep(a, x, k) == PlaceRound(a.tree, a.node, x)

PlaceGood(a, k, x) ==
    /\ Between(a.tree, a.in, a.pos, a.lo, a.hi, a.node, x)
    /\ \/ a.tree.child[x.at][x.dir] = NULL
       \/ LastPlace(a.pos, a.hi, x.at, x.dir) - FirstPlace(a.pos, a.lo, x.at, x.dir) < Rounds - k

PlaceLoop == INSTANCE FoldFacts WITH Step <- PlaceStep, Sel <- ByMax, Good <- PlaceGood

LEMMA PlacesAreInt ==
    ASSUME NEW Y, NEW pos, NEW lo, NEW hi, Stretches(Y, pos, lo, hi), NEW m \in Y, NEW d \in 0 .. 1
    PROVE  FirstPlace(pos, lo, m, d) \in Nat /\ LastPlace(pos, hi, m, d) \in Int
  BY DEF Stretches, FirstPlace, LastPlace

LEMMA PlaceRoundKeeps ==
    ASSUME NEW t, NEW Y, NEW pos, NEW lo, NEW hi, Shape(t, Y, pos, lo, hi), Sorted(t, Y, pos),
           Dated(t, Y), NEW n, t.data[n] \in Notes,
           NEW x, Between(t, Y, pos, lo, hi, n, x), t.child[x.at][x.dir] # NULL
    PROVE  /\ Between(t, Y, pos, lo, hi, n, PlaceRound(t, n, x))
           /\ LastPlace(pos, hi, PlaceRound(t, n, x).at, PlaceRound(t, n, x).dir)
                - FirstPlace(pos, lo, PlaceRound(t, n, x).at, PlaceRound(t, n, x).dir)
              < LastPlace(pos, hi, x.at, x.dir) - FirstPlace(pos, lo, x.at, x.dir)
  <1> DEFINE c == t.child[x.at][x.dir]
  <1> DEFINE d == Side(GoesRight(t, n, c))
  <1> DEFINE y == [at |-> c, dir |-> d]
  <1> DEFINE F == FirstPlace(pos, lo, x.at, x.dir)
  <1> DEFINE L == LastPlace(pos, hi, x.at, x.dir)
  <1>1. PlaceRound(t, n, x) = y
    BY DEF PlaceRound
  <1>2. y.at = c /\ y.dir = d
    OBVIOUS
  <1>3. c \in Y \ {HEAD} /\ lo[c] = F /\ hi[c] = L
    BY ChildIs DEF Between
  <1>4. (GoesRight(t, n, c) => d = 1) /\ (~GoesRight(t, n, c) => d = 0) /\ d \in 0 .. 1
    BY DEF Side
  <1> HIDE DEF y, c, d, F, L
  <1>5. /\ pos[c] \in Nat /\ lo[c] \in Nat /\ hi[c] \in Nat /\ lo[c] <= pos[c] /\ pos[c] <= hi[c]
        /\ \A m \in Y : pos[m] \in Nat /\ (pos[m] = pos[c] => m = c)
    BY <1>3 DEF Shape, Stretches
  <1>6. /\ t.data[c] \in Notes /\ Cmp(t.data[c], t.data[c]) <= 0
        /\ \A m \in Y \ {HEAD} : t.data[m] \in Notes
    BY <1>3, CmpIs DEF Dated
  <1>7. \A m \in Y \ {HEAD} : pos[m] <= pos[c] => Cmp(t.data[m], t.data[c]) <= 0
    BY <1>3, <1>5, <1>6 DEF Sorted
  <1>8. \A m \in Y \ {HEAD} : pos[m] >= pos[c] => Cmp(t.data[c], t.data[m]) <= 0
    BY <1>3, <1>5, <1>6 DEF Sorted
  <1>9. CASE GoesRight(t, n, c)
    <2>1. FirstPlace(pos, lo, c, d) = pos[c] + 1 /\ LastPlace(pos, hi, c, d) = L
      BY <1>3, <1>4, <1>9 DEF FirstPlace, LastPlace
    <2>2. \A m \in Y \ {HEAD} : pos[m] < pos[c] + 1 => GoesRight(t, n, m)
      <3> SUFFICES ASSUME NEW m \in Y \ {HEAD}, pos[m] < pos[c] + 1 PROVE GoesRight(t, n, m)
        OBVIOUS
      <3>1. pos[m] <= pos[c]
        BY <1>5
      <3> QED
        BY <1>6, <1>7, <1>9, <3>1, CmpRight DEF GoesRight
    <2>3. \A m \in Y \ {HEAD} : pos[m] > L => ~GoesRight(t, n, m)
      BY DEF Between, L
    <2>4. Between(t, Y, pos, lo, hi, n, y)
      BY <1>2, <1>3, <1>4, <2>1, <2>2, <2>3 DEF Between
    <2> QED
      BY <1>1, <1>2, <1>3, <1>5, <2>1, <2>4 DEF F, L
  <1>10. CASE ~GoesRight(t, n, c)
    <2>1. FirstPlace(pos, lo, c, d) = F /\ LastPlace(pos, hi, c, d) = pos[c] - 1
      BY <1>3, <1>4, <1>10 DEF FirstPlace, LastPlace
    <2>2. \A m \in Y \ {HEAD} : pos[m] > pos[c] - 1 => ~GoesRight(t, n, m)
      <3> SUFFICES ASSUME NEW m \in Y \ {HEAD}, pos[m] > pos[c] - 1 PROVE ~GoesRight(t, n, m)
        OBVIOUS
      <3>1. pos[m] >= pos[c]
        BY <1>5
      <3> QED
        BY <1>6, <1>8, <1>10, <3>1, CmpRight DEF GoesRight
    <2>3. \A m \in Y \ {HEAD} : pos[m] < F => GoesRight(t, n, m)
      BY DEF Between, F
    <2>4. Between(t, Y, pos, lo, hi, n, y)
      BY <1>2, <1>3, <1>4, <2>1, <2>2, <2>3 DEF Between
    <2> QED
      BY <1>1, <1>2, <1>3, <1>5, <2>1, <2>4 DEF F, L
  <1> QED
    BY <1>9, <1>10

(* The place found, and the nodes before it.                               *)
PlacedAt(t, Y, pos, lo, n, x) ==
    /\ x.at \in Y /\ x.dir \in 0 .. 1 /\ (x.at = HEAD => x.dir = 0)
    /\ t.child[x.at][x.dir] = NULL
    /\ \A m \in Y \ {HEAD} :
          GoesRight(t, n, m) <=> pos[m] < FirstPlace(pos, lo, x.at, x.dir)

LEMMA PlaceIs ==
    ASSUME NEW t, NEW Y, NEW pos, NEW lo, NEW hi, Shape(t, Y, pos, lo, hi), Sorted(t, Y, pos),
           Dated(t, Y), NEW n, t.data[n] \in Notes
    PROVE  PlacedAt(t, Y, pos, lo, n, Place(t, n))
  <1> DEFINE a == [tree |-> t, in |-> Y, pos |-> pos, lo |-> lo, hi |-> hi, node |-> n]
  <1> DEFINE b == [at |-> HEAD, dir |-> 0]
  <1>1. a.tree = t /\ a.in = Y /\ a.pos = pos /\ a.lo = lo /\ a.hi = hi /\ a.node = n
    OBVIOUS
  <1>2. b.at = HEAD /\ b.dir = 0
    OBVIOUS
  <1>3. Place(t, n) = PlaceLoop!Loop(a, b, Rounds)
    BY DEF Place, Repeat, PlaceLoop!Loop, PlaceLoop!IsLoop, PlaceStep
  <1> HIDE DEF a, b
  <1>4. /\ Stretches(Y, pos, lo, hi) /\ HEAD \in Y /\ lo[HEAD] = 1
        /\ Rounds \in Nat /\ pos[HEAD] \in 1 .. (Rounds + 1)
    BY StretchesFit DEF Shape, Stretches
  <1>5. PlaceGood(a, 0, b)
    <2>1. FirstPlace(pos, lo, HEAD, 0) = 1 /\ LastPlace(pos, hi, HEAD, 0) = pos[HEAD] - 1
      BY <1>4 DEF FirstPlace, LastPlace
    <2>2. \A m \in Y \ {HEAD} : pos[m] \in Nat /\ 1 <= pos[m] /\ pos[m] < pos[HEAD]
      BY <1>4 DEF Stretches
    <2>3. Between(t, Y, pos, lo, hi, n, b)
      BY <1>2, <1>4, <2>1, <2>2 DEF Between
    <2>4. LastPlace(pos, hi, HEAD, 0) - FirstPlace(pos, lo, HEAD, 0) < Rounds - 0
      BY <1>4, <2>1
    <2> QED
      BY <1>1, <1>2, <2>3, <2>4 DEF PlaceGood
  <1>6. \A k \in 1 .. Rounds : \A x : PlaceGood(a, k - 1, x) => PlaceGood(a, k, PlaceStep(a, x, k))
    <2> SUFFICES ASSUME NEW k \in 1 .. Rounds, NEW x, PlaceGood(a, k - 1, x)
                 PROVE  PlaceGood(a, k, PlaceRound(t, n, x))
      BY <1>1 DEF PlaceStep
    <2>1. Between(t, Y, pos, lo, hi, n, x)
      BY <1>1 DEF PlaceGood
    <2>2. CASE t.child[x.at][x.dir] = NULL
      <3>1. PlaceRound(t, n, x) = x
        BY <2>2 DEF PlaceRound
      <3> QED
        BY <1>1, <2>1, <2>2, <3>1 DEF PlaceGood
    <2>3. CASE t.child[x.at][x.dir] # NULL
      <3> DEFINE y == PlaceRound(t, n, x)
      <3> DEFINE w == LastPlace(pos, hi, x.at, x.dir) - FirstPlace(pos, lo, x.at, x.dir)
      <3> DEFINE w2 == LastPlace(pos, hi, y.at, y.dir) - FirstPlace(pos, lo, y.at, y.dir)
      <3>1. w < Rounds - (k - 1)
        BY <1>1, <2>3 DEF PlaceGood
      <3>2. Between(t, Y, pos, lo, hi, n, y) /\ w2 < w
        BY <2>1, <2>3, PlaceRoundKeeps
      <3> HIDE DEF y
      <3>3. w \in Int /\ w2 \in Int
        BY <1>4, <2>1, <3>2, PlacesAreInt DEF Between
      <3> HIDE DEF w, w2
      <3>4. w2 < Rounds - k
        BY <1>4, <3>1, <3>2, <3>3
      <3> QED
        BY <1>1, <3>2, <3>4 DEF PlaceGood, y, w2
    <2> QED
      BY <2>2, <2>3
  <1>7. PlaceGood(a, Rounds, PlaceLoop!Loop(a, b, Rounds))
    BY <1>4, <1>5, <1>6, PlaceLoop!LoopGood
  <1> DEFINE z == PlaceLoop!Loop(a, b, Rounds)
  <1> DEFINE F == FirstPlace(pos, lo, z.at, z.dir)
  <1> DEFINE L == LastPlace(pos, hi, z.at, z.dir)
  <1>8. Between(t, Y, pos, lo, hi, n, z) /\ (t.child[z.at][z.dir] = NULL \/ L - F < Rounds - Rounds)
    BY <1>1, <1>7 DEF PlaceGood
  <1> HIDE DEF z
  <1>9. F \in Nat /\ L \in Int
    BY <1>4, <1>8, PlacesAreInt DEF Between
  <1>10. t.child[z.at][z.dir] = NULL
    <2> SUFFICES ASSUME t.child[z.at][z.dir] # NULL PROVE FALSE
      OBVIOUS
    <2> DEFINE c == t.child[z.at][z.dir]
    <2>1. c \in Y /\ lo[c] = F /\ hi[c] = L
      BY <1>8, ChildIs DEF Between
    <2>2. lo[c] <= pos[c] /\ pos[c] <= hi[c] /\ pos[c] \in Nat
      BY <1>4, <2>1 DEF Stretches
    <2> HIDE DEF c, F, L
    <2>3. L - F < 0
      BY <1>4, <1>8
    <2> QED
      BY <1>9, <2>1, <2>2, <2>3
  <1>11. F = L + 1
    BY <1>8, <1>10 DEF Between, Shape, Down, Hung
  <1>12. ASSUME NEW m \in Y \ {HEAD}
         PROVE  GoesRight(t, n, m) <=> pos[m] < F
    <2>1. pos[m] \in Nat
      BY <1>4 DEF Stretches
    <2>2. (pos[m] < F => GoesRight(t, n, m)) /\ (pos[m] > L => ~GoesRight(t, n, m))
      BY <1>8 DEF Between
    <2> HIDE DEF F, L
    <2> QED
      BY <1>9, <1>11, <2>1, <2>2
  <1>13. PlacedAt(t, Y, pos, lo, n, z)
    BY <1>8, <1>10, <1>12 DEF PlacedAt, Between
  <1> QED
    BY <1>3, <1>13 DEF z

-----------------------------------------------------------------------------
(* What is said of a tree is said of the cells that are linked.            *)
LinksOn(t, u, Y) ==
    \A m \in Y : /\ u.parent[m] = t.parent[m] /\ u.idx[m] = t.idx[m]
                 /\ \A d \in 0 .. 1 : u.child[m][d] = t.child[m][d]

LEMMA ShapeOn ==
    ASSUME NEW t, NEW u, NEW Y, NEW pos, NEW lo, NEW hi, Shape(t, Y, pos, lo, hi), LinksOn(t, u, Y)
    PROVE  Shape(u, Y, pos, lo, hi)
  <1>1. Stretches(Y, pos, lo, hi) /\ HEAD \in Y
    BY DEF Shape, Stretches
  <1>2. ASSUME NEW m \in Y, NEW d \in 0 .. 1 PROVE Hung(u, Y, pos, lo, hi, m, d)
    <2>1. Hung(t, Y, pos, lo, hi, m, d) /\ u.child[m][d] = t.child[m][d]
      BY DEF Shape, Down, LinksOn
    <2>2. t.child[m][d] \in Y =>
             /\ u.parent[t.child[m][d]] = t.parent[t.child[m][d]]
             /\ u.idx[t.child[m][d]] = t.idx[t.child[m][d]]
      BY DEF LinksOn
    <2> QED
      BY <2>1, <2>2 DEF Hung
  <1>3. Up(u, Y)
    <2>1. Up(t, Y)
      BY DEF Shape
    <2>2. u.parent[HEAD] = HEAD /\ u.idx[HEAD] = 0
      BY <1>1, <2>1 DEF Up, LinksOn
    <2>3. ASSUME NEW m \in Y \ {HEAD}
          PROVE  u.parent[m] \in Y /\ u.idx[m] \in 0 .. 1 /\ u.child[u.parent[m]][u.idx[m]] = m
      <3>1. t.parent[m] \in Y /\ t.idx[m] \in 0 .. 1 /\ t.child[t.parent[m]][t.idx[m]] = m
        BY <2>1 DEF Up
      <3>2. u.parent[m] = t.parent[m] /\ u.idx[m] = t.idx[m]
        BY DEF LinksOn
      <3>3. u.child[t.parent[m]][t.idx[m]] = t.child[t.parent[m]][t.idx[m]]
        BY <3>1 DEF LinksOn
      <3> QED
        BY <3>1, <3>2, <3>3
    <2> QED
      BY <2>2, <2>3 DEF Up
  <1> QED
    BY <1>1, <1>2, <1>3 DEF Shape, Down

LEMMA LevelOn ==
    ASSUME NEW t, NEW u, NEW high, NEW i, NEW s, NEW e, NEW m, Level(t, high, i, s, e, m),
           SameChildren(t, u, m), u.balance[m] = t.balance[m]
    PROVE  Level(u, high, i, s, e, m)
  BY DEF Level, Seen, Deep, SameChildren

LEMMA WholeSame ==
    ASSUME NEW t, NEW Y, NEW pos, Whole(t, Y, pos), NEW u, Typed(u), SameLinks(t, u),
           u.data = t.data, u.balance = t.balance, u.maxOff = t.maxOff
    PROVE  Whole(u, Y, pos)
  <1>1. PICK lo, hi, high : Fit(t, Y, pos, lo, hi, high, HEAD, 0, 0)
    BY DEF Whole
  <1>2. Shape(u, Y, pos, lo, hi)
    BY <1>1, ShapeSame DEF Fit
  <1>3. AllFresh(u, Y)
    <2>1. \A m : SameChildren(t, u, m)
      BY DEF SameChildren, SameLinks
    <2> QED
      BY <1>1, <2>1, FreshChildren DEF Fit, AllFresh
  <1>4. Leveled(u, Y, high, HEAD, 0, 0)
    BY <1>1, LevelSameLinks DEF Fit, Leveled
  <1>5. Even(u, Y)
    BY <1>1 DEF Fit, Even
  <1> QED
    BY <1>2, <1>3, <1>4, <1>5 DEF Whole, Fit

(* A call that put node n at place q.                                      *)
Inserted(t, u, Y, pos, n, q) ==
    /\ u.data = t.data /\ u.inTree = t.inTree \cup {n} /\ u.size = t.size + 1
    /\ Whole(u, Y \cup {n}, LeafPos(Y, pos, n, q))
    /\ q \in Nat /\ 1 <= q /\ q <= pos[HEAD]
    /\ \A m \in Y \ {HEAD} : GoesRight(t, n, m) <=> pos[m] < q

Blank(t, n) == [t EXCEPT !.balance[n] = 0, !.child[n] = NoChildren]

LEMMA BlankIs ==
    ASSUME NEW t, Typed(t), NEW n \in Node
    PROVE  /\ Typed(Blank(t, n)) /\ SameRest(t, Blank(t, n)) /\ Blank(t, n).maxOff = t.maxOff
           /\ Blank(t, n).parent = t.parent /\ Blank(t, n).idx = t.idx
           /\ \A m \in Cell : \A d \in 0 .. 1 :
                 Blank(t, n).child[m][d] = IF m = n THEN NULL ELSE t.child[m][d]
           /\ \A m \in Cell : Blank(t, n).balance[m] = IF m = n THEN 0 ELSE t.balance[m]
  <1> DEFINE u == Blank(t, n)
  <1>1. NoChildren \in [0 .. 1 -> Node \cup {NULL}] /\ \A d \in 0 .. 1 : NoChildren[d] = NULL
    BY DEF NoChildren
  <1>2. n \in Cell
    BY DEF Cell
  <1> DEFINE v == SetBalance(t, n, 0)
  <1>3. BalanceSet(t, v, n, 0)
    BY <1>2, SetBalanceIs
  <1>4. u = [v EXCEPT !.child[n] = NoChildren]
    BY DEF Blank, SetBalance
  <1> HIDE DEF v, u
  <1>6. Typed(v)
    BY <1>3 DEF BalanceSet, OnlyBalances
  <1>7. Typed(u) /\ SameRest(v, u) /\ u.maxOff = v.maxOff /\ u.parent = v.parent /\ u.idx = v.idx
        /\ u.balance = v.balance
        /\ \A m \in Cell : u.child[m] = IF m = n THEN NoChildren ELSE v.child[m]
    BY <1>1, <1>2, <1>4, <1>6 DEF Typed, SameRest
  <1> QED
    BY <1>1, <1>3, <1>7 DEF u, BalanceSet, OnlyBalances, SameLinks, SameRest

(* The leaf linked, nothing told yet.                                      *)
LEMMA LeafHangs ==
    ASSUME NEW t, NEW Y, NEW pos, NEW lo, NEW hi, NEW high, Fit(t, Y, pos, lo, hi, high, HEAD, 0, 0),
           NEW n \in Node, n \notin Y, t.child[n][0] = NULL, t.child[n][1] = NULL, t.balance[n] = 0,
           NEW a \in Y, NEW s \in 0 .. 1, t.child[a][s] = NULL, a = HEAD => s = 0
    PROVE  \E pos2, lo2, hi2, high2 :
              /\ pos2 = LeafPos(Y, pos, n, FirstPlace(pos, lo, a, s))
              /\ Shape(SetChild(t, a, s, n), Y \cup {n}, pos2, lo2, hi2)
              /\ Kept(SetChild(t, a, s, n), Y \cup {n}, pos2, lo2, hi2, n)
              /\ Leveled(SetChild(t, a, s, n), Y \cup {n}, high2, a, s, 1)
              /\ Even(SetChild(t, a, s, n), Y \cup {n})
              /\ high2[n] = 1
  <1> DEFINE v == SetChild(t, a, s, n)
  <1> DEFINE Z == Y \cup {n}
  <1> DEFINE q == FirstPlace(pos, lo, a, s)
  <1> DEFINE pos2 == LeafPos(Y, pos, n, q)
  <1> DEFINE lo2 == LeafLo(Y, lo, n, q, pos[a])
  <1> DEFINE hi2 == LeafHi(Y, hi, n, q, pos[a])
  <1> DEFINE high2 == [m \in Z |-> IF m = n THEN 1 ELSE high[m]]
  <1>1. /\ Typed(t) /\ Shape(t, Y, pos, lo, hi) /\ AllFresh(t, Y) /\ Even(t, Y)
        /\ high \in [Y -> Nat \ {0}] /\ \A m \in Y \ {HEAD} : Level(t, high, HEAD, 0, 0, m)
    BY DEF Fit, Leveled
  <1>2. Y \subseteq Cell /\ HEAD \in Y /\ NULL \notin Y /\ n # HEAD /\ n # NULL /\ n \in Cell
        /\ Z \ {HEAD} = (Y \ {HEAD}) \cup {n}
    BY <1>1, NullIsNone, HeadAssumption DEF Shape, Stretches, Cell
  <1>3. ChildSet(t, v, a, s, n)
    BY <1>1, <1>2, SetChildIs
  <1> HIDE DEF v
  <1>4. LeafLinks(t, v, Y, a, s, n)
    BY <1>2, <1>3 DEF ChildSet, LeafLinks
  <1>5. Shape(v, Z, pos2, lo2, hi2)
    BY <1>1, <1>4, ShapeLeaf
  <1> HIDE DEF pos2, lo2, hi2, q
  <1>6. v.data = t.data /\ v.maxOff = t.maxOff /\ v.balance = t.balance
    BY <1>3 DEF ChildSet, SameRest
  <1>7. Kept(v, Z, pos2, lo2, hi2, n)
    <2> SUFFICES ASSUME NEW m \in Z \ {HEAD}, ~Has(pos2, lo2, hi2, m, n) PROVE Fresh(v, m)
      BY DEF Kept
    <2>1. Has(pos2, lo2, hi2, n, n) /\ Has(pos2, lo2, hi2, a, n)
      <3>1. v.parent[n] = a /\ n \in Z \ {HEAD} /\ a \in Z
        BY <1>2, <1>4 DEF LeafLinks
      <3> HIDE DEF Z
      <3> QED
        BY <1>5, <3>1, TurnedHas
    <2>2. m \in Y \ {HEAD} /\ m # a
      BY <2>1
    <2>3. SameChildren(t, v, m)
      BY <1>4, <2>2 DEF LeafLinks, SameChildren
    <2>4. Fresh(t, m)
      BY <1>1, <2>2 DEF AllFresh
    <2> QED
      BY <1>6, <2>3, <2>4, FreshChildren
  <1>8. high2 \in [Z -> Nat \ {0}] /\ high2[n] = 1 /\ \A m \in Y : high2[m] = high[m]
    BY <1>1
  <1> HIDE DEF high2
  <1>9. Level(v, high2, a, s, 1, n)
    <2>1. Deep(v, high2, n, 0) = 0 /\ Deep(v, high2, n, 1) = 0
      BY <1>4 DEF LeafLinks, Deep
    <2>2. v.balance[n] = 0 /\ n # a
      BY <1>6
    <2> QED
      BY <1>8, <2>1, <2>2 DEF Level, Seen, Max2
  <1>10. ASSUME NEW m \in Y \ {HEAD} PROVE Level(v, high2, a, s, 1, m)
    <2>1. Level(t, high, HEAD, 0, 0, m)
      BY <1>1
    <2>2. ASSUME NEW d \in 0 .. 1
          PROVE  Seen(v, high2, a, s, 1, m, d) = Seen(t, high, HEAD, 0, 0, m, d)
      <3>1. Seen(t, high, HEAD, 0, 0, m, d) = Deep(t, high, m, d)
        BY DEF Seen
      <3>2. CASE m = a /\ d = s
        <4>1. v.child[m][d] = n /\ t.child[m][d] = NULL
          BY <1>4, <3>2 DEF LeafLinks
        <4>2. Deep(v, high2, m, d) = 1 /\ Deep(t, high, m, d) = 0
          BY <1>2, <1>8, <4>1 DEF Deep
        <4> QED
          BY <3>1, <3>2, <4>2 DEF Seen
      <3>3. CASE ~(m = a /\ d = s)
        <4>1. v.child[m][d] = t.child[m][d]
          BY <1>4, <3>3 DEF LeafLinks
        <4>2. t.child[m][d] # NULL => t.child[m][d] \in Y
          BY <1>1, ChildIs
        <4>3. Deep(v, high2, m, d) = Deep(t, high, m, d)
          BY <1>8, <4>1, <4>2 DEF Deep
        <4> QED
          BY <3>1, <3>3, <4>3 DEF Seen
      <3> QED
        BY <3>2, <3>3
    <2>3. high2[m] = high[m] /\ v.balance[m] = t.balance[m]
      BY <1>6, <1>8
    <2>4. /\ Seen(v, high2, a, s, 1, m, 0) = Seen(t, high, HEAD, 0, 0, m, 0)
          /\ Seen(v, high2, a, s, 1, m, 1) = Seen(t, high, HEAD, 0, 0, m, 1)
      BY <2>2
    <2> QED
      BY <2>1, <2>3, <2>4, LevelSame
  <1>11. Leveled(v, Z, high2, a, s, 1)
    BY <1>2, <1>8, <1>9, <1>10 DEF Leveled
  <1>12. Even(v, Z)
    BY <1>1, <1>2, <1>6 DEF Even
  <1> QED
    BY <1>5, <1>7, <1>8, <1>11, <1>12 DEF v, pos2, q

Joined(t, n) == [t EXCEPT !.inTree = @ \cup {n}, !.size = @ + 1]

LEMMA JoinedIs ==
    ASSUME NEW t, Typed(t), NEW n \in Node
    PROVE  /\ Typed(Joined(t, n)) /\ SameLinks(t, Joined(t, n)) /\ Joined(t, n).data = t.data
           /\ Joined(t, n).balance = t.balance /\ Joined(t, n).maxOff = t.maxOff
           /\ Joined(t, n).inTree = t.inTree \cup {n} /\ Joined(t, n).size = t.size + 1
  <1> DEFINE S == t.inTree \cup {n}
  <1> DEFINE k == t.size + 1
  <1>1. S \in SUBSET Node /\ k \in Int
    BY DEF Typed
  <1>2. Joined(t, n) = [[t EXCEPT !.inTree = S] EXCEPT !.size = k]
    BY DEF Joined
  <1> HIDE DEF S, k
  <1> DEFINE v == [t EXCEPT !.inTree = S]
  <1> DEFINE u == [v EXCEPT !.size = k]
  <1>3. Typed(v) /\ SameLinks(t, v) /\ v.data = t.data /\ v.balance = t.balance
        /\ v.maxOff = t.maxOff /\ v.inTree = S
    BY <1>1 DEF Typed, SameLinks
  <1> HIDE DEF v
  <1>4. Typed(u) /\ SameLinks(v, u) /\ u.data = v.data /\ u.balance = v.balance
        /\ u.maxOff = v.maxOff /\ u.inTree = v.inTree /\ u.size = k
    BY <1>1, <1>3 DEF Typed, SameLinks
  <1>5. Joined(t, n) = u
    BY <1>2 DEF v
  <1> HIDE DEF u
  <1> QED
    BY <1>3, <1>4, <1>5 DEF S, k, SameLinks

LEMMA BlankFits ==
    ASSUME NEW t, NEW Y, NEW pos, NEW lo, NEW hi, NEW high,
           Fit(t, Y, pos, lo, hi, high, HEAD, 0, 0), NEW n \in Node, n \notin Y
    PROVE  Fit(Blank(t, n), Y, pos, lo, hi, high, HEAD, 0, 0)
  <1> DEFINE u == Blank(t, n)
  <1>1. /\ Typed(t) /\ Shape(t, Y, pos, lo, hi) /\ AllFresh(t, Y) /\ Even(t, Y)
        /\ Leveled(t, Y, high, HEAD, 0, 0) /\ Y \subseteq Cell
    BY DEF Fit, Shape, Stretches
  <1>2. /\ Typed(u) /\ SameRest(t, u) /\ u.maxOff = t.maxOff
        /\ u.parent = t.parent /\ u.idx = t.idx
        /\ \A m \in Cell : \A d \in 0 .. 1 :
              u.child[m][d] = IF m = n THEN NULL ELSE t.child[m][d]
        /\ \A m \in Cell : u.balance[m] = IF m = n THEN 0 ELSE t.balance[m]
    BY <1>1, BlankIs
  <1> HIDE DEF u
  <1>3. \A m \in Y : SameChildren(t, u, m) /\ u.balance[m] = t.balance[m]
    BY <1>1, <1>2 DEF SameChildren
  <1>4. LinksOn(t, u, Y)
    BY <1>2, <1>3 DEF LinksOn, SameChildren
  <1>5. Shape(u, Y, pos, lo, hi)
    BY <1>1, <1>4, ShapeOn
  <1>6. AllFresh(u, Y)
    <2>1. u.data = t.data /\ u.maxOff = t.maxOff
      BY <1>2 DEF SameRest
    <2> QED
      BY <1>1, <1>3, <2>1, FreshChildren DEF AllFresh
  <1>7. Leveled(u, Y, high, HEAD, 0, 0)
    BY <1>1, <1>3, LevelOn DEF Leveled
  <1>8. Even(u, Y)
    BY <1>1, <1>3 DEF Even
  <1> QED
    BY <1>2, <1>5, <1>6, <1>7, <1>8 DEF Fit, u

(* bst_insert_node: the node has its place, and the tree its shape.        *)
LEMMA InsertNodeIs ==
    ASSUME NEW t, NEW Y, NEW pos, Whole(t, Y, pos), Sorted(t, Y, pos), Dated(t, Y),
           NEW n \in Node, n \notin Y, t.data[n] \in Notes
    PROVE  \E q : Inserted(t, InsertNode(t, n), Y, pos, n, q)
  <1> DEFINE t1 == Blank(t, n)
  <1> DEFINE x == Place(t1, n)
  <1> DEFINE a == x.at
  <1> DEFINE s == x.dir
  <1> DEFINE v == SetChild(t1, a, s, n)
  <1> DEFINE t2 == UpdateToTop(v, n)
  <1> DEFINE t3 == Grown(t2, a, s)
  <1> DEFINE Z == Y \cup {n}
  <1>1. InsertNode(t, n) = Joined(t3, n)
    BY DEF InsertNode, Joined, Blank
  <1>2. PICK lo, hi, high : Fit(t, Y, pos, lo, hi, high, HEAD, 0, 0)
    BY DEF Whole
  <1>3. Fit(t1, Y, pos, lo, hi, high, HEAD, 0, 0)
    BY <1>2, BlankFits
  <1>4. n \in Cell /\ n # NULL
    BY HeadAssumption DEF Cell
  <1>5. /\ SameRest(t, t1) /\ t1.child[n][0] = NULL /\ t1.child[n][1] = NULL
        /\ t1.balance[n] = 0
    <2>1. Typed(t)
      BY <1>2 DEF Fit
    <2> QED
      BY <1>4, <2>1, BlankIs
  <1> HIDE DEF t1
  <1>6. PlacedAt(t1, Y, pos, lo, n, x)
    <2>1. Sorted(t1, Y, pos) /\ Dated(t1, Y) /\ t1.data[n] \in Notes
      BY <1>5 DEF Sorted, Dated, SameRest
    <2>2. Shape(t1, Y, pos, lo, hi)
      BY <1>3 DEF Fit
    <2> QED
      BY <2>1, <2>2, PlaceIs
  <1> HIDE DEF x
  <1> DEFINE q == FirstPlace(pos, lo, a, s)
  <1>7. /\ a \in Y /\ s \in 0 .. 1 /\ t1.child[a][s] = NULL /\ (a = HEAD => s = 0)
        /\ \A m \in Y \ {HEAD} : GoesRight(t1, n, m) <=> pos[m] < q
    BY <1>6 DEF PlacedAt
  <1> HIDE DEF a, s
  <1>8. PICK pos2, lo2, hi2, high2 :
              /\ pos2 = LeafPos(Y, pos, n, FirstPlace(pos, lo, a, s))
              /\ Shape(v, Z, pos2, lo2, hi2) /\ Kept(v, Z, pos2, lo2, hi2, n)
              /\ Leveled(v, Z, high2, a, s, 1) /\ Even(v, Z) /\ high2[n] = 1
    BY <1>3, <1>5, <1>7, LeafHangs
  <1>9. Typed(v) /\ SameRest(t1, v) /\ v.child[a][s] = n
    <2>1. Typed(t1) /\ a \in Cell /\ n \in Node \cup {NULL}
      BY <1>3, <1>7 DEF Fit, Shape, Stretches
    <2>2. ChildSet(t1, v, a, s, n)
      BY <1>7, <2>1, SetChildIs
    <2> QED
      BY <1>7, <2>1, <2>2 DEF ChildSet
  <1> HIDE DEF v
  <1>10. n \in Z /\ a \in Z
    BY <1>7
  <1> HIDE DEF Z
  <1>11. Fit(t2, Z, pos2, lo2, hi2, high2, a, s, 1) /\ SameRest(v, t2)
    BY <1>8, <1>9, <1>10, RightedBy
  <1>12. GrewThere(t2, high2, a, s)
    <2>1. OnlyValues(v, t2)
      BY <1>8, <1>9, <1>10, UpdateToTopIs
    <2>2. t2.child[a][s] = n
      BY <1>9, <2>1 DEF OnlyValues, SameLinks
    <2> QED
      BY <1>4, <1>8, <2>2 DEF GrewThere
  <1> HIDE DEF t2
  <1>13. SameRest(t2, t3) /\ Whole(t3, Z, pos2)
    BY <1>7, <1>10, <1>11, <1>12, GrownIs
  <1> HIDE DEF t3
  <1> DEFINE u == Joined(t3, n)
  <1>14. Typed(t3)
    BY <1>13 DEF Whole, Fit
  <1>15. /\ Typed(u) /\ SameLinks(t3, u) /\ u.data = t3.data /\ u.balance = t3.balance
         /\ u.maxOff = t3.maxOff /\ u.inTree = t3.inTree \cup {n} /\ u.size = t3.size + 1
    BY <1>14, JoinedIs
  <1> HIDE DEF u
  <1>16. Whole(u, Z, pos2)
    BY <1>13, <1>15, WholeSame
  <1>17. u.data = t.data /\ u.inTree = t.inTree \cup {n} /\ u.size = t.size + 1
    BY <1>5, <1>9, <1>11, <1>13, <1>15 DEF SameRest
  <1>18. q \in Nat /\ 1 <= q /\ q <= pos[HEAD]
    <2>1. Shape(t1, Y, pos, lo, hi) /\ Stretches(Y, pos, lo, hi)
      BY <1>3 DEF Fit, Shape
    <2>2. q = LastPlace(pos, hi, a, s) + 1
      BY <1>7, <2>1 DEF Shape, Down, Hung
    <2>3. /\ pos[a] \in Nat /\ lo[a] \in Nat /\ hi[a] \in Nat /\ 1 <= lo[a] /\ lo[a] <= pos[a]
          /\ pos[a] <= hi[a] /\ (a # HEAD => hi[a] < pos[HEAD]) /\ hi[HEAD] = pos[HEAD]
          /\ pos[HEAD] \in Nat
      BY <1>7, <2>1 DEF Stretches
    <2>4. (s = 0 => q = lo[a]) /\ (s = 1 => q = pos[a] + 1)
      BY DEF FirstPlace
    <2>5. s = 0 \/ s = 1
      BY <1>7
    <2> HIDE DEF q
    <2>6. CASE s = 0
      BY <2>3, <2>4, <2>6
    <2>7. CASE s = 1
      BY <1>7, <2>3, <2>4, <2>7
    <2> QED
      BY <2>5, <2>6, <2>7
  <1>19. \A m \in Y \ {HEAD} : GoesRight(t, n, m) <=> pos[m] < q
    BY <1>5, <1>7 DEF GoesRight, SameRest
  <1>20. Inserted(t, u, Y, pos, n, q)
    BY <1>8, <1>16, <1>17, <1>18, <1>19 DEF Inserted, Z
  <1> QED
    BY <1>1, <1>20 DEF u

-----------------------------------------------------------------------------
(* Stepping: down to the end of a stretch, or up past its end.             *)
EndPlace(lo, hi, m, d) == IF d = 0 THEN lo[m] ELSE hi[m]

MostStep(a, x, k) == IF a.tree.child[x][a.dir] = NULL THEN x ELSE a.tree.child[x][a.dir]
MostGood(a, k, x) ==
    /\ x \in a.in \ {HEAD} /\ EndPlace(a.lo, a.hi, x, a.dir) = a.end
    /\ a.tree.child[x][a.dir] = NULL \/ a.hi[x] - a.lo[x] < Rounds - k
MostLoop == INSTANCE FoldFacts WITH Step <- MostStep, Sel <- ByMax, Good <- MostGood

LEMMA ChildMostIs ==
    ASSUME NEW t, NEW Y, NEW pos, NEW lo, NEW hi, Shape(t, Y, pos, lo, hi),
           NEW n \in Y \ {HEAD}, NEW d \in 0 .. 1
    PROVE  /\ ChildMost(t, n, d) \in Y \ {HEAD}
           /\ pos[ChildMost(t, n, d)] = EndPlace(lo, hi, n, d)
  <1> DEFINE a == [tree |-> t, in |-> Y, lo |-> lo, hi |-> hi, dir |-> d,
                   end |-> EndPlace(lo, hi, n, d)]
  <1>1. a.tree = t /\ a.in = Y /\ a.lo = lo /\ a.hi = hi /\ a.dir = d
        /\ a.end = EndPlace(lo, hi, n, d)
    OBVIOUS
  <1>2. ChildMost(t, n, d) = MostLoop!Loop(a, n, Rounds)
    BY DEF ChildMost, Repeat, MostLoop!Loop, MostLoop!IsLoop, MostStep
  <1> HIDE DEF a
  <1>3. Stretches(Y, pos, lo, hi) /\ Rounds \in Nat
    BY StretchesFit DEF Shape
  <1>4. MostGood(a, 0, n)
    <2> DEFINE w == hi[n] - lo[n]
    <2>1. w < Rounds /\ w \in Nat
      BY <1>3, WideIsTop
    <2> HIDE DEF w
    <2>2. w < Rounds - 0
      BY <1>3, <2>1
    <2> QED
      BY <1>1, <2>2 DEF MostGood, w
  <1>5. \A k \in 1 .. Rounds : \A x : MostGood(a, k - 1, x) => MostGood(a, k, MostStep(a, x, k))
    <2> SUFFICES ASSUME NEW k \in 1 .. Rounds, NEW x, MostGood(a, k - 1, x)
                 PROVE  MostGood(a, k, MostStep(a, x, k))
      OBVIOUS
    <2>1. x \in Y \ {HEAD} /\ EndPlace(lo, hi, x, d) = EndPlace(lo, hi, n, d)
      BY <1>1 DEF MostGood
    <2>2. CASE t.child[x][d] = NULL
      <3>1. MostStep(a, x, k) = x
        BY <1>1, <2>2 DEF MostStep
      <3> QED
        BY <1>1, <2>1, <2>2, <3>1 DEF MostGood
    <2>3. CASE t.child[x][d] # NULL
      <3> DEFINE c == t.child[x][d]
      <3>1. MostStep(a, x, k) = c
        BY <1>1, <2>3 DEF MostStep
      <3>2. c \in Y \ {HEAD} /\ lo[c] = FirstPlace(pos, lo, x, d) /\ hi[c] = LastPlace(pos, hi, x, d)
            /\ hi[c] - lo[c] < hi[x] - lo[x]
        BY <2>1, <2>3, ChildIs
      <3> HIDE DEF c
      <3>3. EndPlace(lo, hi, c, d) = EndPlace(lo, hi, n, d)
        BY <2>1, <3>2 DEF EndPlace, FirstPlace, LastPlace
      <3> DEFINE w == hi[x] - lo[x]
      <3> DEFINE w2 == hi[c] - lo[c]
      <3>4. w \in Nat /\ w2 \in Nat
        BY <1>3, <2>1, <3>2, WideIsTop
      <3>5. w < Rounds - (k - 1) /\ w2 < w
        BY <1>1, <2>3, <3>2 DEF MostGood
      <3> HIDE DEF w, w2
      <3>6. w2 < Rounds - k
        BY <1>3, <3>4, <3>5
      <3> QED
        BY <1>1, <3>1, <3>2, <3>3, <3>6 DEF MostGood, w2
    <2> QED
      BY <2>2, <2>3
  <1>6. MostGood(a, Rounds, MostLoop!Loop(a, n, Rounds))
    BY <1>3, <1>4, <1>5, MostLoop!LoopGood
  <1> DEFINE z == MostLoop!Loop(a, n, Rounds)
  <1>7. /\ z \in Y \ {HEAD} /\ EndPlace(lo, hi, z, d) = EndPlace(lo, hi, n, d)
        /\ t.child[z][d] = NULL \/ hi[z] - lo[z] < Rounds - Rounds
    BY <1>1, <1>6 DEF MostGood
  <1> HIDE DEF z
  <1>8. t.child[z][d] = NULL
    <2> DEFINE w == hi[z] - lo[z]
    <2>1. w \in Nat
      BY <1>3, <1>7, WideIsTop
    <2> HIDE DEF w
    <2>2. ~(w < Rounds - Rounds)
      BY <1>3, <2>1
    <2> QED
      BY <1>7, <2>2 DEF w
  <1>9. FirstPlace(pos, lo, z, d) = LastPlace(pos, hi, z, d) + 1
    BY <1>7, <1>8 DEF Shape, Down, Hung
  <1>10. pos[z] = EndPlace(lo, hi, z, d)
    <2>1. pos[z] \in Nat /\ lo[z] \in Nat /\ hi[z] \in Nat
      BY <1>3, <1>7 DEF Stretches
    <2>2. CASE d = 0
      BY <1>9, <2>1, <2>2 DEF FirstPlace, LastPlace, EndPlace
    <2>3. CASE d = 1
      BY <1>9, <2>1, <2>3 DEF FirstPlace, LastPlace, EndPlace
    <2> QED
      BY <2>2, <2>3
  <1> QED
    BY <1>2, <1>7, <1>10 DEF z

ClimbStep(a, x, k) == IF x # HEAD /\ a.tree.idx[x] = a.dir THEN a.tree.parent[x] ELSE x
ClimbGood(a, k, x) ==
    /\ x \in a.in /\ EndPlace(a.lo, a.hi, x, a.dir) = a.end
    /\ x = HEAD \/ a.tree.idx[x] # a.dir \/ a.hi[x] - a.lo[x] >= k
ClimbLoop == INSTANCE FoldFacts WITH Step <- ClimbStep, Sel <- ByMax, Good <- ClimbGood

(* Where the climb ends: below the cell just past the stretch of n.        *)
LEMMA ClimbIs ==
    ASSUME NEW t, NEW Y, NEW pos, NEW lo, NEW hi, Shape(t, Y, pos, lo, hi),
           NEW n \in Y, NEW d \in 0 .. 1
    PROVE  \E z \in Y : /\ Climb(t, n, d) = t.parent[z] /\ (z = HEAD \/ t.idx[z] = 1 - d)
                        /\ EndPlace(lo, hi, z, d) = EndPlace(lo, hi, n, d)
  <1> DEFINE a == [tree |-> t, in |-> Y, lo |-> lo, hi |-> hi, dir |-> d,
                   end |-> EndPlace(lo, hi, n, d)]
  <1>1. a.tree = t /\ a.in = Y /\ a.lo = lo /\ a.hi = hi /\ a.dir = d
        /\ a.end = EndPlace(lo, hi, n, d)
    OBVIOUS
  <1>2. Climb(t, n, d) = t.parent[ClimbLoop!Loop(a, n, Rounds)]
    BY DEF Climb, Repeat, ClimbLoop!Loop, ClimbLoop!IsLoop, ClimbStep
  <1> HIDE DEF a
  <1>3. Stretches(Y, pos, lo, hi) /\ Rounds \in Nat
    BY StretchesFit DEF Shape
  <1>4. ClimbGood(a, 0, n)
    <2> DEFINE w == hi[n] - lo[n]
    <2>1. n = HEAD \/ w \in Nat
      BY <1>3, WideIsTop
    <2> HIDE DEF w
    <2>2. n = HEAD \/ w >= 0
      BY <2>1
    <2> QED
      BY <1>1, <2>2 DEF ClimbGood, w
  <1>5. \A k \in 1 .. Rounds : \A x : ClimbGood(a, k - 1, x) => ClimbGood(a, k, ClimbStep(a, x, k))
    <2> SUFFICES ASSUME NEW k \in 1 .. Rounds, NEW x, ClimbGood(a, k - 1, x)
                 PROVE  ClimbGood(a, k, ClimbStep(a, x, k))
      OBVIOUS
    <2>1. x \in Y /\ EndPlace(lo, hi, x, d) = EndPlace(lo, hi, n, d)
      BY <1>1 DEF ClimbGood
    <2>2. CASE x = HEAD \/ t.idx[x] # d
      <3>1. ClimbStep(a, x, k) = x
        BY <1>1, <2>2 DEF ClimbStep
      <3> QED
        BY <1>1, <2>1, <2>2, <3>1 DEF ClimbGood
    <2>3. CASE x # HEAD /\ t.idx[x] = d
      <3> DEFINE p == t.parent[x]
      <3>1. ClimbStep(a, x, k) = p
        BY <1>1, <2>3 DEF ClimbStep
      <3>2. p \in Y /\ lo[x] = FirstPlace(pos, lo, p, d) /\ hi[x] = LastPlace(pos, hi, p, d)
            /\ hi[x] - lo[x] < hi[p] - lo[p]
        BY <2>1, <2>3, ParentIs
      <3> HIDE DEF p
      <3>3. EndPlace(lo, hi, p, d) = EndPlace(lo, hi, n, d)
        BY <2>1, <3>2 DEF EndPlace, FirstPlace, LastPlace
      <3> DEFINE w == hi[x] - lo[x]
      <3> DEFINE w2 == hi[p] - lo[p]
      <3>4. w \in Nat /\ (p = HEAD \/ w2 \in Nat)
        BY <1>3, <2>1, <2>3, <3>2, WideIsTop
      <3>5. w >= k - 1 /\ w2 > w
        BY <1>1, <2>3, <3>2 DEF ClimbGood
      <3> HIDE DEF w, w2
      <3>6. p = HEAD \/ w2 >= k
        BY <3>4, <3>5
      <3> QED
        BY <1>1, <3>1, <3>2, <3>3, <3>6 DEF ClimbGood, w2
    <2> QED
      BY <2>2, <2>3
  <1>6. ClimbGood(a, Rounds, ClimbLoop!Loop(a, n, Rounds))
    BY <1>3, <1>4, <1>5, ClimbLoop!LoopGood
  <1> DEFINE z == ClimbLoop!Loop(a, n, Rounds)
  <1>7. /\ z \in Y /\ EndPlace(lo, hi, z, d) = EndPlace(lo, hi, n, d)
        /\ z = HEAD \/ t.idx[z] # d \/ hi[z] - lo[z] >= Rounds
    BY <1>1, <1>6 DEF ClimbGood
  <1>8. z = HEAD \/ t.idx[z] # d
    <2> DEFINE w == hi[z] - lo[z]
    <2> HIDE DEF z
    <2>1. z = HEAD \/ (w \in Nat /\ w < Rounds)
      BY <1>3, <1>7, WideIsTop
    <2> HIDE DEF w
    <2>2. z = HEAD \/ ~(w >= Rounds)
      BY <1>3, <2>1
    <2> QED
      BY <1>7, <2>2 DEF w
  <1> HIDE DEF z
  <1>9. z = HEAD \/ t.idx[z] = 1 - d
    <2>1. z = HEAD \/ t.idx[z] \in 0 .. 1
      BY <1>7 DEF Shape, Up
    <2> QED
      BY <1>8, <2>1
  <1> QED
    BY <1>2, <1>7, <1>9 DEF z

LEMMA NextIs ==
    ASSUME NEW t, NEW Y, NEW pos, NEW lo, NEW hi, Shape(t, Y, pos, lo, hi), NEW n \in Y \ {HEAD}
    PROVE  Adj(t, n, 1) \in Y /\ pos[Adj(t, n, 1)] = pos[n] + 1
  <1>1. Stretches(Y, pos, lo, hi)
    BY DEF Shape
  <1>2. CASE t.child[n][1] # NULL
    <2> DEFINE c == t.child[n][1]
    <2>1. c \in Y \ {HEAD} /\ lo[c] = FirstPlace(pos, lo, n, 1)
      BY <1>2, ChildIs
    <2>2. Adj(t, n, 1) = ChildMost(t, c, 0)
      BY <1>2 DEF Adj
    <2> HIDE DEF c
    <2>3. ChildMost(t, c, 0) \in Y \ {HEAD} /\ pos[ChildMost(t, c, 0)] = EndPlace(lo, hi, c, 0)
      BY <2>1, ChildMostIs
    <2> QED
      BY <2>1, <2>2, <2>3 DEF EndPlace, FirstPlace
  <1>3. CASE t.child[n][1] = NULL
    <2>1. Adj(t, n, 1) = Climb(t, n, 1)
      BY <1>3 DEF Adj
    <2>2. FirstPlace(pos, lo, n, 1) = LastPlace(pos, hi, n, 1) + 1
      BY <1>3 DEF Shape, Down, Hung
    <2>3. pos[n] \in Nat /\ hi[n] \in Nat /\ hi[n] < pos[HEAD] /\ hi[HEAD] = pos[HEAD]
          /\ pos[HEAD] \in Nat
      BY <1>1 DEF Stretches
    <2>4. hi[n] = pos[n]
      BY <2>2, <2>3 DEF FirstPlace, LastPlace
    <2>5. PICK z \in Y : /\ Climb(t, n, 1) = t.parent[z] /\ (z = HEAD \/ t.idx[z] = 1 - 1)
                         /\ EndPlace(lo, hi, z, 1) = EndPlace(lo, hi, n, 1)
      BY ClimbIs
    <2>6. hi[z] = hi[n] /\ z # HEAD
      BY <2>3, <2>5 DEF EndPlace
    <2>7. t.idx[z] = 0 /\ t.parent[z] \in Y
          /\ hi[z] = LastPlace(pos, hi, t.parent[z], t.idx[z])
      BY <2>5, <2>6, ParentIs
    <2>8. pos[t.parent[z]] \in Nat
      BY <1>1, <2>7 DEF Stretches
    <2> QED
      BY <2>1, <2>3, <2>4, <2>5, <2>6, <2>7, <2>8 DEF LastPlace
  <1> QED
    BY <1>2, <1>3

LEMMA PreviousIs ==
    ASSUME NEW t, NEW Y, NEW pos, NEW lo, NEW hi, Shape(t, Y, pos, lo, hi), NEW n \in Y
    PROVE  Adj(t, n, 0) \in Y /\ pos[Adj(t, n, 0)] = IF pos[n] = 1 THEN pos[HEAD] ELSE pos[n] - 1
  <1>1. Stretches(Y, pos, lo, hi)
    BY DEF Shape
  <1>2. CASE t.child[n][0] # NULL
    <2> DEFINE c == t.child[n][0]
    <2>1. c \in Y \ {HEAD} /\ hi[c] = LastPlace(pos, hi, n, 0)
      BY <1>2, ChildIs
    <2>2. Adj(t, n, 0) = ChildMost(t, c, 1)
      BY <1>2 DEF Adj
    <2> HIDE DEF c
    <2>3. ChildMost(t, c, 1) \in Y \ {HEAD} /\ pos[ChildMost(t, c, 1)] = EndPlace(lo, hi, c, 1)
      BY <2>1, ChildMostIs
    <2>4. hi[c] \in Nat /\ lo[c] \in Nat /\ 1 <= lo[c] /\ lo[c] <= pos[c] /\ pos[c] <= hi[c]
          /\ pos[c] \in Nat /\ pos[n] \in Nat
      BY <1>1, <2>1 DEF Stretches
    <2> QED
      BY <2>1, <2>2, <2>3, <2>4 DEF EndPlace, LastPlace
  <1>3. CASE t.child[n][0] = NULL
    <2>1. Adj(t, n, 0) = Climb(t, n, 0)
      BY <1>3 DEF Adj
    <2>2. FirstPlace(pos, lo, n, 0) = LastPlace(pos, hi, n, 0) + 1
      BY <1>3 DEF Shape, Down, Hung
    <2>3. pos[n] \in Nat /\ lo[n] \in Nat /\ HEAD \in Y
      BY <1>1 DEF Stretches
    <2>4. lo[n] = pos[n]
      BY <2>2, <2>3 DEF FirstPlace, LastPlace
    <2>5. PICK z \in Y : /\ Climb(t, n, 0) = t.parent[z] /\ (z = HEAD \/ t.idx[z] = 1 - 0)
                         /\ EndPlace(lo, hi, z, 0) = EndPlace(lo, hi, n, 0)
      BY ClimbIs
    <2>6. lo[z] = pos[n]
      BY <2>4, <2>5 DEF EndPlace
    <2>7. CASE z = HEAD
      <3>1. t.parent[z] = HEAD /\ lo[HEAD] = 1
        BY <1>1, <2>7 DEF Shape, Stretches, Up
      <3> QED
        BY <2>1, <2>3, <2>5, <2>6, <2>7, <3>1
    <2>8. CASE z # HEAD
      <3>1. t.idx[z] = 1 /\ t.parent[z] \in Y
            /\ lo[z] = FirstPlace(pos, lo, t.parent[z], t.idx[z])
        BY <2>5, <2>8, ParentIs
      <3>2. pos[t.parent[z]] \in Nat /\ 1 <= pos[t.parent[z]]
        BY <1>1, <3>1 DEF Stretches
      <3> QED
        BY <2>1, <2>3, <2>5, <2>6, <3>1, <3>2 DEF FirstPlace
    <2> QED
      BY <2>7, <2>8
  <1> QED
    BY <1>2, <1>3

-----------------------------------------------------------------------------
(* A node with one child at most is taken out, and leaves its place q.     *)
GapLinks(t, u, Y, n, only) ==
    /\ \A m \in Y \ {n} : \A d \in 0 .. 1 :
          u.child[m][d] = IF m = t.parent[n] /\ d = t.idx[n] THEN only ELSE t.child[m][d]
    /\ \A m \in Y \ {n} : /\ u.parent[m] = IF m = only THEN t.parent[n] ELSE t.parent[m]
                          /\ u.idx[m] = IF m = only THEN t.idx[n] ELSE t.idx[m]

OnlyChild(t, n, only) ==
    \E d \in 0 .. 1 : t.child[n][d] = only /\ t.child[n][1 - d] = NULL

GapPos(Y, pos, n, q) == [m \in Y \ {n} |-> IF pos[m] > q THEN pos[m] - 1 ELSE pos[m]]
GapLo(Y, lo, n, q) == [m \in Y \ {n} |-> IF lo[m] > q THEN lo[m] - 1 ELSE lo[m]]
GapHi(Y, hi, n, q) == [m \in Y \ {n} |-> IF hi[m] >= q THEN hi[m] - 1 ELSE hi[m]]

LEMMA ShapeGap ==
    ASSUME NEW t, NEW Y, NEW pos, NEW lo, NEW hi, Shape(t, Y, pos, lo, hi),
           NEW u, NEW n \in Y \ {HEAD}, NEW only, OnlyChild(t, n, only), GapLinks(t, u, Y, n, only)
    PROVE  Shape(u, Y \ {n}, GapPos(Y, pos, n, pos[n]), GapLo(Y, lo, n, pos[n]),
                 GapHi(Y, hi, n, pos[n]))
  <1> DEFINE q == pos[n]
  <1> DEFINE p == t.parent[n]
  <1> DEFINE i == t.idx[n]
  <1> DEFINE Z == Y \ {n}
  <1> DEFINE pos2 == GapPos(Y, pos, n, q)
  <1> DEFINE lo2 == GapLo(Y, lo, n, q)
  <1> DEFINE hi2 == GapHi(Y, hi, n, q)
  <1>1. Stretches(Y, pos, lo, hi) /\ Down(t, Y, pos, lo, hi) /\ Up(t, Y)
    BY DEF Shape
  <1>2. HEAD \in Y /\ Y \subseteq Cell /\ NULL \notin Y /\ HEAD \in Z /\ n \in Y
    BY <1>1, NullIsNone DEF Stretches
  <1>3. \A m \in Y : /\ pos[m] \in Nat /\ lo[m] \in Nat /\ hi[m] \in Nat /\ 1 <= lo[m]
                     /\ lo[m] <= pos[m] /\ pos[m] <= hi[m] /\ (pos[m] = q => m = n)
                     /\ (m # HEAD => hi[m] < pos[HEAD])
    BY <1>1 DEF Stretches
  <1>4. /\ p \in Y /\ p # n /\ i \in 0 .. 1 /\ t.child[p][i] = n
        /\ lo[n] = FirstPlace(pos, lo, p, i) /\ hi[n] = LastPlace(pos, hi, p, i)
    BY ParentIs
  <1>5. PICK d0 \in 0 .. 1 : t.child[n][d0] = only /\ t.child[n][1 - d0] = NULL
    BY DEF OnlyChild
  <1>6. (d0 = 0 => hi[n] = q) /\ (d0 = 1 => lo[n] = q)
    <2>1. 1 - d0 \in 0 .. 1
      OBVIOUS
    <2>2. FirstPlace(pos, lo, n, 1 - d0) = LastPlace(pos, hi, n, 1 - d0) + 1
      BY <1>1, <1>2, <1>5, <2>1 DEF Down, Hung
    <2>3. pos[n] \in Nat /\ lo[n] \in Nat /\ hi[n] \in Nat
      BY <1>2, <1>3
    <2> QED
      BY <2>2, <2>3 DEF FirstPlace, LastPlace
  <1>7. only = NULL => lo[n] = q /\ hi[n] = q
    <2> SUFFICES ASSUME only = NULL PROVE lo[n] = q /\ hi[n] = q
      OBVIOUS
    <2>1. FirstPlace(pos, lo, n, d0) = LastPlace(pos, hi, n, d0) + 1
      BY <1>1, <1>2, <1>5 DEF Down, Hung
    <2>2. pos[n] \in Nat /\ lo[n] \in Nat /\ hi[n] \in Nat
      BY <1>2, <1>3
    <2> QED
      BY <1>6, <2>1, <2>2 DEF FirstPlace, LastPlace
  <1>8. only # NULL => /\ only \in Y \ {HEAD} /\ only # n /\ t.parent[only] = n
                       /\ (d0 = 0 => lo[only] = lo[n] /\ hi[only] = q - 1)
                       /\ (d0 = 1 => lo[only] = q + 1 /\ hi[only] = hi[n])
    <2> SUFFICES ASSUME only # NULL
                 PROVE  /\ only \in Y \ {HEAD} /\ only # n /\ t.parent[only] = n
                        /\ (d0 = 0 => lo[only] = lo[n] /\ hi[only] = q - 1)
                        /\ (d0 = 1 => lo[only] = q + 1 /\ hi[only] = hi[n])
      OBVIOUS
    <2>1. /\ only \in Y \ {HEAD} /\ only # n /\ t.parent[only] = n
          /\ lo[only] = FirstPlace(pos, lo, n, d0) /\ hi[only] = LastPlace(pos, hi, n, d0)
      <3>1. t.child[n][d0] # NULL
        BY <1>5
      <3> QED
        BY <1>2, <1>5, <3>1, ChildIs
    <2> QED
      BY <2>1 DEF FirstPlace, LastPlace
  <1>9. \A m \in Z : /\ pos2[m] = IF pos[m] > q THEN pos[m] - 1 ELSE pos[m]
                     /\ lo2[m] = IF lo[m] > q THEN lo[m] - 1 ELSE lo[m]
                     /\ hi2[m] = IF hi[m] >= q THEN hi[m] - 1 ELSE hi[m]
    BY DEF GapPos, GapLo, GapHi
  <1>10. /\ pos2 = [m \in Z |-> pos2[m]] /\ lo2 = [m \in Z |-> lo2[m]] /\ hi2 = [m \in Z |-> hi2[m]]
    BY DEF GapPos, GapLo, GapHi
  <1>11. q \in Nat /\ 1 <= q /\ q < pos[HEAD] /\ pos[HEAD] \in Nat /\ (d0 = 0 \/ d0 = 1)
    <2>1. q \in Nat /\ 1 <= lo[n] /\ lo[n] <= q /\ q <= hi[n] /\ hi[n] < pos[HEAD]
          /\ hi[n] \in Nat /\ lo[n] \in Nat /\ pos[HEAD] \in Nat
      BY <1>2, <1>3
    <2> HIDE DEF q
    <2> QED
      BY <2>1
  <1> HIDE DEF pos2, lo2, hi2, q, p, i
  <1>12. Stretches(Z, pos2, lo2, hi2)
    <2>1. \A m \in Z : /\ pos2[m] \in Nat /\ lo2[m] \in Nat /\ hi2[m] \in Nat /\ 1 <= lo2[m]
                       /\ lo2[m] <= pos2[m] /\ pos2[m] <= hi2[m]
      BY <1>3, <1>9, <1>11
    <2>2. pos2 \in [Z -> Nat] /\ lo2 \in [Z -> Nat] /\ hi2 \in [Z -> Nat]
      BY <1>10, <2>1
    <2>3. pos2[HEAD] = pos[HEAD] - 1 /\ lo2[HEAD] = 1 /\ hi2[HEAD] = pos[HEAD] - 1
      <3>1. lo[HEAD] = 1 /\ hi[HEAD] = pos[HEAD]
        BY <1>1 DEF Stretches
      <3> QED
        BY <1>2, <1>3, <1>9, <1>11, <3>1
    <2>4. \A m \in Z \ {HEAD} : hi2[m] < pos2[HEAD]
      BY <1>2, <1>3, <1>9, <1>11, <2>3
    <2>5. \A m, l \in Z : pos2[m] = pos2[l] => m = l
      <3>1. \A m, l \in Y : pos[m] = pos[l] => m = l
        BY <1>1 DEF Stretches
      <3>2. \A m, l \in Z : pos2[m] = pos2[l] => pos[m] = pos[l]
        BY <1>3, <1>9, <1>11
      <3> QED
        BY <3>1, <3>2
    <2>6. \A j \in 1 .. pos2[HEAD] : \E m \in Z : pos2[m] = j
      <3> SUFFICES ASSUME NEW j \in 1 .. pos2[HEAD] PROVE \E m \in Z : pos2[m] = j
        OBVIOUS
      <3>1. \A j2 \in 1 .. pos[HEAD] : \E m \in Y : pos[m] = j2
        BY <1>1 DEF Stretches
      <3>2. CASE j < q
        <4>1. j \in 1 .. pos[HEAD]
          BY <1>11, <2>3, <3>2
        <4>2. PICK m \in Y : pos[m] = j
          BY <3>1, <4>1
        <4>3. m # n
          BY <1>11, <3>2, <4>2 DEF q
        <4>4. pos2[m] = j
          BY <1>9, <1>11, <3>2, <4>2, <4>3
        <4> QED
          BY <4>3, <4>4
      <3>3. CASE j >= q
        <4>1. j + 1 \in 1 .. pos[HEAD] /\ j + 1 > q
          BY <1>11, <2>3, <3>3
        <4>2. PICK m \in Y : pos[m] = j + 1
          BY <3>1, <4>1
        <4>3. m # n
          BY <1>11, <4>1, <4>2 DEF q
        <4>4. pos2[m] = j
          BY <1>9, <1>11, <4>1, <4>2, <4>3
        <4> QED
          BY <4>3, <4>4
      <3> QED
        BY <1>11, <2>3, <3>2, <3>3
    <2> QED
      BY <1>2, <2>1, <2>2, <2>3, <2>4, <2>5, <2>6 DEF Stretches
  <1>13. ASSUME NEW m \in Z, NEW d \in 0 .. 1 PROVE Hung(u, Z, pos2, lo2, hi2, m, d)
    <2>0. /\ pos[m] \in Nat /\ lo[m] \in Nat /\ hi[m] \in Nat /\ pos[m] # q
          /\ lo[m] <= pos[m] /\ pos[m] <= hi[m] /\ 1 <= lo[m] /\ m \in Y /\ m # n
          /\ pos2[m] = IF pos[m] > q THEN pos[m] - 1 ELSE pos[m]
          /\ lo2[m] = IF lo[m] > q THEN lo[m] - 1 ELSE lo[m]
          /\ hi2[m] = IF hi[m] >= q THEN hi[m] - 1 ELSE hi[m]
      BY <1>3, <1>9
    <2>1. CASE m = p /\ d = i
      <3>1. u.child[m][d] = only
        BY <2>1 DEF GapLinks, p, i
      <3>2. /\ d = 0 => lo[n] = lo[m] /\ hi[n] = pos[m] - 1
            /\ d = 1 => lo[n] = pos[m] + 1 /\ hi[n] = hi[m]
        BY <1>4, <2>1 DEF FirstPlace, LastPlace
      <3>3. lo[n] \in Nat /\ hi[n] \in Nat /\ lo[n] <= q /\ q <= hi[n]
        BY <1>2, <1>3 DEF q
      <3>4. CASE only = NULL
        <4>1. FirstPlace(pos2, lo2, m, d) = LastPlace(pos2, hi2, m, d) + 1
          <5>1. CASE d = 0
            BY <1>7, <1>11, <2>0, <3>2, <3>3, <3>4, <5>1 DEF FirstPlace, LastPlace
          <5>2. CASE d = 1
            BY <1>7, <1>11, <2>0, <3>2, <3>3, <3>4, <5>2 DEF FirstPlace, LastPlace
          <5> QED
            BY <5>1, <5>2
        <4> QED
          BY <3>1, <3>4, <4>1 DEF Hung
      <3>5. CASE only # NULL
        <4>1. only \in Z \ {HEAD} /\ u.parent[only] = m /\ u.idx[only] = d
          BY <1>8, <2>1, <3>5 DEF GapLinks, p, i
        <4>2. /\ lo[only] \in Nat /\ hi[only] \in Nat
              /\ lo2[only] = IF lo[only] > q THEN lo[only] - 1 ELSE lo[only]
              /\ hi2[only] = IF hi[only] >= q THEN hi[only] - 1 ELSE hi[only]
          BY <1>3, <1>9, <4>1
        <4>3. /\ (d0 = 0 => lo[only] = lo[n] /\ hi[only] = q - 1)
              /\ (d0 = 1 => lo[only] = q + 1 /\ hi[only] = hi[n])
          BY <1>8, <3>5
        <4>4. lo2[only] = FirstPlace(pos2, lo2, m, d) /\ hi2[only] = LastPlace(pos2, hi2, m, d)
          <5>1. CASE d = 0
            BY <1>6, <1>11, <2>0, <3>2, <3>3, <4>2, <4>3, <5>1 DEF FirstPlace, LastPlace
          <5>2. CASE d = 1
            BY <1>6, <1>11, <2>0, <3>2, <3>3, <4>2, <4>3, <5>2 DEF FirstPlace, LastPlace
          <5> QED
            BY <5>1, <5>2
        <4> QED
          BY <3>1, <3>5, <4>1, <4>4 DEF Hung
      <3> QED
        BY <3>4, <3>5
    <2>2. CASE ~(m = p /\ d = i)
      <3> DEFINE c == t.child[m][d]
      <3>1. u.child[m][d] = c
        BY <2>0, <2>2 DEF GapLinks, p, i
      <3>2. Hung(t, Y, pos, lo, hi, m, d)
        BY <1>1, <2>0 DEF Down
      <3>3. CASE c = NULL
        <4>1. FirstPlace(pos, lo, m, d) = LastPlace(pos, hi, m, d) + 1
          BY <3>2, <3>3 DEF Hung
        <4>2. FirstPlace(pos2, lo2, m, d) = LastPlace(pos2, hi2, m, d) + 1
          <5>1. CASE d = 0
            BY <1>11, <2>0, <4>1, <5>1 DEF FirstPlace, LastPlace
          <5>2. CASE d = 1
            BY <1>11, <2>0, <4>1, <5>2 DEF FirstPlace, LastPlace
          <5> QED
            BY <5>1, <5>2
        <4> QED
          BY <3>1, <3>3, <4>2 DEF Hung
      <3>4. CASE c # NULL
        <4>1. /\ c \in Y \ {HEAD} /\ t.parent[c] = m /\ t.idx[c] = d
              /\ lo[c] = FirstPlace(pos, lo, m, d) /\ hi[c] = LastPlace(pos, hi, m, d)
          BY <3>2, <3>4 DEF Hung
        <4> HIDE DEF c
        <4>2. c # n /\ c # only
          BY <1>8, <2>0, <2>2, <4>1, <1>2 DEF p, i
        <4>3. u.parent[c] = m /\ u.idx[c] = d
          BY <4>1, <4>2 DEF GapLinks
        <4>4. /\ lo[c] \in Nat /\ hi[c] \in Nat
              /\ lo2[c] = IF lo[c] > q THEN lo[c] - 1 ELSE lo[c]
              /\ hi2[c] = IF hi[c] >= q THEN hi[c] - 1 ELSE hi[c]
          BY <1>3, <1>9, <4>1, <4>2
        <4>5. lo2[c] = FirstPlace(pos2, lo2, m, d) /\ hi2[c] = LastPlace(pos2, hi2, m, d)
          <5>1. CASE d = 0
            BY <1>11, <2>0, <4>1, <4>4, <5>1 DEF FirstPlace, LastPlace
          <5>2. CASE d = 1
            BY <1>11, <2>0, <4>1, <4>4, <5>2 DEF FirstPlace, LastPlace
          <5> QED
            BY <5>1, <5>2
        <4> QED
          BY <3>1, <3>4, <4>1, <4>2, <4>3, <4>5 DEF Hung
      <3> QED
        BY <3>3, <3>4
    <2> QED
      BY <2>1, <2>2
  <1>14. Up(u, Z)
    <2>1. u.parent[HEAD] = HEAD /\ u.idx[HEAD] = 0
      BY <1>1, <1>2, <1>8 DEF GapLinks, Up
    <2>2. ASSUME NEW m \in Z \ {HEAD}
          PROVE  u.parent[m] \in Z /\ u.idx[m] \in 0 .. 1 /\ u.child[u.parent[m]][u.idx[m]] = m
      <3>1. CASE m = only
        <4>1. u.parent[m] = p /\ u.idx[m] = i
          BY <3>1 DEF GapLinks, p, i
        <4>2. p \in Z /\ u.child[p][i] = only
          BY <1>4 DEF GapLinks, p, i
        <4> QED
          BY <1>4, <3>1, <4>1, <4>2
      <3>2. CASE m # only
        <4>1. /\ t.parent[m] \in Y /\ t.idx[m] \in 0 .. 1
              /\ t.child[t.parent[m]][t.idx[m]] = m
          BY <1>1 DEF Up
        <4>2. u.parent[m] = t.parent[m] /\ u.idx[m] = t.idx[m]
          BY <3>2 DEF GapLinks
        <4>3. t.parent[m] # n
          <5>1. t.child[n][0] \in {only, NULL} /\ t.child[n][1] \in {only, NULL}
            <6>1. d0 = 0 \/ d0 = 1
              OBVIOUS
            <6> QED
              BY <1>5, <6>1
          <5>2. m # NULL
            BY <1>2
          <5> QED
            BY <3>2, <4>1, <5>1, <5>2
        <4>4. ~(t.parent[m] = p /\ t.idx[m] = i)
          BY <1>4, <4>1
        <4> QED
          BY <4>1, <4>2, <4>3, <4>4 DEF GapLinks, p, i
      <3> QED
        BY <3>1, <3>2
    <2> QED
      BY <2>1, <2>2 DEF Up
  <1> QED
    BY <1>12, <1>13, <1>14 DEF Shape, Down, pos2, lo2, hi2, q

-----------------------------------------------------------------------------
(* A tree whose values are fresh but for those of n and the nodes above.   *)
Aside(t, Y, pos, lo, hi, high, n) ==
    /\ Typed(t) /\ Shape(t, Y, pos, lo, hi) /\ Kept(t, Y, pos, lo, hi, n)
    /\ Leveled(t, Y, high, HEAD, 0, 0) /\ Even(t, Y)

(* Node n is out, and nothing told yet.                                    *)
Unlinked(t, v, Y, pos, n, lo2, hi2, high2) ==
    /\ Typed(v) /\ SameRest(t, v) /\ v.parent[n] = t.parent[n] /\ v.idx[n] = t.idx[n]
    /\ Shape(v, Y \ {n}, GapPos(Y, pos, n, pos[n]), lo2, hi2)
    /\ Kept(v, Y \ {n}, GapPos(Y, pos, n, pos[n]), lo2, hi2, t.parent[n])
    /\ Leveled(v, Y \ {n}, high2, t.parent[n], t.idx[n], -1)
    /\ Even(v, Y \ {n})

LEMMA Unlinking ==
    ASSUME NEW t, NEW Y, NEW pos, NEW lo, NEW hi, NEW high, NEW n \in Y \ {HEAD},
           Aside(t, Y, pos, lo, hi, high, n), NEW only, OnlyChild(t, n, only)
    PROVE  \E lo2, hi2, high2 :
              Unlinked(t, SetChild(t, t.parent[n], t.idx[n], only), Y, pos, n, lo2, hi2, high2)
  <1> DEFINE p == t.parent[n]
  <1> DEFINE i == t.idx[n]
  <1> DEFINE v == SetChild(t, p, i, only)
  <1> DEFINE Z == Y \ {n}
  <1> DEFINE pos2 == GapPos(Y, pos, n, pos[n])
  <1> DEFINE lo2 == GapLo(Y, lo, n, pos[n])
  <1> DEFINE hi2 == GapHi(Y, hi, n, pos[n])
  <1> DEFINE high2 == [m \in Z |-> high[m]]
  <1>1. /\ Typed(t) /\ Shape(t, Y, pos, lo, hi) /\ Kept(t, Y, pos, lo, hi, n) /\ Even(t, Y)
        /\ high \in [Y -> Nat \ {0}] /\ \A m \in Y \ {HEAD} : Level(t, high, HEAD, 0, 0, m)
        /\ Y \subseteq Cell /\ HEAD \in Y
    BY DEF Aside, Leveled, Shape, Stretches
  <1>2. p \in Z /\ i \in 0 .. 1 /\ t.child[p][i] = n
    BY <1>1, ParentIs
  <1>3. PICK d \in 0 .. 1 : t.child[n][d] = only /\ t.child[n][1 - d] = NULL
    BY DEF OnlyChild
  <1>4. /\ only # n /\ only \in Node \cup {NULL}
        /\ only # NULL => only \in Z /\ only # HEAD
    <2>1. only # NULL => only \in Y \ {HEAD} /\ only # n
      BY <1>1, <1>3, ChildIs
    <2>2. n # NULL
      BY <1>1, NullIsNone
    <2> QED
      BY <1>1, <2>1, <2>2 DEF Cell
  <1>5. ChildSet(t, v, p, i, only)
    BY <1>1, <1>2, <1>4, SetChildIs
  <1> HIDE DEF v, p, i
  <1>6. GapLinks(t, v, Y, n, only)
    BY <1>1, <1>5 DEF ChildSet, GapLinks, p, i
  <1>7. Shape(v, Z, pos2, lo2, hi2)
    BY <1>1, <1>6, ShapeGap
  <1>8. v.data = t.data /\ v.maxOff = t.maxOff /\ v.balance = t.balance
    BY <1>5 DEF ChildSet, SameRest
  <1>9. \A m \in Z \ {HEAD} : m # p => SameChildren(t, v, m)
    BY <1>1, <1>5 DEF ChildSet, SameChildren
  <1>10. Kept(v, Z, pos2, lo2, hi2, p)
    <2> SUFFICES ASSUME NEW m \in Z \ {HEAD}, ~Has(pos2, lo2, hi2, m, p) PROVE Fresh(v, m)
      BY DEF Kept
    <2>1. m # p
      BY <1>2, <1>7 DEF Has, Shape, Stretches
    <2>2. ~Has(pos, lo, hi, m, n)
      <3> SUFFICES ASSUME Has(pos, lo, hi, m, n) PROVE Has(pos2, lo2, hi2, m, p)
        OBVIOUS
      <3>1. Has(pos, lo, hi, m, p)
        BY <1>1, HasParent DEF p
      <3>2. /\ pos[p] \in Nat /\ pos[n] \in Nat /\ lo[m] \in Nat /\ hi[m] \in Nat
            /\ pos[p] # pos[n]
        BY <1>1, <1>2 DEF Shape, Stretches
      <3>3. /\ pos2[p] = IF pos[p] > pos[n] THEN pos[p] - 1 ELSE pos[p]
            /\ lo2[m] = IF lo[m] > pos[n] THEN lo[m] - 1 ELSE lo[m]
            /\ hi2[m] = IF hi[m] >= pos[n] THEN hi[m] - 1 ELSE hi[m]
        BY <1>2 DEF GapPos, GapLo, GapHi
      <3> HIDE DEF pos2, lo2, hi2
      <3> QED
        BY <3>1, <3>2, <3>3 DEF Has
    <2>3. Fresh(t, m)
      BY <1>1, <2>2 DEF Kept
    <2>4. SameChildren(t, v, m)
      BY <1>9, <2>1
    <2> QED
      BY <1>8, <2>3, <2>4, FreshChildren
  <1>11. high2 \in [Z -> Nat \ {0}] /\ \A m \in Z : high2[m] = high[m]
    BY <1>1
  <1> HIDE DEF high2, pos2, lo2, hi2
  <1>12. ASSUME NEW m \in Z \ {HEAD} PROVE Level(v, high2, p, i, -1, m)
    <2>1. Level(t, high, HEAD, 0, 0, m)
      BY <1>1
    <2>2. ASSUME NEW e \in 0 .. 1
          PROVE  Seen(v, high2, p, i, -1, m, e) = Seen(t, high, HEAD, 0, 0, m, e)
      <3>1. Seen(t, high, HEAD, 0, 0, m, e) = Deep(t, high, m, e)
        BY DEF Seen
      <3>2. CASE m = p /\ e = i
        <4>1. v.child[m][e] = only /\ t.child[m][e] = n
          BY <1>1, <1>2, <1>5, <3>2 DEF ChildSet
        <4>2. n # NULL
          BY <1>1, NullIsNone
        <4>3. Deep(v, high2, m, e) = Deep(t, high, n, d)
          BY <1>3, <1>4, <1>11, <4>1 DEF Deep
        <4>4. Deep(t, high, m, e) = high[n]
          BY <4>1, <4>2 DEF Deep
        <4>5. Deep(t, high, n, d) \in Nat /\ Deep(t, high, n, 1 - d) = 0
          BY <1>1, <1>3, DeepIsNat DEF Deep
        <4>6. high[n] = 1 + Max2(Deep(t, high, n, 0), Deep(t, high, n, 1))
          <5>1. Level(t, high, HEAD, 0, 0, n) /\ n # HEAD
            BY <1>1
          <5> QED
            BY <5>1, LevelIs
        <4>7. high[n] = 1 + Deep(t, high, n, d)
          <5>1. CASE d = 0
            BY <4>5, <4>6, <5>1 DEF Max2
          <5>2. CASE d = 1
            BY <4>5, <4>6, <5>2 DEF Max2
          <5> QED
            BY <5>1, <5>2
        <4>8. Seen(v, high2, p, i, -1, m, e) = Deep(v, high2, m, e) + 1
          BY <3>2, <4>3, <4>5 DEF Seen
        <4> QED
          BY <3>1, <4>3, <4>4, <4>5, <4>7, <4>8
      <3>3. CASE ~(m = p /\ e = i)
        <4>1. v.child[m][e] = t.child[m][e]
          BY <1>1, <1>5, <3>3 DEF ChildSet
        <4>2. t.child[m][e] # NULL => t.child[m][e] \in Z
          <5>1. t.child[m][e] # NULL =>
                  /\ t.child[m][e] \in Y /\ t.parent[t.child[m][e]] = m
                  /\ t.idx[t.child[m][e]] = e
            BY <1>1, ChildIs
          <5> QED
            BY <3>3, <5>1 DEF p, i
        <4>3. Deep(v, high2, m, e) = Deep(t, high, m, e)
          BY <1>11, <4>1, <4>2 DEF Deep
        <4> QED
          BY <3>1, <3>3, <4>3 DEF Seen
      <3> QED
        BY <3>2, <3>3
    <2>3. high2[m] = high[m] /\ v.balance[m] = t.balance[m]
      BY <1>8, <1>11
    <2>4. /\ Seen(v, high2, p, i, -1, m, 0) = Seen(t, high, HEAD, 0, 0, m, 0)
          /\ Seen(v, high2, p, i, -1, m, 1) = Seen(t, high, HEAD, 0, 0, m, 1)
      BY <2>2
    <2> QED
      BY <2>1, <2>3, <2>4, LevelSame
  <1>13. Leveled(v, Z, high2, p, i, -1)
    BY <1>11, <1>12 DEF Leveled
  <1>14. Even(v, Z)
    BY <1>1, <1>8 DEF Even
  <1>15. Typed(v) /\ SameRest(t, v) /\ v.parent[n] = p /\ v.idx[n] = i
    BY <1>1, <1>4, <1>5 DEF ChildSet, p, i
  <1> QED
    BY <1>7, <1>10, <1>13, <1>14, <1>15 DEF Unlinked, p, i, v, pos2

-----------------------------------------------------------------------------
(* What bst_erase does once the node has one child at most.                *)
UnlinkDone(t, n, only) ==
    LET t2 == SetChild(t, t.parent[n], t.idx[n], only)
        t3 == UpdateToTop(t2, t2.parent[n])
    IN  Shrunk(t3, t3.parent[n], t3.idx[n])

LEMMA UnlinkIs ==
    ASSUME NEW t, NEW Y, NEW pos, NEW lo, NEW hi, NEW high, NEW n \in Y \ {HEAD},
           Aside(t, Y, pos, lo, hi, high, n), NEW only, OnlyChild(t, n, only)
    PROVE  /\ SameRest(t, UnlinkDone(t, n, only))
           /\ Whole(UnlinkDone(t, n, only), Y \ {n}, GapPos(Y, pos, n, pos[n]))
  <1> DEFINE p == t.parent[n]
  <1> DEFINE i == t.idx[n]
  <1> DEFINE v == SetChild(t, p, i, only)
  <1> DEFINE w == UpdateToTop(v, p)
  <1> DEFINE u == Shrunk(w, p, i)
  <1> DEFINE Z == Y \ {n}
  <1> DEFINE pos2 == GapPos(Y, pos, n, pos[n])
  <1>1. PICK lo2, hi2, high2 : Unlinked(t, v, Y, pos, n, lo2, hi2, high2)
    BY Unlinking
  <1>2. p \in Z /\ i \in 0 .. 1
    <2>1. Shape(t, Y, pos, lo, hi)
      BY DEF Aside
    <2> QED
      BY <2>1, ParentIs
  <1> HIDE DEF v
  <1>3. /\ Typed(v) /\ SameRest(t, v) /\ v.parent[n] = p /\ v.idx[n] = i
        /\ Shape(v, Z, pos2, lo2, hi2) /\ Kept(v, Z, pos2, lo2, hi2, p)
        /\ Leveled(v, Z, high2, p, i, -1) /\ Even(v, Z)
    BY <1>1 DEF Unlinked
  <1> HIDE DEF p, i, Z, pos2
  <1>4. Fit(w, Z, pos2, lo2, hi2, high2, p, i, -1) /\ SameRest(v, w)
    BY <1>2, <1>3, RightedBy
  <1>5. w.parent[n] = p /\ w.idx[n] = i
    <2>1. OnlyValues(v, w)
      BY <1>2, <1>3, UpdateToTopIs
    <2> QED
      BY <1>3, <2>1 DEF OnlyValues, SameLinks
  <1> HIDE DEF w
  <1>6. SameRest(w, u) /\ Whole(u, Z, pos2)
    BY <1>2, <1>4, ShrunkIs
  <1>7. UnlinkDone(t, n, only) = u
    BY <1>3, <1>5 DEF UnlinkDone, v, w, p, i
  <1> HIDE DEF u
  <1> QED
    BY <1>3, <1>4, <1>6, <1>7 DEF SameRest, Z, pos2

-----------------------------------------------------------------------------
(* Of two stretches that meet, one lies inside the other.                  *)
LEMMA HasAll ==
    ASSUME NEW t, NEW Y, NEW pos, NEW lo, NEW hi, Shape(t, Y, pos, lo, hi),
           NEW m \in Y, NEW i \in Y, Has(pos, lo, hi, m, i)
    PROVE  lo[m] <= lo[i] /\ hi[i] <= hi[m]
  <1> DEFINE In(n) == lo[n] <= lo[i] /\ hi[i] <= hi[n]
  <1> DEFINE Bad == {n \in Y : Has(pos, lo, hi, n, i) /\ ~In(n)}
  <1> DEFINE f == [n \in Y |-> hi[n] - lo[n]]
  <1> SUFFICES ASSUME Bad # {} PROVE FALSE
    OBVIOUS
  <1>1. PICK n \in Bad : \A o \in Bad : f[n] <= f[o]
    <2>1. \A n \in Y : hi[n] - lo[n] \in Nat
      BY DEF Shape, Stretches
    <2>2. \A n \in Bad : f[n] \in Nat
      BY <2>1
    <2> HIDE DEF f, Bad
    <2> QED
      BY <2>2, LeastBy
  <1>2. n \in Y /\ Has(pos, lo, hi, n, i) /\ ~In(n)
    BY <1>1
  <1>3. n # i /\ pos[i] \in Nat /\ pos[n] \in Nat /\ pos[i] # pos[n]
    <2>1. lo[i] \in Nat /\ hi[i] \in Nat
      BY DEF Shape, Stretches
    <2>2. n # i
      BY <1>2, <2>1
    <2> QED
      BY <1>2, <2>2 DEF Shape, Stretches
  <1>4. PICK d \in 0 .. 1 : FirstPlace(pos, lo, n, d) <= pos[i] /\ pos[i] <= LastPlace(pos, hi, n, d)
    <2>1. lo[n] <= pos[i] /\ pos[i] <= hi[n]
      BY <1>2 DEF Has
    <2>2. CASE pos[i] < pos[n]
      BY <1>3, <2>1, <2>2 DEF FirstPlace, LastPlace
    <2>3. CASE pos[n] < pos[i]
      BY <1>3, <2>1, <2>3 DEF FirstPlace, LastPlace
    <2> QED
      BY <1>3, <2>2, <2>3
  <1> DEFINE c == t.child[n][d]
  <1>5. c # NULL
    <2>1. FirstPlace(pos, lo, n, d) \in Nat /\ LastPlace(pos, hi, n, d) \in Int /\ pos[i] \in Nat
      BY <1>2 DEF Shape, Stretches, FirstPlace, LastPlace
    <2>2. c = NULL => FirstPlace(pos, lo, n, d) = LastPlace(pos, hi, n, d) + 1
      BY <1>2 DEF Shape, Down, Hung
    <2> QED
      BY <1>4, <2>1, <2>2
  <1>6. /\ c \in Y \ {HEAD}
        /\ lo[c] = FirstPlace(pos, lo, n, d) /\ hi[c] = LastPlace(pos, hi, n, d)
    BY <1>2, <1>5 DEF Shape, Down, Hung
  <1>7. lo[n] <= lo[c] /\ hi[c] <= hi[n] /\ hi[c] - lo[c] < hi[n] - lo[n]
    BY <1>2, <1>6 DEF Shape, Stretches, FirstPlace, LastPlace
  <1>8. Has(pos, lo, hi, c, i)
    BY <1>4, <1>6 DEF Has
  <1>9. c \notin Bad
    <2>1. f[c] = hi[c] - lo[c] /\ f[n] = hi[n] - lo[n]
      BY <1>2, <1>6
    <2>2. hi[c] - lo[c] \in Int /\ hi[n] - lo[n] \in Int
      BY <1>2, <1>6 DEF Shape, Stretches
    <2> HIDE DEF f, Bad, c
    <2>3. c \in Bad => f[n] <= f[c]
      BY <1>1
    <2> QED
      BY <1>7, <2>1, <2>2, <2>3
  <1>10. In(c)
    BY <1>6, <1>8, <1>9
  <1>11. In(n)
    <2>1. /\ lo[n] \in Nat /\ hi[n] \in Nat /\ lo[c] \in Nat /\ hi[c] \in Nat
          /\ lo[i] \in Nat /\ hi[i] \in Nat
      BY <1>2, <1>6 DEF Shape, Stretches
    <2> HIDE DEF c
    <2> QED
      BY <1>7, <1>10, <2>1
  <1> QED
    BY <1>2, <1>11

-----------------------------------------------------------------------------
(* Two nodes exchanged: the tree is the same but for their names.          *)
Other(a, b, m) == IF m = a THEN b ELSE IF m = b THEN a ELSE m

Renamed(t, u, Y, a, b) ==
    \A m \in Y :
        /\ \A d \in 0 .. 1 : u.child[Other(a, b, m)][d] = Other(a, b, t.child[m][d])
        /\ u.parent[Other(a, b, m)] = Other(a, b, t.parent[m])
        /\ u.idx[Other(a, b, m)] = t.idx[m]
        /\ u.balance[Other(a, b, m)] = t.balance[m]

OtherOf(Y, f, a, b) == [m \in Y |-> f[Other(a, b, m)]]

LEMMA OtherIs ==
    ASSUME NEW Y, NEW a \in Y \ {HEAD}, NEW b \in Y \ {HEAD}
    PROVE  /\ \A m : Other(a, b, Other(a, b, m)) = m
           /\ \A m \in Y : Other(a, b, m) \in Y
           /\ \A m \in Y \ {HEAD} : Other(a, b, m) \in Y \ {HEAD}
           /\ \A m, k : Other(a, b, m) = Other(a, b, k) => m = k
           /\ Other(a, b, a) = b /\ Other(a, b, b) = a /\ Other(a, b, HEAD) = HEAD
           /\ NULL \notin Y => Other(a, b, NULL) = NULL
  BY DEF Other

LEMMA ShapeRenamed ==
    ASSUME NEW t, NEW u, NEW Y, NEW pos, NEW lo, NEW hi, Shape(t, Y, pos, lo, hi),
           NEW a \in Y \ {HEAD}, NEW b \in Y \ {HEAD}, Renamed(t, u, Y, a, b)
    PROVE  Shape(u, Y, OtherOf(Y, pos, a, b), OtherOf(Y, lo, a, b), OtherOf(Y, hi, a, b))
  <1> DEFINE s(m) == Other(a, b, m)
  <1> DEFINE pos2 == OtherOf(Y, pos, a, b)
  <1> DEFINE lo2 == OtherOf(Y, lo, a, b)
  <1> DEFINE hi2 == OtherOf(Y, hi, a, b)
  <1>1. NULL \notin Y /\ HEAD \in Y
    BY NullIsNone DEF Shape, Stretches
  <1>2. /\ \A m : s(s(m)) = m
        /\ \A m \in Y : s(m) \in Y
        /\ \A m \in Y \ {HEAD} : s(m) \in Y \ {HEAD}
        /\ \A m, k : s(m) = s(k) => m = k
        /\ s(HEAD) = HEAD /\ s(NULL) = NULL
    BY <1>1, OtherIs
  <1>3. \A m \in Y : /\ \A d \in 0 .. 1 : u.child[s(m)][d] = s(t.child[m][d])
                     /\ u.parent[s(m)] = s(t.parent[m]) /\ u.idx[s(m)] = t.idx[m]
    BY DEF Renamed
  <1> HIDE DEF s
  <1>4. \A m \in Y : pos2[s(m)] = pos[m] /\ lo2[s(m)] = lo[m] /\ hi2[s(m)] = hi[m]
    BY <1>2 DEF OtherOf, s
  <1>5. \A m \in Y : pos2[m] = pos[s(m)] /\ lo2[m] = lo[s(m)] /\ hi2[m] = hi[s(m)]
    BY DEF OtherOf, s
  <1>6. pos2 \in [Y -> Nat] /\ lo2 \in [Y -> Nat] /\ hi2 \in [Y -> Nat]
    <2>1. pos \in [Y -> Nat] /\ lo \in [Y -> Nat] /\ hi \in [Y -> Nat]
      BY DEF Shape, Stretches
    <2>2. \A m \in Y : Other(a, b, m) \in Y
      BY <1>2 DEF s
    <2> QED
      BY <2>1, <2>2 DEF OtherOf
  <1> HIDE DEF pos2, lo2, hi2
  <1>7. Stretches(Y, pos2, lo2, hi2)
    <2>1. Stretches(Y, pos, lo, hi)
      BY DEF Shape
    <2>2. \A m \in Y : 1 <= lo2[m] /\ lo2[m] <= pos2[m] /\ pos2[m] <= hi2[m]
      BY <1>2, <1>5, <2>1 DEF Stretches
    <2>3. lo2[HEAD] = 1 /\ hi2[HEAD] = pos2[HEAD] /\ pos2[HEAD] = pos[HEAD]
      BY <1>1, <1>2, <1>5, <2>1 DEF Stretches
    <2>4. \A m \in Y \ {HEAD} : hi2[m] < pos2[HEAD]
      BY <1>2, <1>5, <2>1, <2>3 DEF Stretches
    <2>5. \A m, n \in Y : pos2[m] = pos2[n] => m = n
      BY <1>2, <1>5, <2>1 DEF Stretches
    <2>6. ASSUME NEW k \in 1 .. pos2[HEAD] PROVE \E m \in Y : pos2[m] = k
      <3>1. PICK m \in Y : pos[m] = k
        BY <2>1, <2>3 DEF Stretches
      <3> QED
        BY <1>2, <1>4, <3>1
    <2> QED
      BY <1>1, <1>6, <2>1, <2>2, <2>3, <2>4, <2>5, <2>6 DEF Stretches
  <1>8. ASSUME NEW m \in Y, NEW d \in 0 .. 1 PROVE Hung(u, Y, pos2, lo2, hi2, s(m), d)
    <2>1. Hung(t, Y, pos, lo, hi, m, d)
      BY DEF Shape, Down
    <2>2. /\ FirstPlace(pos2, lo2, s(m), d) = FirstPlace(pos, lo, m, d)
          /\ LastPlace(pos2, hi2, s(m), d) = LastPlace(pos, hi, m, d)
      BY <1>4 DEF FirstPlace, LastPlace
    <2> DEFINE c == t.child[m][d]
    <2>3. u.child[s(m)][d] = s(c)
      BY <1>3
    <2>4. c = NULL <=> s(c) = NULL
      BY <1>2
    <2>5. c = NULL => FirstPlace(pos, lo, m, d) = LastPlace(pos, hi, m, d) + 1
      BY <2>1 DEF Hung
    <2>6. c # NULL => /\ c \in Y \ {HEAD} /\ t.parent[c] = m /\ t.idx[c] = d
                      /\ lo[c] = FirstPlace(pos, lo, m, d) /\ hi[c] = LastPlace(pos, hi, m, d)
      BY <2>1 DEF Hung
    <2> HIDE DEF c
    <2>7. c # NULL => /\ s(c) \in Y \ {HEAD} /\ u.parent[s(c)] = s(m) /\ u.idx[s(c)] = d
                      /\ lo2[s(c)] = FirstPlace(pos, lo, m, d)
                      /\ hi2[s(c)] = LastPlace(pos, hi, m, d)
      BY <1>2, <1>3, <1>4, <2>6
    <2> QED
      BY <2>2, <2>3, <2>4, <2>5, <2>7 DEF Hung
  <1>9. Down(u, Y, pos2, lo2, hi2)
    <2> SUFFICES ASSUME NEW m \in Y, NEW d \in 0 .. 1 PROVE Hung(u, Y, pos2, lo2, hi2, m, d)
      BY DEF Down
    <2>1. s(m) \in Y /\ s(s(m)) = m
      BY <1>2
    <2>2. Hung(u, Y, pos2, lo2, hi2, s(s(m)), d)
      BY <1>8, <2>1
    <2> QED
      BY <2>1, <2>2
  <1>10. Up(u, Y)
    <2>1. Up(t, Y)
      BY DEF Shape
    <2>2. u.parent[HEAD] = HEAD /\ u.idx[HEAD] = 0
      BY <1>1, <1>2, <1>3, <2>1 DEF Up
    <2>3. ASSUME NEW m \in Y \ {HEAD}
          PROVE  u.parent[m] \in Y /\ u.idx[m] \in 0 .. 1 /\ u.child[u.parent[m]][u.idx[m]] = m
      <3>1. s(m) \in Y \ {HEAD} /\ s(s(m)) = m
        BY <1>2
      <3>2. /\ t.parent[s(m)] \in Y /\ t.idx[s(m)] \in 0 .. 1
            /\ t.child[t.parent[s(m)]][t.idx[s(m)]] = s(m)
        BY <2>1, <3>1 DEF Up
      <3>3. u.parent[m] = s(t.parent[s(m)]) /\ u.idx[m] = t.idx[s(m)]
        BY <1>3, <3>1
      <3> QED
        BY <1>2, <1>3, <3>1, <3>2, <3>3
    <2> QED
      BY <2>2, <2>3 DEF Up
  <1> QED
    BY <1>7, <1>9, <1>10 DEF Shape, pos2, lo2, hi2

LEMMA LevelRenamed ==
    ASSUME NEW t, NEW u, NEW Y, NEW pos, NEW lo, NEW hi, Shape(t, Y, pos, lo, hi),
           NEW a \in Y \ {HEAD}, NEW b \in Y \ {HEAD}, Renamed(t, u, Y, a, b),
           NEW high, Leveled(t, Y, high, HEAD, 0, 0), Even(t, Y)
    PROVE  Leveled(u, Y, OtherOf(Y, high, a, b), HEAD, 0, 0) /\ Even(u, Y)
  <1> DEFINE s(m) == Other(a, b, m)
  <1> DEFINE high2 == OtherOf(Y, high, a, b)
  <1>1. NULL \notin Y /\ HEAD \in Y
    BY NullIsNone DEF Shape, Stretches
  <1>2. /\ \A m : s(s(m)) = m
        /\ \A m \in Y : s(m) \in Y
        /\ \A m \in Y \ {HEAD} : s(m) \in Y \ {HEAD}
        /\ \A m, k : s(m) = s(k) => m = k
        /\ s(HEAD) = HEAD /\ s(NULL) = NULL
    BY <1>1, OtherIs
  <1>3. \A m \in Y : /\ \A d \in 0 .. 1 : u.child[s(m)][d] = s(t.child[m][d])
                     /\ u.balance[s(m)] = t.balance[m]
    BY DEF Renamed
  <1>4. high2 \in [Y -> Nat \ {0}]
    <2>1. high \in [Y -> Nat \ {0}]
      BY DEF Leveled
    <2>2. \A m \in Y : Other(a, b, m) \in Y
      BY <1>2
    <2> QED
      BY <2>1, <2>2 DEF OtherOf
  <1>5. \A m \in Y : high2[s(m)] = high[m]
    BY <1>2 DEF OtherOf
  <1> HIDE DEF s, high2
  <1>6. ASSUME NEW m \in Y \ {HEAD} PROVE Level(u, high2, HEAD, 0, 0, s(m))
    <2>1. ASSUME NEW d \in 0 .. 1
          PROVE  Seen(u, high2, HEAD, 0, 0, s(m), d) = Seen(t, high, HEAD, 0, 0, m, d)
      <3>1. u.child[s(m)][d] = s(t.child[m][d])
        BY <1>3
      <3>2. t.child[m][d] # NULL => t.child[m][d] \in Y
        BY ChildIs
      <3>3. s(m) # HEAD /\ (t.child[m][d] = NULL <=> s(t.child[m][d]) = NULL)
        BY <1>2
      <3>4. Deep(u, high2, s(m), d) = Deep(t, high, m, d)
        BY <1>5, <3>1, <3>2, <3>3 DEF Deep
      <3> QED
        BY <3>3, <3>4 DEF Seen
    <2>2. Level(t, high, HEAD, 0, 0, m) /\ high2[s(m)] = high[m] /\ u.balance[s(m)] = t.balance[m]
      BY <1>3, <1>5 DEF Leveled
    <2> QED
      BY <2>1, <2>2 DEF Level
  <1>7. \A m \in Y \ {HEAD} : Level(u, high2, HEAD, 0, 0, m)
    <2> SUFFICES ASSUME NEW m \in Y \ {HEAD} PROVE Level(u, high2, HEAD, 0, 0, m)
      OBVIOUS
    <2>1. s(m) \in Y \ {HEAD} /\ s(s(m)) = m
      BY <1>2
    <2>2. Level(u, high2, HEAD, 0, 0, s(s(m)))
      BY <1>6, <2>1
    <2> QED
      BY <2>1, <2>2
  <1>8. Even(u, Y)
    <2> SUFFICES ASSUME NEW m \in Y \ {HEAD} PROVE u.balance[m] \in -1 .. 1
      BY DEF Even
    <2>1. s(m) \in Y \ {HEAD} /\ s(s(m)) = m
      BY <1>2
    <2>2. u.balance[m] = t.balance[s(m)]
      BY <1>3, <2>1
    <2> QED
      BY <2>1, <2>2 DEF Even
  <1> QED
    BY <1>4, <1>7, <1>8 DEF Leveled, high2

-----------------------------------------------------------------------------
(* swap(), step by step.                                                   *)
ChildrenFixed(t, u, n) ==
    /\ Typed(u) /\ SameRest(t, u) /\ u.balance = t.balance /\ u.maxOff = t.maxOff
    /\ u.child = t.child
    /\ \A m \in Cell :
          u.parent[m] = IF m = t.child[n][0] \/ m = t.child[n][1] THEN n ELSE t.parent[m]
    /\ \A m \in Cell : u.idx[m] = IF m = t.child[n][1] THEN 1
                                  ELSE IF m = t.child[n][0] THEN 0 ELSE t.idx[m]

LEMMA FixChildrenIs ==
    ASSUME NEW t, Typed(t), NEW n \in Cell
    PROVE  ChildrenFixed(t, FixChildren(t, n), n)
  <1> DEFINE v == FixChild(t, n, 0)
  <1> DEFINE u == FixChild(v, n, 1)
  <1>1. ChildFixed(t, v, n, 0)
    BY FixChildIs
  <1> HIDE DEF v
  <1>2. Typed(v)
    BY <1>1 DEF ChildFixed
  <1>3. ChildFixed(v, u, n, 1)
    BY <1>2, FixChildIs
  <1>4. FixChildren(t, n) = u
    BY DEF FixChildren, v
  <1> HIDE DEF u
  <1> QED
    BY <1>1, <1>3, <1>4 DEF ChildFixed, ChildrenFixed, SameRest

ChildrenCrossed(t, u, a, b) ==
    /\ Typed(u) /\ SameRest(t, u) /\ u.balance = t.balance /\ u.maxOff = t.maxOff
    /\ u.parent = t.parent /\ u.idx = t.idx
    /\ \A m \in Cell : \A d \in 0 .. 1 :
          u.child[m][d] = IF m = t.parent[b] /\ d = t.idx[b] THEN a
                          ELSE IF m = t.parent[a] /\ d = t.idx[a] THEN b
                          ELSE t.child[m][d]

LEMMA CrossedIs ==
    ASSUME NEW t, Typed(t), NEW a \in Node, NEW b \in Node,
           t.parent[a] \in Cell, t.parent[b] \in Cell
    PROVE  ChildrenCrossed(t, Crossed(t, a, b), a, b)
  <1> DEFINE v == [t EXCEPT !.child[t.parent[a]][t.idx[a]] = b]
  <1> DEFINE u == [v EXCEPT !.child[t.parent[b]][t.idx[b]] = a]
  <1>1. t.idx[a] \in 0 .. 1 /\ t.idx[b] \in 0 .. 1
    BY DEF Typed, Cell
  <1>2. /\ Typed(v) /\ SameRest(t, v) /\ v.balance = t.balance /\ v.maxOff = t.maxOff
        /\ v.parent = t.parent /\ v.idx = t.idx
        /\ \A m \in Cell : \A d \in 0 .. 1 :
              v.child[m][d] = IF m = t.parent[a] /\ d = t.idx[a] THEN b ELSE t.child[m][d]
    BY <1>1 DEF Typed, SameRest
  <1>3. Crossed(t, a, b) = u
    BY DEF Crossed
  <1> HIDE DEF v
  <1>4. /\ Typed(u) /\ SameRest(v, u) /\ u.balance = v.balance /\ u.maxOff = v.maxOff
        /\ u.parent = v.parent /\ u.idx = v.idx
        /\ \A m \in Cell : \A d \in 0 .. 1 :
              u.child[m][d] = IF m = t.parent[b] /\ d = t.idx[b] THEN a ELSE v.child[m][d]
    BY <1>1, <1>2 DEF Typed, SameRest
  <1> HIDE DEF u
  <1> QED
    BY <1>2, <1>3, <1>4 DEF ChildrenCrossed, SameRest

MembersExchanged(t, u, a, b) ==
    /\ Typed(u) /\ SameRest(t, u) /\ u.maxOff = t.maxOff
    /\ \A m \in Cell :
          /\ u.child[m] = t.child[Other(a, b, m)] /\ u.parent[m] = t.parent[Other(a, b, m)]
          /\ u.idx[m] = t.idx[Other(a, b, m)] /\ u.balance[m] = t.balance[Other(a, b, m)]

LEMMA ExchangedIs ==
    ASSUME NEW t, Typed(t), NEW a \in Node, NEW b \in Node, a # b
    PROVE  MembersExchanged(t, Exchanged(t, a, b), a, b)
  <1> DEFINE v1 == [t EXCEPT !.parent[a] = t.parent[b], !.parent[b] = t.parent[a]]
  <1> DEFINE v2 == [v1 EXCEPT !.child[a] = t.child[b], !.child[b] = t.child[a]]
  <1> DEFINE v3 == [v2 EXCEPT !.balance[a] = t.balance[b], !.balance[b] = t.balance[a]]
  <1> DEFINE v4 == [v3 EXCEPT !.idx[a] = t.idx[b], !.idx[b] = t.idx[a]]
  <1>1. a \in Cell /\ b \in Cell
    BY DEF Cell
  <1>2. Exchanged(t, a, b) = v4
    BY DEF Exchanged
  <1>3. /\ t.parent[a] \in Cell \cup {NULL} /\ t.parent[b] \in Cell \cup {NULL}
        /\ t.child[a] \in [0 .. 1 -> Node \cup {NULL}]
        /\ t.child[b] \in [0 .. 1 -> Node \cup {NULL}]
        /\ t.balance[a] \in Int /\ t.balance[b] \in Int /\ t.idx[a] \in 0 .. 1 /\ t.idx[b] \in 0 .. 1
    BY <1>1 DEF Typed
  <1>4. /\ Typed(v1) /\ SameRest(t, v1) /\ v1.maxOff = t.maxOff
        /\ v1.child = t.child /\ v1.idx = t.idx /\ v1.balance = t.balance
        /\ \A m \in Cell : v1.parent[m] = t.parent[Other(a, b, m)]
    BY <1>1, <1>3 DEF Typed, SameRest, Other
  <1> HIDE DEF v1
  <1>5. /\ Typed(v2) /\ SameRest(v1, v2) /\ v2.maxOff = v1.maxOff
        /\ v2.parent = v1.parent /\ v2.idx = v1.idx /\ v2.balance = v1.balance
        /\ \A m \in Cell : v2.child[m] = t.child[Other(a, b, m)]
    BY <1>1, <1>3, <1>4 DEF Typed, SameRest, Other
  <1> HIDE DEF v2
  <1>6. /\ Typed(v3) /\ SameRest(v2, v3) /\ v3.maxOff = v2.maxOff
        /\ v3.parent = v2.parent /\ v3.idx = v2.idx /\ v3.child = v2.child
        /\ \A m \in Cell : v3.balance[m] = t.balance[Other(a, b, m)]
    BY <1>1, <1>3, <1>4, <1>5 DEF Typed, SameRest, Other
  <1> HIDE DEF v3
  <1>7. /\ Typed(v4) /\ SameRest(v3, v4) /\ v4.maxOff = v3.maxOff
        /\ v4.parent = v3.parent /\ v4.balance = v3.balance /\ v4.child = v3.child
        /\ \A m \in Cell : v4.idx[m] = t.idx[Other(a, b, m)]
    BY <1>1, <1>3, <1>4, <1>5, <1>6 DEF Typed, SameRest, Other
  <1> HIDE DEF v4
  <1>8. Typed(v4) /\ SameRest(t, v4) /\ v4.maxOff = t.maxOff
    BY <1>4, <1>5, <1>6, <1>7 DEF SameRest
  <1>9. \A m \in Cell :
          /\ v4.child[m] = t.child[Other(a, b, m)] /\ v4.parent[m] = t.parent[Other(a, b, m)]
          /\ v4.idx[m] = t.idx[Other(a, b, m)] /\ v4.balance[m] = t.balance[Other(a, b, m)]
    BY <1>4, <1>5, <1>6, <1>7
  <1> QED
    BY <1>2, <1>8, <1>9 DEF MembersExchanged

LEMMA SwapIs ==
    ASSUME NEW t, NEW Y, NEW pos, NEW lo, NEW hi, Typed(t), Shape(t, Y, pos, lo, hi),
           NEW a \in Y \ {HEAD}, NEW b \in Y \ {HEAD}, a # b
    PROVE  /\ Typed(Swap(t, a, b)) /\ SameRest(t, Swap(t, a, b))
           /\ Swap(t, a, b).maxOff = t.maxOff
           /\ Renamed(t, Swap(t, a, b), Y, a, b)
  <1> DEFINE s(m) == Other(a, b, m)
  <1> DEFINE x == Crossed(t, a, b)
  <1> DEFINE y == Exchanged(x, a, b)
  <1> DEFINE z == FixChildren(y, a)
  <1> DEFINE u == FixChildren(z, b)
  <1>1. Y \subseteq Cell /\ HEAD \in Y /\ NULL \notin Y /\ a \in Node /\ b \in Node
        /\ a \in Cell /\ b \in Cell
    BY NullIsNone, InNode DEF Shape, Stretches
  <1>2. \A m \in Y \ {HEAD} : /\ t.parent[m] \in Y /\ t.idx[m] \in 0 .. 1
                              /\ t.child[t.parent[m]][t.idx[m]] = m
    BY DEF Shape, Up
  <1>3. \A m \in Y : \A d \in 0 .. 1 :
          t.child[m][d] # NULL => /\ t.child[m][d] \in Y \ {HEAD}
                                  /\ t.parent[t.child[m][d]] = m /\ t.idx[t.child[m][d]] = d
    BY ChildIs
  <1>4. /\ \A m : s(s(m)) = m
        /\ \A m \in Y : s(m) \in Y
        /\ \A m, k : s(m) = s(k) => m = k
        /\ s(a) = b /\ s(b) = a /\ s(HEAD) = HEAD /\ s(NULL) = NULL
        /\ \A m : m # a /\ m # b => s(m) = m
    BY <1>1, OtherIs DEF Other
  <1>5. ChildrenCrossed(t, x, a, b)
    <2>1. t.parent[a] \in Cell /\ t.parent[b] \in Cell
      BY <1>1, <1>2
    <2> QED
      BY <1>1, <2>1, CrossedIs
  <1> HIDE DEF x
  <1>6. MembersExchanged(x, y, a, b)
    <2>1. Typed(x)
      BY <1>5 DEF ChildrenCrossed
    <2> QED
      BY <1>1, <2>1, ExchangedIs
  <1> HIDE DEF y
  <1>7. ChildrenFixed(y, z, a)
    <2>1. Typed(y)
      BY <1>6 DEF MembersExchanged
    <2> QED
      BY <1>1, <2>1, FixChildrenIs
  <1> HIDE DEF z
  <1>8. ChildrenFixed(z, u, b)
    <2>1. Typed(z)
      BY <1>7 DEF ChildrenFixed
    <2> QED
      BY <1>1, <2>1, FixChildrenIs
  <1>9. Swap(t, a, b) = u
    BY DEF Swap, x, y, z
  <1> HIDE DEF u
  <1>10. Typed(u) /\ SameRest(t, u) /\ u.maxOff = t.maxOff
    BY <1>5, <1>6, <1>7, <1>8 DEF ChildrenCrossed, MembersExchanged, ChildrenFixed, SameRest
  <1>11. \A m \in Y : \A d \in 0 .. 1 :
          x.child[m][d] = IF m = t.parent[b] /\ d = t.idx[b] THEN a
                          ELSE IF m = t.parent[a] /\ d = t.idx[a] THEN b
                          ELSE t.child[m][d]
    BY <1>1, <1>5 DEF ChildrenCrossed
  <1>12. ASSUME NEW m \in Y, NEW d \in 0 .. 1 PROVE x.child[m][d] = s(t.child[m][d])
    <2>1. CASE m = t.parent[b] /\ d = t.idx[b]
      BY <1>2, <1>4, <1>11, <2>1
    <2>2. CASE m = t.parent[a] /\ d = t.idx[a]
      BY <1>2, <1>4, <1>11, <2>2
    <2>3. CASE ~(m = t.parent[b] /\ d = t.idx[b]) /\ ~(m = t.parent[a] /\ d = t.idx[a])
      <3>1. t.child[m][d] # a /\ t.child[m][d] # b
        BY <1>1, <1>3, <2>3
      <3> QED
        BY <1>4, <1>11, <2>3, <3>1
    <2> QED
      BY <2>1, <2>2, <2>3
  <1>13. \A m \in Y : y.child[s(m)] = x.child[m] /\ y.parent[s(m)] = t.parent[m]
                      /\ y.idx[s(m)] = t.idx[m] /\ y.balance[s(m)] = t.balance[m]
    <2>1. \A m \in Cell : y.child[m] = x.child[s(m)] /\ y.parent[m] = x.parent[s(m)]
                      /\ y.idx[m] = x.idx[s(m)] /\ y.balance[m] = x.balance[s(m)]
      BY <1>6 DEF MembersExchanged
    <2>2. x.parent = t.parent /\ x.idx = t.idx /\ x.balance = t.balance
      BY <1>5 DEF ChildrenCrossed
    <2> HIDE DEF s
    <2> QED
      BY <1>1, <1>4, <2>1, <2>2
  <1>14. \A m \in Y : \A d \in 0 .. 1 : y.child[s(m)][d] = s(t.child[m][d])
    <2> HIDE DEF s
    <2> QED
      BY <1>12, <1>13
  <1>15. /\ u.child = y.child /\ z.child = y.child /\ u.balance = y.balance
         /\ \A k \in Cell :
              /\ u.parent[k] = IF k = y.child[b][0] \/ k = y.child[b][1] THEN b
                               ELSE IF k = y.child[a][0] \/ k = y.child[a][1] THEN a
                               ELSE y.parent[k]
              /\ u.idx[k] = IF k = y.child[b][1] THEN 1 ELSE IF k = y.child[b][0] THEN 0
                            ELSE IF k = y.child[a][1] THEN 1 ELSE IF k = y.child[a][0] THEN 0
                            ELSE y.idx[k]
    BY <1>7, <1>8 DEF ChildrenFixed
  <1>16. \A d \in 0 .. 1 : y.child[b][d] = s(t.child[a][d]) /\ y.child[a][d] = s(t.child[b][d])
    BY <1>4, <1>14
  <1> HIDE DEF s
  <1>17. ASSUME NEW m \in Y
         PROVE  u.parent[s(m)] = s(t.parent[m]) /\ u.idx[s(m)] = t.idx[m]
    <2>1. s(m) \in Cell
      BY <1>1, <1>4
    <2>2. \A d \in 0 .. 1 : /\ s(m) = y.child[b][d] <=> m = t.child[a][d]
                            /\ s(m) = y.child[a][d] <=> m = t.child[b][d]
      BY <1>4, <1>16
    <2>3. /\ m = t.child[a][0] => m # HEAD /\ t.parent[m] = a /\ t.idx[m] = 0
          /\ m = t.child[a][1] => m # HEAD /\ t.parent[m] = a /\ t.idx[m] = 1
          /\ m = t.child[b][0] => m # HEAD /\ t.parent[m] = b /\ t.idx[m] = 0
          /\ m = t.child[b][1] => m # HEAD /\ t.parent[m] = b /\ t.idx[m] = 1
      BY <1>1, <1>3
    <2>4. m # HEAD /\ t.parent[m] \in {a, b} => t.child[t.parent[m]][0] = m
                                                \/ t.child[t.parent[m]][1] = m
      BY <1>2
    <2>5. /\ u.parent[s(m)] = IF m = t.child[a][0] \/ m = t.child[a][1] THEN b
                              ELSE IF m = t.child[b][0] \/ m = t.child[b][1] THEN a
                              ELSE t.parent[m]
          /\ u.idx[s(m)] = IF m = t.child[a][1] THEN 1 ELSE IF m = t.child[a][0] THEN 0
                           ELSE IF m = t.child[b][1] THEN 1 ELSE IF m = t.child[b][0] THEN 0
                           ELSE t.idx[m]
      BY <1>13, <1>15, <2>1, <2>2
    <2>6. m = HEAD => t.parent[m] = HEAD /\ t.parent[m] \notin {a, b}
      BY DEF Shape, Up
    <2>7. u.idx[s(m)] = t.idx[m]
      BY <2>3, <2>5
    <2>8. CASE m = t.child[a][0] \/ m = t.child[a][1]
      BY <1>4, <2>3, <2>5, <2>8
    <2>9. CASE m = t.child[b][0] \/ m = t.child[b][1]
      BY <1>4, <2>3, <2>5, <2>9
    <2>10. CASE ~(m = t.child[a][0] \/ m = t.child[a][1])
                /\ ~(m = t.child[b][0] \/ m = t.child[b][1])
      <3>1. t.parent[m] # a /\ t.parent[m] # b
        BY <2>4, <2>6, <2>10
      <3> QED
        BY <1>4, <2>5, <2>7, <2>10, <3>1
    <2> QED
      BY <2>7, <2>8, <2>9, <2>10
  <1>18. Renamed(t, u, Y, a, b)
    <2>1. \A m \in Y : \A d \in 0 .. 1 : u.child[s(m)][d] = s(t.child[m][d])
      BY <1>14, <1>15
    <2>2. \A m \in Y : u.balance[s(m)] = t.balance[m]
      BY <1>13, <1>15
    <2> QED
      BY <1>17, <2>1, <2>2 DEF Renamed, s
  <1> QED
    BY <1>9, <1>10, <1>18
=============================================================================
