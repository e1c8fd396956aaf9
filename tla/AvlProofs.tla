----------------------------- MODULE AvlProofs ------------------------------
(***************************************************************************)
(* Proofs about the calls of module AvlTree.  Each call leaves a tree in   *)
(* shape, one node more in its order, or a range of nodes less (TreeInv,   *)
(* StepIs); from there, that balances are exact, steps and lookups are     *)
(* those of the list, the values kept are true and a range lookup is       *)
(* complete, and that the tree implements module OrderedList.              *)
(***************************************************************************)
EXTENDS AvlShapeProofs

-----------------------------------------------------------------------------
(* The exchange of a node a with one below it, b: what is fresh stays so.  *)
LEMMA KeptRenamed ==
    ASSUME NEW t, NEW u, NEW Y, NEW pos, NEW lo, NEW hi, Shape(t, Y, pos, lo, hi),
           NEW a \in Y \ {HEAD}, NEW b \in Y \ {HEAD}, Renamed(t, u, Y, a, b),
           Has(pos, lo, hi, a, b), Kept(t, Y, pos, lo, hi, a),
           u.data = t.data, u.maxOff = t.maxOff
    PROVE  Kept(u, Y, OtherOf(Y, pos, a, b), OtherOf(Y, lo, a, b), OtherOf(Y, hi, a, b), a)
  <1> DEFINE s(m) == Other(a, b, m)
  <1> DEFINE pos2 == OtherOf(Y, pos, a, b)
  <1> DEFINE lo2 == OtherOf(Y, lo, a, b)
  <1> DEFINE hi2 == OtherOf(Y, hi, a, b)
  <1> SUFFICES ASSUME NEW m \in Y \ {HEAD}, ~Has(pos2, lo2, hi2, m, a) PROVE Fresh(u, m)
    BY DEF Kept
  <1>1. pos2[a] = pos[b] /\ lo2[m] = lo[s(m)] /\ hi2[m] = hi[s(m)]
    BY DEF OtherOf, Other
  <1>2. ~Has(pos, lo, hi, s(m), b)
    <2> HIDE DEF s, pos2, lo2, hi2
    <2> QED
      BY <1>1 DEF Has
  <1>3. m # a
    <2>1. Has(pos, lo, hi, b, b)
      BY DEF Shape, Stretches, Has
    <2> QED
      BY <1>2, <2>1 DEF Other
  <1>4. m # b
    BY <1>2, <1>3 DEF Other
  <1>5. ~Has(pos, lo, hi, m, b)
    BY <1>2, <1>3, <1>4 DEF Other
  <1>6. ~Has(pos, lo, hi, m, a)
    <2> SUFFICES ASSUME Has(pos, lo, hi, m, a) PROVE FALSE
      OBVIOUS
    <2>1. lo[m] <= lo[a] /\ hi[a] <= hi[m]
      BY HasAll
    <2>2. /\ lo[m] \in Nat /\ hi[m] \in Nat /\ lo[a] \in Nat /\ hi[a] \in Nat /\ pos[b] \in Nat
      BY DEF Shape, Stretches
    <2> QED
      BY <1>5, <2>1, <2>2 DEF Has
  <1>7. Fresh(t, m)
    BY <1>6 DEF Kept
  <1>8. SameChildren(t, u, m)
    <2> SUFFICES ASSUME NEW d \in 0 .. 1 PROVE u.child[m][d] = t.child[m][d]
      BY DEF SameChildren
    <2>1. u.child[m][d] = s(t.child[m][d])
      <3>1. s(m) = m
        BY <1>3, <1>4 DEF Other
      <3>2. u.child[s(m)][d] = s(t.child[m][d])
        BY DEF Renamed
      <3> QED
        BY <3>1, <3>2
    <2>2. ASSUME NEW k \in Y \ {HEAD}, t.child[m][d] = k PROVE Has(pos, lo, hi, m, k)
      <3>1. t.parent[k] = m
        BY <2>2, NullIsNone, ChildIs DEF Shape, Stretches
      <3> QED
        BY <3>1, TurnedHas
    <2>3. t.child[m][d] # a /\ t.child[m][d] # b
      BY <1>5, <1>6, <2>2
    <2> QED
      BY <2>1, <2>3 DEF Other
  <1> QED
    BY <1>7, <1>8, FreshChildren

Parted(t, n) == [t EXCEPT !.inTree = @ \ {n}, !.size = @ - 1]

LEMMA PartedIs ==
    ASSUME NEW t, Typed(t), NEW n \in Node
    PROVE  /\ Typed(Parted(t, n)) /\ SameLinks(t, Parted(t, n)) /\ Parted(t, n).data = t.data
           /\ Parted(t, n).balance = t.balance /\ Parted(t, n).maxOff = t.maxOff
           /\ Parted(t, n).inTree = t.inTree \ {n} /\ Parted(t, n).size = t.size - 1
  <1> DEFINE S == t.inTree \ {n}
  <1> DEFINE k == t.size - 1
  <1>1. S \in SUBSET Node /\ k \in Int
    BY DEF Typed
  <1>2. Parted(t, n) = [[t EXCEPT !.inTree = S] EXCEPT !.size = k]
    BY DEF Parted
  <1> HIDE DEF S, k
  <1> DEFINE v == [t EXCEPT !.inTree = S]
  <1> DEFINE u == [v EXCEPT !.size = k]
  <1>3. Typed(v) /\ SameLinks(t, v) /\ v.data = t.data /\ v.balance = t.balance
        /\ v.maxOff = t.maxOff /\ v.inTree = S
    BY <1>1 DEF Typed, SameLinks
  <1> HIDE DEF v
  <1>4. Typed(u) /\ SameLinks(v, u) /\ u.data = v.data /\ u.balance = v.balance
        /\ u.maxOff = v.maxOff /\ u.inTree = v.inTree /\ u.size = k
    BY <1>1, <1>3 DEF Typed, SameLinks
  <1>5. Parted(t, n) = u
    BY <1>2 DEF v
  <1> HIDE DEF u
  <1> QED
    BY <1>3, <1>4, <1>5 DEF S, k, SameLinks

Follows(Y, pos, n, m) == m \in Y /\ pos[m] = pos[n] + 1

(* A call that took node n out.                                            *)
Erased(t, u, Y, pos, n) ==
    /\ u.data = t.data /\ u.inTree = t.inTree \ {n} /\ u.size = t.size - 1
    /\ Whole(u, Y \ {n}, GapPos(Y, pos, n, pos[n]))

(* The tree bst_erase unlinks node n from.                                 *)
Ready(t, n) ==
    IF t.child[n][0] # NULL /\ t.child[n][1] # NULL THEN Swap(t, n, Adj(t, n, 1)) ELSE t

LEMMA NextBelow ==
    ASSUME NEW t, NEW Y, NEW pos, NEW lo, NEW hi, Shape(t, Y, pos, lo, hi),
           NEW n \in Y \ {HEAD}, t.child[n][1] # NULL
    PROVE  /\ Adj(t, n, 1) \in Y \ {HEAD} /\ Adj(t, n, 1) # n /\ pos[Adj(t, n, 1)] = pos[n] + 1
           /\ Has(pos, lo, hi, n, Adj(t, n, 1)) /\ t.child[Adj(t, n, 1)][0] = NULL
  <1> DEFINE b == Adj(t, n, 1)
  <1>1. b \in Y /\ pos[b] = pos[n] + 1
    BY NextIs
  <1> HIDE DEF b
  <1>2. pos[n] \in Nat /\ hi[n] \in Nat /\ lo[n] \in Nat /\ lo[n] <= pos[n] /\ hi[n] < pos[HEAD]
        /\ pos[HEAD] \in Nat
    BY DEF Shape, Stretches
  <1>3. hi[n] >= pos[n] + 1
    <2>1. t.child[n][1] \in Y \ {HEAD} /\ lo[t.child[n][1]] = pos[n] + 1 /\ hi[t.child[n][1]] = hi[n]
      BY ChildIs DEF FirstPlace, LastPlace
    <2> QED
      BY <1>2, <2>1 DEF Shape, Stretches
  <1>4. b # HEAD /\ b # n /\ Has(pos, lo, hi, n, b)
    BY <1>1, <1>2, <1>3 DEF Has
  <1>5. t.child[b][0] = NULL
    <2> SUFFICES ASSUME t.child[b][0] # NULL PROVE FALSE
      OBVIOUS
    <2> DEFINE c == t.child[b][0]
    <2>1. c \in Y \ {HEAD} /\ hi[c] = pos[b] - 1
      BY <1>1, ChildIs DEF LastPlace
    <2> HIDE DEF c
    <2>2. hi[c] = pos[n] /\ lo[c] <= hi[c] /\ lo[c] \in Nat
      <3>1. lo[c] \in Nat /\ hi[c] \in Nat /\ pos[c] \in Nat /\ lo[c] <= pos[c] /\ pos[c] <= hi[c]
        BY <2>1 DEF Shape, Stretches
      <3> QED
        BY <1>1, <1>2, <2>1, <3>1
    <2>3. Has(pos, lo, hi, c, n)
      BY <1>2, <2>2 DEF Has
    <2>4. hi[n] <= hi[c]
      BY <2>1, <2>3, HasAll
    <2> QED
      BY <1>2, <1>3, <2>2, <2>4
  <1> QED
    BY <1>1, <1>4, <1>5 DEF b

LEMMA ReadyIs ==
    ASSUME NEW t, NEW Y, NEW pos, NEW lo, NEW hi, NEW high, NEW n \in Y \ {HEAD},
           Aside(t, Y, pos, lo, hi, high, n)
    PROVE  /\ SameRest(t, Ready(t, n))
           /\ Ready(t, n).child[n][0] = NULL \/ Ready(t, n).child[n][1] = NULL
           /\ \E pos2, lo2, hi2, high2 :
                 /\ Aside(Ready(t, n), Y, pos2, lo2, hi2, high2, n)
                 /\ GapPos(Y, pos2, n, pos2[n]) = GapPos(Y, pos, n, pos[n])
  <1>1. CASE ~(t.child[n][0] # NULL /\ t.child[n][1] # NULL)
    <2>1. Ready(t, n) = t
      BY <1>1 DEF Ready
    <2>2. Aside(t, Y, pos, lo, hi, high, n) /\ GapPos(Y, pos, n, pos[n]) = GapPos(Y, pos, n, pos[n])
      OBVIOUS
    <2>3. SameRest(t, t)
      BY DEF SameRest
    <2> QED
      BY <1>1, <2>1, <2>2, <2>3
  <1>2. CASE t.child[n][0] # NULL /\ t.child[n][1] # NULL
    <2> DEFINE b == Adj(t, n, 1)
    <2> DEFINE u == Swap(t, n, b)
    <2> DEFINE pos2 == OtherOf(Y, pos, n, b)
    <2> DEFINE lo2 == OtherOf(Y, lo, n, b)
    <2> DEFINE hi2 == OtherOf(Y, hi, n, b)
    <2> DEFINE high2 == OtherOf(Y, high, n, b)
    <2>1. /\ Typed(t) /\ Shape(t, Y, pos, lo, hi) /\ Kept(t, Y, pos, lo, hi, n)
          /\ Leveled(t, Y, high, HEAD, 0, 0) /\ Even(t, Y)
      BY DEF Aside
    <2>2. /\ b \in Y \ {HEAD} /\ b # n /\ pos[b] = pos[n] + 1
          /\ Has(pos, lo, hi, n, b) /\ t.child[b][0] = NULL
      BY <1>2, <2>1, NextBelow
    <2>3. Ready(t, n) = u
      BY <1>2 DEF Ready
    <2> HIDE DEF b
    <2>4. Typed(u) /\ SameRest(t, u) /\ u.maxOff = t.maxOff /\ Renamed(t, u, Y, n, b)
      BY <2>1, <2>2, SwapIs
    <2> HIDE DEF u
    <2>5. Shape(u, Y, pos2, lo2, hi2)
      BY <2>1, <2>2, <2>4, ShapeRenamed
    <2>6. Kept(u, Y, pos2, lo2, hi2, n)
      <3>1. u.data = t.data
        BY <2>4 DEF SameRest
      <3> QED
        BY <2>1, <2>2, <2>4, <3>1, KeptRenamed
    <2>7. Leveled(u, Y, high2, HEAD, 0, 0) /\ Even(u, Y)
      BY <2>1, <2>2, <2>4, LevelRenamed
    <2>8. Aside(u, Y, pos2, lo2, hi2, high2, n)
      BY <2>4, <2>5, <2>6, <2>7 DEF Aside
    <2>9. GapPos(Y, pos2, n, pos2[n]) = GapPos(Y, pos, n, pos[n])
      <3>1. \A m \in Y : pos[m] \in Nat /\ (pos[m] = pos[b] => m = b)
                         /\ (pos[m] = pos[n] => m = n)
        BY <2>1, <2>2 DEF Shape, Stretches
      <3>2. \A m \in Y : pos2[m] = IF m = n THEN pos[b] ELSE IF m = b THEN pos[n] ELSE pos[m]
        BY DEF OtherOf, Other
      <3> HIDE DEF pos2
      <3>3. pos2[n] = pos[n] + 1
        BY <2>2, <3>2
      <3>4. \A m \in Y \ {n} : (IF pos2[m] > pos2[n] THEN pos2[m] - 1 ELSE pos2[m])
                               = (IF pos[m] > pos[n] THEN pos[m] - 1 ELSE pos[m])
        BY <2>2, <3>1, <3>2, <3>3
      <3> QED
        BY <3>4 DEF GapPos
    <2>10. u.child[n][0] = NULL
      <3>1. NULL # n /\ NULL # b
        BY <2>1, <2>2, NullIsNone DEF Shape, Stretches
      <3>2. u.child[Other(n, b, b)][0] = Other(n, b, t.child[b][0])
        BY <2>2, <2>4 DEF Renamed
      <3> QED
        BY <2>2, <3>1, <3>2 DEF Other
    <2> QED
      BY <2>3, <2>4, <2>8, <2>9, <2>10
  <1> QED
    BY <1>1, <1>2

(* bst_erase: what is left has its shape, the others keep their order, and *)
(* the node told to the caller is the one that followed.                   *)
LEMMA EraseNodeIs ==
    ASSUME NEW t, NEW Y, NEW pos, NEW lo, NEW hi, NEW high, NEW n \in Y \ {HEAD},
           Aside(t, Y, pos, lo, hi, high, n)
    PROVE  /\ Erased(t, EraseNode(t, n).tree, Y, pos, n)
           /\ Follows(Y, pos, n, EraseNode(t, n).next)
  <1> DEFINE t1 == Ready(t, n)
  <1> DEFINE only == IF t1.child[n][0] # NULL THEN t1.child[n][0] ELSE t1.child[n][1]
  <1> DEFINE t4 == UnlinkDone(t1, n, only)
  <1> DEFINE u == Parted(t4, n)
  <1>1. EraseNode(t, n) = [tree |-> u, next |-> Adj(t, n, 1)]
    BY DEF EraseNode, Ready, UnlinkDone, Parted
  <1>2. PICK pos2, lo2, hi2, high2 :
                 /\ Aside(t1, Y, pos2, lo2, hi2, high2, n)
                 /\ GapPos(Y, pos2, n, pos2[n]) = GapPos(Y, pos, n, pos[n])
    BY ReadyIs
  <1>3. SameRest(t, t1) /\ (t1.child[n][0] = NULL \/ t1.child[n][1] = NULL)
    BY ReadyIs
  <1> HIDE DEF t1
  <1>4. OnlyChild(t1, n, only)
    <2>1. CASE t1.child[n][0] # NULL
      <3>1. t1.child[n][0] = only /\ t1.child[n][1 - 0] = NULL
        BY <1>3, <2>1
      <3> QED
        BY <3>1 DEF OnlyChild
    <2>2. CASE t1.child[n][0] = NULL
      <3>1. t1.child[n][1] = only /\ t1.child[n][1 - 1] = NULL
        BY <2>2
      <3> QED
        BY <3>1 DEF OnlyChild
    <2> QED
      BY <2>1, <2>2
  <1> HIDE DEF only
  <1>5. SameRest(t1, t4) /\ Whole(t4, Y \ {n}, GapPos(Y, pos2, n, pos2[n]))
    BY <1>2, <1>4, UnlinkIs
  <1> HIDE DEF t4
  <1>6. Whole(t4, Y \ {n}, GapPos(Y, pos, n, pos[n])) /\ Typed(t4)
    BY <1>2, <1>5 DEF Whole, Fit
  <1>7. n \in Node
    BY InNode DEF Aside, Shape, Stretches
  <1>8. /\ Typed(u) /\ SameLinks(t4, u) /\ u.data = t4.data /\ u.balance = t4.balance
        /\ u.maxOff = t4.maxOff /\ u.inTree = t4.inTree \ {n} /\ u.size = t4.size - 1
    BY <1>6, <1>7, PartedIs
  <1> HIDE DEF u
  <1>9. Whole(u, Y \ {n}, GapPos(Y, pos, n, pos[n]))
    BY <1>6, <1>8, WholeSame
  <1>10. u.data = t.data /\ u.inTree = t.inTree \ {n} /\ u.size = t.size - 1
    BY <1>3, <1>5, <1>8 DEF SameRest
  <1>11. Adj(t, n, 1) \in Y /\ pos[Adj(t, n, 1)] = pos[n] + 1
    <2>1. Shape(t, Y, pos, lo, hi)
      BY DEF Aside
    <2> QED
      BY <2>1, NextIs
  <1> QED
    BY <1>1, <1>9, <1>10, <1>11 DEF Erased, Follows

-----------------------------------------------------------------------------
(* Trees that agree on the cells of Y.                                     *)
AgreeOn(t, u, Y) ==
    /\ Typed(u) /\ LinksOn(t, u, Y)
    /\ \A m \in Y \ {HEAD} : /\ u.data[m] = t.data[m] /\ u.maxOff[m] = t.maxOff[m]
                             /\ u.balance[m] = t.balance[m]

LEMMA FitOn ==
    ASSUME NEW t, NEW Y, NEW pos, NEW lo, NEW hi, NEW high,
           Fit(t, Y, pos, lo, hi, high, HEAD, 0, 0), NEW u, AgreeOn(t, u, Y)
    PROVE  Fit(u, Y, pos, lo, hi, high, HEAD, 0, 0)
  <1>1. /\ Shape(t, Y, pos, lo, hi) /\ AllFresh(t, Y) /\ Even(t, Y)
        /\ Leveled(t, Y, high, HEAD, 0, 0)
    BY DEF Fit
  <1>2. /\ Typed(u) /\ LinksOn(t, u, Y)
        /\ \A m \in Y \ {HEAD} : /\ u.data[m] = t.data[m] /\ u.maxOff[m] = t.maxOff[m]
                                 /\ u.balance[m] = t.balance[m]
    BY DEF AgreeOn
  <1>3. Shape(u, Y, pos, lo, hi)
    BY <1>1, <1>2, ShapeOn
  <1>4. AllFresh(u, Y)
    <2> SUFFICES ASSUME NEW m \in Y \ {HEAD} PROVE Fresh(u, m)
      BY DEF AllFresh
    <2>1. Fresh(t, m) /\ u.maxOff[m] = t.maxOff[m] /\ u.data[m] = t.data[m]
      BY <1>1, <1>2 DEF AllFresh
    <2>2. \A d \in 0 .. 1 : u.child[m][d] = t.child[m][d]
      BY <1>2 DEF LinksOn
    <2>3. \A d \in 0 .. 1 : t.child[m][d] # NULL => t.child[m][d] \in Y \ {HEAD}
      BY <1>1, ChildIs
    <2>4. SameAt(t, u, m)
      BY <1>2, <2>1, <2>2, <2>3 DEF SameAt
    <2> QED
      BY <2>1, <2>4, FreshSame
  <1>5. Leveled(u, Y, high, HEAD, 0, 0)
    <2> SUFFICES ASSUME NEW m \in Y \ {HEAD} PROVE Level(u, high, HEAD, 0, 0, m)
      BY <1>1 DEF Leveled
    <2>1. Level(t, high, HEAD, 0, 0, m) /\ SameChildren(t, u, m) /\ u.balance[m] = t.balance[m]
      BY <1>1, <1>2 DEF Leveled, LinksOn, SameChildren
    <2> QED
      BY <2>1, LevelOn
  <1>6. Even(u, Y)
    BY <1>1, <1>2 DEF Even
  <1> QED
    BY <1>2, <1>3, <1>4, <1>5, <1>6 DEF Fit

LEMMA WholeOn ==
    ASSUME NEW t, NEW Y, NEW pos, Whole(t, Y, pos), NEW u, AgreeOn(t, u, Y)
    PROVE  Whole(u, Y, pos)
  <1>1. PICK lo, hi, high : Fit(t, Y, pos, lo, hi, high, HEAD, 0, 0)
    BY DEF Whole
  <1>2. Fit(u, Y, pos, lo, hi, high, HEAD, 0, 0)
    BY <1>1, FitOn
  <1> QED
    BY <1>2 DEF Whole

LEMMA WholePlaces ==
    ASSUME NEW t, NEW Y, NEW pos, Whole(t, Y, pos)
    PROVE  /\ HEAD \in Y /\ Y \subseteq Cell /\ pos \in [Y -> Nat] /\ Typed(t)
           /\ \A m \in Y : 1 <= pos[m] /\ pos[m] <= pos[HEAD]
           /\ \A m \in Y \ {HEAD} : pos[m] < pos[HEAD]
           /\ \A m, n \in Y : pos[m] = pos[n] => m = n
           /\ \A k \in 1 .. pos[HEAD] : \E m \in Y : pos[m] = k
  <1>1. PICK lo, hi, high : Fit(t, Y, pos, lo, hi, high, HEAD, 0, 0)
    BY DEF Whole
  <1>2. Typed(t) /\ Stretches(Y, pos, lo, hi)
    BY <1>1 DEF Fit, Shape
  <1> QED
    BY <1>2 DEF Stretches

(* A tree as it is between two calls: in shape, and in the order of its    *)
(* data.                                                                   *)
Standing(t, Y, pos) == Whole(t, Y, pos) /\ Sorted(t, Y, pos) /\ Dated(t, Y)

-----------------------------------------------------------------------------
(* The members set one by one.                                             *)
DataSet(t, n, d) == [t EXCEPT !.data[n] = d]

LEMMA DataSetIs ==
    ASSUME NEW t, Typed(t), NEW n \in Node, NEW d
    PROVE  /\ Typed(DataSet(t, n, d)) /\ SameLinks(t, DataSet(t, n, d))
           /\ DataSet(t, n, d).balance = t.balance /\ DataSet(t, n, d).maxOff = t.maxOff
           /\ DataSet(t, n, d).inTree = t.inTree /\ DataSet(t, n, d).size = t.size
           /\ \A m \in Node : DataSet(t, n, d).data[m] = IF m = n THEN d ELSE t.data[m]
  <1>1. /\ SameLinks(t, DataSet(t, n, d))
        /\ DataSet(t, n, d).balance = t.balance /\ DataSet(t, n, d).maxOff = t.maxOff
        /\ DataSet(t, n, d).inTree = t.inTree /\ DataSet(t, n, d).size = t.size
        /\ \A m \in Node : DataSet(t, n, d).data[m] = IF m = n THEN d ELSE t.data[m]
    BY DEF Typed, SameLinks, DataSet
  <1>2. Typed(DataSet(t, n, d))
    <2>1. PICK ds, os :
              t \in [child : [Cell -> [0 .. 1 -> Node \cup {NULL}]],
                     parent : [Cell -> Cell \cup {NULL}], idx : [Cell -> 0 .. 1],
                     balance : [Cell -> Int], data : [Node -> ds], maxOff : [Node -> os],
                     inTree : SUBSET Node, size : Int]
      BY DEF Typed
    <2>2. DataSet(t, n, d) \in [child : [Cell -> [0 .. 1 -> Node \cup {NULL}]],
                     parent : [Cell -> Cell \cup {NULL}], idx : [Cell -> 0 .. 1],
                     balance : [Cell -> Int], data : [Node -> ds \cup {d}],
                     maxOff : [Node -> os],
                     inTree : SUBSET Node, size : Int]
      BY <2>1, SMTT(30) DEF DataSet
    <2> QED
      BY <2>2 DEF Typed
  <1> QED
    BY <1>1, <1>2

FreedCells(t, u, S) ==
    /\ Typed(u) /\ u.inTree = t.inTree /\ u.size = t.size
    /\ \A c \in Cell :
          /\ u.child[c] = IF c \in S THEN NoChildren ELSE t.child[c]
          /\ u.parent[c] = IF c \in S THEN NULL ELSE t.parent[c]
          /\ u.idx[c] = IF c \in S THEN 0 ELSE t.idx[c]
          /\ u.balance[c] = IF c \in S THEN 0 ELSE t.balance[c]
    /\ \A n \in Node :
          /\ u.data[n] = IF n \in S THEN NULL ELSE t.data[n]
          /\ u.maxOff[n] = IF n \in S THEN -1 ELSE t.maxOff[n]

LEMMA FreedIs ==
    ASSUME NEW t, Typed(t), NEW S
    PROVE  FreedCells(t, Freed(t, S), S)
  <1> DEFINE child == [c \in Cell |-> IF c \in S THEN NoChildren ELSE t.child[c]]
  <1> DEFINE parent == [c \in Cell |-> IF c \in S THEN NULL ELSE t.parent[c]]
  <1> DEFINE idx == [c \in Cell |-> IF c \in S THEN 0 ELSE t.idx[c]]
  <1> DEFINE balance == [c \in Cell |-> IF c \in S THEN 0 ELSE t.balance[c]]
  <1> DEFINE data == [n \in Node |-> IF n \in S THEN NULL ELSE t.data[n]]
  <1> DEFINE maxOff == [n \in Node |-> IF n \in S THEN -1 ELSE t.maxOff[n]]
  <1> DEFINE u == Freed(t, S)
  <1>1. PICK ds, os :
              t \in [child : [Cell -> [0 .. 1 -> Node \cup {NULL}]],
                     parent : [Cell -> Cell \cup {NULL}], idx : [Cell -> 0 .. 1],
                     balance : [Cell -> Int], data : [Node -> ds], maxOff : [Node -> os],
                     inTree : SUBSET Node, size : Int]
    BY DEF Typed
  <1>2. NoChildren \in [0 .. 1 -> Node \cup {NULL}]
    BY DEF NoChildren
  <1>3. /\ child \in [Cell -> [0 .. 1 -> Node \cup {NULL}]]
        /\ parent \in [Cell -> Cell \cup {NULL}] /\ idx \in [Cell -> 0 .. 1]
        /\ balance \in [Cell -> Int] /\ data \in [Node -> ds \cup {NULL}]
        /\ maxOff \in [Node -> os \cup {-1}]
    <2> DEFINE cs == [0 .. 1 -> Node \cup {NULL}]
    <2>1. NoChildren \in cs /\ t.child \in [Cell -> cs]
      BY <1>1, <1>2
    <2>2. child \in [Cell -> cs]
      <3> HIDE DEF cs
      <3> QED
        BY <2>1
    <2>3. parent \in [Cell -> Cell \cup {NULL}] /\ idx \in [Cell -> 0 .. 1]
      BY <1>1
    <2>4. balance \in [Cell -> Int]
      BY <1>1
    <2>5. data \in [Node -> ds \cup {NULL}]
      BY <1>1
    <2>6. maxOff \in [Node -> os \cup {-1}]
      BY <1>1
    <2> QED
      BY <2>2, <2>3, <2>4, <2>5, <2>6
  <1>4. u = [t EXCEPT !.child = child, !.parent = parent, !.idx = idx, !.balance = balance,
                      !.data = data, !.maxOff = maxOff]
    BY DEF Freed
  <1>5. \A c \in Cell : /\ child[c] = IF c \in S THEN NoChildren ELSE t.child[c]
                        /\ parent[c] = IF c \in S THEN NULL ELSE t.parent[c]
                        /\ idx[c] = IF c \in S THEN 0 ELSE t.idx[c]
                        /\ balance[c] = IF c \in S THEN 0 ELSE t.balance[c]
    OBVIOUS
  <1>6. \A n \in Node : /\ data[n] = IF n \in S THEN NULL ELSE t.data[n]
                        /\ maxOff[n] = IF n \in S THEN -1 ELSE t.maxOff[n]
    OBVIOUS
  <1> HIDE DEF child, parent, idx, balance, data, maxOff, u
  <1>7. u = [child |-> child, parent |-> parent, idx |-> idx, balance |-> balance,
              data |-> data, maxOff |-> maxOff, inTree |-> t.inTree, size |-> t.size]
    BY <1>1, <1>4
  <1>8. Typed(u)
    <2>1. t.inTree \in SUBSET Node /\ t.size \in Int
      BY <1>1
    <2>2. u \in [child : [Cell -> [0 .. 1 -> Node \cup {NULL}]],
                 parent : [Cell -> Cell \cup {NULL}], idx : [Cell -> 0 .. 1],
                 balance : [Cell -> Int], data : [Node -> ds \cup {NULL}],
                 maxOff : [Node -> os \cup {-1}],
                 inTree : SUBSET Node, size : Int]
      BY <1>3, <1>7, <2>1
    <2> QED
      BY <2>2 DEF Typed
  <1>9. /\ u.child = child /\ u.parent = parent /\ u.idx = idx /\ u.balance = balance
        /\ u.data = data /\ u.maxOff = maxOff /\ u.inTree = t.inTree /\ u.size = t.size
    BY <1>7
  <1>10. FreedCells(t, u, S)
    BY <1>5, <1>6, <1>8, <1>9 DEF FreedCells
  <1> QED
    BY <1>10 DEF u

LEMMA FreedAgree ==
    ASSUME NEW t, Typed(t), NEW S, NEW Y, Y \subseteq Cell, Y \cap S = {}
    PROVE  /\ AgreeOn(t, Freed(t, S), Y) /\ Freed(t, S).inTree = t.inTree
           /\ Freed(t, S).size = t.size
           /\ \A m \in Y \ {HEAD} : Freed(t, S).data[m] = t.data[m]
  <1> DEFINE u == Freed(t, S)
  <1>1. FreedCells(t, u, S)
    BY FreedIs
  <1> HIDE DEF u
  <1>2. \A m \in Y : m \in Cell /\ m \notin S
    OBVIOUS
  <1>3. \A m \in Y \ {HEAD} : m \in Node
    BY InNode
  <1>4. AgreeOn(t, u, Y)
    BY <1>1, <1>2, <1>3 DEF AgreeOn, LinksOn, FreedCells
  <1> QED
    BY <1>1, <1>2, <1>3, <1>4 DEF FreedCells, u

-----------------------------------------------------------------------------
(* What the calls do to the order.                                         *)
LEMMA SortedIn ==
    ASSUME NEW t, NEW Y, NEW pos, Whole(t, Y, pos), Sorted(t, Y, pos), Dated(t, Y),
           NEW u, NEW n \in Node, n \notin Y, t.data[n] \in Notes, NEW q,
           Inserted(t, u, Y, pos, n, q)
    PROVE  Standing(u, Y \cup {n}, LeafPos(Y, pos, n, q))
  <1> DEFINE pos2 == LeafPos(Y, pos, n, q)
  <1> DEFINE Z == Y \cup {n}
  <1>1. /\ u.data = t.data /\ Whole(u, Z, pos2) /\ q \in Nat
        /\ \A m \in Y \ {HEAD} : GoesRight(t, n, m) <=> pos[m] < q
    BY DEF Inserted
  <1>2. pos \in [Y -> Nat] /\ HEAD \in Y
    BY WholePlaces
  <1>3. Z \ {HEAD} = (Y \ {HEAD}) \cup {n} /\ n # HEAD
    BY <1>2
  <1>4. Dated(u, Z)
    BY <1>1, <1>3 DEF Dated
  <1>5. pos2[n] = q /\ \A m \in Y : pos2[m] = IF pos[m] >= q THEN pos[m] + 1 ELSE pos[m]
    BY DEF LeafPos
  <1> HIDE DEF pos2
  <1>6. Sorted(u, Z, pos2)
    <2> SUFFICES ASSUME NEW m \in Z \ {HEAD}, NEW l \in Z \ {HEAD}, pos2[m] < pos2[l]
                 PROVE  Cmp(t.data[m], t.data[l]) <= 0
      BY <1>1 DEF Sorted
    <2>1. t.data[m] \in Notes /\ t.data[l] \in Notes
      BY <1>3 DEF Dated
    <2>2. CASE m = n /\ l = n
      BY <1>1, <1>5, <2>2
    <2>3. CASE m = n /\ l # n
      <3>1. l \in Y \ {HEAD} /\ ~(pos[l] < q)
        BY <1>1, <1>2, <1>3, <1>5, <2>3
      <3>2. ~GoesRight(t, n, l)
        BY <1>1, <3>1
      <3>3. ~(Cmp(t.data[n], t.data[l]) >= 0)
        BY <3>2 DEF GoesRight
      <3> QED
        BY <2>1, <2>3, <3>3, CmpIs
    <2>4. CASE m # n /\ l = n
      <3>1. m \in Y \ {HEAD} /\ pos[m] < q
        BY <1>1, <1>2, <1>3, <1>5, <2>4
      <3>2. GoesRight(t, n, m)
        BY <1>1, <3>1
      <3>3. Cmp(t.data[n], t.data[m]) >= 0
        BY <3>2 DEF GoesRight
      <3> QED
        BY <2>1, <2>4, <3>3, CmpIs
    <2>5. CASE m # n /\ l # n
      <3>1. m \in Y \ {HEAD} /\ l \in Y \ {HEAD} /\ pos[m] < pos[l]
        BY <1>1, <1>2, <1>3, <1>5, <2>5
      <3> QED
        BY <3>1 DEF Sorted
    <2> QED
      BY <2>2, <2>3, <2>4, <2>5
  <1> QED
    BY <1>1, <1>4, <1>6 DEF Standing, pos2

LEMMA SortedOut ==
    ASSUME NEW t, NEW Y, NEW pos, Standing(t, Y, pos), NEW n \in Y \ {HEAD},
           NEW v, \A m \in Y \ {HEAD, n} : v.data[m] = t.data[m],
           NEW u, Erased(v, u, Y, pos, n)
    PROVE  Standing(u, Y \ {n}, GapPos(Y, pos, n, pos[n]))
  <1> DEFINE pos2 == GapPos(Y, pos, n, pos[n])
  <1>1. u.data = v.data /\ Whole(u, Y \ {n}, pos2)
    BY DEF Erased
  <1>2. pos \in [Y -> Nat] /\ \A m \in Y : pos[m] = pos[n] => m = n
    BY WholePlaces DEF Standing
  <1>3. \A m \in Y \ {n} : pos2[m] = IF pos[m] > pos[n] THEN pos[m] - 1 ELSE pos[m]
    BY DEF GapPos
  <1> HIDE DEF pos2
  <1>4. \A m, l \in Y \ {n} : pos2[m] < pos2[l] => pos[m] < pos[l]
    BY <1>2, <1>3
  <1>5. \A m \in (Y \ {n}) \ {HEAD} : u.data[m] = t.data[m] /\ m \in Y \ {HEAD} /\ m \in Y \ {n}
    BY <1>1
  <1>6. Sorted(u, Y \ {n}, pos2)
    BY <1>4, <1>5 DEF Standing, Sorted
  <1>7. Dated(u, Y \ {n})
    BY <1>5 DEF Standing, Dated
  <1> QED
    BY <1>1, <1>6, <1>7 DEF Standing, pos2

LEMMA StandingOn ==
    ASSUME NEW t, NEW Y, NEW pos, Standing(t, Y, pos), NEW u, AgreeOn(t, u, Y)
    PROVE  Standing(u, Y, pos)
  <1>1. Whole(u, Y, pos)
    BY WholeOn DEF Standing
  <1>2. \A m \in Y \ {HEAD} : u.data[m] = t.data[m]
    BY DEF AgreeOn
  <1>3. Sorted(u, Y, pos)
    BY <1>2 DEF Standing, Sorted
  <1>4. Dated(u, Y)
    BY <1>2 DEF Standing, Dated
  <1> QED
    BY <1>1, <1>3, <1>4 DEF Standing

(* bst_insert of a node with data d.                                       *)
LEMMA InsertIs ==
    ASSUME NEW t, NEW Y, NEW pos, Standing(t, Y, pos), NEW n \in Node, n \notin Y,
           NEW d \in Notes
    PROVE  \E q : /\ Inserted(DataSet(t, n, d), InsertNode(DataSet(t, n, d), n), Y, pos, n, q)
                  /\ Standing(InsertNode(DataSet(t, n, d), n), Y \cup {n}, LeafPos(Y, pos, n, q))
  <1> DEFINE v == DataSet(t, n, d)
  <1>1. Typed(t) /\ HEAD \in Y /\ Y \subseteq Cell
    BY WholePlaces DEF Standing
  <1>2. /\ Typed(v) /\ SameLinks(t, v) /\ v.balance = t.balance /\ v.maxOff = t.maxOff
        /\ \A m \in Node : v.data[m] = IF m = n THEN d ELSE t.data[m]
    BY <1>1, DataSetIs
  <1> HIDE DEF v
  <1>3. AgreeOn(t, v, Y)
    <2>1. \A m \in Y \ {HEAD} : m \in Node
      BY <1>1, InNode
    <2> QED
      BY <1>2, <2>1 DEF AgreeOn, LinksOn, SameLinks
  <1>4. Whole(v, Y, pos) /\ Sorted(v, Y, pos) /\ Dated(v, Y)
    BY <1>3, StandingOn DEF Standing
  <1>5. v.data[n] \in Notes
    BY <1>2
  <1>6. PICK q : Inserted(v, InsertNode(v, n), Y, pos, n, q)
    BY <1>4, <1>5, InsertNodeIs
  <1>7. Standing(InsertNode(v, n), Y \cup {n}, LeafPos(Y, pos, n, q))
    BY <1>4, <1>5, <1>6, SortedIn
  <1> QED
    BY <1>6, <1>7 DEF v

(* bst_erase of a node, whatever its own data are now.                     *)
LEMMA EraseIs ==
    ASSUME NEW t, NEW Y, NEW pos, Standing(t, Y, pos), NEW n \in Y \ {HEAD}, NEW d
    PROVE  /\ Erased(DataSet(t, n, d), EraseNode(DataSet(t, n, d), n).tree, Y, pos, n)
           /\ Standing(EraseNode(DataSet(t, n, d), n).tree, Y \ {n}, GapPos(Y, pos, n, pos[n]))
           /\ Follows(Y, pos, n, EraseNode(DataSet(t, n, d), n).next)
  <1> DEFINE v == DataSet(t, n, d)
  <1>1. PICK lo, hi, high : Fit(t, Y, pos, lo, hi, high, HEAD, 0, 0)
    BY DEF Standing, Whole
  <1>2. /\ Typed(t) /\ Shape(t, Y, pos, lo, hi) /\ AllFresh(t, Y)
        /\ Leveled(t, Y, high, HEAD, 0, 0) /\ Even(t, Y)
    BY <1>1 DEF Fit
  <1>3. Y \subseteq Cell /\ HEAD \in Y /\ n \in Node /\ \A m \in Y \ {HEAD} : m \in Node
    BY <1>2, InNode DEF Shape, Stretches
  <1>4. /\ Typed(v) /\ SameLinks(t, v) /\ v.balance = t.balance /\ v.maxOff = t.maxOff
        /\ \A m \in Node : v.data[m] = IF m = n THEN d ELSE t.data[m]
    BY <1>2, <1>3, DataSetIs
  <1> HIDE DEF v
  <1>5. Shape(v, Y, pos, lo, hi)
    BY <1>2, <1>4, ShapeSame
  <1>6. Kept(v, Y, pos, lo, hi, n)
    <2> SUFFICES ASSUME NEW m \in Y \ {HEAD}, ~Has(pos, lo, hi, m, n) PROVE Fresh(v, m)
      BY DEF Kept
    <2>1. m # n /\ t.parent[n] # m
      BY <1>2, TurnedHas
    <2>2. \A e \in 0 .. 1 : v.child[m][e] = t.child[m][e]
      BY <1>4 DEF SameLinks
    <2>3. ASSUME NEW e \in 0 .. 1, t.child[m][e] # NULL
          PROVE  v.data[t.child[m][e]] = t.data[t.child[m][e]]
      <3>1. t.child[m][e] \in Y \ {HEAD} /\ t.parent[t.child[m][e]] = m
        BY <1>2, <2>3, ChildIs
      <3>2. t.child[m][e] \in Node /\ t.child[m][e] # n
        BY <1>3, <2>1, <3>1
      <3> QED
        BY <1>4, <3>2
    <2>4. v.data[m] = t.data[m]
      BY <1>3, <1>4, <2>1
    <2>5. SameAt(t, v, m)
      BY <1>4, <2>2, <2>3, <2>4 DEF SameAt
    <2>6. Fresh(t, m) /\ v.maxOff[m] = t.maxOff[m]
      BY <1>2, <1>4 DEF AllFresh
    <2> QED
      BY <2>5, <2>6, FreshSame
  <1>7. Leveled(v, Y, high, HEAD, 0, 0) /\ Even(v, Y)
    BY <1>2, <1>4, LevelSameLinks DEF Leveled, Even
  <1>8. Aside(v, Y, pos, lo, hi, high, n)
    BY <1>4, <1>5, <1>6, <1>7 DEF Aside
  <1>9. /\ Erased(v, EraseNode(v, n).tree, Y, pos, n)
        /\ Follows(Y, pos, n, EraseNode(v, n).next)
    BY <1>8, EraseNodeIs
  <1>10. Standing(EraseNode(v, n).tree, Y \ {n}, GapPos(Y, pos, n, pos[n]))
    <2>1. \A m \in Y \ {HEAD, n} : v.data[m] = t.data[m]
      BY <1>3, <1>4
    <2> QED
      BY <1>9, <2>1, SortedOut
  <1> QED
    BY <1>9, <1>10 DEF v

-----------------------------------------------------------------------------
(* The linked cells are those with in_tree set, and tree_size counts them. *)
Orderly(t, Y, pos) ==
    Standing(t, Y, pos) /\ t.inTree = Y \ {HEAD} /\ t.size = pos[HEAD] - 1

LEMMA OrderlyOn ==
    ASSUME NEW t, NEW Y, NEW pos, Orderly(t, Y, pos), NEW u, AgreeOn(t, u, Y),
           u.inTree = t.inTree, u.size = t.size
    PROVE  Orderly(u, Y, pos)
  BY StandingOn DEF Orderly

LEMMA InsertOrderly ==
    ASSUME NEW t, NEW Y, NEW pos, Orderly(t, Y, pos), NEW n \in Node, n \notin Y,
           NEW d \in Notes
    PROVE  \E q : /\ Inserted(DataSet(t, n, d), InsertNode(DataSet(t, n, d), n), Y, pos, n, q)
                  /\ Orderly(InsertNode(DataSet(t, n, d), n), Y \cup {n}, LeafPos(Y, pos, n, q))
  <1> DEFINE v == DataSet(t, n, d)
  <1> DEFINE u == InsertNode(v, n)
  <1>1. Standing(t, Y, pos) /\ t.inTree = Y \ {HEAD} /\ t.size = pos[HEAD] - 1
    BY DEF Orderly
  <1>2. PICK q : /\ Inserted(v, u, Y, pos, n, q) /\ Standing(u, Y \cup {n}, LeafPos(Y, pos, n, q))
    BY <1>1, InsertIs
  <1>3. Typed(t) /\ HEAD \in Y /\ pos \in [Y -> Nat]
    BY <1>1, WholePlaces DEF Standing
  <1>4. v.inTree = t.inTree /\ v.size = t.size
    BY <1>3, DataSetIs
  <1> HIDE DEF u, v
  <1>5. /\ u.inTree = v.inTree \cup {n} /\ u.size = v.size + 1
        /\ q \in Nat /\ 1 <= q /\ q <= pos[HEAD]
    BY <1>2 DEF Inserted
  <1>6. u.inTree = (Y \cup {n}) \ {HEAD}
    BY <1>1, <1>3, <1>4, <1>5
  <1>7. LeafPos(Y, pos, n, q)[HEAD] = pos[HEAD] + 1
    BY <1>3, <1>5 DEF LeafPos
  <1>8. u.size = LeafPos(Y, pos, n, q)[HEAD] - 1
    BY <1>1, <1>3, <1>4, <1>5, <1>7
  <1>9. Orderly(u, Y \cup {n}, LeafPos(Y, pos, n, q))
    BY <1>2, <1>6, <1>8 DEF Orderly
  <1> QED
    BY <1>2, <1>9 DEF u, v

LEMMA EraseOrderly ==
    ASSUME NEW t, NEW Y, NEW pos, Orderly(t, Y, pos), NEW n \in Y \ {HEAD}, NEW d
    PROVE  Orderly(EraseNode(DataSet(t, n, d), n).tree, Y \ {n}, GapPos(Y, pos, n, pos[n]))
  <1> DEFINE v == DataSet(t, n, d)
  <1> DEFINE u == EraseNode(v, n).tree
  <1>1. Standing(t, Y, pos) /\ t.inTree = Y \ {HEAD} /\ t.size = pos[HEAD] - 1
    BY DEF Orderly
  <1>2. Erased(v, u, Y, pos, n) /\ Standing(u, Y \ {n}, GapPos(Y, pos, n, pos[n]))
    BY <1>1, EraseIs
  <1>3. /\ Typed(t) /\ HEAD \in Y /\ pos \in [Y -> Nat] /\ n \in Node
        /\ \A m \in Y \ {HEAD} : pos[m] < pos[HEAD]
    BY <1>1, WholePlaces, InNode DEF Standing
  <1>4. v.inTree = t.inTree /\ v.size = t.size
    BY <1>3, DataSetIs
  <1> HIDE DEF u, v
  <1>5. u.inTree = v.inTree \ {n} /\ u.size = v.size - 1
    BY <1>2 DEF Erased
  <1>6. GapPos(Y, pos, n, pos[n])[HEAD] = pos[HEAD] - 1
    BY <1>3 DEF GapPos
  <1>7. u.inTree = (Y \ {n}) \ {HEAD} /\ u.size = GapPos(Y, pos, n, pos[n])[HEAD] - 1
    BY <1>1, <1>3, <1>4, <1>5, <1>6
  <1> QED
    BY <1>2, <1>7 DEF Orderly, u, v

(* bst_erase, and the node freed.                                          *)
OneOut(t, u, Y, pos, n) ==
    /\ Orderly(u, Y \ {n}, GapPos(Y, pos, n, pos[n]))
    /\ \A m \in Y \ {HEAD, n} : u.data[m] = t.data[m]

LEMMA EraseOne ==
    ASSUME NEW t, NEW Y, NEW pos, Orderly(t, Y, pos), NEW n \in Y \ {HEAD}
    PROVE  /\ OneOut(t, Freed(EraseNode(t, n).tree, {n}), Y, pos, n)
           /\ Follows(Y, pos, n, EraseNode(t, n).next)
  <1> DEFINE v == EraseNode(t, n).tree
  <1> DEFINE d == t.data[n]
  <1>1. Standing(t, Y, pos)
    BY DEF Orderly
  <1>2. Typed(t) /\ n \in Node /\ Y \subseteq Cell
    BY <1>1, WholePlaces, InNode DEF Standing
  <1>3. DataSet(t, n, d) = t
    BY <1>2 DEF DataSet, Typed
  <1> HIDE DEF d
  <1>4. Erased(t, v, Y, pos, n) /\ Follows(Y, pos, n, EraseNode(t, n).next)
    <2>1. /\ Erased(DataSet(t, n, d), EraseNode(DataSet(t, n, d), n).tree, Y, pos, n)
          /\ Follows(Y, pos, n, EraseNode(DataSet(t, n, d), n).next)
      BY <1>1, EraseIs
    <2> QED
      BY <1>3, <2>1
  <1>5. Orderly(v, Y \ {n}, GapPos(Y, pos, n, pos[n]))
    <2>1. Orderly(EraseNode(DataSet(t, n, d), n).tree, Y \ {n}, GapPos(Y, pos, n, pos[n]))
      BY EraseOrderly
    <2> QED
      BY <1>3, <2>1
  <1> HIDE DEF v
  <1>6. Typed(v)
    BY <1>5, WholePlaces DEF Orderly, Standing
  <1>7. /\ AgreeOn(v, Freed(v, {n}), Y \ {n}) /\ Freed(v, {n}).inTree = v.inTree
        /\ Freed(v, {n}).size = v.size
        /\ \A m \in (Y \ {n}) \ {HEAD} : Freed(v, {n}).data[m] = v.data[m]
    <2>1. Y \ {n} \subseteq Cell /\ (Y \ {n}) \cap {n} = {}
      BY <1>2
    <2> QED
      BY <1>6, <2>1, FreedAgree
  <1>8. Orderly(Freed(v, {n}), Y \ {n}, GapPos(Y, pos, n, pos[n]))
    BY <1>5, <1>7, OrderlyOn
  <1>9. \A m \in Y \ {HEAD, n} : Freed(v, {n}).data[m] = t.data[m]
    BY <1>4, <1>7 DEF Erased
  <1> QED
    BY <1>4, <1>8, <1>9 DEF v, OneOut

-----------------------------------------------------------------------------
(* bst_erase_range: j nodes from place c on are out.                       *)
Cut(Y, pos, c, j) == {m \in Y : pos[m] < c \/ pos[m] >= c + j}

CutPos(Y, pos, c, j) ==
    [m \in Cut(Y, pos, c, j) |-> IF pos[m] < c THEN pos[m] ELSE pos[m] - j]

RangeGone(t, u, Y, pos, c, j) ==
    /\ Orderly(u, Cut(Y, pos, c, j), CutPos(Y, pos, c, j))
    /\ \A m \in Cut(Y, pos, c, j) \ {HEAD} : u.data[m] = t.data[m]

StandsAt(Y, pos, m, k) == m \in Y /\ pos[m] = k

LEMMA OneMoreGone ==
    ASSUME NEW t, NEW Y, NEW pos, Standing(t, Y, pos), NEW c \in Nat, 1 <= c, NEW j \in Nat,
           NEW u, RangeGone(t, u, Y, pos, c, j), NEW n \in Y \ {HEAD}, pos[n] = c + j
    PROVE  /\ RangeGone(t, Freed(EraseNode(u, n).tree, {n}), Y, pos, c, j + 1)
           /\ StandsAt(Y, pos, EraseNode(u, n).next, c + (j + 1))
  <1> DEFINE C == Cut(Y, pos, c, j)
  <1> DEFINE D == Cut(Y, pos, c, j + 1)
  <1> DEFINE p == CutPos(Y, pos, c, j)
  <1> DEFINE p2 == CutPos(Y, pos, c, j + 1)
  <1> DEFINE v == Freed(EraseNode(u, n).tree, {n})
  <1> DEFINE next == EraseNode(u, n).next
  <1>1. /\ pos \in [Y -> Nat] /\ \A m, k \in Y : pos[m] = pos[k] => m = k
    BY WholePlaces DEF Standing
  <1>2. Orderly(u, C, p) /\ \A m \in C \ {HEAD} : u.data[m] = t.data[m]
    BY DEF RangeGone
  <1>3. \A m \in Y : m \in C <=> pos[m] < c \/ pos[m] >= c + j
    BY DEF Cut
  <1>4. \A m \in Y : m \in D <=> pos[m] < c \/ pos[m] >= c + (j + 1)
    BY DEF Cut
  <1>5. C \subseteq Y /\ D \subseteq Y
    BY DEF Cut
  <1>6. \A m \in C : p[m] = IF pos[m] < c THEN pos[m] ELSE pos[m] - j
    BY DEF CutPos
  <1> HIDE DEF C, D, p
  <1>7. n \in C \ {HEAD} /\ p[n] = c
    BY <1>1, <1>3, <1>6
  <1>8. C \ {n} = D
    <2>1. \A m \in Y : pos[m] = c + j <=> m = n
      BY <1>1
    <2>2. \A m \in Y : pos[m] >= c + (j + 1) <=> pos[m] >= c + j /\ m # n
      BY <1>1, <2>1
    <2>3. ~(pos[n] < c)
      BY <1>1
    <2> QED
      BY <1>3, <1>4, <1>5, <2>2, <2>3
  <1>9. GapPos(C, p, n, p[n]) = p2
    <2>1. ASSUME NEW m \in D
          PROVE  (IF p[m] > p[n] THEN p[m] - 1 ELSE p[m])
                   = (IF pos[m] < c THEN pos[m] ELSE pos[m] - (j + 1))
      <3>1. m \in Y /\ m \in C /\ pos[m] \in Nat /\ (pos[m] < c \/ pos[m] >= c + (j + 1))
        BY <1>1, <1>4, <1>5, <1>8
      <3>2. p[m] = IF pos[m] < c THEN pos[m] ELSE pos[m] - j
        BY <1>6, <3>1
      <3> QED
        BY <1>7, <3>1, <3>2
    <2> QED
      BY <1>8, <2>1 DEF GapPos, CutPos, D
  <1>10. /\ Orderly(v, C \ {n}, GapPos(C, p, n, p[n]))
         /\ \A m \in C \ {HEAD, n} : v.data[m] = u.data[m]
         /\ Follows(C, p, n, next)
    <2>1. Orderly(u, C, p) /\ n \in C \ {HEAD}
      BY <1>2, <1>7
    <2>2. OneOut(u, v, C, p, n) /\ Follows(C, p, n, next)
      BY <2>1, EraseOne
    <2> QED
      BY <2>2 DEF OneOut
  <1> HIDE DEF v, next, p2
  <1>11. \A m \in D \ {HEAD} : v.data[m] = t.data[m]
    BY <1>2, <1>8, <1>10
  <1>12. next \in Y /\ pos[next] = c + (j + 1)
    <2>1. next \in Y /\ pos[next] \in Nat /\ p[next] = c + 1
      BY <1>1, <1>5, <1>7, <1>10 DEF Follows
    <2>2. p[next] = IF pos[next] < c THEN pos[next] ELSE pos[next] - j
      BY <1>6, <1>10 DEF Follows
    <2> QED
      BY <2>1, <2>2
  <1> QED
    BY <1>8, <1>9, <1>10, <1>11, <1>12 DEF RangeGone, v, next, p2, D, StandsAt

EraseStep(a, x, k) == EraseRangeRound(a.end, x)

EraseGood(a, k, x) ==
    \E j \in 0 .. a.len :
        /\ j = k \/ j = a.len
        /\ RangeGone(a.tree, x.tree, a.in, a.pos, a.from, j)
        /\ x.at \in a.in /\ a.pos[x.at] = a.from + j

EraseLoop == INSTANCE FoldFacts WITH Step <- EraseStep, Sel <- ByMax, Good <- EraseGood

LEMMA EraseRangeIs ==
    ASSUME NEW t, NEW Y, NEW pos, Orderly(t, Y, pos), NEW beg \in Y, NEW end \in Y,
           pos[beg] <= pos[end]
    PROVE  RangeGone(t, EraseRangeFrom(t, beg, end), Y, pos, pos[beg], pos[end] - pos[beg])
  <1> DEFINE c == pos[beg]
  <1> DEFINE len == pos[end] - pos[beg]
  <1> DEFINE a == [tree |-> t, in |-> Y, pos |-> pos, end |-> end, from |-> c, len |-> len]
  <1> DEFINE x0 == [tree |-> t, at |-> beg]
  <1>1. /\ Standing(t, Y, pos) /\ pos \in [Y -> Nat] /\ HEAD \in Y
        /\ \A m \in Y : 1 <= pos[m] /\ pos[m] <= pos[HEAD]
        /\ \A m, n \in Y : pos[m] = pos[n] => m = n
    BY WholePlaces DEF Orderly, Standing
  <1>2. c \in Nat /\ 1 <= c /\ len \in Nat /\ c + len = pos[end]
    BY <1>1
  <1>3. Rounds \in Nat /\ len <= Rounds
    <2>1. PICK lo, hi : Stretches(Y, pos, lo, hi)
      BY <1>1 DEF Standing, Whole, Fit, Shape
    <2>2. Rounds \in Nat /\ pos[HEAD] \in 1 .. (Rounds + 1)
      BY <2>1, StretchesFit
    <2> QED
      BY <1>1, <2>2
  <1> HIDE DEF c, len
  <1>4. EraseGood(a, 0, x0)
    <2>1. Cut(Y, pos, c, 0) = Y
      BY <1>1, <1>2 DEF Cut
    <2>2. CutPos(Y, pos, c, 0) = pos
      BY <1>1, <1>2, <2>1 DEF CutPos
    <2>3. RangeGone(t, t, Y, pos, c, 0)
      BY <2>1, <2>2 DEF RangeGone
    <2>4. 0 \in 0 .. len /\ pos[beg] = c + 0
      BY <1>1, <1>2 DEF c
    <2> QED
      BY <2>3, <2>4 DEF EraseGood
  <1>5. \A k \in 1 .. Rounds : \A x : EraseGood(a, k - 1, x) => EraseGood(a, k, EraseStep(a, x, k))
    <2> SUFFICES ASSUME NEW k \in 1 .. Rounds, NEW x, EraseGood(a, k - 1, x)
                 PROVE  EraseGood(a, k, EraseRangeRound(end, x))
      BY DEF EraseStep
    <2>1. PICK j \in 0 .. len :
              /\ j = k - 1 \/ j = len
              /\ RangeGone(t, x.tree, Y, pos, c, j)
              /\ x.at \in Y /\ pos[x.at] = c + j
      BY DEF EraseGood
    <2>2. CASE x.at = end
      <3>1. j = len
        BY <1>2, <2>1, <2>2
      <3>2. EraseRangeRound(end, x) = x
        BY <2>2 DEF EraseRangeRound
      <3> QED
        BY <2>1, <3>1, <3>2 DEF EraseGood
    <2>3. CASE x.at # end
      <3>1. j # len /\ j + 1 \in 0 .. len /\ j + 1 = k
        BY <1>1, <1>2, <2>1, <2>3
      <3>2. x.at \in Y \ {HEAD}
        <4>1. pos[x.at] < pos[end] /\ pos[end] <= pos[HEAD] /\ pos[end] \in Nat /\ pos[HEAD] \in Nat
          BY <1>1, <1>2, <2>1, <3>1
        <4> QED
          BY <2>1, <4>1
      <3> DEFINE u == Freed(EraseNode(x.tree, x.at).tree, {x.at})
      <3> DEFINE next == EraseNode(x.tree, x.at).next
      <3>3. EraseRangeRound(end, x) = [tree |-> u, at |-> next]
        BY <2>3 DEF EraseRangeRound
      <3>4. RangeGone(t, u, Y, pos, c, j + 1) /\ StandsAt(Y, pos, next, c + (j + 1))
        <4>1. j \in Nat /\ RangeGone(t, x.tree, Y, pos, c, j) /\ pos[x.at] = c + j
          BY <2>1
        <4>2. Standing(t, Y, pos) /\ c \in Nat /\ 1 <= c
          BY <1>1, <1>2
        <4> QED
          BY <3>2, <4>1, <4>2, OneMoreGone
      <3> HIDE DEF u, next
      <3> QED
        BY <3>1, <3>3, <3>4 DEF EraseGood, StandsAt
    <2> QED
      BY <2>2, <2>3
  <1> DEFINE y == EraseLoop!Loop(a, x0, Rounds)
  <1>6. EraseGood(a, Rounds, y)
    <2> HIDE DEF a, x0
    <2> QED
      BY <1>3, <1>4, <1>5, EraseLoop!LoopGood
  <1>7. EraseRangeFrom(t, beg, end) = y.tree
    BY DEF EraseRangeFrom, Repeat, EraseLoop!Loop, EraseLoop!IsLoop, EraseStep
  <1> HIDE DEF y
  <1>8. RangeGone(t, y.tree, Y, pos, c, len)
    <2>1. PICK j \in 0 .. len : (j = Rounds \/ j = len) /\ RangeGone(t, y.tree, Y, pos, c, j)
      BY <1>6 DEF EraseGood
    <2>2. j = len
      BY <1>2, <1>3, <2>1
    <2> QED
      BY <2>1, <2>2
  <1> QED
    BY <1>7, <1>8 DEF c, len

-----------------------------------------------------------------------------
(* No nodes.                                                               *)
Bare(t) ==
    /\ Typed(t) /\ t.parent[HEAD] = HEAD /\ t.idx[HEAD] = 0
    /\ t.child[HEAD][0] = NULL /\ t.child[HEAD][1] = NULL /\ t.inTree = {} /\ t.size = 0

OnlyHead == [m \in {HEAD} |-> 1]

LEMMA BareIs ==
    ASSUME NEW t, Bare(t)
    PROVE  Orderly(t, {HEAD}, OnlyHead)
  <1> DEFINE Y == {HEAD}
  <1> DEFINE pos == OnlyHead
  <1>1. Y \ {HEAD} = {} /\ HEAD \in Y /\ pos[HEAD] = 1 /\ pos \in [Y -> Nat]
    BY DEF OnlyHead
  <1>2. Y \subseteq Cell /\ HEAD # NULL
    BY NullIsNone
  <1> HIDE DEF pos, Y
  <1>3. \A m \in Y : m = HEAD
    BY <1>1
  <1>4. Stretches(Y, pos, pos, pos)
    <2>1. \A m \in Y : 1 <= pos[m] /\ pos[m] <= pos[m]
      BY <1>1, <1>3
    <2>2. \A k \in 1 .. pos[HEAD] : k = 1
      BY <1>1
    <2> QED
      BY <1>1, <1>2, <1>3, <2>1, <2>2 DEF Stretches
  <1>5. Down(t, Y, pos, pos, pos)
    <2> SUFFICES ASSUME NEW m \in Y, NEW d \in 0 .. 1 PROVE Hung(t, Y, pos, pos, pos, m, d)
      BY DEF Down
    <2>1. m = HEAD /\ t.child[m][d] = NULL
      BY <1>3 DEF Bare
    <2>2. FirstPlace(pos, pos, m, d) = LastPlace(pos, pos, m, d) + 1
      BY <1>1, <2>1 DEF FirstPlace, LastPlace
    <2> QED
      BY <2>1, <2>2 DEF Hung
  <1>6. Up(t, Y)
    BY <1>1 DEF Up, Bare
  <1>7. Shape(t, Y, pos, pos, pos)
    BY <1>4, <1>5, <1>6 DEF Shape
  <1>8. pos \in [Y -> Nat \ {0}]
    BY <1>1, <1>3
  <1>9. AllFresh(t, Y) /\ Even(t, Y) /\ Leveled(t, Y, pos, HEAD, 0, 0)
    BY <1>1, <1>8 DEF AllFresh, Even, Leveled
  <1>10. Fit(t, Y, pos, pos, pos, pos, HEAD, 0, 0)
    BY <1>7, <1>9 DEF Fit, Bare
  <1>11. Whole(t, Y, pos)
    BY <1>10 DEF Whole
  <1>12. Sorted(t, Y, pos) /\ Dated(t, Y)
    BY <1>1 DEF Sorted, Dated
  <1>13. t.inTree = Y \ {HEAD} /\ t.size = pos[HEAD] - 1
    BY <1>1 DEF Bare
  <1> QED
    BY <1>11, <1>12, <1>13 DEF Orderly, Standing, Y, pos

LEMMA NoNodesAreBare == Bare(NoNodes)
  <1>1. HEAD \in Cell /\ NoChildren \in [0 .. 1 -> Node \cup {NULL}]
        /\ NoChildren[0] = NULL /\ NoChildren[1] = NULL
    BY NullIsNone DEF NoChildren
  <1>2. NoNodes \in [child : [Cell -> [0 .. 1 -> Node \cup {NULL}]],
                     parent : [Cell -> Cell \cup {NULL}], idx : [Cell -> 0 .. 1],
                     balance : [Cell -> Int], data : [Node -> {NULL}], maxOff : [Node -> {-1}],
                     inTree : SUBSET Node, size : Int]
    BY <1>1 DEF NoNodes
  <1>3. Typed(NoNodes)
    BY <1>2 DEF Typed
  <1> QED
    BY <1>1, <1>3 DEF Bare, NoNodes

LEMMA ClearedIsBare ==
    ASSUME NEW t, NEW Y, NEW pos, Orderly(t, Y, pos)
    PROVE  Bare(Cleared(t))
  <1> DEFINE v == Freed(t, t.inTree)
  <1> DEFINE w == SetChild(v, HEAD, 0, NULL)
  <1>1. PICK lo, hi, high : Fit(t, Y, pos, lo, hi, high, HEAD, 0, 0)
    BY DEF Orderly, Standing, Whole
  <1>2. Typed(t) /\ Shape(t, Y, pos, lo, hi)
    BY <1>1 DEF Fit
  <1>3. HEAD \in Cell /\ HEAD \in Y /\ HEAD \notin t.inTree
    BY <1>2, NullIsNone DEF Shape, Stretches, Orderly
  <1>4. FreedCells(t, v, t.inTree)
    BY <1>2, FreedIs
  <1> HIDE DEF v
  <1>5. /\ Typed(v) /\ v.child[HEAD] = t.child[HEAD] /\ v.parent[HEAD] = t.parent[HEAD]
        /\ v.idx[HEAD] = t.idx[HEAD]
    BY <1>3, <1>4 DEF FreedCells
  <1>6. ChildSet(v, w, HEAD, 0, NULL)
    BY <1>3, <1>5, SetChildIs
  <1>7. Cleared(t) = [[w EXCEPT !.inTree = {}] EXCEPT !.size = 0]
    BY DEF Cleared, v
  <1> HIDE DEF w
  <1>8. t.child[HEAD][1] = NULL
    <2> SUFFICES ASSUME t.child[HEAD][1] # NULL PROVE FALSE
      OBVIOUS
    <2> DEFINE c == t.child[HEAD][1]
    <2>1. c \in Y \ {HEAD} /\ lo[c] = pos[HEAD] + 1 /\ hi[c] = hi[HEAD]
      BY <1>2, <1>3, ChildIs DEF FirstPlace, LastPlace
    <2> HIDE DEF c
    <2>2. /\ lo[c] <= pos[c] /\ pos[c] <= hi[c] /\ hi[HEAD] = pos[HEAD] /\ lo[c] \in Nat
          /\ pos[c] \in Nat /\ hi[c] \in Nat /\ pos[HEAD] \in Nat
      BY <1>2, <1>3, <2>1 DEF Shape, Stretches
    <2> QED
      BY <2>1, <2>2
  <1>9. /\ Typed(w) /\ w.parent[HEAD] = HEAD /\ w.idx[HEAD] = 0
        /\ w.child[HEAD][0] = NULL /\ w.child[HEAD][1] = NULL
    <2>1. t.parent[HEAD] = HEAD /\ t.idx[HEAD] = 0
      BY <1>2 DEF Shape, Up
    <2> QED
      BY <1>3, <1>5, <1>6, <1>8, <2>1, NullIsNone DEF ChildSet
  <1> DEFINE y == [w EXCEPT !.inTree = {}]
  <1> DEFINE k == 0
  <1> DEFINE z == [y EXCEPT !.size = k]
  <1>10. Typed(y) /\ SameLinks(w, y) /\ y.inTree = {}
    BY <1>9 DEF Typed, SameLinks
  <1> HIDE DEF y
  <1>11. k \in Int
    OBVIOUS
  <1> HIDE DEF k
  <1>12. Typed(z) /\ SameLinks(y, z) /\ z.inTree = y.inTree /\ z.size = k
    BY <1>10, <1>11 DEF Typed, SameLinks
  <1>13. Cleared(t) = z
    BY <1>7 DEF y, k
  <1> HIDE DEF z
  <1> QED
    BY <1>9, <1>10, <1>12, <1>13 DEF Bare, SameLinks, k

-----------------------------------------------------------------------------
(* What the calls come to: one node filed, or the nodes of a range out.    *)
Gains(t, u, Y, pos, n, q, d) ==
    /\ Orderly(u, Y \cup {n}, LeafPos(Y, pos, n, q))
    /\ n \notin Y /\ q \in Nat /\ 1 <= q /\ q <= pos[HEAD] /\ u.data[n] = d
    /\ \A m \in Y \ {HEAD} : u.data[m] = t.data[m]
    /\ \A m \in Y \ {HEAD} : Cmp(d, t.data[m]) >= 0 <=> pos[m] < q

LEMMA GainsOne ==
    ASSUME NEW t, NEW Y, NEW pos, Orderly(t, Y, pos), NEW n \in Node, n \notin Y, NEW d \in Notes
    PROVE  \E q : Gains(t, InsertNode(DataSet(t, n, d), n), Y, pos, n, q, d)
  <1> DEFINE v == DataSet(t, n, d)
  <1> DEFINE u == InsertNode(v, n)
  <1>1. PICK q : Inserted(v, u, Y, pos, n, q) /\ Orderly(u, Y \cup {n}, LeafPos(Y, pos, n, q))
    BY InsertOrderly
  <1>2. Typed(t) /\ Y \subseteq Cell
    BY WholePlaces DEF Orderly, Standing
  <1>3. \A m \in Node : v.data[m] = IF m = n THEN d ELSE t.data[m]
    BY <1>2, DataSetIs
  <1> HIDE DEF u, v
  <1>4. /\ u.data = v.data /\ q \in Nat /\ 1 <= q /\ q <= pos[HEAD]
        /\ \A m \in Y \ {HEAD} : GoesRight(v, n, m) <=> pos[m] < q
    BY <1>1 DEF Inserted
  <1>5. \A m \in Y \ {HEAD} : m \in Node /\ m # n
    BY <1>2, InNode
  <1>6. \A m \in Y \ {HEAD} : u.data[m] = t.data[m]
    BY <1>3, <1>4, <1>5
  <1>7. \A m \in Y \ {HEAD} : Cmp(d, t.data[m]) >= 0 <=> pos[m] < q
    <2>1. ASSUME NEW m \in Y \ {HEAD} PROVE GoesRight(v, n, m) <=> Cmp(d, t.data[m]) >= 0
      <3>1. v.data[n] = d /\ v.data[m] = t.data[m]
        BY <1>3, <1>5
      <3> QED
        BY <3>1 DEF GoesRight
    <2> QED
      BY <1>4, <2>1
  <1>8. Gains(t, u, Y, pos, n, q, d)
    BY <1>1, <1>3, <1>4, <1>6, <1>7 DEF Gains
  <1> QED
    BY <1>8 DEF u, v

LEMMA CutOne ==
    ASSUME NEW t, NEW Y, NEW pos, Orderly(t, Y, pos), NEW n \in Y \ {HEAD}
    PROVE  /\ Cut(Y, pos, pos[n], 1) = Y \ {n}
           /\ CutPos(Y, pos, pos[n], 1) = GapPos(Y, pos, n, pos[n])
           /\ pos[n] \in Nat /\ 1 <= pos[n]
  <1>1. /\ pos \in [Y -> Nat] /\ \A m \in Y : pos[m] = pos[n] => m = n
        /\ \A m \in Y : 1 <= pos[m]
    BY WholePlaces DEF Orderly, Standing
  <1> DEFINE c == pos[n]
  <1>2. c \in Nat /\ 1 <= c /\ \A m \in Y : m # n <=> pos[m] # c
    BY <1>1
  <1> HIDE DEF c
  <1>3. \A m \in Y : pos[m] < c \/ pos[m] >= c + 1 <=> m # n
    BY <1>1, <1>2
  <1>4. Cut(Y, pos, c, 1) = Y \ {n}
    BY <1>3 DEF Cut
  <1>5. \A m \in Y \ {n} : (IF pos[m] < c THEN pos[m] ELSE pos[m] - 1)
                             = (IF pos[m] > c THEN pos[m] - 1 ELSE pos[m])
    BY <1>1, <1>2
  <1>6. CutPos(Y, pos, c, 1) = GapPos(Y, pos, n, c)
    BY <1>4, <1>5 DEF CutPos, GapPos
  <1> QED
    BY <1>2, <1>4, <1>6 DEF c

LEMMA EraseGoes ==
    ASSUME NEW t, NEW Y, NEW pos, Orderly(t, Y, pos), NEW n \in Y \ {HEAD}
    PROVE  RangeGone(t, Freed(EraseNode(t, n).tree, {n}), Y, pos, pos[n], 1)
  <1>1. OneOut(t, Freed(EraseNode(t, n).tree, {n}), Y, pos, n)
    BY EraseOne
  <1>2. /\ Cut(Y, pos, pos[n], 1) = Y \ {n}
        /\ CutPos(Y, pos, pos[n], 1) = GapPos(Y, pos, n, pos[n])
    BY CutOne
  <1> QED
    BY <1>1, <1>2 DEF RangeGone, OneOut

(* bst_change: out of its place and filed anew.                            *)
LEMMA ChangeGoes ==
    ASSUME NEW t, NEW Y, NEW pos, Orderly(t, Y, pos), NEW n \in Y \ {HEAD}, NEW d \in Notes
    PROVE  \E v, q :
              /\ RangeGone(t, v, Y, pos, pos[n], 1)
              /\ Gains(v, InsertNode(EraseNode(DataSet(t, n, d), n).tree, n),
                       Cut(Y, pos, pos[n], 1), CutPos(Y, pos, pos[n], 1), n, q, d)
  <1> DEFINE w == DataSet(t, n, d)
  <1> DEFINE v == EraseNode(w, n).tree
  <1>1. Standing(t, Y, pos)
    BY DEF Orderly
  <1>2. Typed(t) /\ Y \subseteq Cell /\ n \in Node
    BY <1>1, WholePlaces, InNode DEF Standing
  <1>3. \A m \in Node : w.data[m] = IF m = n THEN d ELSE t.data[m]
    BY <1>2, DataSetIs
  <1>4. Orderly(v, Y \ {n}, GapPos(Y, pos, n, pos[n])) /\ Erased(w, v, Y, pos, n)
    BY <1>1, EraseOrderly, EraseIs
  <1> HIDE DEF v
  <1>5. v.data = w.data
    BY <1>4 DEF Erased
  <1> HIDE DEF w
  <1>6. /\ Cut(Y, pos, pos[n], 1) = Y \ {n}
        /\ CutPos(Y, pos, pos[n], 1) = GapPos(Y, pos, n, pos[n])
    BY CutOne
  <1>7. RangeGone(t, v, Y, pos, pos[n], 1)
    <2>1. \A m \in (Y \ {n}) \ {HEAD} : v.data[m] = t.data[m]
      BY <1>2, <1>3, <1>5, InNode
    <2> QED
      BY <1>4, <1>6, <2>1 DEF RangeGone
  <1>8. DataSet(v, n, d) = v
    <2>1. Typed(v)
      BY <1>4, WholePlaces DEF Orderly, Standing
    <2>2. v.data[n] = d
      BY <1>2, <1>3, <1>5
    <2> QED
      BY <1>2, <2>1, <2>2 DEF DataSet, Typed
  <1>9. PICK q : Gains(v, InsertNode(DataSet(v, n, d), n),
                       Y \ {n}, GapPos(Y, pos, n, pos[n]), n, q, d)
    <2>1. n \notin Y \ {n}
      OBVIOUS
    <2> QED
      BY <1>2, <1>4, <2>1, GainsOne
  <1> QED
    BY <1>6, <1>7, <1>8, <1>9 DEF v, w

LEMMA ClearGoes ==
    ASSUME NEW t, NEW Y, NEW pos, Orderly(t, Y, pos)
    PROVE  RangeGone(t, Cleared(t), Y, pos, 1, pos[HEAD] - 1)
  <1>1. /\ pos \in [Y -> Nat] /\ HEAD \in Y /\ pos[HEAD] \in Nat
        /\ \A m \in Y : 1 <= pos[m]
        /\ \A m \in Y \ {HEAD} : pos[m] < pos[HEAD]
    BY WholePlaces DEF Orderly, Standing
  <1> DEFINE k == pos[HEAD] - 1
  <1>2. k \in Nat /\ pos[HEAD] = k + 1
    BY <1>1
  <1> HIDE DEF k
  <1>3. Cut(Y, pos, 1, k) = {HEAD}
    <2>1. \A m \in Y : (pos[m] < 1 \/ pos[m] >= 1 + k) <=> m = HEAD
      BY <1>1, <1>2
    <2> QED
      BY <1>1, <2>1 DEF Cut
  <1>4. CutPos(Y, pos, 1, k) = OnlyHead
    <2>1. \A m \in {HEAD} : (IF pos[m] < 1 THEN pos[m] ELSE pos[m] - k) = 1
      BY <1>1, <1>2
    <2> QED
      BY <1>3, <2>1 DEF CutPos, OnlyHead
  <1>5. Orderly(Cleared(t), {HEAD}, OnlyHead)
    BY ClearedIsBare, BareIs
  <1> QED
    BY <1>3, <1>4, <1>5 DEF RangeGone, k

-----------------------------------------------------------------------------
(* The inductive invariant: the cells with in_tree set, and the head, form *)
(* a tree in shape, in the order of their data.                            *)
TreeInv ==
    /\ \E pos : Orderly(tree, tree.inTree \cup {HEAD}, pos)
    /\ \A n \in tree.inTree : tree.data[n] \in Holds[n]

Filing(t, u, Y, pos) ==
    \E n \in Node : \E d \in Holds[n] : \E q : Gains(t, u, Y, pos, n, q, d)

Cutting(t, u, Y, pos) ==
    \E c, k \in Nat : 1 <= c /\ c + k <= pos[HEAD] /\ RangeGone(t, u, Y, pos, c, k)

Refiling(t, u, Y, pos) ==
    \E n \in Y \ {HEAD} : \E d \in Holds[n] : \E v, q :
        /\ RangeGone(t, v, Y, pos, pos[n], 1)
        /\ Gains(v, u, Cut(Y, pos, pos[n], 1), CutPos(Y, pos, pos[n], 1), n, q, d)

LEMMA HoldsNotes == \A n \in Node : \A d \in Holds[n] : d \in Notes
  BY HoldsAssumption DEF Notes

LEMMA StepIs ==
    ASSUME NEW Y, NEW pos, Orderly(tree, Y, pos), Next
    PROVE  Filing(tree, tree', Y, pos) \/ Cutting(tree, tree', Y, pos)
             \/ Refiling(tree, tree', Y, pos)
  <1>1. /\ HEAD \in Y /\ Y \subseteq Cell /\ pos \in [Y -> Nat] /\ tree.inTree = Y \ {HEAD}
        /\ \A m \in Y : 1 <= pos[m] /\ pos[m] <= pos[HEAD]
        /\ \A m \in Y \ {HEAD} : pos[m] < pos[HEAD]
        /\ Sorted(tree, Y, pos) /\ Dated(tree, Y)
    BY WholePlaces DEF Orderly, Standing
  <1>2. HEAD \notin Node /\ \A m \in Y \ {HEAD} : m \in Node
    BY <1>1, HeadAssumption, InNode
  <1>3. ASSUME NEW n \in Node, NEW d \in Holds[n], Insert(n, d) PROVE Filing(tree, tree', Y, pos)
    <2>1. n \notin Y /\ d \in Notes /\ tree' = InsertNode(DataSet(tree, n, d), n)
      BY <1>1, <1>2, <1>3, HoldsNotes DEF Insert, DataSet
    <2>2. \E q : Gains(tree, InsertNode(DataSet(tree, n, d), n), Y, pos, n, q, d)
      BY <2>1, GainsOne
    <2> QED
      BY <2>1, <2>2 DEF Filing
  <1>4. ASSUME NEW n \in Node, Erase(n) PROVE Cutting(tree, tree', Y, pos)
    <2>1. n \in Y \ {HEAD} /\ tree' = Freed(EraseNode(tree, n).tree, {n})
      BY <1>1, <1>4 DEF Erase
    <2>2. RangeGone(tree, tree', Y, pos, pos[n], 1)
      BY <2>1, EraseGoes
    <2>3. pos[n] \in Nat /\ 1 \in Nat /\ 1 <= pos[n] /\ pos[n] + 1 <= pos[HEAD]
      BY <1>1, <2>1
    <2> QED
      BY <2>2, <2>3 DEF Cutting
  <1>5. ASSUME NEW beg \in Node, NEW end \in Cell, EraseRange(beg, end)
        PROVE  Cutting(tree, tree', Y, pos)
    <2>1. beg \in Y \ {HEAD} /\ end \in Y /\ tree' = EraseRangeFrom(tree, beg, end)
      BY <1>1, <1>5 DEF EraseRange
    <2>2. pos[beg] <= pos[end]
      <3>1. CASE end = HEAD
        BY <1>1, <2>1, <3>1
      <3>2. CASE end # HEAD
        <4>1. Cmp(tree.data[beg], tree.data[end]) < 0
          BY <1>5, <3>2 DEF EraseRange
        <4>2. tree.data[beg] \in Notes /\ tree.data[end] \in Notes
          BY <1>1, <2>1, <3>2 DEF Dated
        <4>3. pos[end] < pos[beg] => Cmp(tree.data[end], tree.data[beg]) <= 0
          BY <1>1, <2>1, <3>2 DEF Sorted
        <4>4. /\ Cmp(tree.data[end], tree.data[beg]) > 0 <=> Cmp(tree.data[beg], tree.data[end]) < 0
              /\ Cmp(tree.data[end], tree.data[beg]) \in Int
          BY <4>2, CmpIs
        <4>5. ~(pos[end] < pos[beg])
          BY <4>1, <4>3, <4>4
        <4> QED
          BY <1>1, <2>1, <4>5
      <3> QED
        BY <3>1, <3>2
    <2>3. RangeGone(tree, tree', Y, pos, pos[beg], pos[end] - pos[beg])
      BY <2>1, <2>2, EraseRangeIs
    <2> DEFINE k == pos[end] - pos[beg]
    <2>4. pos[beg] \in Nat /\ k \in Nat /\ 1 <= pos[beg] /\ pos[beg] + k <= pos[HEAD]
      BY <1>1, <2>1, <2>2
    <2> HIDE DEF k
    <2> QED
      BY <2>3, <2>4 DEF Cutting, k
  <1>6. ASSUME NEW n \in Node, NEW d \in Holds[n], Change(n, d) PROVE Refiling(tree, tree', Y, pos)
    <2>1. /\ n \in Y \ {HEAD} /\ d \in Notes
          /\ tree' = InsertNode(EraseNode(DataSet(tree, n, d), n).tree, n)
      BY <1>1, <1>6, HoldsNotes DEF Change, DataSet
    <2>2. \E v, q :
              /\ RangeGone(tree, v, Y, pos, pos[n], 1)
              /\ Gains(v, InsertNode(EraseNode(DataSet(tree, n, d), n).tree, n),
                       Cut(Y, pos, pos[n], 1), CutPos(Y, pos, pos[n], 1), n, q, d)
      BY <2>1, ChangeGoes
    <2> QED
      BY <2>1, <2>2 DEF Refiling
  <1>7. ASSUME Clear PROVE Cutting(tree, tree', Y, pos)
    <2>1. RangeGone(tree, tree', Y, pos, 1, pos[HEAD] - 1)
      BY <1>7, ClearGoes DEF Clear
    <2> DEFINE k == pos[HEAD] - 1
    <2>2. 1 \in Nat /\ k \in Nat /\ 1 <= 1 /\ 1 + k <= pos[HEAD]
      BY <1>1
    <2> HIDE DEF k
    <2> QED
      BY <2>1, <2>2 DEF Cutting, k
  <1> QED
    BY <1>3, <1>4, <1>5, <1>6, <1>7 DEF Next

LEMMA GainsKeeps ==
    ASSUME NEW t, NEW u, NEW Y, NEW pos, NEW n \in Node, NEW q, NEW d \in Holds[n],
           Gains(t, u, Y, pos, n, q, d), HEAD \in Y,
           \A m \in Y \ {HEAD} : t.data[m] \in Holds[m]
    PROVE  /\ \E p : Orderly(u, u.inTree \cup {HEAD}, p)
           /\ \A m \in u.inTree : u.data[m] \in Holds[m]
  <1>1. Orderly(u, Y \cup {n}, LeafPos(Y, pos, n, q))
    BY DEF Gains
  <1>2. u.inTree \cup {HEAD} = Y \cup {n} /\ u.inTree = (Y \cup {n}) \ {HEAD}
    BY <1>1 DEF Orderly
  <1>3. \A m \in u.inTree : u.data[m] \in Holds[m]
    BY <1>2 DEF Gains
  <1> QED
    BY <1>1, <1>2, <1>3

LEMMA CutKeeps ==
    ASSUME NEW t, NEW u, NEW Y, NEW pos, NEW c, NEW k, RangeGone(t, u, Y, pos, c, k),
           \A m \in Y \ {HEAD} : t.data[m] \in Holds[m]
    PROVE  /\ HEAD \in Cut(Y, pos, c, k)
           /\ \A m \in Cut(Y, pos, c, k) \ {HEAD} : u.data[m] \in Holds[m]
           /\ u.inTree = Cut(Y, pos, c, k) \ {HEAD}
           /\ Orderly(u, Cut(Y, pos, c, k), CutPos(Y, pos, c, k))
  <1>1. Orderly(u, Cut(Y, pos, c, k), CutPos(Y, pos, c, k))
    BY DEF RangeGone
  <1>2. HEAD \in Cut(Y, pos, c, k)
    BY <1>1, WholePlaces DEF Orderly, Standing
  <1>3. \A m \in Cut(Y, pos, c, k) \ {HEAD} : u.data[m] = t.data[m] /\ m \in Y \ {HEAD}
    BY DEF RangeGone, Cut
  <1> QED
    BY <1>1, <1>2, <1>3 DEF Orderly

(* bst.c keeps its trees in shape: every linked node is where its parent   *)
(* and side say, in the order of the data, with its balance and its value  *)
(* told last from what they are told from now.                             *)
THEOREM TreeStandsFirm == Spec => []TreeInv
  <1>1. Init => TreeInv
    <2> SUFFICES ASSUME Init PROVE TreeInv
      OBVIOUS
    <2>1. tree = NoNodes /\ tree.inTree = {}
      BY DEF Init, NoNodes
    <2>2. Orderly(tree, {HEAD}, OnlyHead)
      BY <2>1, NoNodesAreBare, BareIs
    <2>3. tree.inTree \cup {HEAD} = {HEAD}
      BY <2>1
    <2> QED
      BY <2>1, <2>2, <2>3 DEF TreeInv
  <1>2. TreeInv /\ [Next]_tree => TreeInv'
    <2> SUFFICES ASSUME TreeInv, Next PROVE TreeInv'
      BY DEF TreeInv
    <2> DEFINE Y == tree.inTree \cup {HEAD}
    <2>1. PICK pos : Orderly(tree, Y, pos)
      BY DEF TreeInv
    <2>2. HEAD \in Y /\ Y \subseteq Cell /\ tree.inTree = Y \ {HEAD}
      BY <2>1, WholePlaces DEF Orderly, Standing
    <2>3. \A m \in Y \ {HEAD} : m \in Node /\ tree.data[m] \in Holds[m]
      BY <2>2, InNode DEF TreeInv
    <2>4. Filing(tree, tree', Y, pos) \/ Cutting(tree, tree', Y, pos)
             \/ Refiling(tree, tree', Y, pos)
      BY <2>1, StepIs
    <2> HIDE DEF Y
    <2>5. CASE Filing(tree, tree', Y, pos)
      <3>1. PICK n, d, q : n \in Node /\ d \in Holds[n] /\ Gains(tree, tree', Y, pos, n, q, d)
        BY <2>5 DEF Filing
      <3> QED
        BY <2>2, <2>3, <3>1, GainsKeeps DEF TreeInv
    <2>6. CASE Cutting(tree, tree', Y, pos)
      <3>1. PICK c, k : RangeGone(tree, tree', Y, pos, c, k)
        BY <2>6 DEF Cutting
      <3> DEFINE C == Cut(Y, pos, c, k)
      <3>2. /\ HEAD \in C /\ \A m \in C \ {HEAD} : tree'.data[m] \in Holds[m]
            /\ tree'.inTree = C \ {HEAD} /\ Orderly(tree', C, CutPos(Y, pos, c, k))
        BY <2>3, <3>1, CutKeeps
      <3> HIDE DEF C
      <3>3. tree'.inTree \cup {HEAD} = C
        BY <3>2
      <3> QED
        BY <3>2, <3>3 DEF TreeInv
    <2>7. CASE Refiling(tree, tree', Y, pos)
      <3>1. PICK n, d, v, q :
               /\ n \in Y \ {HEAD} /\ d \in Holds[n]
               /\ RangeGone(tree, v, Y, pos, pos[n], 1)
               /\ Gains(v, tree', Cut(Y, pos, pos[n], 1), CutPos(Y, pos, pos[n], 1), n, q, d)
        BY <2>7 DEF Refiling
      <3> DEFINE C == Cut(Y, pos, pos[n], 1)
      <3>2. HEAD \in C /\ \A m \in C \ {HEAD} : v.data[m] \in Holds[m]
        BY <2>3, <3>1, CutKeeps
      <3>3. n \in Node
        BY <2>3, <3>1
      <3> HIDE DEF C
      <3>4. Gains(v, tree', C, CutPos(Y, pos, pos[n], 1), n, q, d)
        BY <3>1 DEF C
      <3> QED
        BY <3>1, <3>2, <3>3, <3>4, GainsKeeps DEF TreeInv
    <2> QED
      BY <2>4, <2>5, <2>6, <2>7
  <1> QED
    BY <1>1, <1>2, PTL DEF Spec

-----------------------------------------------------------------------------
(* Heights are what the balances were told from.                           *)
LEMMA MaxOfTwo ==
    ASSUME NEW a \in Int, NEW b \in Int
    PROVE  Max({a, b}) = Max2(a, b)
  <1> DEFINE z == Max2(a, b)
  <1>1. z \in {a, b} /\ z >= a /\ z >= b /\ z \in Int
    BY DEF Max2
  <1> HIDE DEF z
  <1>2. \A x \in {a, b} : (\A y \in {a, b} : x >= y) => x = z
    BY <1>1
  <1>3. \A y \in {a, b} : z >= y
    BY <1>1
  <1>4. \E x \in {a, b} : \A y \in {a, b} : x >= y
    BY <1>1, <1>3
  <1>5. Max({a, b}) \in {a, b} /\ \A y \in {a, b} : Max({a, b}) >= y
    BY <1>4 DEF Max
  <1> QED
    BY <1>2, <1>5 DEF z

HighStep(a, f, k) == HeightRound(a.tree, f)

HighGood(a, k, f) ==
    /\ f[NULL] = 0
    /\ \A m \in a.in \ {HEAD} : a.hi[m] - a.lo[m] < k => f[m] = a.high[m]

HighLoop == INSTANCE FoldFacts WITH Step <- HighStep, Sel <- ByMax, Good <- HighGood

LEMMA HeightIs ==
    ASSUME NEW t, NEW Y, NEW pos, NEW lo, NEW hi, NEW high,
           Fit(t, Y, pos, lo, hi, high, HEAD, 0, 0), NEW m \in Y, NEW d \in 0 .. 1
    PROVE  Height(t, t.child[m][d]) = Deep(t, high, m, d)
  <1> DEFINE a == [tree |-> t, in |-> Y, lo |-> lo, hi |-> hi, high |-> high]
  <1> DEFINE f0 == [k \in Node \cup {NULL} |-> 0]
  <1>1. a.tree = t /\ a.in = Y /\ a.lo = lo /\ a.hi = hi /\ a.high = high
    OBVIOUS
  <1>2. /\ Shape(t, Y, pos, lo, hi) /\ Stretches(Y, pos, lo, hi) /\ Leveled(t, Y, high, HEAD, 0, 0)
    BY DEF Fit, Shape
  <1>3. /\ Y \subseteq Cell /\ high \in [Y -> Nat \ {0}] /\ \A k \in Y \ {HEAD} : k \in Node
        /\ NULL \notin Y
    BY <1>2, InNode, NullIsNone DEF Stretches, Leveled
  <1>4. \A k \in Y \ {HEAD} : hi[k] - lo[k] \in Nat /\ hi[k] - lo[k] < Rounds
    BY <1>2, WideIsTop
  <1>5. HighGood(a, 0, f0)
    BY <1>1, <1>4 DEF HighGood
  <1>6. \A k \in 1 .. Rounds : \A f : HighGood(a, k - 1, f) => HighGood(a, k, HighStep(a, f, k))
    <2> SUFFICES ASSUME NEW k \in 1 .. Rounds, NEW f, HighGood(a, k - 1, f)
                 PROVE  HighGood(a, k, HeightRound(t, f))
      BY <1>1 DEF HighStep
    <2> DEFINE g == HeightRound(t, f)
    <2>1. /\ f[NULL] = 0
          /\ \A l \in Y \ {HEAD} : hi[l] - lo[l] < k - 1 => f[l] = high[l]
      BY <1>1 DEF HighGood
    <2>2. g[NULL] = 0 /\ \A l \in Node : g[l] = 1 + Max({f[t.child[l][0]], f[t.child[l][1]]})
      BY HeadAssumption DEF HeightRound
    <2> HIDE DEF g
    <2>3. ASSUME NEW l \in Y \ {HEAD}, hi[l] - lo[l] < k PROVE g[l] = high[l]
      <3>1. ASSUME NEW e \in 0 .. 1 PROVE f[t.child[l][e]] = Deep(t, high, l, e)
        <4>1. CASE t.child[l][e] = NULL
          BY <2>1, <4>1 DEF Deep
        <4>2. CASE t.child[l][e] # NULL
          <5> DEFINE c == t.child[l][e]
          <5>1. c \in Y \ {HEAD} /\ hi[c] - lo[c] < hi[l] - lo[l]
            BY <1>2, <4>2, ChildIs
          <5> HIDE DEF c
          <5>2. hi[c] - lo[c] < k - 1
            <6> DEFINE w == hi[c] - lo[c]
            <6> DEFINE x == hi[l] - lo[l]
            <6>1. w \in Nat /\ x \in Nat /\ w < x /\ x < k
              BY <1>4, <2>3, <5>1
            <6> HIDE DEF w, x
            <6>2. w < k - 1
              BY <6>1
            <6> QED
              BY <6>2 DEF w
          <5>3. f[c] = high[c]
            BY <2>1, <5>1, <5>2
          <5> QED
            BY <4>2, <5>3 DEF c, Deep
        <4> QED
          BY <4>1, <4>2
      <3>2. Deep(t, high, l, 0) \in Int /\ Deep(t, high, l, 1) \in Int
        BY <1>2, <1>3, DeepIsNat
      <3>3. g[l] = 1 + Max({Deep(t, high, l, 0), Deep(t, high, l, 1)})
        <4> DEFINE x0 == Deep(t, high, l, 0)
        <4> DEFINE x1 == Deep(t, high, l, 1)
        <4>1. f[t.child[l][0]] = x0 /\ f[t.child[l][1]] = x1
          BY <3>1
        <4> HIDE DEF x0, x1
        <4>2. g[l] = 1 + Max({f[t.child[l][0]], f[t.child[l][1]]})
          BY <1>3, <2>2
        <4>3. g[l] = 1 + Max({x0, x1})
          BY <4>1, <4>2
        <4> QED
          BY <4>3 DEF x0, x1
      <3>4. high[l] = 1 + Max2(Deep(t, high, l, 0), Deep(t, high, l, 1))
        <4>1. Level(t, high, HEAD, 0, 0, l) /\ l # HEAD
          BY <1>2 DEF Leveled
        <4> QED
          BY <4>1, LevelIs
      <3> QED
        BY <3>2, <3>3, <3>4, MaxOfTwo
    <2> QED
      BY <1>1, <2>2, <2>3 DEF HighGood, g
  <1> DEFINE h == HighLoop!Loop(a, f0, Rounds)
  <1>7. HighGood(a, Rounds, h)
    <2>1. Rounds \in Nat
      BY <1>2, StretchesFit
    <2> HIDE DEF a, f0
    <2> QED
      BY <1>5, <1>6, <2>1, HighLoop!LoopGood
  <1>8. Height(t, t.child[m][d]) = h[t.child[m][d]]
    BY DEF Height, Repeat, HighLoop!Loop, HighLoop!IsLoop, HighStep
  <1> HIDE DEF h
  <1>9. CASE t.child[m][d] = NULL
    BY <1>7, <1>8, <1>9 DEF HighGood, Deep
  <1>10. CASE t.child[m][d] # NULL
    <2>1. t.child[m][d] \in Y \ {HEAD}
      BY <1>2, <1>10, ChildIs
    <2>2. h[t.child[m][d]] = high[t.child[m][d]]
      BY <1>1, <1>4, <1>7, <2>1 DEF HighGood
    <2> QED
      BY <1>8, <1>10, <2>2 DEF Deep
  <1> QED
    BY <1>9, <1>10

(* bst.c's balance is the difference in height of a node's two subtrees,   *)
(* exactly, after every call.                                              *)
THEOREM BalancesAreExact == Spec => []Balanced
  <1>1. TreeInv => Balanced
    <2> SUFFICES ASSUME TreeInv, NEW n \in tree.inTree
                 PROVE  tree.balance[n] = Height(tree, tree.child[n][0])
                                            - Height(tree, tree.child[n][1])
      BY DEF Balanced
    <2> DEFINE Y == tree.inTree \cup {HEAD}
    <2>1. PICK pos, lo, hi, high : Fit(tree, Y, pos, lo, hi, high, HEAD, 0, 0)
      BY DEF TreeInv, Orderly, Standing, Whole
    <2>2. n \in Y /\ n # HEAD
      <3>1. \E pos2 : Orderly(tree, Y, pos2)
        BY DEF TreeInv
      <3>2. tree.inTree = Y \ {HEAD}
        BY <3>1 DEF Orderly
      <3> QED
        BY <3>2
    <2> HIDE DEF Y
    <2>3. Level(tree, high, HEAD, 0, 0, n)
      BY <2>1, <2>2 DEF Fit, Leveled
    <2>4. tree.balance[n] = Deep(tree, high, n, 0) - Deep(tree, high, n, 1)
      BY <2>2, <2>3, LevelIs
    <2>5. \A d \in 0 .. 1 : Height(tree, tree.child[n][d]) = Deep(tree, high, n, d)
      BY <2>1, <2>2, HeightIs
    <2> QED
      BY <2>4, <2>5
  <1> QED
    BY <1>1, TreeStandsFirm, PTL

-----------------------------------------------------------------------------
(* The list of a subtree is its nodes by their places.                     *)
Runs(q, Y, pos, l, h) ==
    /\ q \in Seq(Y \ {HEAD}) /\ Len(q) = h + 1 - l
    /\ \A i \in 1 .. Len(q) : pos[q[i]] = l + i - 1

LEMMA RunsNone ==
    ASSUME NEW Y, NEW pos, NEW l \in Nat, NEW h \in Int, l = h + 1
    PROVE  Runs(<<>>, Y, pos, l, h)
  BY DEF Runs

LEMMA RunsJoin ==
    ASSUME NEW Y, NEW pos, NEW l \in Nat, NEW h \in Nat, NEW p \in Nat, NEW m \in Y \ {HEAD},
           pos[m] = p, NEW q, Runs(q, Y, pos, l, p - 1), NEW r, Runs(r, Y, pos, p + 1, h)
    PROVE  Runs(q \o <<m>> \o r, Y, pos, l, h)
  <1> DEFINE S == Y \ {HEAD}
  <1>1. q \in Seq(S) /\ r \in Seq(S) /\ m \in S
    BY DEF Runs
  <1>2. /\ Len(q) = p - l /\ \A i \in 1 .. Len(q) : pos[q[i]] = l + i - 1
        /\ Len(q) \in Nat
    BY <1>1 DEF Runs
  <1>3. /\ Len(r) = h - p /\ \A i \in 1 .. Len(r) : pos[r[i]] = p + i
        /\ Len(r) \in Nat
    BY <1>1 DEF Runs
  <1> HIDE DEF S
  <1> DEFINE s == q \o <<m>>
  <1>4. s \in Seq(S) /\ Len(s) = Len(q) + 1 /\ s[Len(q) + 1] = m
        /\ \A i \in 1 .. Len(q) : s[i] = q[i]
    BY <1>1
  <1> HIDE DEF s
  <1>5. \A i \in 1 .. Len(s) : pos[s[i]] = l + i - 1
    <2> SUFFICES ASSUME NEW i \in 1 .. Len(s) PROVE pos[s[i]] = l + i - 1
      OBVIOUS
    <2>1. CASE i = Len(q) + 1
      BY <1>2, <1>4, <2>1
    <2>2. CASE i \in 1 .. Len(q)
      BY <1>2, <1>4, <2>2
    <2> QED
      BY <1>2, <1>4, <2>1, <2>2
  <1> DEFINE z == s \o r
  <1>6. /\ z \in Seq(S) /\ Len(z) = Len(s) + Len(r)
        /\ \A i \in 1 .. Len(s) : z[i] = s[i]
        /\ \A i \in 1 .. Len(r) : z[Len(s) + i] = r[i]
    <2>1. s \in Seq(S) /\ r \in Seq(S)
      BY <1>1, <1>4
    <2>2. z \in Seq(S) /\ Len(z) = Len(s) + Len(r)
      BY <2>1
    <2>3. \A i \in 1 .. Len(s) : z[i] = s[i]
      BY <2>1
    <2>4. \A i \in 1 .. Len(r) : z[Len(s) + i] = r[i]
      BY <2>1
    <2> QED
      BY <2>2, <2>3, <2>4
  <1> HIDE DEF z
  <1>7. Len(s) = p - l + 1 /\ Len(z) = h + 1 - l
    BY <1>2, <1>3, <1>4, <1>6
  <1>8. \A i \in 1 .. Len(z) : pos[z[i]] = l + i - 1
    <2> SUFFICES ASSUME NEW i \in 1 .. Len(z) PROVE pos[z[i]] = l + i - 1
      OBVIOUS
    <2>1. CASE i \in 1 .. Len(s)
      BY <1>5, <1>6, <2>1
    <2>2. CASE i > Len(s)
      <3> DEFINE j == i - Len(s)
      <3>1. j \in 1 .. Len(r) /\ i = Len(s) + j
        BY <1>3, <1>6, <1>7, <2>2
      <3> HIDE DEF j
      <3>2. z[i] = r[j] /\ pos[r[j]] = p + j
        BY <1>3, <1>6, <3>1
      <3>3. j \in Nat /\ i = p - l + 1 + j
        BY <1>7, <3>1
      <3> QED
        BY <3>2, <3>3
    <2> QED
      BY <2>1, <2>2
  <1>9. Runs(z, Y, pos, l, h)
    BY <1>6, <1>7, <1>8 DEF Runs, S
  <1> QED
    BY <1>9 DEF z, s

OrderStep(a, f, k) == OrderRound(a.tree, f)

OrderGood(a, k, f) ==
    /\ f[NULL] = <<>>
    /\ \A m \in a.in \ {HEAD} : a.hi[m] - a.lo[m] < k => Runs(f[m], a.in, a.pos, a.lo[m], a.hi[m])

OrderLoop == INSTANCE FoldFacts WITH Step <- OrderStep, Sel <- ByMax, Good <- OrderGood

(* The list of what hangs on side d of m.                                  *)
HungList(f, t, Y, pos, lo, hi, m, d) ==
    Runs(f[t.child[m][d]], Y, pos, FirstPlace(pos, lo, m, d), LastPlace(pos, hi, m, d))

LEMMA OrderIs ==
    ASSUME NEW t, NEW Y, NEW pos, NEW lo, NEW hi, Shape(t, Y, pos, lo, hi),
           NEW m \in Y, NEW d \in 0 .. 1, m = HEAD => d = 0
    PROVE  Runs(InOrder(t, t.child[m][d]), Y, pos, FirstPlace(pos, lo, m, d), LastPlace(pos, hi, m, d))
  <1> DEFINE a == [tree |-> t, in |-> Y, pos |-> pos, lo |-> lo, hi |-> hi]
  <1> DEFINE f0 == [k \in Node \cup {NULL} |-> <<>>]
  <1>1. a.tree = t /\ a.in = Y /\ a.pos = pos /\ a.lo = lo /\ a.hi = hi
    OBVIOUS
  <1>2. Stretches(Y, pos, lo, hi) /\ Down(t, Y, pos, lo, hi)
    BY DEF Shape
  <1>3. /\ \A k \in Y \ {HEAD} : k \in Node
        /\ NULL \notin Y /\ Y \subseteq Cell
    BY <1>2, InNode, NullIsNone DEF Stretches
  <1>4. \A k \in Y \ {HEAD} : hi[k] - lo[k] \in Nat /\ hi[k] - lo[k] < Rounds
    BY <1>2, WideIsTop
  <1>5. OrderGood(a, 0, f0)
    BY <1>1, <1>4 DEF OrderGood
  <1>6. ASSUME NEW k \in Nat, NEW f, OrderGood(a, k, f), NEW l \in Y, NEW e \in 0 .. 1,
               l = HEAD => e = 0, t.child[l][e] # NULL => hi[t.child[l][e]] - lo[t.child[l][e]] < k
        PROVE  HungList(f, t, Y, pos, lo, hi, l, e)
    <2>1. /\ f[NULL] = <<>>
          /\ \A n \in Y \ {HEAD} : hi[n] - lo[n] < k => Runs(f[n], Y, pos, lo[n], hi[n])
      BY <1>1, <1>6 DEF OrderGood
    <2>2. Hung(t, Y, pos, lo, hi, l, e)
      BY <1>2 DEF Down
    <2>3. CASE t.child[l][e] = NULL
      <3>1. FirstPlace(pos, lo, l, e) = LastPlace(pos, hi, l, e) + 1
        BY <2>2, <2>3 DEF Hung
      <3>2. FirstPlace(pos, lo, l, e) \in Nat /\ LastPlace(pos, hi, l, e) \in Int
        BY <1>2 DEF FirstPlace, LastPlace, Stretches
      <3>3. Runs(<<>>, Y, pos, FirstPlace(pos, lo, l, e), LastPlace(pos, hi, l, e))
        BY <3>1, <3>2, RunsNone
      <3> QED
        BY <2>1, <2>3, <3>3 DEF HungList
    <2>4. CASE t.child[l][e] # NULL
      <3> DEFINE c == t.child[l][e]
      <3>1. /\ c \in Y \ {HEAD} /\ lo[c] = FirstPlace(pos, lo, l, e) /\ hi[c] = LastPlace(pos, hi, l, e)
            /\ hi[c] - lo[c] < k
        BY <1>6, <2>2, <2>4 DEF Hung
      <3> HIDE DEF c
      <3>2. Runs(f[c], Y, pos, lo[c], hi[c])
        BY <2>1, <3>1
      <3> QED
        BY <3>1, <3>2 DEF HungList, c
    <2> QED
      BY <2>3, <2>4
  <1>7. \A k \in 1 .. Rounds : \A f : OrderGood(a, k - 1, f) => OrderGood(a, k, OrderStep(a, f, k))
    <2> SUFFICES ASSUME NEW k \in 1 .. Rounds, NEW f, OrderGood(a, k - 1, f)
                 PROVE  OrderGood(a, k, OrderRound(t, f))
      BY <1>1 DEF OrderStep
    <2> DEFINE g == OrderRound(t, f)
    <2>2. g[NULL] = <<>> /\ \A l \in Node : g[l] = f[t.child[l][0]] \o <<l>> \o f[t.child[l][1]]
      BY HeadAssumption DEF OrderRound
    <2> HIDE DEF g
    <2>3. ASSUME NEW l \in Y \ {HEAD}, hi[l] - lo[l] < k PROVE Runs(g[l], Y, pos, lo[l], hi[l])
      <3>1. ASSUME NEW e \in 0 .. 1 PROVE HungList(f, t, Y, pos, lo, hi, l, e)
        <4>1. ASSUME t.child[l][e] # NULL PROVE hi[t.child[l][e]] - lo[t.child[l][e]] < k - 1
          <5> DEFINE c == t.child[l][e]
          <5>1. c \in Y \ {HEAD} /\ hi[c] - lo[c] < hi[l] - lo[l]
            BY <4>1, ChildIs
          <5> DEFINE w == hi[c] - lo[c]
          <5> DEFINE x == hi[l] - lo[l]
          <5> HIDE DEF c
          <5>2. w \in Nat /\ x \in Nat /\ w < x /\ x < k
            BY <1>4, <2>3, <5>1
          <5> HIDE DEF w, x
          <5>3. w < k - 1
            BY <5>2
          <5> QED
            BY <5>3 DEF w, c
        <4>2. k - 1 \in Nat /\ l \in Y /\ (l = HEAD => e = 0)
          OBVIOUS
        <4> QED
          BY <1>6, <4>1, <4>2
      <3>2. Runs(f[t.child[l][0]], Y, pos, lo[l], pos[l] - 1)
        BY <3>1 DEF HungList, FirstPlace, LastPlace
      <3>3. Runs(f[t.child[l][1]], Y, pos, pos[l] + 1, hi[l])
        <4>1. HungList(f, t, Y, pos, lo, hi, l, 1)
          BY <3>1
        <4> QED
          BY <4>1 DEF HungList, FirstPlace, LastPlace
      <3>4. lo[l] \in Nat /\ hi[l] \in Nat /\ pos[l] \in Nat
        BY <1>2 DEF Stretches
      <3>5. Runs(f[t.child[l][0]] \o <<l>> \o f[t.child[l][1]], Y, pos, lo[l], hi[l])
        BY <3>2, <3>3, <3>4, RunsJoin
      <3> QED
        BY <1>3, <2>2, <3>5
    <2> QED
      BY <1>1, <2>2, <2>3 DEF OrderGood, g
  <1> DEFINE h == OrderLoop!Loop(a, f0, Rounds)
  <1>8. Rounds \in Nat
    BY <1>2, StretchesFit
  <1>9. OrderGood(a, Rounds, h)
    <2> HIDE DEF a, f0
    <2> QED
      BY <1>5, <1>7, <1>8, OrderLoop!LoopGood
  <1>10. InOrder(t, t.child[m][d]) = h[t.child[m][d]]
    BY DEF InOrder, Repeat, OrderLoop!Loop, OrderLoop!IsLoop, OrderStep
  <1> HIDE DEF h
  <1>11. t.child[m][d] # NULL => hi[t.child[m][d]] - lo[t.child[m][d]] < Rounds
    BY <1>4, ChildIs
  <1>12. HungList(h, t, Y, pos, lo, hi, m, d)
    BY <1>6, <1>8, <1>9, <1>11
  <1> QED
    BY <1>10, <1>12 DEF HungList

-----------------------------------------------------------------------------
(* q is the list of the nodes by their places.                             *)
ListsAs(q, Y, pos) ==
    /\ q \in Seq(Y \ {HEAD}) /\ Len(q) = pos[HEAD] - 1 /\ Len(q) \in Nat
    /\ \A i \in 1 .. Len(q) : pos[q[i]] = i
    /\ \A m \in Y \ {HEAD} : pos[m] \in 1 .. Len(q) /\ q[pos[m]] = m

LEMMA ListedIs ==
    ASSUME NEW t, NEW Y, NEW pos, Whole(t, Y, pos)
    PROVE  ListsAs(InOrder(t, t.child[HEAD][0]), Y, pos)
  <1> DEFINE q == InOrder(t, t.child[HEAD][0])
  <1>1. PICK lo, hi, high : Fit(t, Y, pos, lo, hi, high, HEAD, 0, 0)
    BY DEF Whole
  <1>2. Shape(t, Y, pos, lo, hi) /\ Stretches(Y, pos, lo, hi)
    BY <1>1 DEF Fit, Shape
  <1>3. HEAD \in Y /\ lo[HEAD] = 1
    BY <1>2 DEF Stretches
  <1>4. Runs(q, Y, pos, 1, pos[HEAD] - 1)
    <2>1. Runs(q, Y, pos, FirstPlace(pos, lo, HEAD, 0), LastPlace(pos, hi, HEAD, 0))
      BY <1>2, <1>3, OrderIs
    <2> QED
      BY <1>3, <2>1 DEF FirstPlace, LastPlace
  <1> HIDE DEF q
  <1>5. /\ \A m \in Y \ {HEAD} : pos[m] < pos[HEAD]
        /\ \A m \in Y : 1 <= pos[m] /\ pos[m] \in Nat
        /\ \A m, n \in Y : pos[m] = pos[n] => m = n
    BY WholePlaces
  <1>6. /\ q \in Seq(Y \ {HEAD}) /\ Len(q) = pos[HEAD] - 1 /\ Len(q) \in Nat
        /\ \A i \in 1 .. Len(q) : pos[q[i]] = i
    BY <1>3, <1>4, <1>5 DEF Runs
  <1>7. \A i \in 1 .. Len(q) : q[i] \in Y \ {HEAD}
    BY <1>6
  <1>8. ASSUME NEW m \in Y \ {HEAD} PROVE pos[m] \in 1 .. Len(q) /\ q[pos[m]] = m
    <2> DEFINE p == pos[m]
    <2>1. p \in 1 .. Len(q)
      BY <1>3, <1>5, <1>6
    <2> HIDE DEF p
    <2>2. pos[q[p]] = p /\ q[p] \in Y
      BY <1>6, <1>7, <2>1
    <2> QED
      BY <1>5, <2>1, <2>2 DEF p
  <1>9. ListsAs(q, Y, pos)
    BY <1>6, <1>8 DEF ListsAs
  <1> QED
    BY <1>9 DEF q

LEMMA ListedHas ==
    ASSUME NEW q, NEW Y, NEW pos, ListsAs(q, Y, pos)
    PROVE  ToSet(q) = Y \ {HEAD}
  <1>1. \A i \in 1 .. Len(q) : q[i] \in Y \ {HEAD}
    BY DEF ListsAs
  <1>2. \A m \in Y \ {HEAD} : \E i \in 1 .. Len(q) : q[i] = m
    BY DEF ListsAs
  <1>3. DOMAIN q = 1 .. Len(q)
    BY DEF ListsAs
  <1> QED
    BY <1>1, <1>2, <1>3 DEF ToSet

(* From the head to the head.                                              *)
Path(q) == <<HEAD>> \o q \o <<HEAD>>

LEMMA PathIs ==
    ASSUME NEW S, NEW q \in Seq(S)
    PROVE  /\ Path(q)[1] = HEAD /\ Path(q)[Len(q) + 2] = HEAD /\ Len(Path(q)) = Len(q) + 2
           /\ \A i \in 1 .. Len(q) : Path(q)[i + 1] = q[i]
  <1> DEFINE T == S \cup {HEAD}
  <1>1. q \in Seq(T)
    <2>1. q \in [1 .. Len(q) -> T] /\ Len(q) \in Nat
      OBVIOUS
    <2> QED
      BY <2>1
  <1> DEFINE s == <<HEAD>> \o q
  <1>2. /\ s \in Seq(T) /\ Len(s) = Len(q) + 1 /\ s[1] = HEAD
        /\ \A i \in 1 .. Len(q) : s[i + 1] = q[i]
    <2>1. <<HEAD>> \in Seq(T) /\ q \in Seq(T) /\ Len(q) \in Nat
      BY <1>1
    <2>2. s \in Seq(T) /\ Len(s) = Len(q) + 1
      BY <2>1
    <2>3. s[1] = HEAD
      BY <2>1
    <2>4. \A i \in 1 .. Len(q) : s[i + 1] = q[i]
      BY <2>1
    <2> QED
      BY <2>2, <2>3, <2>4
  <1> HIDE DEF s
  <1> DEFINE z == s \o <<HEAD>>
  <1>3. /\ Len(z) = Len(s) + 1 /\ z[Len(s) + 1] = HEAD
        /\ \A i \in 1 .. Len(s) : z[i] = s[i]
    <2>1. <<HEAD>> \in Seq(T) /\ s \in Seq(T)
      BY <1>2
    <2>2. Len(z) = Len(s) + 1
      BY <2>1
    <2>3. z[Len(s) + 1] = HEAD
      BY <2>1
    <2>4. \A i \in 1 .. Len(s) : z[i] = s[i]
      BY <2>1
    <2> QED
      BY <2>2, <2>3, <2>4
  <1> HIDE DEF z
  <1>4. Len(q) \in Nat
    OBVIOUS
  <1>5. /\ z[1] = HEAD /\ z[Len(q) + 2] = HEAD /\ Len(z) = Len(q) + 2
        /\ \A i \in 1 .. Len(q) : z[i + 1] = q[i]
    BY <1>2, <1>3, <1>4
  <1> QED
    BY <1>5 DEF z, s, Path

(* The cells of the path, by their places; the head is also at 0.          *)
LEMMA PathPlaces ==
    ASSUME NEW q, NEW Y, NEW pos, ListsAs(q, Y, pos), HEAD \in Y, pos[HEAD] \in Nat
    PROVE  /\ \A i \in 1 .. (Len(q) + 1) : Path(q)[i + 1] \in Y /\ pos[Path(q)[i + 1]] = i
           /\ \A i \in 1 .. Len(q) : Path(q)[i + 1] # HEAD
           /\ Path(q)[1] = HEAD /\ Len(Path(q)) = Len(q) + 2 /\ Len(q) \in Nat
           /\ pos[HEAD] = Len(q) + 1
  <1>1. /\ q \in Seq(Y \ {HEAD}) /\ Len(q) = pos[HEAD] - 1 /\ Len(q) \in Nat
        /\ \A i \in 1 .. Len(q) : pos[q[i]] = i
    BY DEF ListsAs
  <1>2. /\ Path(q)[1] = HEAD /\ Path(q)[Len(q) + 2] = HEAD /\ Len(Path(q)) = Len(q) + 2
        /\ \A i \in 1 .. Len(q) : Path(q)[i + 1] = q[i]
    BY <1>1, PathIs
  <1>3. \A i \in 1 .. Len(q) : q[i] \in Y \ {HEAD}
    BY <1>1
  <1> DEFINE k == Len(q)
  <1>4. k \in Nat /\ pos[HEAD] = k + 1 /\ Path(q)[k + 2] = HEAD
    BY <1>1, <1>2
  <1>5. \A i \in 1 .. k : Path(q)[i + 1] \in Y \ {HEAD} /\ pos[Path(q)[i + 1]] = i
    BY <1>1, <1>2, <1>3
  <1> HIDE DEF k
  <1>6. \A i \in 1 .. (k + 1) : Path(q)[i + 1] \in Y /\ pos[Path(q)[i + 1]] = i
    <2> SUFFICES ASSUME NEW i \in 1 .. (k + 1) PROVE Path(q)[i + 1] \in Y /\ pos[Path(q)[i + 1]] = i
      OBVIOUS
    <2>1. CASE i = k + 1
      <3>1. i + 1 = k + 2
        BY <1>4, <2>1
      <3> QED
        BY <1>4, <2>1, <3>1
    <2>2. CASE i \in 1 .. k
      BY <1>5, <2>2
    <2> QED
      BY <1>4, <2>1, <2>2
  <1> QED
    BY <1>2, <1>4, <1>5, <1>6 DEF k

StepsFrom(t, q, i) == Adj(t, Path(q)[i + 1], 1) = Path(q)[i + 2] /\ Adj(t, Path(q)[i + 1], 0) = Path(q)[i]

LEMMA StepsAlong ==
    ASSUME NEW t, NEW Y, NEW pos, Whole(t, Y, pos), NEW q, ListsAs(q, Y, pos)
    PROVE  /\ \A i \in 1 .. Len(q) : StepsFrom(t, q, i)
           /\ Adj(t, HEAD, 0) = Path(q)[Len(Path(q)) - 1]
  <1>1. PICK lo, hi, high : Fit(t, Y, pos, lo, hi, high, HEAD, 0, 0)
    BY DEF Whole
  <1>2. Shape(t, Y, pos, lo, hi)
    BY <1>1 DEF Fit
  <1>3. /\ HEAD \in Y /\ pos[HEAD] \in Nat
        /\ \A m, n \in Y : pos[m] = pos[n] => m = n
    BY WholePlaces
  <1>4. /\ \A i \in 1 .. (Len(q) + 1) : Path(q)[i + 1] \in Y /\ pos[Path(q)[i + 1]] = i
        /\ \A i \in 1 .. Len(q) : Path(q)[i + 1] # HEAD
        /\ Path(q)[1] = HEAD /\ Len(Path(q)) = Len(q) + 2 /\ Len(q) \in Nat
        /\ pos[HEAD] = Len(q) + 1
    BY <1>3, PathPlaces
  <1> DEFINE z == Path(q)
  <1> DEFINE k == Len(q)
  <1>5. /\ \A i \in 1 .. (k + 1) : z[i + 1] \in Y /\ pos[z[i + 1]] = i
        /\ \A i \in 1 .. k : z[i + 1] # HEAD
        /\ z[1] = HEAD /\ Len(z) = k + 2 /\ k \in Nat /\ pos[HEAD] = k + 1
    BY <1>4
  <1> HIDE DEF z, k
  <1>6. ASSUME NEW i \in 1 .. k PROVE Adj(t, z[i + 1], 1) = z[i + 2]
    <2> DEFINE n == z[i + 1]
    <2>1. n \in Y \ {HEAD} /\ pos[n] = i
      BY <1>5
    <2> HIDE DEF n
    <2>2. Adj(t, n, 1) \in Y /\ pos[Adj(t, n, 1)] = i + 1
      BY <1>2, <2>1, NextIs
    <2>3. z[i + 2] \in Y /\ pos[z[i + 2]] = i + 1
      <3>1. i + 1 \in 1 .. (k + 1) /\ (i + 1) + 1 = i + 2
        BY <1>5
      <3> QED
        BY <1>5, <3>1
    <2>4. Adj(t, n, 1) = z[i + 2]
      BY <1>3, <2>2, <2>3
    <2> QED
      BY <2>4 DEF n
  <1>7. ASSUME NEW n \in Y, NEW i \in 1 .. (k + 1), pos[n] = i PROVE Adj(t, n, 0) = z[i]
    <2>1. Adj(t, n, 0) \in Y /\ pos[Adj(t, n, 0)] = IF i = 1 THEN pos[HEAD] ELSE i - 1
      BY <1>2, <1>7, PreviousIs
    <2>2. CASE i = 1
      BY <1>3, <1>5, <2>1, <2>2
    <2>3. CASE i # 1
      <3>1. i - 1 \in 1 .. (k + 1) /\ (i - 1) + 1 = i
        BY <1>5, <2>3
      <3>2. z[i] \in Y /\ pos[z[i]] = i - 1
        BY <1>5, <3>1
      <3> QED
        BY <1>3, <2>1, <2>3, <3>2
    <2> QED
      BY <2>2, <2>3
  <1>8. ASSUME NEW i \in 1 .. k PROVE Adj(t, z[i + 1], 0) = z[i]
    <2>1. i \in 1 .. (k + 1) /\ z[i + 1] \in Y /\ pos[z[i + 1]] = i
      BY <1>5
    <2> QED
      BY <1>7, <2>1
  <1>9. Adj(t, HEAD, 0) = z[Len(z) - 1]
    <2>1. k + 1 \in 1 .. (k + 1) /\ Len(z) - 1 = k + 1
      BY <1>5
    <2>2. Adj(t, HEAD, 0) = z[k + 1]
      BY <1>3, <1>5, <1>7, <2>1
    <2> QED
      BY <2>1, <2>2
  <1>10. \A i \in 1 .. k : StepsFrom(t, q, i)
    BY <1>6, <1>8 DEF StepsFrom, z
  <1> QED
    BY <1>9, <1>10 DEF z, k

(* bst_next and bst_prev walk the nodes in the order the child pointers    *)
(* put them in, from the head to the head, through all that are linked.    *)
THEOREM StepsAreInOrder == Spec => []StepsInOrder
  <1>1. TreeInv => StepsInOrder
    <2> SUFFICES ASSUME TreeInv PROVE StepsInOrder
      OBVIOUS
    <2> DEFINE Y == tree.inTree \cup {HEAD}
    <2> DEFINE q == Listed
    <2>1. PICK pos : Orderly(tree, Y, pos)
      BY DEF TreeInv
    <2>2. Whole(tree, Y, pos) /\ tree.inTree = Y \ {HEAD} /\ tree.size = pos[HEAD] - 1
      BY <2>1 DEF Orderly, Standing
    <2> HIDE DEF Y
    <2>3. ListsAs(q, Y, pos)
      BY <2>2, ListedIs DEF Listed
    <2>4. ToSet(q) = tree.inTree /\ Len(q) = tree.size
      BY <2>2, <2>3, ListedHas DEF ListsAs
    <2> HIDE DEF q
    <2>5. /\ \A i \in 1 .. Len(q) : StepsFrom(tree, q, i)
          /\ Adj(tree, HEAD, 0) = Path(q)[Len(Path(q)) - 1]
      BY <2>2, <2>3, StepsAlong
    <2> QED
      BY <2>4, <2>5 DEF StepsInOrder, StepsFrom, Path, q
  <1> QED
    BY <1>1, TreeStandsFirm, PTL

-----------------------------------------------------------------------------
(* The bounds: what is left to search is what hangs on side e of p.        *)
LEMMA ReachOn ==
    ASSUME NEW a \in Notes, NEW b \in Notes, NEW d \in Notes, NEW bound \in 0 .. 1,
           Cmp(a, b) <= 0, Cmp(a, d) >= bound
    PROVE  Cmp(b, d) >= bound
  BY DEF Cmp, Notes

Sought(t, Y, pos, lo, hi, d, bound, x, p, e) ==
    /\ x \in [at : Cell \cup {NULL}, ret : Cell]
    /\ p \in Y /\ e \in 0 .. 1 /\ x.at = t.child[p][e]
    /\ x.ret \in Y /\ pos[x.ret] = LastPlace(pos, hi, p, e) + 1
    /\ \A m \in Y \ {HEAD} :
          /\ pos[m] < FirstPlace(pos, lo, p, e) => ~Reaches(t, m, d, bound)
          /\ pos[m] > LastPlace(pos, hi, p, e) => Reaches(t, m, d, bound)

BoundStep(a, x, k) == BoundRound(a.tree, a.data, a.bound, x)

BoundGood(a, k, x) ==
    \E p, e : /\ Sought(a.tree, a.in, a.pos, a.lo, a.hi, a.data, a.bound, x, p, e)
              /\ \/ x.at = NULL
                 \/ LastPlace(a.pos, a.hi, p, e) - FirstPlace(a.pos, a.lo, p, e) < Rounds - k

BoundLoop == INSTANCE FoldFacts WITH Step <- BoundStep, Sel <- ByMax, Good <- BoundGood

LEMMA BoundRoundKeeps ==
    ASSUME NEW t, NEW Y, NEW pos, NEW lo, NEW hi, Shape(t, Y, pos, lo, hi), Sorted(t, Y, pos),
           Dated(t, Y), NEW d \in Notes, NEW bound \in 0 .. 1, Typed(t), NEW x, NEW p, NEW e,
           Sought(t, Y, pos, lo, hi, d, bound, x, p, e), x.at # NULL
    PROVE  \E r \in 0 .. 1 :
              /\ Sought(t, Y, pos, lo, hi, d, bound, BoundRound(t, d, bound, x), x.at, r)
              /\ LastPlace(pos, hi, x.at, r) - FirstPlace(pos, lo, x.at, r)
                   < LastPlace(pos, hi, p, e) - FirstPlace(pos, lo, p, e)
  <1> DEFINE c == t.child[p][e]
  <1> DEFINE F == FirstPlace(pos, lo, p, e)
  <1> DEFINE L == LastPlace(pos, hi, p, e)
  <1>1. p \in Y /\ e \in 0 .. 1 /\ x.at = c /\ x.ret \in Y /\ pos[x.ret] = L + 1
        /\ x \in [at : Cell \cup {NULL}, ret : Cell]
    BY DEF Sought
  <1>2. c \in Y \ {HEAD} /\ lo[c] = F /\ hi[c] = L
    BY <1>1, ChildIs
  <1>3. \A m \in Y \ {HEAD} : /\ pos[m] < F => ~Reaches(t, m, d, bound)
                              /\ pos[m] > L => Reaches(t, m, d, bound)
    BY DEF Sought
  <1> HIDE DEF c, F, L
  <1>4. /\ pos[c] \in Nat /\ lo[c] \in Nat /\ hi[c] \in Nat /\ lo[c] <= pos[c] /\ pos[c] <= hi[c]
        /\ \A m \in Y : pos[m] \in Nat /\ (pos[m] = pos[c] => m = c)
    BY <1>2 DEF Shape, Stretches
  <1> DEFINE Box == [at : Cell \cup {NULL}, ret : Cell]
  <1>10. c \in Cell /\ \A s \in 0 .. 1 : t.child[c][s] \in Cell \cup {NULL}
    <2>1. c \in Cell
      BY <1>2 DEF Shape, Stretches
    <2>2. t.child \in [Cell -> [0 .. 1 -> Node \cup {NULL}]]
      BY DEF Typed
    <2> QED
      BY <2>1, <2>2 DEF Cell
  <1>5. /\ t.data[c] \in Notes /\ Cmp(t.data[c], t.data[c]) <= 0
        /\ \A m \in Y \ {HEAD} : t.data[m] \in Notes
    BY <1>2, CmpIs DEF Dated
  <1>6. \A m \in Y \ {HEAD} : pos[m] <= pos[c] => Cmp(t.data[m], t.data[c]) <= 0
    BY <1>2, <1>4, <1>5 DEF Sorted
  <1>7. \A m \in Y \ {HEAD} : pos[m] >= pos[c] => Cmp(t.data[c], t.data[m]) <= 0
    BY <1>2, <1>4, <1>5 DEF Sorted
  <1>8. CASE Reaches(t, c, d, bound)
    <2> DEFINE y == [at |-> t.child[c][0], ret |-> c]
    <2>1. BoundRound(t, d, bound, x) = y
      BY <1>1, <1>8 DEF BoundRound
    <2>2. y.at = t.child[c][0] /\ y.ret = c /\ y \in Box
      BY <1>10
    <2> HIDE DEF y
    <2>3. FirstPlace(pos, lo, c, 0) = F /\ LastPlace(pos, hi, c, 0) = pos[c] - 1
      BY <1>2 DEF FirstPlace, LastPlace
    <2>4. \A m \in Y \ {HEAD} : pos[m] > pos[c] - 1 => Reaches(t, m, d, bound)
      <3> SUFFICES ASSUME NEW m \in Y \ {HEAD}, pos[m] > pos[c] - 1 PROVE Reaches(t, m, d, bound)
        OBVIOUS
      <3>1. pos[m] >= pos[c]
        BY <1>4
      <3>2. Cmp(t.data[c], t.data[m]) <= 0 /\ Cmp(t.data[c], d) >= bound
        BY <1>7, <1>8, <3>1 DEF Reaches
      <3>3. t.data[c] \in Notes /\ t.data[m] \in Notes
        BY <1>5
      <3>4. Cmp(t.data[m], d) >= bound
        BY <3>2, <3>3, ReachOn
      <3> QED
        BY <3>4 DEF Reaches
    <2>5. pos[y.ret] = (pos[c] - 1) + 1
      BY <1>4, <2>2
    <2>6. Sought(t, Y, pos, lo, hi, d, bound, y, c, 0)
      BY <1>2, <1>3, <2>2, <2>3, <2>4, <2>5 DEF Sought, Box
    <2>7. (pos[c] - 1) - F < L - F
      BY <1>2, <1>4
    <2>8. 0 \in 0 .. 1
      OBVIOUS
    <2> QED
      BY <1>1, <2>1, <2>3, <2>6, <2>7, <2>8 DEF F, L
  <1>9. CASE ~Reaches(t, c, d, bound)
    <2> DEFINE y == [x EXCEPT !.at = t.child[c][1]]
    <2>1. BoundRound(t, d, bound, x) = y
      BY <1>1, <1>9 DEF BoundRound
    <2>2. y.at = t.child[c][1] /\ y.ret = x.ret /\ y \in Box
      <3> DEFINE v == t.child[c][1]
      <3>1. v \in Cell \cup {NULL} /\ x \in [at : Cell \cup {NULL}, ret : Cell]
        BY <1>1, <1>10
      <3> HIDE DEF v
      <3>2. [x EXCEPT !.at = v].at = v /\ [x EXCEPT !.at = v].ret = x.ret
            /\ [x EXCEPT !.at = v] \in [at : Cell \cup {NULL}, ret : Cell]
        BY <3>1
      <3> QED
        BY <3>2 DEF v, Box
    <2> HIDE DEF y
    <2>3. FirstPlace(pos, lo, c, 1) = pos[c] + 1 /\ LastPlace(pos, hi, c, 1) = L
      BY <1>2 DEF FirstPlace, LastPlace
    <2>4. \A m \in Y \ {HEAD} : pos[m] < pos[c] + 1 => ~Reaches(t, m, d, bound)
      <3> SUFFICES ASSUME NEW m \in Y \ {HEAD}, pos[m] < pos[c] + 1, Reaches(t, m, d, bound)
                   PROVE  FALSE
        OBVIOUS
      <3>1. pos[m] <= pos[c]
        BY <1>4
      <3>2. Cmp(t.data[m], t.data[c]) <= 0 /\ Cmp(t.data[m], d) >= bound
        BY <1>6, <3>1 DEF Reaches
      <3>3. t.data[c] \in Notes /\ t.data[m] \in Notes
        BY <1>5
      <3>4. Cmp(t.data[c], d) >= bound
        BY <3>2, <3>3, ReachOn
      <3> QED
        BY <1>9, <3>4 DEF Reaches
    <2>5. Sought(t, Y, pos, lo, hi, d, bound, y, c, 1)
      <3>1. /\ y \in [at : Cell \cup {NULL}, ret : Cell] /\ c \in Y /\ 1 \in 0 .. 1
            /\ y.at = t.child[c][1] /\ y.ret \in Y /\ pos[y.ret] = L + 1
        BY <1>1, <1>2, <2>2 DEF Box
      <3> QED
        BY <1>3, <2>3, <2>4, <3>1 DEF Sought
    <2>6. L - (pos[c] + 1) < L - F
      BY <1>2, <1>4
    <2>7. 1 \in 0 .. 1
      OBVIOUS
    <2> QED
      BY <1>1, <2>1, <2>3, <2>5, <2>6, <2>7 DEF F, L
  <1> QED
    BY <1>8, <1>9

(* What a bound finds: the first cell that reaches it, or the head.        *)
Bounds(t, Y, pos, d, bound, n) ==
    /\ n \in Y
    /\ \A m \in Y \ {HEAD} : Cmp(t.data[m], d) >= bound <=> pos[m] >= pos[n]

LEMMA BoundIs ==
    ASSUME NEW t, NEW Y, NEW pos, Standing(t, Y, pos), NEW d \in Notes, NEW bound \in 0 .. 1
    PROVE  Bounds(t, Y, pos, d, bound, Bound(t, d, bound))
  <1>1. PICK lo, hi, high : Fit(t, Y, pos, lo, hi, high, HEAD, 0, 0)
    BY DEF Standing, Whole
  <1>2. /\ Typed(t) /\ Shape(t, Y, pos, lo, hi) /\ Sorted(t, Y, pos) /\ Dated(t, Y)
        /\ Stretches(Y, pos, lo, hi) /\ Down(t, Y, pos, lo, hi)
    BY <1>1 DEF Fit, Shape, Standing
  <1> DEFINE a == [tree |-> t, in |-> Y, pos |-> pos, lo |-> lo, hi |-> hi,
                   data |-> d, bound |-> bound]
  <1> DEFINE b == [at |-> t.child[HEAD][0], ret |-> HEAD]
  <1>3. /\ a.tree = t /\ a.in = Y /\ a.pos = pos /\ a.lo = lo /\ a.hi = hi
        /\ a.data = d /\ a.bound = bound
    OBVIOUS
  <1>4. b.at = t.child[HEAD][0] /\ b.ret = HEAD /\ b \in [at : Cell \cup {NULL}, ret : Cell]
    <2>1. t.child \in [Cell -> [0 .. 1 -> Node \cup {NULL}]] /\ HEAD \in Cell
      BY <1>2, NullIsNone DEF Typed
    <2> QED
      BY <2>1 DEF Cell
  <1>5. Bound(t, d, bound) = BoundLoop!Loop(a, b, Rounds).ret
    BY DEF Bound, Repeat, BoundLoop!Loop, BoundLoop!IsLoop, BoundStep
  <1> HIDE DEF a, b
  <1>6. /\ HEAD \in Y /\ lo[HEAD] = 1 /\ Rounds \in Nat /\ pos[HEAD] \in 1 .. (Rounds + 1)
        /\ \A m \in Y \ {HEAD} : pos[m] \in Nat /\ 1 <= pos[m] /\ pos[m] < pos[HEAD]
    BY <1>2, StretchesFit DEF Stretches
  <1>7. BoundGood(a, 0, b)
    <2>1. FirstPlace(pos, lo, HEAD, 0) = 1 /\ LastPlace(pos, hi, HEAD, 0) = pos[HEAD] - 1
      BY <1>6 DEF FirstPlace, LastPlace
    <2>2. pos[HEAD] = (pos[HEAD] - 1) + 1
      BY <1>6
    <2>3. \A m \in Y \ {HEAD} : ~(pos[m] < 1) /\ ~(pos[m] > pos[HEAD] - 1)
      BY <1>6
    <2>4. Sought(t, Y, pos, lo, hi, d, bound, b, HEAD, 0)
      BY <1>4, <1>6, <2>1, <2>2, <2>3 DEF Sought
    <2>5. LastPlace(pos, hi, HEAD, 0) - FirstPlace(pos, lo, HEAD, 0) < Rounds - 0
      BY <1>6, <2>1
    <2> QED
      BY <1>3, <2>4, <2>5 DEF BoundGood
  <1>8. \A k \in 1 .. Rounds : \A x : BoundGood(a, k - 1, x) => BoundGood(a, k, BoundStep(a, x, k))
    <2> SUFFICES ASSUME NEW k \in 1 .. Rounds, NEW x, BoundGood(a, k - 1, x)
                 PROVE  BoundGood(a, k, BoundRound(t, d, bound, x))
      BY <1>3 DEF BoundStep
    <2> DEFINE w(p, e) == LastPlace(pos, hi, p, e) - FirstPlace(pos, lo, p, e)
    <2>1. PICK p, e : /\ Sought(t, Y, pos, lo, hi, d, bound, x, p, e)
                      /\ x.at = NULL \/ w(p, e) < Rounds - (k - 1)
      BY <1>3 DEF BoundGood
    <2>2. CASE x.at = NULL
      <3>1. BoundRound(t, d, bound, x) = x
        BY <2>2 DEF BoundRound
      <3> QED
        BY <1>3, <2>1, <2>2, <3>1 DEF BoundGood
    <2>3. CASE x.at # NULL
      <3> DEFINE y == BoundRound(t, d, bound, x)
      <3>1. PICK r \in 0 .. 1 : /\ Sought(t, Y, pos, lo, hi, d, bound, y, x.at, r)
                                /\ w(x.at, r) < w(p, e)
        BY <1>2, <2>1, <2>3, BoundRoundKeeps
      <3> HIDE DEF y
      <3>2. w(p, e) \in Int /\ w(x.at, r) \in Int
        BY <1>2, <2>1, <3>1, PlacesAreInt DEF Sought
      <3>3. w(p, e) < Rounds - (k - 1)
        BY <2>1, <2>3
      <3> HIDE DEF w
      <3>4. w(x.at, r) < Rounds - k
        BY <1>6, <3>1, <3>2, <3>3
      <3> QED
        BY <1>3, <3>1, <3>4 DEF BoundGood, y, w
    <2> QED
      BY <2>2, <2>3
  <1> DEFINE z == BoundLoop!Loop(a, b, Rounds)
  <1>9. BoundGood(a, Rounds, z)
    BY <1>6, <1>7, <1>8, BoundLoop!LoopGood
  <1> HIDE DEF z
  <1>10. PICK p, e : /\ Sought(t, Y, pos, lo, hi, d, bound, z, p, e)
                     /\ \/ z.at = NULL
                        \/ LastPlace(pos, hi, p, e) - FirstPlace(pos, lo, p, e) < Rounds - Rounds
    BY <1>3, <1>9 DEF BoundGood
  <1> DEFINE F == FirstPlace(pos, lo, p, e)
  <1> DEFINE L == LastPlace(pos, hi, p, e)
  <1>11. p \in Y /\ e \in 0 .. 1 /\ z.at = t.child[p][e] /\ z.ret \in Y /\ pos[z.ret] = L + 1
    BY <1>10 DEF Sought
  <1>12. F \in Nat /\ L \in Int
    BY <1>2, <1>11, PlacesAreInt
  <1>13. z.at = NULL
    <2> SUFFICES ASSUME z.at # NULL PROVE FALSE
      OBVIOUS
    <2> DEFINE c == t.child[p][e]
    <2>1. c \in Y /\ lo[c] = F /\ hi[c] = L
      BY <1>2, <1>11, ChildIs
    <2>2. lo[c] <= pos[c] /\ pos[c] <= hi[c] /\ pos[c] \in Nat
      BY <1>2, <2>1 DEF Stretches
    <2>3. L - F < Rounds - Rounds
      BY <1>10
    <2> HIDE DEF c, F, L
    <2>4. L - F < 0
      BY <1>6, <2>3
    <2> QED
      BY <1>12, <2>1, <2>2, <2>4
  <1>14. F = L + 1
    BY <1>2, <1>11, <1>13 DEF Down, Hung
  <1>15. ASSUME NEW m \in Y \ {HEAD}
         PROVE  Cmp(t.data[m], d) >= bound <=> pos[m] >= pos[z.ret]
    <2>1. pos[m] \in Nat
      BY <1>6
    <2>2. (pos[m] < F => ~Reaches(t, m, d, bound)) /\ (pos[m] > L => Reaches(t, m, d, bound))
      BY <1>10 DEF Sought
    <2> HIDE DEF F, L
    <2>3. pos[m] >= F \/ pos[m] < F
      BY <1>12, <2>1
    <2>4. pos[z.ret] = F /\ (pos[m] >= F => pos[m] > L) /\ (pos[m] < F <=> ~(pos[m] >= F))
      BY <1>11, <1>12, <1>14, <2>1
    <2> QED
      BY <2>2, <2>3, <2>4 DEF Reaches
  <1>16. Bounds(t, Y, pos, d, bound, z.ret)
    BY <1>11, <1>15 DEF Bounds
  <1> QED
    BY <1>5, <1>16 DEF z

LEMMA LeastOfSet ==
    ASSUME NEW S \in SUBSET Nat, NEW l \in S, \A i \in S : l <= i
    PROVE  Min(S) = l
  <1>1. \E x \in S : \A y \in S : x <= y
    OBVIOUS
  <1>2. Min(S) \in S /\ \A y \in S : Min(S) <= y
    BY <1>1 DEF Min
  <1>3. Min(S) \in Nat /\ l \in Nat /\ Min(S) <= l /\ l <= Min(S)
    BY <1>2
  <1> QED
    BY <1>3

(* The first node of S in the list.                                        *)
LEMMA FirstOfIs ==
    ASSUME NEW Y, NEW pos, ListsAs(Listed, Y, pos), NEW S, S \subseteq Y \ {HEAD}, NEW n \in S,
           \A m \in S : pos[n] <= pos[m]
    PROVE  FirstOf(S) = n
  <1> DEFINE q == Listed
  <1> DEFINE I == {i \in DOMAIN q : q[i] \in S}
  <1>1. /\ DOMAIN q = 1 .. Len(q) /\ Len(q) \in Nat
        /\ \A i \in 1 .. Len(q) : pos[q[i]] = i
        /\ \A m \in Y \ {HEAD} : pos[m] \in 1 .. Len(q) /\ q[pos[m]] = m
    BY DEF ListsAs
  <1>2. FirstOf(S) = q[Min(I)]
    BY DEF FirstOf
  <1> HIDE DEF q
  <1>3. I \in SUBSET Nat /\ pos[n] \in I /\ q[pos[n]] = n
    BY <1>1
  <1>4. \A i \in I : pos[n] <= i
    BY <1>1
  <1> HIDE DEF I
  <1>5. Min(I) = pos[n]
    BY <1>3, <1>4, LeastOfSet
  <1> QED
    BY <1>2, <1>3, <1>5

LEMMA BoundFirst ==
    ASSUME NEW Y, NEW pos, Orderly(tree, Y, pos), NEW d \in Notes, NEW bound \in 0 .. 1
    PROVE  Bound(tree, d, bound) = FirstOf({n \in tree.inTree : Cmp(tree.data[n], d) >= bound})
  <1> DEFINE S == {n \in tree.inTree : Cmp(tree.data[n], d) >= bound}
  <1> DEFINE b == Bound(tree, d, bound)
  <1>1. /\ Standing(tree, Y, pos) /\ tree.inTree = Y \ {HEAD} /\ Whole(tree, Y, pos)
    BY DEF Orderly, Standing
  <1>2. b \in Y /\ \A m \in Y \ {HEAD} : Cmp(tree.data[m], d) >= bound <=> pos[m] >= pos[b]
    BY <1>1, BoundIs DEF Bounds
  <1> HIDE DEF b
  <1>3. /\ pos \in [Y -> Nat] /\ HEAD \in Y
        /\ \A m \in Y \ {HEAD} : pos[m] < pos[HEAD]
    BY <1>1, WholePlaces
  <1>4. ListsAs(Listed, Y, pos)
    BY <1>1, ListedIs DEF Listed
  <1>5. \A m \in Y : m \in S <=> m # HEAD /\ pos[m] >= pos[b]
    BY <1>1, <1>2
  <1>6. S \subseteq Y \ {HEAD}
    BY <1>1
  <1> HIDE DEF S
  <1>7. CASE b = HEAD
    <2>1. \A m \in Y \ {HEAD} : ~(pos[m] >= pos[b])
      BY <1>3, <1>7
    <2>2. S = {}
      BY <1>5, <1>6, <2>1
    <2> QED
      BY <1>7, <2>2 DEF FirstOf, S, b
  <1>8. CASE b # HEAD
    <2>1. b \in S
      BY <1>2, <1>3, <1>5, <1>8
    <2>2. \A m \in S : pos[b] <= pos[m]
      BY <1>2, <1>3, <1>5, <1>6
    <2>3. FirstOf(S) = b
      BY <1>4, <1>6, <2>1, <2>2, FirstOfIs
    <2> QED
      BY <2>3 DEF S, b
  <1> QED
    BY <1>7, <1>8

LEMMA FindFirst ==
    ASSUME NEW Y, NEW pos, Orderly(tree, Y, pos), NEW d \in Notes
    PROVE  Find(tree, d) = IF {n \in tree.inTree : Cmp(tree.data[n], d) = 0} = {} THEN NULL
                           ELSE FirstOf({n \in tree.inTree : Cmp(tree.data[n], d) = 0})
  <1> DEFINE S == {n \in tree.inTree : Cmp(tree.data[n], d) = 0}
  <1> DEFINE b == Bound(tree, d, 0)
  <1>1. /\ Standing(tree, Y, pos) /\ tree.inTree = Y \ {HEAD} /\ Whole(tree, Y, pos)
        /\ Sorted(tree, Y, pos) /\ \A m \in Y \ {HEAD} : tree.data[m] \in Notes
    BY DEF Orderly, Standing, Dated
  <1>2. b \in Y /\ \A m \in Y \ {HEAD} : Cmp(tree.data[m], d) >= 0 <=> pos[m] >= pos[b]
    BY <1>1, BoundIs DEF Bounds
  <1>3. Find(tree, d) = IF b = HEAD THEN NULL ELSE IF Cmp(tree.data[b], d) # 0 THEN NULL ELSE b
    BY DEF Find
  <1> HIDE DEF b
  <1>4. /\ pos \in [Y -> Nat] /\ HEAD \in Y
        /\ \A m \in Y \ {HEAD} : pos[m] < pos[HEAD]
        /\ \A m, n \in Y : pos[m] = pos[n] => m = n
    BY <1>1, WholePlaces
  <1>5. ListsAs(Listed, Y, pos)
    BY <1>1, ListedIs DEF Listed
  <1>6. \A m \in Y \ {HEAD} : Cmp(tree.data[m], d) \in Int
    BY <1>1, CmpIs
  <1>7. /\ \A m \in S : m \in Y \ {HEAD} /\ Cmp(tree.data[m], d) = 0
        /\ \A m \in Y \ {HEAD} : Cmp(tree.data[m], d) = 0 => m \in S
    BY <1>1
  <1> HIDE DEF S
  <1>8. \A m \in S : pos[b] <= pos[m]
    <2> SUFFICES ASSUME NEW m \in S PROVE pos[b] <= pos[m]
      OBVIOUS
    <2>1. m \in Y \ {HEAD} /\ Cmp(tree.data[m], d) >= 0
      BY <1>7
    <2> QED
      BY <1>2, <1>4, <2>1
  <1>9. Find(tree, d) = IF S = {} THEN NULL ELSE FirstOf(S)
    <2>1. CASE b = HEAD
      <3>1. S = {}
        BY <1>4, <1>7, <1>8, <2>1
      <3> QED
        BY <1>3, <2>1, <3>1
    <2>2. CASE b # HEAD /\ Cmp(tree.data[b], d) # 0
      <3>1. Cmp(tree.data[b], d) >= 0
        BY <1>2, <1>4, <2>2
      <3>2. ASSUME NEW m \in S PROVE FALSE
        <4>1. m \in Y \ {HEAD} /\ Cmp(tree.data[m], d) = 0
          BY <1>7
        <4>2. m # b
          BY <2>2, <4>1
        <4>3. pos[b] < pos[m]
          BY <1>2, <1>4, <1>8, <4>1, <4>2
        <4>4. Cmp(tree.data[b], tree.data[m]) <= 0
          BY <1>1, <1>2, <2>2, <4>1, <4>3 DEF Sorted
        <4>5. tree.data[b] \in Notes /\ tree.data[m] \in Notes
          BY <1>1, <1>2, <2>2, <4>1
        <4>6. Cmp(tree.data[b], d) <= 0
          <5>1. Cmp(tree.data[m], d) <= 0
            BY <4>1
          <5> QED
            BY <4>4, <4>5, <5>1, CmpChain
        <4> QED
          BY <1>2, <1>6, <2>2, <3>1, <4>6
      <3> QED
        BY <1>3, <2>2, <3>2
    <2>3. CASE b # HEAD /\ Cmp(tree.data[b], d) = 0
      <3>1. b \in S
        BY <1>2, <1>7, <2>3
      <3>2. S \subseteq Y \ {HEAD}
        BY <1>7
      <3>3. FirstOf(S) = b
        BY <1>5, <1>8, <3>1, <3>2, FirstOfIs
      <3> QED
        BY <1>3, <2>3, <3>1, <3>3
    <2> QED
      BY <2>1, <2>2, <2>3
  <1> QED
    BY <1>9 DEF S

(* bst_lower_bound, bst_upper_bound and bst_find find what the list of the *)
(* nodes says they should, of several equal ones the first.                *)
THEOREM SearchesFindFirst == Spec => []SearchesFind
  <1>1. TreeInv => SearchesFind
    <2> SUFFICES ASSUME TreeInv PROVE SearchesFind
      OBVIOUS
    <2> DEFINE Y == tree.inTree \cup {HEAD}
    <2>1. PICK pos : Orderly(tree, Y, pos)
      BY DEF TreeInv
    <2> HIDE DEF Y
    <2>2. \A d \in Datum : d \in Notes
      BY HoldsNotes DEF Datum
    <2>3. ASSUME NEW d \in Datum, NEW bound \in 0 .. 1
          PROVE  Bound(tree, d, bound)
                   = FirstOf({n \in tree.inTree : Cmp(tree.data[n], d) >= bound})
      BY <2>1, <2>2, BoundFirst
    <2>4. ASSUME NEW d \in Datum
          PROVE  Find(tree, d) = IF {n \in tree.inTree : Cmp(tree.data[n], d) = 0} = {} THEN NULL
                                 ELSE FirstOf({n \in tree.inTree : Cmp(tree.data[n], d) = 0})
      BY <2>1, <2>2, FindFirst
    <2> QED
      BY <2>3, <2>4 DEF SearchesFind
  <1> QED
    BY <1>1, TreeStandsFirm, PTL

-----------------------------------------------------------------------------
(* The nodes of m's subtree.                                               *)
Stretch(Y, pos, lo, hi, m) == {j \in Y \ {HEAD} : Has(pos, lo, hi, m, j)}

(* What hangs on side d of m has the cell j.                               *)
HangsOn(t, pos, lo, hi, m, d, j) == t.child[m][d] # NULL /\ Has(pos, lo, hi, t.child[m][d], j)

LEMMA StretchParts ==
    ASSUME NEW t, NEW Y, NEW pos, NEW lo, NEW hi, Shape(t, Y, pos, lo, hi),
           NEW m \in Y \ {HEAD}, NEW j \in Y
    PROVE  /\ Has(pos, lo, hi, m, m)
           /\ Has(pos, lo, hi, m, j) <=> \/ j = m
                                         \/ HangsOn(t, pos, lo, hi, m, 0, j)
                                         \/ HangsOn(t, pos, lo, hi, m, 1, j)
           /\ HangsOn(t, pos, lo, hi, m, 0, j) <=> lo[m] <= pos[j] /\ pos[j] < pos[m]
           /\ HangsOn(t, pos, lo, hi, m, 1, j) <=> pos[m] < pos[j] /\ pos[j] <= hi[m]
  <1>1. /\ Stretches(Y, pos, lo, hi) /\ Down(t, Y, pos, lo, hi)
        /\ pos[m] \in Nat /\ pos[j] \in Nat /\ lo[m] \in Nat /\ hi[m] \in Nat
        /\ lo[m] <= pos[m] /\ pos[m] <= hi[m] /\ (pos[j] = pos[m] <=> j = m)
    BY DEF Shape, Stretches
  <1>2. ASSUME NEW d \in 0 .. 1
        PROVE  HangsOn(t, pos, lo, hi, m, d, j)
                 <=> FirstPlace(pos, lo, m, d) <= pos[j] /\ pos[j] <= LastPlace(pos, hi, m, d)
    <2>1. Hung(t, Y, pos, lo, hi, m, d)
      BY <1>1 DEF Down
    <2>2. FirstPlace(pos, lo, m, d) \in Nat /\ LastPlace(pos, hi, m, d) \in Int
      BY <1>1, PlacesAreInt
    <2>3. CASE t.child[m][d] = NULL
      <3>1. FirstPlace(pos, lo, m, d) = LastPlace(pos, hi, m, d) + 1
        BY <2>1, <2>3 DEF Hung
      <3> QED
        BY <1>1, <2>2, <2>3, <3>1 DEF HangsOn
    <2>4. CASE t.child[m][d] # NULL
      BY <2>1, <2>4 DEF Hung, HangsOn, Has
    <2> QED
      BY <2>3, <2>4
  <1>3. HangsOn(t, pos, lo, hi, m, 0, j) <=> lo[m] <= pos[j] /\ pos[j] < pos[m]
    <2>1. HangsOn(t, pos, lo, hi, m, 0, j) <=> lo[m] <= pos[j] /\ pos[j] <= pos[m] - 1
      BY <1>2 DEF FirstPlace, LastPlace
    <2> QED
      BY <1>1, <2>1
  <1>4. HangsOn(t, pos, lo, hi, m, 1, j) <=> pos[m] < pos[j] /\ pos[j] <= hi[m]
    <2>1. HangsOn(t, pos, lo, hi, m, 1, j) <=> pos[m] + 1 <= pos[j] /\ pos[j] <= hi[m]
      <3>1. 1 \in 0 .. 1 /\ FirstPlace(pos, lo, m, 1) = pos[m] + 1 /\ LastPlace(pos, hi, m, 1) = hi[m]
        BY DEF FirstPlace, LastPlace
      <3> QED
        BY <1>2, <3>1
    <2> QED
      BY <1>1, <2>1
  <1>5. /\ Has(pos, lo, hi, m, m)
        /\ Has(pos, lo, hi, m, j) <=> lo[m] <= pos[j] /\ pos[j] <= hi[m]
    BY <1>1 DEF Has
  <1> HIDE DEF HangsOn
  <1> QED
    BY <1>1, <1>3, <1>4, <1>5

(* x is the last off time of the nodes of m's subtree.                     *)
IsTop(t, Y, pos, lo, hi, m, x) ==
    /\ x \in Int
    /\ \E j \in Stretch(Y, pos, lo, hi, m) : x = t.data[j].off
    /\ \A j \in Stretch(Y, pos, lo, hi, m) : t.data[j].off <= x

(* x is the greatest of the three.                                         *)
LEMMA MaxOfThree ==
    ASSUME NEW a \in Int, NEW b \in Int, NEW c \in Int
    PROVE  /\ Max({a, b, c}) \in {a, b, c} /\ Max({a, b, c}) >= a
           /\ Max({a, b, c}) >= b /\ Max({a, b, c}) >= c
  <1> DEFINE z == Max2(a, Max2(b, c))
  <1>1. z \in {a, b, c} /\ z >= a /\ z >= b /\ z >= c
    BY DEF Max2
  <1> HIDE DEF z
  <1>2. \E x \in {a, b, c} : \A y \in {a, b, c} : x >= y
    BY <1>1
  <1> QED
    BY <1>2 DEF Max

(* The value told to a node whose subtrees' values are their tops.         *)
LEMMA ToldTop ==
    ASSUME Channel = FALSE, NEW t, NEW Y, NEW pos, NEW lo, NEW hi, Shape(t, Y, pos, lo, hi),
           Dated(t, Y), NEW m \in Y \ {HEAD},
           \A d \in 0 .. 1 : t.child[m][d] # NULL =>
               IsTop(t, Y, pos, lo, hi, t.child[m][d], t.maxOff[t.child[m][d]])
    PROVE  IsTop(t, Y, pos, lo, hi, m, Told(t, m))
  <1> DEFINE x == Told(t, m)
  <1> DEFINE S == Stretch(Y, pos, lo, hi, m)
  <1> DEFINE o(d) == ChildOff(t, m, d)
  <1>1. \A j \in Y \ {HEAD} : t.data[j].off \in Nat
    BY DEF Dated, Notes
  <1>2. m \in S
    BY StretchParts DEF Stretch
  <1>3. ASSUME NEW d \in 0 .. 1
        PROVE  /\ o(d) \in Int
               /\ o(d) = -1 \/ \E j \in S : o(d) = t.data[j].off
               /\ \A j \in Y \ {HEAD} : HangsOn(t, pos, lo, hi, m, d, j) => t.data[j].off <= o(d)
    <2> DEFINE c == t.child[m][d]
    <2>1. CASE c = NULL
      <3>1. o(d) = -1
        BY <2>1 DEF ChildOff
      <3>2. \A j \in Y \ {HEAD} : ~HangsOn(t, pos, lo, hi, m, d, j)
        BY <2>1 DEF HangsOn
      <3> HIDE DEF o
      <3> QED
        BY <3>1, <3>2
    <2>2. CASE c # NULL
      <3>1. o(d) = t.maxOff[c] /\ IsTop(t, Y, pos, lo, hi, c, t.maxOff[c])
        BY <2>2 DEF ChildOff
      <3>2. \A j \in Y \ {HEAD} : HangsOn(t, pos, lo, hi, m, d, j) <=> j \in Stretch(Y, pos, lo, hi, c)
        BY <2>2 DEF HangsOn, Stretch
      <3>3. \A j \in Y \ {HEAD} : HangsOn(t, pos, lo, hi, m, d, j) => j \in S
        <4> SUFFICES ASSUME NEW j \in Y \ {HEAD}, HangsOn(t, pos, lo, hi, m, d, j) PROVE j \in S
          OBVIOUS
        <4>1. d = 0 \/ d = 1
          OBVIOUS
        <4>2. Has(pos, lo, hi, m, j)
          BY <4>1, StretchParts
        <4> QED
          BY <4>2 DEF Stretch
      <3>4. Stretch(Y, pos, lo, hi, c) \subseteq Y \ {HEAD}
        BY DEF Stretch
      <3>5. /\ o(d) \in Int
            /\ \E j \in Stretch(Y, pos, lo, hi, c) : o(d) = t.data[j].off
            /\ \A j \in Stretch(Y, pos, lo, hi, c) : t.data[j].off <= o(d)
        BY <3>1 DEF IsTop
      <3> HIDE DEF o, S, c
      <3> QED
        BY <3>2, <3>3, <3>4, <3>5
    <2> QED
      BY <2>1, <2>2
  <1> HIDE DEF S
  <1>4. /\ x \in {t.data[m].off, o(0), o(1)} /\ x >= t.data[m].off /\ x >= o(0) /\ x >= o(1)
        /\ x \in Int /\ o(0) \in Int /\ o(1) \in Int
    <2>1. o(0) \in Int /\ o(1) \in Int /\ t.data[m].off \in Int
      BY <1>1, <1>3
    <2>2. x = Max({t.data[m].off, o(0), o(1)})
      BY DEF Told
    <2> HIDE DEF o, x
    <2> QED
      BY <2>1, <2>2, MaxOfThree
  <1> HIDE DEF x, o
  <1>5. t.data[m].off \in Nat
    BY <1>1
  <1>6. \E j \in S : x = t.data[j].off
    <2>1. CASE x = t.data[m].off
      BY <1>2, <2>1
    <2>2. CASE x = o(0) /\ x # t.data[m].off
      <3>1. o(0) # -1
        BY <1>4, <1>5, <2>2
      <3> QED
        BY <1>3, <2>2, <3>1
    <2>3. CASE x = o(1) /\ x # t.data[m].off
      <3>1. o(1) # -1
        BY <1>4, <1>5, <2>3
      <3>2. 1 \in 0 .. 1
        OBVIOUS
      <3> QED
        BY <1>3, <2>3, <3>1, <3>2
    <2> QED
      BY <1>4, <2>1, <2>2, <2>3
  <1>7. \A j \in S : t.data[j].off <= x
    <2> SUFFICES ASSUME NEW j \in S PROVE t.data[j].off <= x
      OBVIOUS
    <2>1. j \in Y \ {HEAD} /\ Has(pos, lo, hi, m, j)
      BY DEF S, Stretch
    <2>2. j = m \/ HangsOn(t, pos, lo, hi, m, 0, j) \/ HangsOn(t, pos, lo, hi, m, 1, j)
      BY <2>1, StretchParts
    <2>3. CASE j = m
      BY <1>4, <1>5, <2>3
    <2>4. ASSUME NEW d \in 0 .. 1, HangsOn(t, pos, lo, hi, m, d, j) PROVE t.data[j].off <= x
      <3>1. t.data[j].off <= o(d) /\ t.data[j].off \in Nat
        BY <1>1, <1>3, <2>1, <2>4
      <3>2. d = 0 \/ d = 1
        OBVIOUS
      <3> QED
        BY <1>4, <3>1, <3>2
    <2>5. 0 \in 0 .. 1 /\ 1 \in 0 .. 1
      OBVIOUS
    <2> QED
      BY <2>2, <2>3, <2>4, <2>5
  <1> QED
    BY <1>4, <1>6, <1>7 DEF IsTop, x, S

LEMMA TopIs ==
    ASSUME Channel = FALSE, NEW t, NEW Y, NEW pos, NEW lo, NEW hi, Shape(t, Y, pos, lo, hi),
           Dated(t, Y), AllFresh(t, Y), NEW m \in Y \ {HEAD}
    PROVE  IsTop(t, Y, pos, lo, hi, m, t.maxOff[m])
  <1> DEFINE Bad == {n \in Y \ {HEAD} : ~IsTop(t, Y, pos, lo, hi, n, t.maxOff[n])}
  <1> DEFINE f == [n \in Y |-> hi[n] - lo[n]]
  <1> SUFFICES ASSUME Bad # {} PROVE FALSE
    OBVIOUS
  <1>1. PICK n \in Bad : \A o \in Bad : f[n] <= f[o]
    <2>1. \A n \in Y : hi[n] - lo[n] \in Nat
      BY DEF Shape, Stretches
    <2>2. \A n \in Bad : f[n] \in Nat
      BY <2>1
    <2> HIDE DEF f, Bad
    <2> QED
      BY <2>2, LeastBy
  <1>2. n \in Y \ {HEAD} /\ ~IsTop(t, Y, pos, lo, hi, n, t.maxOff[n])
    BY <1>1
  <1>3. ASSUME NEW d \in 0 .. 1, t.child[n][d] # NULL
        PROVE  IsTop(t, Y, pos, lo, hi, t.child[n][d], t.maxOff[t.child[n][d]])
    <2> DEFINE c == t.child[n][d]
    <2>1. c \in Y \ {HEAD} /\ hi[c] - lo[c] < hi[n] - lo[n]
      BY <1>2, <1>3, ChildIs
    <2> HIDE DEF c
    <2>2. f[c] < f[n] /\ f[c] \in Int /\ f[n] \in Int
      <3>1. f[c] = hi[c] - lo[c] /\ f[n] = hi[n] - lo[n]
        BY <1>2, <2>1
      <3>2. hi[c] - lo[c] \in Int /\ hi[n] - lo[n] \in Int
        BY <1>2, <2>1 DEF Shape, Stretches
      <3> QED
        BY <2>1, <3>1, <3>2
    <2> HIDE DEF f
    <2>3. c \notin Bad
      <3>1. ~(f[n] <= f[c])
        BY <2>2
      <3> QED
        BY <1>1, <3>1
    <2>4. IsTop(t, Y, pos, lo, hi, c, t.maxOff[c])
      BY <2>1, <2>3
    <2> QED
      BY <2>4 DEF c
  <1>4. IsTop(t, Y, pos, lo, hi, n, Told(t, n))
    BY <1>2, <1>3, ToldTop
  <1>5. t.maxOff[n] = Told(t, n)
    BY <1>2 DEF AllFresh, Fresh
  <1> QED
    BY <1>2, <1>4, <1>5

-----------------------------------------------------------------------------
(* A list of a stretch of places has the nodes of the stretch.             *)
Within(Y, pos, l, h) == {j \in Y \ {HEAD} : l <= pos[j] /\ pos[j] <= h}

LEMMA RunsHas ==
    ASSUME NEW Y, NEW pos, NEW l \in Nat, NEW h \in Nat, NEW q, Runs(q, Y, pos, l, h),
           \A m, n \in Y : pos[m] = pos[n] => m = n, pos \in [Y -> Nat]
    PROVE  ToSet(q) = Within(Y, pos, l, h)
  <1>1. /\ q \in Seq(Y \ {HEAD}) /\ Len(q) = h + 1 - l /\ Len(q) \in Nat /\ DOMAIN q = 1 .. Len(q)
        /\ \A i \in 1 .. Len(q) : pos[q[i]] = l + i - 1
    BY DEF Runs
  <1>2. ASSUME NEW i \in 1 .. Len(q)
        PROVE  q[i] \in Y \ {HEAD} /\ l <= pos[q[i]] /\ pos[q[i]] <= h
    <2>1. q[i] \in Y \ {HEAD} /\ pos[q[i]] = l + i - 1
      BY <1>1
    <2> QED
      BY <1>1, <2>1
  <1>3. ASSUME NEW j \in Y \ {HEAD}, l <= pos[j], pos[j] <= h PROVE \E i \in 1 .. Len(q) : q[i] = j
    <2> DEFINE i == pos[j] + 1 - l
    <2>1. pos[j] \in Nat
      OBVIOUS
    <2>2. i \in 1 .. Len(q) /\ l + i - 1 = pos[j]
      BY <1>1, <1>3, <2>1
    <2> HIDE DEF i
    <2>3. q[i] \in Y /\ pos[q[i]] = pos[j]
      BY <1>1, <1>2, <2>2
    <2>4. q[i] = j
      BY <2>3
    <2> QED
      BY <2>2, <2>4
  <1>4. \A i \in 1 .. Len(q) : q[i] \in Within(Y, pos, l, h)
    BY <1>2 DEF Within
  <1>5. \A j \in Within(Y, pos, l, h) : \E i \in 1 .. Len(q) : q[i] = j
    BY <1>3 DEF Within
  <1> DEFINE W == Within(Y, pos, l, h)
  <1>6. ToSet(q) = {q[i] : i \in 1 .. Len(q)}
    BY <1>1 DEF ToSet
  <1>7. \A i \in 1 .. Len(q) : q[i] \in W
    BY <1>4
  <1>8. \A j \in W : \E i \in 1 .. Len(q) : q[i] = j
    BY <1>5
  <1> HIDE DEF W
  <1>9. {q[i] : i \in 1 .. Len(q)} = W
    BY <1>7, <1>8
  <1> QED
    BY <1>6, <1>9 DEF W

LEMMA SubtreeHas ==
    ASSUME NEW t, NEW Y, NEW pos, NEW lo, NEW hi, Shape(t, Y, pos, lo, hi), NEW n \in Y \ {HEAD}
    PROVE  ToSet(InOrder(t, n)) = Stretch(Y, pos, lo, hi, n)
  <1> DEFINE p == t.parent[n]
  <1> DEFINE d == t.idx[n]
  <1>1. /\ p \in Y /\ d \in 0 .. 1 /\ t.child[p][d] = n
        /\ lo[n] = FirstPlace(pos, lo, p, d) /\ hi[n] = LastPlace(pos, hi, p, d)
    BY ParentIs
  <1> HIDE DEF p, d
  <1>2. /\ \A i, j \in Y : pos[i] = pos[j] => i = j
        /\ pos \in [Y -> Nat] /\ lo[n] \in Nat /\ hi[n] \in Nat /\ lo[n] <= pos[n] /\ pos[n] <= hi[n]
        /\ pos[n] < pos[HEAD] /\ pos[n] \in Nat /\ pos[HEAD] \in Nat
    BY WideIsTop DEF Shape, Stretches
  <1>3. p = HEAD => d = 0
    <2> SUFFICES ASSUME p = HEAD, d # 0 PROVE FALSE
      OBVIOUS
    <2>1. lo[n] = pos[HEAD] + 1
      BY <1>1 DEF FirstPlace
    <2> QED
      BY <1>2, <2>1
  <1>4. Runs(InOrder(t, t.child[p][d]), Y, pos, FirstPlace(pos, lo, p, d), LastPlace(pos, hi, p, d))
    BY <1>1, <1>3, OrderIs
  <1>5. Runs(InOrder(t, n), Y, pos, lo[n], hi[n])
    BY <1>1, <1>4
  <1> DEFINE q == InOrder(t, n)
  <1> DEFINE l == lo[n]
  <1> DEFINE h == hi[n]
  <1>6. ToSet(q) = Within(Y, pos, l, h)
    <2>1. l \in Nat /\ h \in Nat /\ Runs(q, Y, pos, l, h)
      BY <1>2, <1>5
    <2>2. \A i, j \in Y : pos[i] = pos[j] => i = j
      BY <1>2
    <2>3. pos \in [Y -> Nat]
      BY <1>2
    <2> HIDE DEF q, l, h
    <2> QED
      BY <2>1, <2>2, <2>3, RunsHas
  <1>7. Within(Y, pos, l, h) = Stretch(Y, pos, lo, hi, n)
    BY DEF Within, Stretch, Has
  <1> QED
    BY <1>6, <1>7

(* In a track's tree the value kept for a node is the last off time of     *)
(* its subtree, after every call and whatever was rotated.                 *)
THEOREM MaxOffIsKept == ASSUME Channel = FALSE PROVE Spec => []KeepsMaxOff
  <1>1. TreeInv => KeepsMaxOff
    <2> SUFFICES ASSUME TreeInv, NEW n \in tree.inTree
                 PROVE  tree.maxOff[n] = Max(SubtreeOffs(n))
      BY DEF KeepsMaxOff
    <2> DEFINE Y == tree.inTree \cup {HEAD}
    <2>1. PICK pos : Orderly(tree, Y, pos)
      BY DEF TreeInv
    <2>2. PICK lo, hi, high : Fit(tree, Y, pos, lo, hi, high, HEAD, 0, 0)
      BY <2>1 DEF Orderly, Standing, Whole
    <2>3. /\ Shape(tree, Y, pos, lo, hi) /\ AllFresh(tree, Y) /\ Dated(tree, Y)
          /\ tree.inTree = Y \ {HEAD}
      BY <2>1, <2>2 DEF Fit, Orderly, Standing
    <2> HIDE DEF Y
    <2>4. IsTop(tree, Y, pos, lo, hi, n, tree.maxOff[n])
      BY <2>3, TopIs
    <2>5. ToSet(InOrder(tree, n)) = Stretch(Y, pos, lo, hi, n)
      BY <2>3, SubtreeHas
    <2> DEFINE x == tree.maxOff[n]
    <2> DEFINE S == SubtreeOffs(n)
    <2>6. S = {tree.data[j].off : j \in Stretch(Y, pos, lo, hi, n)}
      BY <2>5 DEF SubtreeOffs
    <2>7. x \in S /\ \A y \in S : y <= x
      BY <2>4, <2>6 DEF IsTop
    <2>8. \A y \in S : y \in Int
      <3>1. \A j \in Y \ {HEAD} : tree.data[j].off \in Int
        BY <2>3 DEF Dated, Notes
      <3>2. Stretch(Y, pos, lo, hi, n) \subseteq Y \ {HEAD}
        BY DEF Stretch
      <3> QED
        BY <2>6, <3>1, <3>2
    <2> HIDE DEF x, S
    <2>9. Max(S) = x
      <3>1. \E z \in S : \A y \in S : z >= y
        BY <2>7, <2>8
      <3>2. Max(S) \in S /\ \A y \in S : Max(S) >= y
        BY <3>1 DEF Max
      <3>3. Max(S) \in Int /\ x \in Int /\ Max(S) >= x /\ Max(S) <= x
        BY <2>7, <2>8, <3>2
      <3> QED
        BY <3>3
    <2> QED
      BY <2>9 DEF x, S
  <1> QED
    BY <1>1, TreeStandsFirm, PTL

-----------------------------------------------------------------------------
(* A list that has the set T, each member once.                            *)
Once(q, S, T) == q \in Seq(S) /\ IsInjective(q) /\ ToSet(q) = T

LEMMA OnceNone == ASSUME NEW S PROVE Once(<<>>, S, {})
  <1>1. <<>> \in Seq(S) /\ DOMAIN <<>> = {}
    OBVIOUS
  <1> QED
    BY <1>1 DEF Once, IsInjective, ToSet

LEMMA OnceOne == ASSUME NEW S, NEW m \in S PROVE Once(<<m>>, S, {m})
  <1> DEFINE q == <<m>>
  <1>1. q \in Seq(S) /\ DOMAIN q = {1} /\ q[1] = m
    OBVIOUS
  <1> HIDE DEF q
  <1>2. ToSet(q) = {m}
    BY <1>1 DEF ToSet
  <1>3. IsInjective(q)
    BY <1>1 DEF IsInjective
  <1>4. Once(q, S, {m})
    BY <1>1, <1>2, <1>3 DEF Once
  <1> QED
    BY <1>4 DEF q

LEMMA OnceJoin ==
    ASSUME NEW S, NEW q, NEW r, NEW T, NEW U, Once(q, S, T), Once(r, S, U), T \cap U = {}
    PROVE  Once(q \o r, S, T \cup U)
  <1> DEFINE z == q \o r
  <1> DEFINE k == Len(q)
  <1> DEFINE l == Len(r)
  <1>1. q \in Seq(S) /\ r \in Seq(S)
    BY DEF Once
  <1>2. z \in Seq(S) /\ Len(z) = k + l /\ k \in Nat /\ l \in Nat
    BY <1>1
  <1>3. \A i \in 1 .. k : z[i] = q[i]
    BY <1>1
  <1>4. \A i \in 1 .. l : z[k + i] = r[i]
    BY <1>1
  <1>5. DOMAIN q = 1 .. k /\ DOMAIN r = 1 .. l /\ DOMAIN z = 1 .. Len(z)
    BY <1>1, <1>2
  <1> HIDE DEF z, k, l
  <1>6. /\ \A i \in 1 .. k : q[i] \in T
        /\ \A i \in 1 .. l : r[i] \in U
        /\ \A x \in T : \E i \in 1 .. k : q[i] = x
        /\ \A x \in U : \E i \in 1 .. l : r[i] = x
    BY <1>5 DEF Once, ToSet
  <1>7. /\ \A i, j \in 1 .. k : q[i] = q[j] => i = j
        /\ \A i, j \in 1 .. l : r[i] = r[j] => i = j
    BY <1>5 DEF Once, IsInjective
  <1>8. ASSUME NEW i \in 1 .. Len(z)
        PROVE  \/ i \in 1 .. k /\ z[i] = q[i] /\ z[i] \in T
               \/ i - k \in 1 .. l /\ z[i] = r[i - k] /\ z[i] \in U
    <2>1. CASE i \in 1 .. k
      BY <1>3, <1>6, <2>1
    <2>2. CASE i \notin 1 .. k
      <3> DEFINE j == i - k
      <3>1. j \in 1 .. l /\ k + j = i
        BY <1>2, <2>2
      <3> HIDE DEF j
      <3>2. z[i] = r[j]
        BY <1>4, <3>1
      <3> QED
        BY <1>6, <3>1, <3>2 DEF j
    <2> QED
      BY <2>1, <2>2
  <1>9. ToSet(z) = T \cup U
    <2>1. \A i \in 1 .. Len(z) : z[i] \in T \cup U
      BY <1>8
    <2>2. ASSUME NEW x \in T PROVE \E i \in 1 .. Len(z) : z[i] = x
      <3>1. PICK i \in 1 .. k : q[i] = x
        BY <1>6
      <3>2. i \in 1 .. Len(z) /\ z[i] = x
        BY <1>2, <1>3, <3>1
      <3> QED
        BY <3>2
    <2>3. ASSUME NEW x \in U PROVE \E i \in 1 .. Len(z) : z[i] = x
      <3>1. PICK i \in 1 .. l : r[i] = x
        BY <1>6
      <3>2. k + i \in 1 .. Len(z) /\ z[k + i] = x
        BY <1>2, <1>4, <3>1
      <3> QED
        BY <3>2
    <2> QED
      BY <1>5, <2>1, <2>2, <2>3 DEF ToSet
  <1>10. ASSUME NEW i \in 1 .. Len(z), NEW j \in 1 .. Len(z), z[i] = z[j] PROVE i = j
    <2>1. \/ i \in 1 .. k /\ j \in 1 .. k /\ q[i] = q[j]
          \/ i - k \in 1 .. l /\ j - k \in 1 .. l /\ r[i - k] = r[j - k]
      BY <1>8, <1>10
    <2>2. i \in Int /\ j \in Int /\ (i - k = j - k => i = j)
      BY <1>2
    <2> QED
      BY <1>7, <2>1, <2>2
  <1>11. Once(z, S, T \cup U)
    BY <1>2, <1>5, <1>9, <1>10 DEF Once, IsInjective
  <1> QED
    BY <1>11 DEF z

-----------------------------------------------------------------------------
(* The notes that sound in [s, e[.                                         *)
Sounds(t, s, e, j) == s < t.data[j].off /\ t.data[j].on < e

InStretch(t, Y, pos, lo, hi, s, e, m) == {j \in Stretch(Y, pos, lo, hi, m) : Sounds(t, s, e, j)}

OnSide(t, Y, pos, lo, hi, s, e, m, d) ==
    {j \in Y \ {HEAD} : HangsOn(t, pos, lo, hi, m, d, j) /\ Sounds(t, s, e, j)}

JustNode(t, s, e, m) == {j \in {m} : Sounds(t, s, e, j)}

(* What range_ takes from node m and from its two subtrees.                *)
OwnPart(t, s, e, m) == IF s < t.data[m].off /\ t.data[m].on < e THEN <<m>> ELSE <<>>
LeftPart(t, s, f, m) == IF MayReach(t, t.child[m][0], s) THEN f[t.child[m][0]] ELSE <<>>
RightPart(t, s, e, f, m) ==
    IF MayReach(t, t.child[m][1], s) /\ t.data[m].on < e THEN f[t.child[m][1]] ELSE <<>>

LEMMA RangeRoundIs ==
    ASSUME NEW t, NEW s, NEW e, NEW f, NEW m \in Node
    PROVE  RangeRound(t, s, e, f)[m] = OwnPart(t, s, e, m) \o LeftPart(t, s, f, m) \o RightPart(t, s, e, f, m)
  BY DEF RangeRound, OwnPart, LeftPart, RightPart

LEMMA OnsInOrder ==
    ASSUME NEW a \in Notes, NEW b \in Notes, Cmp(a, b) <= 0
    PROVE  a.on <= b.on /\ a.on \in Int /\ b.on \in Int
  BY DEF Cmp, Notes

LEMMA OwnFound ==
    ASSUME NEW t, NEW s, NEW e, NEW m \in Node
    PROVE  Once(OwnPart(t, s, e, m), Node, JustNode(t, s, e, m))
  <1>1. CASE Sounds(t, s, e, m)
    <2>1. OwnPart(t, s, e, m) = <<m>> /\ JustNode(t, s, e, m) = {m}
      BY <1>1 DEF OwnPart, JustNode, Sounds
    <2> QED
      BY <2>1, OnceOne
  <1>2. CASE ~Sounds(t, s, e, m)
    <2>1. OwnPart(t, s, e, m) = <<>> /\ JustNode(t, s, e, m) = {}
      BY <1>2 DEF OwnPart, JustNode, Sounds
    <2> QED
      BY <2>1, OnceNone
  <1> QED
    BY <1>1, <1>2

(* A subtree that is not gone into has no note to find.                    *)
SideTop(t, Y, pos, lo, hi, m, d) ==
    t.child[m][d] # NULL => IsTop(t, Y, pos, lo, hi, t.child[m][d], t.maxOff[t.child[m][d]])

SideIs(t, Y, pos, lo, hi, s, e, m, d) ==
    /\ ~MayReach(t, t.child[m][d], s) => OnSide(t, Y, pos, lo, hi, s, e, m, d) = {}
    /\ t.child[m][d] # NULL => OnSide(t, Y, pos, lo, hi, s, e, m, d)
                                 = InStretch(t, Y, pos, lo, hi, s, e, t.child[m][d])

LEMMA SideFound ==
    ASSUME NEW t, NEW Y, NEW pos, NEW lo, NEW hi, Dated(t, Y), NEW s \in Int, NEW e \in Int,
           NEW m \in Y \ {HEAD}, NEW d \in 0 .. 1, SideTop(t, Y, pos, lo, hi, m, d)
    PROVE  SideIs(t, Y, pos, lo, hi, s, e, m, d)
  <1> DEFINE c == t.child[m][d]
  <1> DEFINE S == Stretch(Y, pos, lo, hi, c)
  <1>1. c # NULL => OnSide(t, Y, pos, lo, hi, s, e, m, d) = InStretch(t, Y, pos, lo, hi, s, e, c)
    BY DEF OnSide, InStretch, Stretch, HangsOn
  <1>2. ASSUME ~MayReach(t, c, s) PROVE OnSide(t, Y, pos, lo, hi, s, e, m, d) = {}
    <2>1. CASE c = NULL
      BY <2>1 DEF OnSide, HangsOn
    <2>2. CASE c # NULL
      <3> DEFINE x == t.maxOff[c]
      <3>1. ~(x > s)
        BY <1>2, <2>2 DEF MayReach
      <3>2. x \in Int /\ \A j \in S : t.data[j].off <= x
        BY <2>2 DEF SideTop, IsTop
      <3>3. \A j \in S : t.data[j].off \in Int
        BY DEF Stretch, Dated, Notes
      <3> HIDE DEF x, S, c
      <3>4. \A j \in S : ~Sounds(t, s, e, j)
        <4> SUFFICES ASSUME NEW j \in S PROVE ~(s < t.data[j].off)
          BY DEF Sounds
        <4> QED
          BY <3>1, <3>2, <3>3
      <3>5. InStretch(t, Y, pos, lo, hi, s, e, c) = {}
        BY <3>4 DEF InStretch, S
      <3> QED
        BY <1>1, <2>2, <3>5
    <2> QED
      BY <2>1, <2>2
  <1> QED
    BY <1>1, <1>2 DEF SideIs

LEMMA FoundRound ==
    ASSUME NEW t, NEW Y, NEW pos, NEW lo, NEW hi, Shape(t, Y, pos, lo, hi), Sorted(t, Y, pos),
           Dated(t, Y), NEW s \in Int, NEW e \in Int, NEW f, NEW m \in Y \ {HEAD},
           \A d \in 0 .. 1 :
               /\ SideTop(t, Y, pos, lo, hi, m, d)
               /\ t.child[m][d] # NULL =>
                   Once(f[t.child[m][d]], Node, InStretch(t, Y, pos, lo, hi, s, e, t.child[m][d]))
    PROVE  Once(RangeRound(t, s, e, f)[m], Node, InStretch(t, Y, pos, lo, hi, s, e, m))
  <1> DEFINE A == JustNode(t, s, e, m)
  <1> DEFINE B == OnSide(t, Y, pos, lo, hi, s, e, m, 0)
  <1> DEFINE C == OnSide(t, Y, pos, lo, hi, s, e, m, 1)
  <1> DEFINE D == InStretch(t, Y, pos, lo, hi, s, e, m)
  <1> DEFINE a == OwnPart(t, s, e, m)
  <1> DEFINE b == LeftPart(t, s, f, m)
  <1> DEFINE c == RightPart(t, s, e, f, m)
  <1>1. m \in Node /\ pos[m] \in Nat /\ \A j \in Y : pos[j] \in Nat
    BY InNode DEF Shape, Stretches
  <1>11. SideIs(t, Y, pos, lo, hi, s, e, m, 0) /\ SideIs(t, Y, pos, lo, hi, s, e, m, 1)
    <2>1. 0 \in 0 .. 1 /\ 1 \in 0 .. 1
      OBVIOUS
    <2>2. SideTop(t, Y, pos, lo, hi, m, 0) /\ SideTop(t, Y, pos, lo, hi, m, 1)
      BY <2>1
    <2> QED
      BY <2>1, <2>2, SideFound
  <1>2. Once(a, Node, A)
    BY <1>1, OwnFound
  <1>3. Once(b, Node, B)
    <2>1. CASE MayReach(t, t.child[m][0], s)
      <3>1. t.child[m][0] # NULL /\ b = f[t.child[m][0]]
        BY <2>1 DEF MayReach, LeftPart
      <3>2. B = InStretch(t, Y, pos, lo, hi, s, e, t.child[m][0])
        BY <1>11, <3>1 DEF SideIs
      <3>3. Once(f[t.child[m][0]], Node, InStretch(t, Y, pos, lo, hi, s, e, t.child[m][0]))
        BY <3>1
      <3> QED
        BY <3>1, <3>2, <3>3
    <2>2. CASE ~MayReach(t, t.child[m][0], s)
      <3>1. b = <<>> /\ B = {}
        BY <1>11, <2>2 DEF LeftPart, SideIs
      <3> QED
        BY <3>1, OnceNone
    <2> QED
      BY <2>1, <2>2
  <1>4. Once(c, Node, C)
    <2>1. CASE MayReach(t, t.child[m][1], s) /\ t.data[m].on < e
      <3>1. t.child[m][1] # NULL /\ c = f[t.child[m][1]]
        BY <2>1 DEF MayReach, RightPart
      <3>2. C = InStretch(t, Y, pos, lo, hi, s, e, t.child[m][1])
        BY <1>11, <3>1 DEF SideIs
      <3>3. Once(f[t.child[m][1]], Node, InStretch(t, Y, pos, lo, hi, s, e, t.child[m][1]))
        BY <3>1
      <3> QED
        BY <3>1, <3>2, <3>3
    <2>2. CASE ~MayReach(t, t.child[m][1], s)
      <3>1. c = <<>> /\ C = {}
        BY <1>11, <2>2 DEF RightPart, SideIs
      <3> QED
        BY <3>1, OnceNone
    <2>3. CASE ~(t.data[m].on < e)
      <3>1. c = <<>>
        BY <2>3 DEF RightPart
      <3>2. ASSUME NEW j \in Y \ {HEAD}, HangsOn(t, pos, lo, hi, m, 1, j) PROVE ~Sounds(t, s, e, j)
        <4>1. pos[m] < pos[j]
          BY <3>2, StretchParts
        <4>2. Cmp(t.data[m], t.data[j]) <= 0 /\ t.data[m] \in Notes /\ t.data[j] \in Notes
          BY <4>1 DEF Sorted, Dated
        <4>3. t.data[m].on <= t.data[j].on /\ t.data[m].on \in Int /\ t.data[j].on \in Int
          BY <4>2, OnsInOrder
        <4> QED
          BY <2>3, <4>3 DEF Sounds
      <3>3. C = {}
        BY <3>2 DEF OnSide
      <3> QED
        BY <3>1, <3>3, OnceNone
    <2> QED
      BY <2>1, <2>2, <2>3
  <1>5. ASSUME NEW j \in Y \ {HEAD}
        PROVE  /\ j \in D <=> j \in A \/ j \in B \/ j \in C
               /\ ~(j \in A /\ j \in B) /\ ~(j \in A /\ j \in C) /\ ~(j \in B /\ j \in C)
    <2>1. j \in D <=> Has(pos, lo, hi, m, j) /\ Sounds(t, s, e, j)
      BY DEF InStretch, Stretch
    <2>2. /\ j \in A <=> j = m /\ Sounds(t, s, e, j)
          /\ j \in B <=> HangsOn(t, pos, lo, hi, m, 0, j) /\ Sounds(t, s, e, j)
          /\ j \in C <=> HangsOn(t, pos, lo, hi, m, 1, j) /\ Sounds(t, s, e, j)
      BY DEF JustNode, OnSide
    <2>3. /\ Has(pos, lo, hi, m, j) <=> \/ j = m
                                        \/ HangsOn(t, pos, lo, hi, m, 0, j)
                                        \/ HangsOn(t, pos, lo, hi, m, 1, j)
          /\ HangsOn(t, pos, lo, hi, m, 0, j) => pos[j] < pos[m]
          /\ HangsOn(t, pos, lo, hi, m, 1, j) => pos[m] < pos[j]
      BY StretchParts
    <2>4. pos[j] \in Nat /\ ~(pos[j] < pos[j]) /\ ~(pos[j] < pos[m] /\ pos[m] < pos[j])
      BY <1>1
    <2> HIDE DEF A, B, C, D
    <2> QED
      BY <2>1, <2>2, <2>3, <2>4
  <1>6. A \subseteq Y \ {HEAD} /\ B \subseteq Y \ {HEAD} /\ C \subseteq Y \ {HEAD} /\ D \subseteq Y \ {HEAD}
    BY DEF JustNode, OnSide, InStretch, Stretch
  <1>7. RangeRound(t, s, e, f)[m] = a \o b \o c
    BY <1>1, RangeRoundIs
  <1> HIDE DEF A, B, C, D, a, b, c
  <1>8. A \cap B = {} /\ (A \cup B) \cap C = {} /\ D = (A \cup B) \cup C
    BY <1>5, <1>6
  <1>9. Once(a \o b, Node, A \cup B)
    BY <1>2, <1>3, <1>8, OnceJoin
  <1>10. Once((a \o b) \o c, Node, (A \cup B) \cup C)
    BY <1>4, <1>8, <1>9, OnceJoin
  <1> QED
    BY <1>7, <1>8, <1>10 DEF D

RangeStep(a, f, k) == RangeRound(a.tree, a.beg, a.end, f)

RangeGood(a, k, f) ==
    \A m \in a.in \ {HEAD} : a.hi[m] - a.lo[m] < k =>
        Once(f[m], Node, InStretch(a.tree, a.in, a.pos, a.lo, a.hi, a.beg, a.end, m))

RangeLoop == INSTANCE FoldFacts WITH Step <- RangeStep, Sel <- ByMax, Good <- RangeGood

LEMMA RangeIs ==
    ASSUME Channel = FALSE, NEW t, NEW Y, NEW pos, Standing(t, Y, pos), NEW s \in Int, NEW e \in Int
    PROVE  Once(InRange(t, s, e), Node, {n \in Y \ {HEAD} : Sounds(t, s, e, n)})
  <1>1. PICK lo, hi, high : Fit(t, Y, pos, lo, hi, high, HEAD, 0, 0)
    BY DEF Standing, Whole
  <1>2. /\ Shape(t, Y, pos, lo, hi) /\ Stretches(Y, pos, lo, hi) /\ Down(t, Y, pos, lo, hi)
        /\ AllFresh(t, Y) /\ Sorted(t, Y, pos) /\ Dated(t, Y)
    BY <1>1 DEF Fit, Shape, Standing
  <1> DEFINE All == {n \in Y \ {HEAD} : Sounds(t, s, e, n)}
  <1> DEFINE a == [tree |-> t, in |-> Y, pos |-> pos, lo |-> lo, hi |-> hi, beg |-> s, end |-> e]
  <1> DEFINE f0 == [m \in Node |-> <<>>]
  <1>3. /\ a.tree = t /\ a.in = Y /\ a.pos = pos /\ a.lo = lo /\ a.hi = hi
        /\ a.beg = s /\ a.end = e
    OBVIOUS
  <1>4. \A m \in Y \ {HEAD} : hi[m] - lo[m] \in Nat /\ hi[m] - lo[m] < Rounds
    BY <1>2, WideIsTop
  <1> DEFINE h == RangeLoop!Loop(a, f0, Rounds)
  <1>5. \A m : RangeFrom(t, m, s, e) = h[m]
    BY DEF RangeFrom, Repeat, RangeLoop!Loop, RangeLoop!IsLoop, RangeStep
  <1> HIDE DEF a, f0
  <1>6. RangeGood(a, 0, f0)
    BY <1>3, <1>4 DEF RangeGood
  <1>7. \A k \in 1 .. Rounds : \A f : RangeGood(a, k - 1, f) => RangeGood(a, k, RangeStep(a, f, k))
    <2> SUFFICES ASSUME NEW k \in 1 .. Rounds, NEW f, RangeGood(a, k - 1, f)
                 PROVE  RangeGood(a, k, RangeRound(t, s, e, f))
      BY <1>3 DEF RangeStep
    <2>1. \A m \in Y \ {HEAD} : hi[m] - lo[m] < k - 1 =>
              Once(f[m], Node, InStretch(t, Y, pos, lo, hi, s, e, m))
      BY <1>3 DEF RangeGood
    <2>2. ASSUME NEW m \in Y \ {HEAD}, hi[m] - lo[m] < k
          PROVE  Once(RangeRound(t, s, e, f)[m], Node, InStretch(t, Y, pos, lo, hi, s, e, m))
      <3>1. ASSUME NEW d \in 0 .. 1
            PROVE  /\ SideTop(t, Y, pos, lo, hi, m, d)
                   /\ t.child[m][d] # NULL =>
                        Once(f[t.child[m][d]], Node, InStretch(t, Y, pos, lo, hi, s, e, t.child[m][d]))
        <4> DEFINE c == t.child[m][d]
        <4>1. CASE c = NULL
          BY <4>1 DEF SideTop
        <4>2. CASE c # NULL
          <5>1. c \in Y \ {HEAD} /\ hi[c] - lo[c] < hi[m] - lo[m]
            BY <1>2, <4>2, ChildIs
          <5>2. SideTop(t, Y, pos, lo, hi, m, d)
            BY <1>2, <5>1, TopIs DEF SideTop
          <5> DEFINE w == hi[c] - lo[c]
          <5> DEFINE x == hi[m] - lo[m]
          <5>3. w \in Nat /\ x \in Nat /\ w < x /\ x < k
            BY <1>4, <2>2, <5>1
          <5> HIDE DEF w, x
          <5>4. w < k - 1
            BY <5>3
          <5>5. Once(f[c], Node, InStretch(t, Y, pos, lo, hi, s, e, c))
            BY <2>1, <5>1, <5>4 DEF w
          <5> QED
            BY <5>2, <5>5
        <4> QED
          BY <4>1, <4>2
      <3> QED
        BY <1>2, <3>1, FoundRound
    <2> QED
      BY <1>3, <2>2 DEF RangeGood
  <1>8. RangeGood(a, Rounds, h)
    <2>1. Rounds \in Nat
      BY <1>2, StretchesFit
    <2> QED
      BY <1>6, <1>7, <2>1, RangeLoop!LoopGood
  <1> HIDE DEF h
  <1>9. /\ HEAD \in Y /\ lo[HEAD] = 1 /\ pos[HEAD] \in Nat
        /\ \A m \in Y \ {HEAD} : pos[m] \in Nat /\ 1 <= pos[m] /\ pos[m] < pos[HEAD]
    BY <1>2, WideIsTop DEF Stretches
  <1> DEFINE r == t.child[HEAD][0]
  <1>10. Hung(t, Y, pos, lo, hi, HEAD, 0)
    BY <1>2, <1>9 DEF Down
  <1>11. FirstPlace(pos, lo, HEAD, 0) = 1 /\ LastPlace(pos, hi, HEAD, 0) = pos[HEAD] - 1
    BY <1>9 DEF FirstPlace, LastPlace
  <1>12. CASE r = NULL
    <2>1. 1 = (pos[HEAD] - 1) + 1
      BY <1>10, <1>11, <1>12 DEF Hung
    <2>2. All = {}
      BY <1>9, <2>1
    <2>3. InRange(t, s, e) = <<>>
      BY <1>12 DEF InRange
    <2> HIDE DEF All
    <2>4. Once(InRange(t, s, e), Node, All)
      BY <2>2, <2>3, OnceNone
    <2> QED
      BY <2>4 DEF All
  <1>13. CASE r # NULL
    <2>1. r \in Y \ {HEAD} /\ lo[r] = 1 /\ hi[r] = pos[HEAD] - 1
      BY <1>10, <1>11, <1>13 DEF Hung
    <2>2. InRange(t, s, e) = h[r]
      BY <1>5, <1>13 DEF InRange
    <2> HIDE DEF r
    <2>3. Once(h[r], Node, InStretch(t, Y, pos, lo, hi, s, e, r))
      BY <1>3, <1>4, <1>8, <2>1 DEF RangeGood
    <2>4. \A j \in Y \ {HEAD} : Has(pos, lo, hi, r, j)
      BY <1>9, <2>1 DEF Has
    <2>5. InStretch(t, Y, pos, lo, hi, s, e, r) = All
      BY <2>4 DEF InStretch, Stretch
    <2> HIDE DEF All
    <2>6. Once(InRange(t, s, e), Node, All)
      BY <2>2, <2>3, <2>5
    <2> QED
      BY <2>6 DEF All
  <1> QED
    BY <1>12, <1>13

(* A range lookup in a track's tree hands every note that sounds in the    *)
(* range to the callback once, and no other.                               *)
THEOREM RangesAreFound == ASSUME Channel = FALSE PROVE Spec => []RangeFindsAll
  <1>1. TreeInv => RangeFindsAll
    <2> SUFFICES ASSUME TreeInv, NEW s \in Times, NEW e \in Times
                 PROVE  /\ IsInjective(InRange(tree, s, e))
                        /\ ToSet(InRange(tree, s, e))
                             = {n \in tree.inTree : s < tree.data[n].off /\ tree.data[n].on < e}
      BY DEF RangeFindsAll
    <2> DEFINE Y == tree.inTree \cup {HEAD}
    <2>1. PICK pos : Orderly(tree, Y, pos)
      BY DEF TreeInv
    <2>2. Standing(tree, Y, pos) /\ tree.inTree = Y \ {HEAD}
      BY <2>1 DEF Orderly
    <2> HIDE DEF Y
    <2>3. s \in Int /\ e \in Int
      <3>1. \A d \in Datum : d.on \in Int /\ d.off \in Int
        BY HoldsNotes DEF Datum, Notes
      <3> QED
        BY <3>1 DEF Times
    <2>4. Once(InRange(tree, s, e), Node, {n \in Y \ {HEAD} : Sounds(tree, s, e, n)})
      BY <2>2, <2>3, RangeIs
    <2> QED
      BY <2>2, <2>4 DEF Once, Sounds
  <1> QED
    BY <1>1, TreeStandsFirm, PTL

-----------------------------------------------------------------------------
(* Parts of a list.                                                        *)
LEMMA HeadPart ==
    ASSUME NEW S, NEW s \in Seq(S), NEW k \in Nat, k <= Len(s)
    PROVE  /\ SubSeq(s, 1, k) \in Seq(S) /\ Len(SubSeq(s, 1, k)) = k
           /\ \A i \in 1 .. k : SubSeq(s, 1, k)[i] = s[i]
  <1> DEFINE z == SubSeq(s, 1, k)
  <1>1. Len(z) = k
    OBVIOUS
  <1>2. z \in Seq(S)
    OBVIOUS
  <1>3. \A i \in 1 .. k : z[i] = s[i]
    OBVIOUS
  <1> QED
    BY <1>1, <1>2, <1>3

LEMMA TailPart ==
    ASSUME NEW S, NEW s \in Seq(S), NEW j \in 1 .. (Len(s) + 1)
    PROVE  /\ SubSeq(s, j, Len(s)) \in Seq(S) /\ Len(SubSeq(s, j, Len(s))) = Len(s) + 1 - j
           /\ \A i \in 1 .. (Len(s) + 1 - j) : SubSeq(s, j, Len(s))[i] = s[j + i - 1]
  <1> DEFINE z == SubSeq(s, j, Len(s))
  <1>1. Len(z) = Len(s) + 1 - j
    OBVIOUS
  <1>2. z \in Seq(S)
    OBVIOUS
  <1>3. \A i \in 1 .. (Len(s) + 1 - j) : z[i] = s[j + i - 1]
    OBVIOUS
  <1> QED
    BY <1>1, <1>2, <1>3

LEMMA IntoSeq ==
    ASSUME NEW S, NEW T, NEW s \in Seq(S), \A i \in 1 .. Len(s) : s[i] \in T
    PROVE  s \in Seq(T)
  <1>1. Len(s) \in Nat /\ s = [i \in 1 .. Len(s) |-> s[i]]
    OBVIOUS
  <1>2. s \in [1 .. Len(s) -> T]
    BY <1>1
  <1> QED
    BY <1>1, <1>2

LEMMA RunsSame ==
    ASSUME NEW Y, NEW pos, NEW l, NEW h, NEW q, NEW r, Runs(q, Y, pos, l, h), Runs(r, Y, pos, l, h),
           \A m, n \in Y : pos[m] = pos[n] => m = n
    PROVE  q = r
  <1>1. q \in Seq(Y) /\ r \in Seq(Y)
    <2>1. q \in Seq(Y \ {HEAD}) /\ r \in Seq(Y \ {HEAD})
      BY DEF Runs
    <2>2. \A i \in 1 .. Len(q) : q[i] \in Y
      BY <2>1
    <2>3. \A i \in 1 .. Len(r) : r[i] \in Y
      BY <2>1
    <2> QED
      BY <2>1, <2>2, <2>3, IntoSeq
  <1>2. /\ Len(q) = Len(r)
        /\ \A i \in 1 .. Len(q) : pos[q[i]] = l + i - 1
        /\ \A i \in 1 .. Len(r) : pos[r[i]] = l + i - 1
    BY DEF Runs
  <1>3. \A i \in 1 .. Len(q) : q[i] = r[i]
    <2> SUFFICES ASSUME NEW i \in 1 .. Len(q) PROVE q[i] = r[i]
      OBVIOUS
    <2>1. q[i] \in Y /\ r[i] \in Y /\ pos[q[i]] = pos[r[i]]
      BY <1>1, <1>2
    <2> QED
      BY <2>1
  <1> QED
    BY <1>1, <1>2, <1>3

LEMMA RunsMeet ==
    ASSUME NEW Y, NEW pos, NEW l \in Nat, NEW h \in Int, NEW p \in Nat,
           NEW q, Runs(q, Y, pos, l, p - 1), NEW r, Runs(r, Y, pos, p, h)
    PROVE  Runs(q \o r, Y, pos, l, h)
  <1> DEFINE S == Y \ {HEAD}
  <1> DEFINE z == q \o r
  <1>1. q \in Seq(S) /\ r \in Seq(S)
    BY DEF Runs
  <1>2. /\ Len(q) = p - l /\ \A i \in 1 .. Len(q) : pos[q[i]] = l + i - 1
        /\ Len(q) \in Nat
    BY <1>1 DEF Runs
  <1>3. /\ Len(r) = h + 1 - p /\ \A i \in 1 .. Len(r) : pos[r[i]] = p + i - 1
        /\ Len(r) \in Nat
    BY <1>1 DEF Runs
  <1> HIDE DEF S
  <1>4. z \in Seq(S) /\ Len(z) = Len(q) + Len(r)
    BY <1>1
  <1>5. \A i \in 1 .. Len(q) : z[i] = q[i]
    BY <1>1
  <1>6. \A i \in 1 .. Len(r) : z[Len(q) + i] = r[i]
    BY <1>1
  <1> HIDE DEF z
  <1>7. Len(z) = h + 1 - l
    BY <1>2, <1>3, <1>4
  <1>8. \A i \in 1 .. Len(z) : pos[z[i]] = l + i - 1
    <2> SUFFICES ASSUME NEW i \in 1 .. Len(z) PROVE pos[z[i]] = l + i - 1
      OBVIOUS
    <2>1. CASE i \in 1 .. Len(q)
      BY <1>2, <1>5, <2>1
    <2>2. CASE i > Len(q)
      <3> DEFINE j == i - Len(q)
      <3>1. j \in 1 .. Len(r) /\ i = Len(q) + j
        BY <1>2, <1>3, <1>4, <2>2
      <3> HIDE DEF j
      <3>2. z[i] = r[j] /\ pos[r[j]] = p + j - 1
        BY <1>3, <1>6, <3>1
      <3>3. j \in Nat /\ i = p - l + j
        BY <1>2, <3>1
      <3> QED
        BY <3>2, <3>3
    <2> QED
      BY <1>2, <2>1, <2>2
  <1>9. Runs(z, Y, pos, l, h)
    BY <1>4, <1>7, <1>8 DEF Runs, S
  <1> QED
    BY <1>9 DEF z

LEMMA ListsRuns ==
    ASSUME NEW q, NEW Y, NEW pos, ListsAs(q, Y, pos), pos[HEAD] \in Nat
    PROVE  Runs(q, Y, pos, 1, pos[HEAD] - 1)
  <1>1. /\ q \in Seq(Y \ {HEAD}) /\ Len(q) = pos[HEAD] - 1
        /\ \A i \in 1 .. Len(q) : pos[q[i]] = i /\ i \in Int
    BY DEF ListsAs
  <1>2. \A i \in 1 .. Len(q) : pos[q[i]] = 1 + i - 1
    BY <1>1
  <1>3. Len(q) = (pos[HEAD] - 1) + 1 - 1
    BY <1>1
  <1> QED
    BY <1>1, <1>2, <1>3 DEF Runs

LEMMA HeadRuns ==
    ASSUME NEW q, NEW Y, NEW pos, ListsAs(q, Y, pos), NEW k \in Nat, k <= Len(q), NEW Z, NEW p,
           \A m \in Y \ {HEAD} : pos[m] <= k => m \in Z \ {HEAD} /\ p[m] = pos[m]
    PROVE  Runs(SubSeq(q, 1, k), Z, p, 1, k)
  <1> DEFINE z == SubSeq(q, 1, k)
  <1>1. /\ q \in Seq(Y \ {HEAD}) /\ Len(q) \in Nat
        /\ \A i \in 1 .. Len(q) : pos[q[i]] = i
    BY DEF ListsAs
  <1>2. z \in Seq(Y \ {HEAD}) /\ Len(z) = k /\ \A i \in 1 .. k : z[i] = q[i]
    BY <1>1, HeadPart
  <1> HIDE DEF z
  <1>3. ASSUME NEW i \in 1 .. k PROVE z[i] \in Z \ {HEAD} /\ p[z[i]] = 1 + i - 1
    <2>1. i \in 1 .. Len(q) /\ i <= k /\ i = 1 + i - 1
      BY <1>1
    <2>2. z[i] \in Y \ {HEAD} /\ pos[z[i]] = i
      BY <1>1, <1>2, <2>1
    <2> QED
      BY <2>1, <2>2
  <1>4. z \in Seq(Z \ {HEAD})
    BY <1>2, <1>3, IntoSeq
  <1>5. k = k + 1 - 1
    OBVIOUS
  <1>6. Runs(z, Z, p, 1, k)
    BY <1>2, <1>3, <1>4, <1>5 DEF Runs
  <1> QED
    BY <1>6 DEF z

LEMMA TailRuns ==
    ASSUME NEW q, NEW Y, NEW pos, ListsAs(q, Y, pos), NEW j \in 1 .. (Len(q) + 1), NEW e \in Int,
           NEW Z, NEW p,
           \A m \in Y \ {HEAD} : pos[m] >= j => m \in Z \ {HEAD} /\ p[m] = pos[m] + e
    PROVE  Runs(SubSeq(q, j, Len(q)), Z, p, j + e, Len(q) + e)
  <1> DEFINE k == Len(q)
  <1> DEFINE z == SubSeq(q, j, Len(q))
  <1>1. /\ q \in Seq(Y \ {HEAD}) /\ k \in Nat
        /\ \A i \in 1 .. k : pos[q[i]] = i
    BY DEF ListsAs
  <1>2. /\ z \in Seq(Y \ {HEAD}) /\ Len(z) = k + 1 - j
        /\ \A i \in 1 .. (k + 1 - j) : z[i] = q[j + i - 1]
    BY <1>1, TailPart
  <1>3. j \in 1 .. (k + 1)
    OBVIOUS
  <1> HIDE DEF z, k
  <1>4. ASSUME NEW i \in 1 .. Len(z) PROVE z[i] \in Z \ {HEAD} /\ p[z[i]] = (j + e) + i - 1
    <2> DEFINE l == j + i - 1
    <2>1. l \in 1 .. k /\ l >= j /\ l + e = (j + e) + i - 1 /\ i \in 1 .. (k + 1 - j)
      BY <1>1, <1>2, <1>3
    <2>2. z[i] = q[l]
      BY <1>2, <2>1
    <2> HIDE DEF l
    <2>3. z[i] \in Y \ {HEAD} /\ pos[z[i]] = l
      BY <1>1, <1>2, <2>1, <2>2
    <2> QED
      BY <2>1, <2>3
  <1>5. z \in Seq(Z \ {HEAD})
    BY <1>2, <1>4, IntoSeq
  <1>6. Len(z) = (k + e) + 1 - (j + e)
    BY <1>1, <1>2, <1>3
  <1>7. Runs(z, Z, p, j + e, k + e)
    BY <1>4, <1>5, <1>6 DEF Runs
  <1> QED
    BY <1>7 DEF z, k

-----------------------------------------------------------------------------
(* The list a tree shows, and how a step alters it.                        *)
Shown(t) == InOrder(t, t.child[HEAD][0])

LEMMA ShownRuns ==
    ASSUME NEW u, NEW Z, NEW p, Orderly(u, Z, p)
    PROVE  /\ ListsAs(Shown(u), Z, p) /\ Runs(Shown(u), Z, p, 1, p[HEAD] - 1)
           /\ Len(Shown(u)) = p[HEAD] - 1 /\ Len(Shown(u)) \in Nat
           /\ u.inTree = Z \ {HEAD} /\ ToSet(Shown(u)) = u.inTree
  <1>1. Whole(u, Z, p) /\ u.inTree = Z \ {HEAD}
    BY DEF Orderly, Standing
  <1>2. p[HEAD] \in Nat
    BY <1>1, WholePlaces
  <1>3. ListsAs(Shown(u), Z, p)
    BY <1>1, ListedIs DEF Shown
  <1>4. Runs(Shown(u), Z, p, 1, p[HEAD] - 1)
    BY <1>2, <1>3, ListsRuns
  <1> QED
    BY <1>1, <1>3, <1>4, ListedHas DEF ListsAs

LEMMA ListCardinality == ASSUME NEW S PROVE List!Cardinality(S) = Cardinality(S)
  BY DEF List!Cardinality, Cardinality

LEMMA FiledIs ==
    ASSUME NEW t, NEW u, NEW Y, NEW pos, NEW n \in Node, NEW q, NEW d,
           Orderly(t, Y, pos), Gains(t, u, Y, pos, n, q, d),
           NEW D, \A m \in Y \ {HEAD} : D[m] = t.data[m]
    PROVE  Shown(u) = List!Filed(Shown(t), D, n, d)
  <1> DEFINE l == Shown(t)
  <1> DEFINE Z == Y \cup {n}
  <1> DEFINE p == LeafPos(Y, pos, n, q)
  <1>1. /\ ListsAs(l, Y, pos) /\ Len(l) = pos[HEAD] - 1 /\ Len(l) \in Nat
        /\ pos[HEAD] \in Nat /\ HEAD \in Y /\ pos \in [Y -> Nat]
    BY ShownRuns, WholePlaces DEF Orderly, Standing
  <1>2. /\ Orderly(u, Z, p) /\ n \notin Y /\ q \in Nat /\ 1 <= q /\ q <= pos[HEAD]
        /\ \A m \in Y \ {HEAD} : Cmp(d, t.data[m]) >= 0 <=> pos[m] < q
    BY DEF Gains
  <1>3. Runs(Shown(u), Z, p, 1, p[HEAD] - 1)
    BY <1>2, ShownRuns
  <1>4. n # HEAD /\ n \in Z \ {HEAD} /\ HEAD \in Z
    BY <1>1, <1>2
  <1>5. /\ p[n] = q
        /\ \A m \in Y : p[m] = IF pos[m] >= q THEN pos[m] + 1 ELSE pos[m]
    BY <1>2 DEF LeafPos
  <1>6. \A i, j \in Z : p[i] = p[j] => i = j
    BY <1>2, WholePlaces DEF Orderly, Standing
  <1> HIDE DEF l, Z, p
  <1>7. p[HEAD] - 1 = Len(l) + 1
    BY <1>1, <1>2, <1>5
  <1> DEFINE a == SubSeq(l, 1, q - 1)
  <1> DEFINE b == SubSeq(l, q, Len(l))
  <1>8. Runs(a, Z, p, 1, q - 1)
    <2>1. q - 1 \in Nat /\ q - 1 <= Len(l)
      BY <1>1, <1>2
    <2>2. \A m \in Y \ {HEAD} : pos[m] <= q - 1 => m \in Z \ {HEAD} /\ p[m] = pos[m]
      <3> SUFFICES ASSUME NEW m \in Y \ {HEAD}, pos[m] <= q - 1
                   PROVE  m \in Z \ {HEAD} /\ p[m] = pos[m]
        OBVIOUS
      <3>1. pos[m] \in Nat /\ ~(pos[m] >= q)
        BY <1>1, <1>2
      <3> QED
        BY <1>5, <3>1 DEF Z
    <2> QED
      BY <1>1, <2>1, <2>2, HeadRuns
  <1>9. Runs(b, Z, p, q + 1, Len(l) + 1)
    <2>1. q \in 1 .. (Len(l) + 1) /\ 1 \in Int
      BY <1>1, <1>2
    <2>2. \A m \in Y \ {HEAD} : pos[m] >= q => m \in Z \ {HEAD} /\ p[m] = pos[m] + 1
      BY <1>5 DEF Z
    <2> QED
      BY <1>1, <2>1, <2>2, TailRuns
  <1> HIDE DEF a, b
  <1>10. Runs(a \o <<n>> \o b, Z, p, 1, Len(l) + 1)
    <2>1. 1 \in Nat /\ Len(l) + 1 \in Nat
      BY <1>1
    <2> QED
      BY <1>2, <1>4, <1>5, <1>8, <1>9, <2>1, RunsJoin
  <1>11. Shown(u) = a \o <<n>> \o b
    BY <1>3, <1>6, <1>7, <1>10, RunsSame
  <1>12. List!NotAfter(l, D, d) = 1 .. (q - 1)
    <2>1. /\ DOMAIN l = 1 .. Len(l) /\ \A i \in 1 .. Len(l) : l[i] \in Y \ {HEAD} /\ pos[l[i]] = i
      BY <1>1 DEF ListsAs
    <2>2. \A i \in 1 .. Len(l) : Cmp(d, D[l[i]]) >= 0 <=> i < q
      BY <1>2, <2>1
    <2>3. \A i : i \in List!NotAfter(l, D, d) <=> i \in 1 .. Len(l) /\ i < q
      BY <2>1, <2>2 DEF List!NotAfter
    <2>4. \A i : i \in 1 .. Len(l) /\ i < q <=> i \in 1 .. (q - 1)
      BY <1>1, <1>2
    <2> QED
      BY <2>3, <2>4
  <1>13. Cardinality(List!NotAfter(l, D, d)) + 1 = q
    BY <1>2, <1>12, FS_Interval
  <1>14. List!Filed(l, D, n, d) = a \o <<n>> \o b
    BY <1>13, ListCardinality DEF List!Filed, List!InsertAt, a, b
  <1> QED
    BY <1>11, <1>14 DEF l

LEMMA CutListIs ==
    ASSUME NEW t, NEW v, NEW Y, NEW pos, NEW c \in Nat, NEW k \in Nat, 1 <= c, c + k <= pos[HEAD],
           Orderly(t, Y, pos), RangeGone(t, v, Y, pos, c, k)
    PROVE  Shown(v) = SubSeq(Shown(t), 1, c - 1) \o SubSeq(Shown(t), c + k, Len(Shown(t)))
  <1> DEFINE l == Shown(t)
  <1> DEFINE Z == Cut(Y, pos, c, k)
  <1> DEFINE p == CutPos(Y, pos, c, k)
  <1>1. /\ ListsAs(l, Y, pos) /\ Len(l) = pos[HEAD] - 1 /\ Len(l) \in Nat
        /\ pos[HEAD] \in Nat /\ HEAD \in Y /\ pos \in [Y -> Nat]
    BY ShownRuns, WholePlaces DEF Orderly, Standing
  <1>2. Orderly(v, Z, p)
    BY DEF RangeGone
  <1>3. Runs(Shown(v), Z, p, 1, p[HEAD] - 1)
    BY <1>2, ShownRuns
  <1>4. /\ \A m \in Y : m \in Z <=> pos[m] < c \/ pos[m] >= c + k
        /\ \A m \in Z : p[m] = IF pos[m] < c THEN pos[m] ELSE pos[m] - k
    BY DEF Cut, CutPos
  <1>5. \A i, j \in Z : p[i] = p[j] => i = j
    BY <1>2, WholePlaces DEF Orderly, Standing
  <1> HIDE DEF l, Z, p
  <1>6. p[HEAD] - 1 = Len(l) - k
    <2>1. HEAD \in Z /\ ~(pos[HEAD] < c)
      BY <1>1, <1>4
    <2>2. p[HEAD] = pos[HEAD] - k
      BY <1>4, <2>1
    <2> QED
      BY <1>1, <2>2
  <1> DEFINE a == SubSeq(l, 1, c - 1)
  <1> DEFINE b == SubSeq(l, c + k, Len(l))
  <1>7. Runs(a, Z, p, 1, c - 1)
    <2>1. c - 1 \in Nat /\ c - 1 <= Len(l)
      BY <1>1
    <2>2. \A m \in Y \ {HEAD} : pos[m] <= c - 1 => m \in Z \ {HEAD} /\ p[m] = pos[m]
      <3> SUFFICES ASSUME NEW m \in Y \ {HEAD}, pos[m] <= c - 1
                   PROVE  m \in Z \ {HEAD} /\ p[m] = pos[m]
        OBVIOUS
      <3>1. pos[m] < c
        BY <1>1
      <3> QED
        BY <1>4, <3>1
    <2> QED
      BY <1>1, <2>1, <2>2, HeadRuns
  <1>8. Runs(b, Z, p, (c + k) + (-k), Len(l) + (-k))
    <2>1. c + k \in 1 .. (Len(l) + 1) /\ -k \in Int
      BY <1>1
    <2>2. \A m \in Y \ {HEAD} : pos[m] >= c + k => m \in Z \ {HEAD} /\ p[m] = pos[m] + (-k)
      <3> SUFFICES ASSUME NEW m \in Y \ {HEAD}, pos[m] >= c + k
                   PROVE  m \in Z \ {HEAD} /\ p[m] = pos[m] + (-k)
        OBVIOUS
      <3>1. pos[m] \in Nat /\ ~(pos[m] < c) /\ pos[m] + (-k) = pos[m] - k
        BY <1>1
      <3> QED
        BY <1>4, <3>1
    <2> QED
      BY <1>1, <2>1, <2>2, TailRuns
  <1>9. (c + k) + (-k) = c /\ Len(l) + (-k) = Len(l) - k
    BY <1>1
  <1> HIDE DEF a, b
  <1>10. Runs(b, Z, p, c, Len(l) - k)
    BY <1>8, <1>9
  <1>11. Runs(a \o b, Z, p, 1, Len(l) - k)
    <2>1. 1 \in Nat /\ Len(l) - k \in Int
      BY <1>1
    <2> QED
      BY <1>7, <1>10, <2>1, RunsMeet
  <1>12. Shown(v) = a \o b
    BY <1>3, <1>5, <1>6, <1>11, RunsSame
  <1> QED
    BY <1>12 DEF a, b, l

-----------------------------------------------------------------------------
(* The data of the nodes of a tree.                                        *)
Data(t) == [n \in t.inTree |-> t.data[n]]

LEMMA ListToSet == ASSUME NEW q PROVE List!ToSet(q) = ToSet(q)
  BY DEF List!ToSet, ToSet

LEMMA FilesInList ==
    ASSUME NEW Y, NEW pos, Orderly(tree, Y, pos), Filing(tree, tree', Y, pos)
    PROVE  List!Next
  <1>1. PICK n, d, q : n \in Node /\ d \in Holds[n] /\ Gains(tree, tree', Y, pos, n, q, d)
    BY DEF Filing
  <1>2. Listed = Shown(tree) /\ Listed' = Shown(tree')
    BY DEF Listed, Shown
  <1>3. tree.inTree = Y \ {HEAD} /\ ToSet(Shown(tree)) = tree.inTree
    BY ShownRuns
  <1>4. /\ n \notin Y /\ tree'.data[n] = d /\ \A m \in Y \ {HEAD} : tree'.data[m] = tree.data[m]
        /\ tree'.inTree = (Y \cup {n}) \ {HEAD} /\ HEAD \in Y
    <2>1. Orderly(tree', Y \cup {n}, LeafPos(Y, pos, n, q)) /\ HEAD \in Y
      BY <1>1, WholePlaces DEF Gains, Orderly, Standing
    <2> QED
      BY <1>1, <2>1 DEF Gains, Orderly
  <1> DEFINE D == Data(tree)
  <1>5. \A m \in Y \ {HEAD} : D[m] = tree.data[m]
    BY <1>3 DEF Data
  <1>6. DOMAIN D = tree.inTree
    BY DEF Data
  <1>7. Data(tree') = [m \in tree'.inTree |-> tree'.data[m]]
    BY DEF Data
  <1> HIDE DEF D
  <1>8. Shown(tree') = List!Filed(Shown(tree), D, n, d)
    BY <1>1, <1>5, FiledIs
  <1>9. tree'.inTree = tree.inTree \cup {n}
    BY <1>3, <1>4
  <1>10. Data(tree') = [m \in DOMAIN D \cup {n} |-> IF m = n THEN d ELSE D[m]]
    <2>1. \A m \in tree'.inTree : tree'.data[m] = IF m = n THEN d ELSE D[m]
      BY <1>3, <1>4, <1>5, <1>9
    <2> QED
      BY <1>6, <1>7, <1>9, <2>1
  <1>11. n \notin List!ToSet(Listed)
    BY <1>2, <1>3, <1>4, ListToSet
  <1>12. List!Insert(n, d)
    BY <1>2, <1>8, <1>10, <1>11 DEF List!Insert, D, Data
  <1> QED
    BY <1>1, <1>12 DEF List!Next

LEMMA CutsInList ==
    ASSUME NEW Y, NEW pos, Orderly(tree, Y, pos), Cutting(tree, tree', Y, pos)
    PROVE  List!Next
  <1>1. PICK c \in Nat, k \in Nat :
            1 <= c /\ c + k <= pos[HEAD] /\ RangeGone(tree, tree', Y, pos, c, k)
    BY DEF Cutting
  <1>2. Listed = Shown(tree) /\ Listed' = Shown(tree')
    BY DEF Listed, Shown
  <1>3. /\ tree.inTree = Y \ {HEAD} /\ Len(Shown(tree)) = pos[HEAD] - 1
        /\ pos[HEAD] \in Nat
    BY ShownRuns, WholePlaces DEF Orderly, Standing
  <1> DEFINE Z == Cut(Y, pos, c, k)
  <1>4. /\ Orderly(tree', Z, CutPos(Y, pos, c, k))
        /\ \A m \in Z \ {HEAD} : tree'.data[m] = tree.data[m] /\ m \in Y \ {HEAD}
    BY <1>1 DEF RangeGone, Cut
  <1> HIDE DEF Z
  <1>5. tree'.inTree = Z \ {HEAD} /\ ToSet(Shown(tree')) = tree'.inTree
    BY <1>4, ShownRuns
  <1>6. Shown(tree') = SubSeq(Shown(tree), 1, c - 1) \o SubSeq(Shown(tree), c + k, Len(Shown(tree)))
    BY <1>1, CutListIs
  <1>7. /\ c \in 1 .. (Len(Shown(tree)) + 1) /\ c + k \in 1 .. (Len(Shown(tree)) + 1)
        /\ c <= c + k
    BY <1>1, <1>3
  <1>8. Data(tree') = [m \in List!ToSet(Listed') |-> Data(tree)[m]]
    <2>1. List!ToSet(Listed') = tree'.inTree
      BY <1>2, <1>5, ListToSet
    <2>2. \A m \in tree'.inTree : tree'.data[m] = Data(tree)[m]
      BY <1>3, <1>4, <1>5 DEF Data
    <2>3. Data(tree') = [m \in tree'.inTree |-> tree'.data[m]]
      BY DEF Data
    <2> QED
      BY <2>1, <2>2, <2>3
  <1>9. List!EraseRange(c, c + k)
    BY <1>2, <1>6, <1>7, <1>8 DEF List!EraseRange, Data
  <1> QED
    BY <1>2, <1>7, <1>9 DEF List!Next

LEMMA RefilesInList ==
    ASSUME NEW Y, NEW pos, Orderly(tree, Y, pos), Refiling(tree, tree', Y, pos)
    PROVE  List!Next
  <1>1. PICK n, d, v, q :
            /\ n \in Y \ {HEAD} /\ d \in Holds[n]
            /\ RangeGone(tree, v, Y, pos, pos[n], 1)
            /\ Gains(v, tree', Cut(Y, pos, pos[n], 1), CutPos(Y, pos, pos[n], 1), n, q, d)
    BY DEF Refiling
  <1>2. Listed = Shown(tree) /\ Listed' = Shown(tree')
    BY DEF Listed, Shown
  <1>3. /\ tree.inTree = Y \ {HEAD} /\ Len(Shown(tree)) = pos[HEAD] - 1 /\ ListsAs(Shown(tree), Y, pos)
        /\ pos[HEAD] \in Nat /\ pos \in [Y -> Nat] /\ Y \subseteq Cell
    BY ShownRuns, WholePlaces DEF Orderly, Standing
  <1> DEFINE c == pos[n]
  <1> DEFINE Z == Cut(Y, pos, c, 1)
  <1> DEFINE p == CutPos(Y, pos, c, 1)
  <1>4. /\ c \in 1 .. Len(Shown(tree)) /\ c \in Nat /\ Shown(tree)[c] = n /\ n \in Node
        /\ c + 1 <= pos[HEAD] /\ DOMAIN Shown(tree) = 1 .. Len(Shown(tree))
    BY <1>1, <1>3, InNode DEF ListsAs
  <1>5. RangeGone(tree, v, Y, pos, c, 1) /\ Gains(v, tree', Z, p, n, q, d)
    BY <1>1
  <1>6. Z = Y \ {n}
    BY <1>1, CutOne
  <1> HIDE DEF c
  <1>7. /\ Orderly(v, Z, p)
        /\ \A m \in Z \ {HEAD} : v.data[m] = tree.data[m]
    BY <1>5 DEF RangeGone
  <1> HIDE DEF Z, p
  <1>8. Shown(v) = SubSeq(Shown(tree), 1, c - 1) \o SubSeq(Shown(tree), c + 1, Len(Shown(tree)))
    <2>1. c \in Nat /\ 1 \in Nat /\ 1 <= c /\ c + 1 <= pos[HEAD]
      BY <1>4
    <2>2. RangeGone(tree, v, Y, pos, c, 1)
      BY <1>5
    <2> QED
      BY <2>1, <2>2, CutListIs
  <1> DEFINE D == Data(tree)
  <1>9. \A m \in Z \ {HEAD} : D[m] = v.data[m]
    BY <1>3, <1>6, <1>7 DEF Data
  <1>10. DOMAIN D = tree.inTree /\ D = [m \in tree.inTree |-> D[m]]
    BY DEF Data
  <1> HIDE DEF D
  <1>11. Shown(tree') = List!Filed(Shown(v), D, n, d)
    BY <1>4, <1>5, <1>7, <1>9, FiledIs
  <1>12. /\ tree'.data[n] = d /\ \A m \in Z \ {HEAD} : tree'.data[m] = v.data[m]
         /\ tree'.inTree = (Z \cup {n}) \ {HEAD}
    BY <1>5 DEF Gains, Orderly
  <1>13. tree'.inTree = tree.inTree
    BY <1>1, <1>3, <1>6, <1>12
  <1>14. Data(tree') = [D EXCEPT ![n] = d]
    <2>1. \A m \in tree.inTree : tree'.data[m] = IF m = n THEN d ELSE D[m]
      BY <1>3, <1>6, <1>9, <1>12
    <2>2. Data(tree') = [m \in tree.inTree |-> tree'.data[m]]
      BY <1>13 DEF Data
    <2> QED
      BY <1>10, <2>1, <2>2
  <1>15. Listed' = List!Filed(List!RemoveAt(Listed, c), D, n, d)
    BY <1>2, <1>8, <1>11 DEF List!RemoveAt
  <1>16. List!Change(n, d)
    BY <1>2, <1>4, <1>14, <1>15 DEF List!Change, D, Data
  <1> QED
    BY <1>1, <1>4, <1>16 DEF List!Next

(* bst.c's tree is a list in the order of its data: every call inserts,    *)
(* moves or takes out what the list's operation of that name does, and     *)
(* nothing else in the list moves.                                         *)
THEOREM TreeIsAList == Spec => ImplementsList
  <1>1. Init => List!Init
    <2> SUFFICES ASSUME Init PROVE List!Init
      OBVIOUS
    <2>1. tree = NoNodes /\ tree.inTree = {}
      BY DEF Init, NoNodes
    <2>2. Orderly(tree, {HEAD}, OnlyHead)
      BY <2>1, NoNodesAreBare, BareIs
    <2>3. ToSet(Listed) = {} /\ Len(Listed) \in Nat /\ ListsAs(Listed, {HEAD}, OnlyHead)
      BY <2>1, <2>2, ShownRuns DEF Listed, Shown
    <2>4. Listed = <<>>
      <3>1. Listed \in Seq({HEAD} \ {HEAD})
        BY <2>3 DEF ListsAs
      <3>2. \A i \in 1 .. Len(Listed) : Listed[i] \in {}
        BY <3>1
      <3> QED
        BY <2>3, <3>1, <3>2
    <2>5. [n \in tree.inTree |-> tree.data[n]] = <<>>
      BY <2>1
    <2> QED
      BY <2>4, <2>5 DEF List!Init
  <1>2. TreeInv /\ [Next]_tree => [List!Next]_(List!lvars)
    <2>1. ASSUME TreeInv, Next PROVE List!Next
      <3> DEFINE Y == tree.inTree \cup {HEAD}
      <3>1. PICK pos : Orderly(tree, Y, pos)
        BY <2>1 DEF TreeInv
      <3>2. Filing(tree, tree', Y, pos) \/ Cutting(tree, tree', Y, pos)
              \/ Refiling(tree, tree', Y, pos)
        BY <2>1, <3>1, StepIs
      <3> HIDE DEF Y
      <3> QED
        BY <3>1, <3>2, FilesInList, CutsInList, RefilesInList
    <2>2. ASSUME tree' = tree PROVE List!lvars' = List!lvars
      BY <2>2 DEF List!lvars, Listed
    <2> QED
      BY <2>1, <2>2
  <1> QED
    BY <1>1, <1>2, TreeStandsFirm, PTL DEF Spec, ImplementsList, List!Spec
=============================================================================
