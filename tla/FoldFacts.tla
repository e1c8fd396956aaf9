------------------------------ MODULE FoldFacts ------------------------------
(***************************************************************************)
(* What the folds of the community modules compute: they go through the    *)
(* indices in D, the one that Sel picks last, and whatever each step       *)
(* hands on holds at the end.  Step, Sel and Good are given by INSTANCE;   *)
(* the first argument stands for what they depend on.                      *)
(***************************************************************************)
EXTENDS Integers, FiniteSetTheorems, NumberFacts, TLAPS

CONSTANTS
    Step(_, _, _),  \* Step(a, t, i): what the fold makes of t at index i
    Sel(_, _),      \* Sel(a, D): the index in D that comes last
    Good(_, _, _)   \* Good(a, D, t): t may be what the indices D give

IsFold(a, s, D, g) ==
    g = [E \in SUBSET D |-> IF E = {} THEN s ELSE Step(a, g[E \ {Sel(a, E)}], Sel(a, E))]

Fold(a, s, D) == (CHOOSE g : IsFold(a, s, D, g))[D]

(* A fold up to sets of some size goes on to those with one element more.  *)
UpTo(D, k) == {E \in SUBSET D : Cardinality(E) <= k}

FoldsUpTo(a, s, D, k, g) ==
    g = [E \in UpTo(D, k) |-> IF E = {} THEN s ELSE Step(a, g[E \ {Sel(a, E)}], Sel(a, E))]

LEMMA Smaller ==
    ASSUME NEW D, IsFiniteSet(D), NEW a, NEW E \in SUBSET D, Sel(a, E) \in E
    PROVE  /\ Cardinality(E) \in Nat \ {0} /\ E \ {Sel(a, E)} \in SUBSET D
           /\ Cardinality(E \ {Sel(a, E)}) = Cardinality(E) - 1
  <1>1. IsFiniteSet(E)
    BY FS_Subset
  <1>2. Cardinality(E) \in Nat /\ Cardinality(E) # 0
    BY <1>1, FS_CardinalityType, FS_EmptySet
  <1> QED
    BY <1>1, <1>2, FS_RemoveElement

LEMMA FoldGoesOn ==
    ASSUME NEW D, IsFiniteSet(D), NEW a, NEW s,
           \A E \in SUBSET D : E # {} => Sel(a, E) \in E,
           NEW k \in Nat, NEW g, FoldsUpTo(a, s, D, k, g)
    PROVE  \E h : FoldsUpTo(a, s, D, k + 1, h)
  <1> DEFINE h == [E \in UpTo(D, k + 1) |->
                     IF E = {} THEN s ELSE Step(a, g[E \ {Sel(a, E)}], Sel(a, E))]
  <1>1. \A E \in UpTo(D, k + 1) : E # {} => E \ {Sel(a, E)} \in UpTo(D, k)
    BY Smaller DEF UpTo
  <1>2. \A E \in UpTo(D, k) : E \in UpTo(D, k + 1)
    BY FS_Subset, FS_CardinalityType DEF UpTo
  <1>3. \A E \in UpTo(D, k) : h[E] = g[E]
    BY <1>2 DEF FoldsUpTo
  <1>4. \A E \in UpTo(D, k + 1) :
            h[E] = IF E = {} THEN s ELSE Step(a, h[E \ {Sel(a, E)}], Sel(a, E))
    BY <1>1, <1>3
  <1>5. h = [E \in UpTo(D, k + 1) |->
               IF E = {} THEN s ELSE Step(a, h[E \ {Sel(a, E)}], Sel(a, E))]
    BY <1>4
  <1> QED
    BY <1>5 DEF FoldsUpTo

LEMMA FoldExists ==
    ASSUME NEW D, IsFiniteSet(D), NEW a, NEW s,
           \A E \in SUBSET D : E # {} => Sel(a, E) \in E
    PROVE  \E g : IsFold(a, s, D, g)
  <1> DEFINE Bad == {k \in Nat : ~\E g : FoldsUpTo(a, s, D, k, g)}
  <1>1. 0 \notin Bad
    <2> DEFINE g == [E \in UpTo(D, 0) |-> s]
    <2>1. \A E \in UpTo(D, 0) : E = {}
      BY FS_Subset, FS_EmptySet, FS_CardinalityType DEF UpTo
    <2>2. g = [E \in UpTo(D, 0) |->
                 IF E = {} THEN s ELSE Step(a, g[E \ {Sel(a, E)}], Sel(a, E))]
      BY <2>1
    <2> QED
      BY <2>2 DEF FoldsUpTo
  <1>2. Bad = {}
    <2> SUFFICES ASSUME Bad # {} PROVE FALSE
      OBVIOUS
    <2>1. PICK k \in Bad : \A j \in Bad : k <= j
      BY LeastNat
    <2>2. k - 1 \in Nat /\ k - 1 \notin Bad
      BY <1>1, <2>1
    <2>3. PICK g : FoldsUpTo(a, s, D, k - 1, g)
      BY <2>2
    <2>4. \E h : FoldsUpTo(a, s, D, k - 1 + 1, h)
      BY <2>2, <2>3, FoldGoesOn
    <2>5. k - 1 + 1 = k
      BY <2>1
    <2> QED
      BY <2>1, <2>4, <2>5
  <1>3. Cardinality(D) \in Nat
    BY FS_CardinalityType
  <1>4. PICK g : FoldsUpTo(a, s, D, Cardinality(D), g)
    BY <1>2, <1>3
  <1>5. UpTo(D, Cardinality(D)) = SUBSET D
    BY FS_Subset DEF UpTo
  <1> QED
    BY <1>4, <1>5 DEF FoldsUpTo, IsFold

(* What holds at the start and is handed on by each step holds at the end. *)
LEMMA FoldGood ==
    ASSUME NEW D, IsFiniteSet(D), NEW a, NEW s,
           \A E \in SUBSET D : E # {} => Sel(a, E) \in E,
           Good(a, {}, s),
           \A E \in SUBSET D : \A t :
               E # {} /\ Good(a, E \ {Sel(a, E)}, t) => Good(a, E, Step(a, t, Sel(a, E)))
    PROVE  Good(a, D, Fold(a, s, D))
  <1> DEFINE g == CHOOSE g : IsFold(a, s, D, g)
  <1>1. IsFold(a, s, D, g)
    BY FoldExists
  <1> HIDE DEF g
  <1>2. \A E \in SUBSET D :
            g[E] = IF E = {} THEN s ELSE Step(a, g[E \ {Sel(a, E)}], Sel(a, E))
    BY <1>1 DEF IsFold
  <1> DEFINE Bad == {k \in Nat : \E E \in SUBSET D : Cardinality(E) = k /\ ~Good(a, E, g[E])}
  <1>3. Bad = {}
    <2> SUFFICES ASSUME Bad # {} PROVE FALSE
      OBVIOUS
    <2>1. PICK k \in Bad : \A j \in Bad : k <= j
      BY LeastNat
    <2>2. PICK E \in SUBSET D : Cardinality(E) = k /\ ~Good(a, E, g[E])
      BY <2>1
    <2>3. E # {}
      BY <1>2, <2>2
    <2>4. /\ k - 1 \in Nat /\ Cardinality(E \ {Sel(a, E)}) = k - 1
          /\ E \ {Sel(a, E)} \in SUBSET D
      <3>1. Sel(a, E) \in E
        BY <2>3
      <3>2. /\ Cardinality(E) \in Nat \ {0} /\ E \ {Sel(a, E)} \in SUBSET D
            /\ Cardinality(E \ {Sel(a, E)}) = Cardinality(E) - 1
        BY <3>1, Smaller
      <3> QED
        BY <2>2, <3>2
    <2>5. k - 1 \notin Bad
      BY <2>1, <2>4
    <2>6. Good(a, E \ {Sel(a, E)}, g[E \ {Sel(a, E)}])
      BY <2>4, <2>5
    <2> QED
      BY <1>2, <2>2, <2>3, <2>6
  <1>4. Cardinality(D) \in Nat
    BY FS_CardinalityType
  <1> QED
    BY <1>3, <1>4 DEF Fold, g
-----------------------------------------------------------------------------
(* Loops: what N rounds make of s, the k-th of which is Step with k.       *)
IsLoop(a, s, N, g) == g = [k \in 0 .. N |-> IF k = 0 THEN s ELSE Step(a, g[k - 1], k)]

Loop(a, s, N) == (CHOOSE g : IsLoop(a, s, N, g))[N]

LEMMA LoopGoesOn ==
    ASSUME NEW a, NEW s, NEW N \in Nat, NEW g, IsLoop(a, s, N, g)
    PROVE  \E h : IsLoop(a, s, N + 1, h)
  <1> DEFINE h == [k \in 0 .. (N + 1) |-> IF k = 0 THEN s ELSE Step(a, g[k - 1], k)]
  <1>1. \A k \in 0 .. N : h[k] = g[k]
    BY DEF IsLoop
  <1>2. \A k \in 0 .. (N + 1) : h[k] = IF k = 0 THEN s ELSE Step(a, h[k - 1], k)
    <2> SUFFICES ASSUME NEW k \in 0 .. (N + 1), k # 0 PROVE h[k] = Step(a, h[k - 1], k)
      OBVIOUS
    <2>1. k - 1 \in 0 .. N
      OBVIOUS
    <2>2. h[k] = Step(a, g[k - 1], k)
      OBVIOUS
    <2> HIDE DEF h
    <2>3. h[k - 1] = g[k - 1]
      BY <1>1, <2>1
    <2> QED
      BY <2>2, <2>3
  <1>3. h = [k \in 0 .. (N + 1) |-> IF k = 0 THEN s ELSE Step(a, h[k - 1], k)]
    BY <1>2
  <1> QED
    BY <1>3 DEF IsLoop

LEMMA LoopExists ==
    ASSUME NEW a, NEW s, NEW N \in Nat
    PROVE  \E g : IsLoop(a, s, N, g)
  <1> DEFINE Bad == {k \in Nat : ~\E g : IsLoop(a, s, k, g)}
  <1>1. 0 \notin Bad
    <2> DEFINE g == [k \in 0 .. 0 |-> s]
    <2>1. g = [k \in 0 .. 0 |-> IF k = 0 THEN s ELSE Step(a, g[k - 1], k)]
      OBVIOUS
    <2> HIDE DEF g
    <2> QED
      BY <2>1 DEF IsLoop
  <1>2. Bad = {}
    <2> SUFFICES ASSUME Bad # {} PROVE FALSE
      OBVIOUS
    <2>1. PICK k \in Bad : \A j \in Bad : k <= j
      BY LeastNat
    <2>2. k - 1 \in Nat /\ k - 1 \notin Bad
      BY <1>1, <2>1
    <2>3. PICK g : IsLoop(a, s, k - 1, g)
      BY <2>2
    <2>4. \E h : IsLoop(a, s, k - 1 + 1, h)
      BY <2>2, <2>3, LoopGoesOn
    <2>5. k - 1 + 1 = k
      BY <2>1
    <2> QED
      BY <2>1, <2>4, <2>5
  <1> QED
    BY <1>2

(* What holds before a loop and is handed on by each round holds after it. *)
LEMMA LoopGood ==
    ASSUME NEW a, NEW s, NEW N \in Nat, Good(a, 0, s),
           \A k \in 1 .. N : \A t : Good(a, k - 1, t) => Good(a, k, Step(a, t, k))
    PROVE  Good(a, N, Loop(a, s, N))
  <1> DEFINE g == CHOOSE g : IsLoop(a, s, N, g)
  <1>1. IsLoop(a, s, N, g)
    BY LoopExists
  <1> HIDE DEF g
  <1>2. \A k \in 0 .. N : g[k] = IF k = 0 THEN s ELSE Step(a, g[k - 1], k)
    BY <1>1 DEF IsLoop
  <1> DEFINE Bad == {k \in 0 .. N : ~Good(a, k, g[k])}
  <1>3. Bad = {}
    <2> SUFFICES ASSUME Bad # {} PROVE FALSE
      OBVIOUS
    <2>1. PICK k \in Bad : \A j \in Bad : k <= j
      <3>1. Bad \in SUBSET Nat
        OBVIOUS
      <3> HIDE DEF Bad
      <3> QED
        BY <3>1, LeastNat
    <2>2. k \in 0 .. N /\ ~Good(a, k, g[k])
      BY <2>1
    <2>3. k # 0
      <3>1. g[0] = s
        BY <1>2
      <3> QED
        BY <2>2, <3>1
    <2>4. k - 1 \in 0 .. N /\ k - 1 \notin Bad
      BY <2>1, <2>2, <2>3
    <2>5. Good(a, k - 1, g[k - 1])
      BY <2>4
    <2>6. k \in 1 .. N /\ g[k] = Step(a, g[k - 1], k)
      BY <1>2, <2>2, <2>3
    <2> QED
      BY <2>2, <2>5, <2>6
  <1>4. Good(a, N, g[N])
    BY <1>3
  <1> QED
    BY <1>4 DEF Loop, g
=============================================================================
