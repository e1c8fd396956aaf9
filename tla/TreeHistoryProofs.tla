-------------------------- MODULE TreeHistoryProofs -------------------------
(***************************************************************************)
(* Proofs about TreeHistory, for any set of cells and keys: its inductive  *)
(* invariant, the safety invariants that follow from it, and that the      *)
(* persistent tree implements VersionedStore.                              *)
(***************************************************************************)
EXTENDS TreeHistory, TLAPS, WellFoundedInduction, SequenceTheorems,
        FiniteSetTheorems

-----------------------------------------------------------------------------
(* Lines of revisions.                                                     *)

LEMMA ParentFacts ==
    ASSUME NEW R \in Seq(Rev), ParentsOlder(R)
    PROVE  /\ DOMAIN R = 1 .. Len(R)
           /\ Len(R) \in Nat
           /\ \A r \in DOMAIN R : /\ R[r] \in Rev
                                  /\ R[r].parent \in Nat
                                  /\ r \in Nat \ {0}
           /\ \A r \in DOMAIN R : r # 1 => /\ R[r].parent \in DOMAIN R
                                           /\ R[r].parent < r
           /\ \A r \in DOMAIN R : R[r].parent = 0 <=> r = 1
  <1>1. /\ DOMAIN R = 1 .. Len(R)
        /\ Len(R) \in Nat
        /\ \A r \in DOMAIN R : R[r] \in Rev
    OBVIOUS
  <1>2. \A rev \in Rev : rev.parent \in Nat
    BY DEF Rev
  <1>3. \A r \in DOMAIN R : r # 1 => /\ R[r].parent \in DOMAIN R
                                     /\ R[r].parent < r
                                     /\ R[r].parent # 0
    BY <1>1 DEF ParentsOlder
  <1>4. \A r \in DOMAIN R : R[r].parent = 0 <=> r = 1
    BY <1>3 DEF ParentsOlder
  <1> QED
    BY <1>1, <1>2, <1>3, <1>4

LEMMA RevFacts ==
    ASSUME TypesH, RevTree
    PROVE  /\ revs \in Seq(Rev) /\ ParentsOlder(revs)
           /\ DOMAIN revs = 1 .. Len(revs)
           /\ DOMAIN snap = DOMAIN revs
           /\ Len(revs) \in Nat
           /\ \A r \in DOMAIN revs : revs[r] \in Rev /\ snap[r] \in Contents
           /\ \A r \in DOMAIN revs : r # 1 => revs[r].parent \in DOMAIN revs
           /\ tip # 0 <=> tip \in DOMAIN revs
           /\ at # 0 <=> at \in DOMAIN revs
  <1>1. /\ revs \in Seq(Rev) /\ snap \in Seq(Contents) /\ Len(snap) = Len(revs)
        /\ tip \in 0 .. Len(revs) /\ at \in 0 .. Len(revs)
    BY DEF TypesH, TypeOK
  <1>2. ParentsOlder(revs)
    BY DEF RevTree
  <1>3. /\ DOMAIN revs = 1 .. Len(revs)
        /\ DOMAIN snap = DOMAIN revs
        /\ Len(revs) \in Nat
        /\ \A r \in DOMAIN revs : revs[r] \in Rev /\ snap[r] \in Contents
    BY <1>1
  <1>4. revs # <<>> <=> Len(revs) # 0
    BY <1>1
  <1>5. tip # 0 <=> tip \in DOMAIN revs
    BY <1>1, <1>3, <1>4 DEF RevTree
  <1>6. at # 0 <=> at \in DOMAIN revs
    BY <1>1, <1>3, <1>4 DEF RevTree
  <1> QED
    BY <1>1, <1>2, <1>3, <1>5, <1>6, ParentFacts

LEMMA LineageSelf ==
    ASSUME NEW R, NEW r \in DOMAIN R
    PROVE  r \in Lineage(R, r)
  BY DEF Lineage

LEMMA LineageClosed ==
    ASSUME NEW R \in Seq(Rev), ParentsOlder(R), NEW r
    PROVE  ParentClosed(R, Lineage(R, r))
  <1> SUFFICES ASSUME NEW s \in Lineage(R, r), R[s].parent # 0
               PROVE  R[s].parent \in Lineage(R, r)
    BY DEF ParentClosed
  <1>1. s \in DOMAIN R /\ R[s].parent \in DOMAIN R
    BY ParentFacts DEF Lineage
  <1>2. ASSUME NEW S \in SUBSET DOMAIN R, r \in S, ParentClosed(R, S)
        PROVE  R[s].parent \in S
    <2>1. s \in S
      BY <1>2 DEF Lineage
    <2> QED
      BY <1>2, <2>1 DEF ParentClosed
  <1> QED
    BY <1>1, <1>2 DEF Lineage

LEMMA LineageStep ==
    ASSUME NEW R \in Seq(Rev), ParentsOlder(R), NEW r \in DOMAIN R, r # 1
    PROVE  /\ Lineage(R, r) = Lineage(R, R[r].parent) \cup {r}
           /\ r \notin Lineage(R, R[r].parent)
  <1> DEFINE p == R[r].parent
  <1>1. p \in DOMAIN R /\ p < r /\ r \in Nat /\ p \in Nat /\ p # 0
    BY ParentFacts
  <1>2. r \notin Lineage(R, p)
    <2> DEFINE S == DOMAIN R \ {s \in DOMAIN R : s >= r}
    <2>1. p \in S /\ S \in SUBSET DOMAIN R /\ r \notin S
      BY <1>1, ParentFacts
    <2>2. \A s \in S : R[s].parent # 0 => R[s].parent \in S
      BY <1>1, ParentFacts
    <2>3. ParentClosed(R, S)
      BY <2>2 DEF ParentClosed
    <2> QED
      BY <2>1, <2>3 DEF Lineage
  <1>3. Lineage(R, r) \subseteq Lineage(R, p) \cup {r}
    <2>1. ParentClosed(R, Lineage(R, p) \cup {r})
      BY LineageClosed, LineageSelf, <1>1 DEF ParentClosed
    <2>2. Lineage(R, p) \cup {r} \in SUBSET DOMAIN R
      BY DEF Lineage
    <2> QED
      BY <2>1, <2>2 DEF Lineage
  <1>4. Lineage(R, p) \subseteq Lineage(R, r)
    <2>1. ParentClosed(R, Lineage(R, r)) /\ Lineage(R, r) \in SUBSET DOMAIN R
      BY LineageClosed DEF Lineage
    <2>2. p \in Lineage(R, r)
      BY <2>1, <1>1, LineageSelf DEF ParentClosed
    <2> QED
      BY <2>1, <2>2 DEF Lineage
  <1> QED
    BY <1>2, <1>3, <1>4, LineageSelf

LEMMA LineageOfRoot ==
    ASSUME NEW R \in Seq(Rev), ParentsOlder(R), 1 \in DOMAIN R
    PROVE  Lineage(R, 1) = {1}
  <1>1. ParentClosed(R, {1})
    BY DEF ParentClosed, ParentsOlder
  <1> QED
    BY <1>1, LineageSelf DEF Lineage

(* Every line leads to the root: its least member has no parent.           *)
LEMMA RootInLineage ==
    ASSUME NEW R \in Seq(Rev), ParentsOlder(R), NEW r \in DOMAIN R
    PROVE  1 \in Lineage(R, r)
  <1>1. IsWellFoundedOn(OpToRel(<, Nat), Nat)
    BY NatLessThanWellFounded
  <1>2. Lineage(R, r) \subseteq Nat /\ Lineage(R, r) # {}
    BY LineageSelf, ParentFacts DEF Lineage
  <1>3. PICK x \in Lineage(R, r) :
            \A y \in Lineage(R, r) : ~(<<y, x>> \in OpToRel(<, Nat))
    BY <1>1, <1>2, WFMin
  <1>4. \A y \in Lineage(R, r) : ~(y < x)
    BY <1>2, <1>3 DEF OpToRel
  <1>5. x = 1
    <2> SUFFICES ASSUME x # 1 PROVE FALSE
      OBVIOUS
    <2>1. x \in DOMAIN R
      BY DEF Lineage
    <2>2. R[x].parent < x /\ R[x].parent # 0
      BY <2>1, ParentFacts
    <2>3. R[x].parent \in Lineage(R, r)
      BY <2>2, LineageClosed DEF ParentClosed
    <2> QED
      BY <2>2, <2>3, <1>4
  <1> QED
    BY <1>5

(* New revisions and toggles leave the lines of the old ones as they are.  *)
LEMMA LineageKept ==
    ASSUME NEW R \in Seq(Rev), ParentsOlder(R), NEW Q,
           DOMAIN R \subseteq DOMAIN Q,
           \A i \in DOMAIN R : Q[i].parent = R[i].parent,
           NEW r \in DOMAIN R
    PROVE  Lineage(Q, r) = Lineage(R, r)
  <1>1. Lineage(Q, r) \subseteq Lineage(R, r)
    <2>1. ParentClosed(R, Lineage(R, r)) /\ Lineage(R, r) \subseteq DOMAIN R
      BY LineageClosed DEF Lineage
    <2>2. ParentClosed(Q, Lineage(R, r))
      BY <2>1 DEF ParentClosed
    <2>3. Lineage(R, r) \in SUBSET DOMAIN Q /\ r \in Lineage(R, r)
      BY <2>1, LineageSelf
    <2> QED
      BY <2>2, <2>3 DEF Lineage
  <1>2. Lineage(R, r) \subseteq Lineage(Q, r)
    <2> SUFFICES ASSUME NEW s \in Lineage(R, r), NEW S \in SUBSET DOMAIN Q,
                        r \in S, ParentClosed(Q, S)
                 PROVE  s \in S
      BY DEF Lineage
    <2>1. ParentClosed(R, S \cap DOMAIN R)
      BY ParentFacts DEF ParentClosed
    <2> QED
      BY <2>1 DEF Lineage
  <1> QED
    BY <1>1, <1>2

(* The line of a revision holds the lines of all its members.              *)
LEMMA LineageWithin ==
    ASSUME NEW R \in Seq(Rev), ParentsOlder(R), NEW r, NEW s \in Lineage(R, r)
    PROVE  Lineage(R, s) \subseteq Lineage(R, r)
  <1>1. ParentClosed(R, Lineage(R, r)) /\ Lineage(R, r) \in SUBSET DOMAIN R
    BY LineageClosed DEF Lineage
  <1> QED
    BY <1>1 DEF Lineage

LEMMA LineageFinite ==
    ASSUME NEW R \in Seq(Rev), NEW r
    PROVE  IsFiniteSet(Lineage(R, r))
  <1>1. IsFiniteSet(DOMAIN R)
    <2>1. DOMAIN R = 1 .. Len(R) /\ Len(R) \in Int /\ 1 \in Int
      OBVIOUS
    <2> QED
      BY <2>1, FS_Interval
  <1>2. Lineage(R, r) \subseteq DOMAIN R
    BY DEF Lineage
  <1> QED
    BY <1>1, <1>2, FS_Subset

(* What level() counts: 0 at the root, one more than at the parent below.  *)
LEMMA DepthFacts ==
    ASSUME NEW R \in Seq(Rev), ParentsOlder(R), NEW r \in DOMAIN R
    PROVE  /\ Depth(R, r) \in Nat
           /\ r # 1 => Depth(R, r) = Depth(R, R[r].parent) + 1
           /\ Depth(R, r) = 0 <=> r = 1
  <1>1. ASSUME NEW q \in DOMAIN R PROVE Depth(R, q) \in Nat
    <2>1. IsFiniteSet(Lineage(R, q)) /\ Lineage(R, q) # {}
      BY LineageFinite, LineageSelf
    <2>2. Cardinality(Lineage(R, q)) \in Nat /\ Cardinality(Lineage(R, q)) # 0
      BY <2>1, FS_CardinalityType, FS_EmptySet
    <2> QED
      BY <2>2 DEF Depth
  <1>2. CASE r = 1
    <2>1. Lineage(R, r) = {1}
      BY <1>2, LineageOfRoot
    <2>2. Cardinality(Lineage(R, r)) = 1
      BY <2>1, FS_Singleton
    <2> QED
      BY <1>2, <2>2 DEF Depth
  <1>3. CASE r # 1
    <2> DEFINE p == R[r].parent
    <2>1. p \in DOMAIN R
      BY <1>3, ParentFacts
    <2>2. /\ Lineage(R, r) = Lineage(R, p) \cup {r}
          /\ r \notin Lineage(R, p)
      BY <1>3, LineageStep
    <2>3. Cardinality(Lineage(R, r)) = Cardinality(Lineage(R, p)) + 1
      BY <2>2, LineageFinite, FS_AddElement
    <2>4. Depth(R, r) = Depth(R, p) + 1
      <3>1. Cardinality(Lineage(R, p)) \in Nat
        BY LineageFinite, FS_CardinalityType
      <3> QED
        BY <2>3, <3>1 DEF Depth
    <2> QED
      BY <1>1, <1>3, <2>1, <2>4
  <1> QED
    BY <1>1, <1>2, <1>3

(* Of two revisions of one line the one that is less deep is an ancestor.  *)
LEMMA LineageDepth ==
    ASSUME NEW R \in Seq(Rev), ParentsOlder(R), NEW r \in DOMAIN R,
           NEW s \in Lineage(R, r)
    PROVE  /\ s \in DOMAIN R /\ Depth(R, s) <= Depth(R, r)
           /\ Depth(R, s) = Depth(R, r) => s = r
           /\ s # r => /\ r # 1 /\ R[r].parent \in DOMAIN R
                       /\ s \in Lineage(R, R[r].parent)
  <1>1. s \in DOMAIN R
    BY DEF Lineage
  <1>2. CASE s = r
    BY <1>1, <1>2, DepthFacts
  <1>3. CASE s # r
    <2> DEFINE p == R[r].parent
    <2>1. r # 1
      BY <1>3, LineageOfRoot
    <2>2. p \in DOMAIN R /\ s \in Lineage(R, p)
      BY <1>3, <2>1, ParentFacts, LineageStep
    <2>3. Lineage(R, s) \subseteq Lineage(R, p)
      BY <2>2, LineageWithin
    <2>4. Cardinality(Lineage(R, s)) <= Cardinality(Lineage(R, p))
      BY <2>3, LineageFinite, FS_Subset
    <2>5. Depth(R, s) <= Depth(R, p)
      <3>1. /\ Cardinality(Lineage(R, s)) \in Nat
            /\ Cardinality(Lineage(R, p)) \in Nat
        BY LineageFinite, FS_CardinalityType
      <3> QED
        BY <2>4, <3>1 DEF Depth
    <2>6. /\ Depth(R, r) = Depth(R, p) + 1
          /\ Depth(R, s) \in Nat /\ Depth(R, p) \in Nat
      BY <1>1, <2>1, <2>2, DepthFacts
    <2> HIDE DEF p
    <2> QED
      BY <1>1, <1>3, <2>1, <2>2, <2>5, <2>6 DEF p
  <1> QED
    BY <1>2, <1>3

-----------------------------------------------------------------------------
(* What the calls between two updates leave alone.                         *)

LEMMA IdleCall ==
    ASSUME Idle', down' = <<>>, Len(revs') \in Nat
    PROVE  CallOK'
  <1>1. NoCall \in Calls /\ NoCall.to = 0 /\ NoCall.loop = "none"
    BY DEF NoCall, Calls, Loops
  <1> QED
    BY <1>1 DEF CallOK, Idle

LEMMA CallKept ==
    ASSUME TypesH, UNCHANGED <<revs, down, call>>
    PROVE  CallOK'
  BY DEF TypesH, TypeOK, CallOK, Idle

LEMMA InitInv == InitH => IInv
  <1> SUFFICES ASSUME InitH PROVE IInv
    OBVIOUS
  <1> USE DEF InitH, Init
  <1>1. TypesH
    <2>1. NoCall \in Calls /\ NoCall.to = 0 /\ NoCall.loop = "none"
      BY DEF NoCall, Calls, Loops
    <2>2. CallOK
      BY <2>1 DEF CallOK, Idle
    <2> QED
      BY <2>2 DEF TypesH, TypeOK, NoData, NoBackup, Nothing, Contents
  <1>2. RevTree
    BY DEF RevTree, ParentsOlder
  <1>3. Records
    BY DEF Records
  <1>4. OneOwner
    <2>1. Backups = {} /\ SaveRing = {} /\ Lost = {}
      BY DEF Backups, SaveRing, NoBackup, Lost
    <2> QED
      BY <2>1 DEF OneOwner
  <1>5. CellsKnown
    BY DEF CellsKnown
  <1>6. Idle /\ Working
    BY DEF Idle, Working, NoWork
  <1> QED
    BY <1>1, <1>2, <1>3, <1>4, <1>5, <1>6 DEF IInv

LEMMA HistoryKept ==
    ASSUME TypesH, RevTree, Records, UNCHANGED <<revs, tip, at, snap>>
    PROVE  RevTree' /\ Records'
  <1>1. RevTree'
    BY DEF RevTree
  <1>2. Records'
    BY DEF Records
  <1> QED
    BY <1>1, <1>2

LEMMA SaveRingMembers ==
    ASSUME TypesH
    PROVE  /\ SaveRing \subseteq Node
           /\ \A n \in Backups : n \in Node /\ backup[n] \in SaveRing
           /\ \A b \in SaveRing : \E n \in Backups : backup[n] = b
           /\ \A n \in Node : n \notin Backups <=> backup[n] = NULL
  BY DEF SaveRing, Backups, TypesH, TypeOK

(* In the working set, a cell is known to revision tip only if it is       *)
(* linked or waits in the list of erased nodes.                            *)
LEMMA KnownWhere ==
    ASSUME TypesH, OneOwner, Working, tip # 0, NEW n \in Node,
           snap[tip][n] # NULL
    PROVE  /\ n \in inTree \cup erasedList
           /\ n \notin freeList /\ n \notin fresh /\ n \notin SaveRing
           /\ n \notin inserted
  <1>1. n \in inTree \cup erasedList
    BY DEF Working
  <1>2. n \notin freeList /\ n \notin fresh /\ n \notin SaveRing
    BY <1>1 DEF OneOwner
  <1>3. n \notin inserted
    BY DEF Working
  <1> QED
    BY <1>1, <1>2, <1>3

LEMMA InsertInv ==
    ASSUME IInv, NEW d \in Data, Insert(d), UNCHANGED histVars
    PROVE  IInv'
  <1>1. PICK n \in Allocatable :
            /\ data' = [data EXCEPT ![n] = d]
            /\ filed' = [filed EXCEPT ![n] = d]
            /\ inTree' = inTree \cup {n}
            /\ freeList' = freeList \ {n}
            /\ fresh' = fresh \ {n}
            /\ \/ /\ tip # 0
                  /\ n \notin inserted
                  /\ insertedList' = insertedList \cup {n}
                  /\ inserted' = inserted \cup {n}
               \/ /\ tip = 0 \/ n \in inserted
                  /\ UNCHANGED <<insertedList, inserted>>
    BY DEF Insert
  <1>2. /\ Idle /\ Idle'
        /\ UNCHANGED <<saved, erasedList, backup, orphans, revs, tip, at, down, call,
                       wasInTree, snap, before>>
    BY DEF Insert, Idle, histVars
  <1>3. TypesH /\ RevTree /\ Records /\ OneOwner /\ CellsKnown /\ Working
    BY <1>2 DEF IInv
  <1>4. n \in Node /\ n \notin inTree /\ n \notin erasedList /\ n \notin SaveRing
        /\ n \notin Lost /\ (n \in freeList \/ n \in fresh)
    BY <1>3 DEF Allocatable, OneOwner, TypesH, TypeOK
  <1>5. d # NULL
    BY NullAssumption
  <1>6. TypesH'
    <2>1. CallOK'
      BY <1>2, <1>3, CallKept
    <2> QED
      BY <1>1, <1>2, <1>3, <1>4, <2>1 DEF TypesH, TypeOK, Contents
  <1>7. RevTree' /\ Records'
    BY <1>2, <1>3, HistoryKept
  <1>8. SaveRing' = SaveRing /\ Backups' = Backups /\ Lost' = Lost
    BY <1>2 DEF SaveRing, Backups, Lost
  <1>9. OneOwner'
    BY <1>1, <1>2, <1>3, <1>4, <1>8 DEF OneOwner
  <1>10. CellsKnown'
    BY <1>1, <1>2, <1>3, <1>4, <1>5 DEF CellsKnown, TypesH, TypeOK
  <1>11. Working'
    <2>1. CASE tip = 0
      BY <2>1, <1>1, <1>2, <1>3 DEF Working, NoWork
    <2>2. CASE tip # 0
      <3>1. snap[tip][n] = NULL
        BY <2>2, <1>3, <1>4, KnownWhere
      <3>2. \A m \in saved : m # n /\ backup[m] # n /\ m \in Node
        BY <2>2, <1>3, <1>4, <3>1, SaveRingMembers DEF Working
      <3>3. insertedList' = insertedList \cup {n} /\ inserted' = insertedList'
        BY <2>2, <1>1, <1>3 DEF Working
      <3>4. \A m \in Node : snap[tip][m] # NULL =>
                snap[tip][m] = IF m \in saved THEN data'[backup[m]] ELSE data'[m]
        BY <2>2, <1>1, <1>2, <1>3, <3>1, <3>2, SaveRingMembers
           DEF Working, TypesH, TypeOK
      <3> QED
        BY <2>2, <1>1, <1>2, <1>3, <1>8, <3>1, <3>3, <3>4 DEF Working
    <2> QED
      BY <2>1, <2>2
  <1> QED
    BY <1>2, <1>6, <1>7, <1>9, <1>10, <1>11 DEF IInv

LEMMA DiscardInv ==
    ASSUME IInv, NEW E \in SUBSET inTree, Discard(E), UNCHANGED histVars
    PROVE  IInv'
  <1>1. /\ Idle /\ Idle'
        /\ inTree' = inTree \ E
        /\ filed' = [n \in Node |-> IF n \in E THEN NULL ELSE filed[n]]
        /\ data' = [n \in Node |-> IF n \in FreedCells(E) THEN NULL ELSE data[n]]
        /\ fresh' = fresh \cup FreedCells(E)
        /\ freeList' = freeList \cup GivenBack(E)
        /\ erasedList' = erasedList \cup KeptErased(E)
        /\ UNCHANGED <<inserted, saved, insertedList, backup, orphans, revs,
                       tip, at, down, call, wasInTree, snap, before>>
    BY DEF Discard, Idle, histVars
  <1>2. TypesH /\ RevTree /\ Records /\ OneOwner /\ CellsKnown /\ Working
    BY <1>1 DEF IInv
  <1>3. inTree \subseteq Node
    BY <1>2 DEF TypesH, TypeOK
  <1>4. SaveRing' = SaveRing /\ Backups' = Backups /\ Lost' = Lost
    BY <1>1 DEF SaveRing, Backups, Lost
  <1>5. RevTree' /\ Records'
    BY <1>1, <1>2, HistoryKept
  <1>6. CASE tip = 0
    <2>1. FreedCells(E) = E /\ GivenBack(E) = {} /\ KeptErased(E) = {}
      BY <1>6 DEF FreedCells, GivenBack, KeptErased
    <2>2. TypesH'
      <3>1. CallOK'
        BY <1>1, <1>2, CallKept
      <3> QED
        BY <1>1, <1>2, <1>3, <2>1, <3>1 DEF TypesH, TypeOK
    <2>3. OneOwner'
      BY <1>1, <1>2, <1>3, <1>4, <2>1 DEF OneOwner
    <2>4. CellsKnown'
      <3>1. DOMAIN snap = {}
        BY <1>2, <1>6, RevFacts DEF RevTree
      <3> QED
        BY <1>1, <1>2, <1>3, <2>1, <3>1 DEF CellsKnown
    <2>5. Working'
      BY <1>1, <1>2, <1>6, <2>1 DEF Working, NoWork
    <2> QED
      BY <1>1, <1>5, <2>2, <2>3, <2>4, <2>5 DEF IInv
  <1>7. CASE tip # 0
    <2>1. /\ FreedCells(E) = {} /\ GivenBack(E) = E \cap inserted
          /\ KeptErased(E) = E \ inserted
      BY <1>7 DEF FreedCells, GivenBack, KeptErased
    <2>2. data' = data /\ fresh' = fresh
      BY <1>1, <1>2, <2>1 DEF TypesH, TypeOK
    <2>3. TypesH'
      <3>1. CallOK'
        BY <1>1, <1>2, CallKept
      <3> QED
        BY <1>1, <1>2, <1>3, <2>1, <2>2, <3>1 DEF TypesH, TypeOK
    <2>4. OneOwner'
      BY <1>1, <1>2, <1>3, <1>4, <2>1, <2>2 DEF OneOwner
    <2>5. CellsKnown'
      BY <1>1, <1>2, <2>2 DEF CellsKnown
    <2>6. \A n \in E : n \in inserted <=> snap[tip][n] = NULL
      BY <1>2, <1>7 DEF Working
    <2>7. erasedList' = {n \in Node : snap'[tip'][n] # NULL /\ n \notin inTree'}
      BY <1>1, <1>2, <1>3, <1>7, <2>1, <2>6 DEF Working
    <2>8. Working'
      BY <1>1, <1>2, <1>4, <1>7, <2>2, <2>7 DEF Working
    <2> QED
      BY <1>1, <1>5, <2>3, <2>4, <2>5, <2>8 DEF IInv
  <1> QED
    BY <1>6, <1>7

LEMMA ChangeSavingInv ==
    ASSUME IInv, NEW n \in Node, NEW d \in Data, ChangeSaving(n, d),
           UNCHANGED histVars
    PROVE  IInv'
  <1>1. PICK b \in Allocatable :
            /\ data' = [data EXCEPT ![b] = data[n], ![n] = d]
            /\ backup' = [backup EXCEPT ![n] = b]
            /\ freeList' = freeList \ {b}
            /\ fresh' = fresh \ {b}
    BY DEF ChangeSaving
  <1>2. /\ Idle /\ Idle' /\ n \in inTree
        /\ n \notin inserted /\ n \notin saved /\ tip # 0
        /\ saved' = saved \cup {n}
        /\ filed' = [filed EXCEPT ![n] = d]
        /\ UNCHANGED <<inTree, inserted, wasInTree, insertedList, erasedList,
                       orphans, revs, tip, at, down, call, snap, before>>
    BY DEF ChangeSaving, NeedsBackup, Idle, histVars
  <1>3. TypesH /\ RevTree /\ Records /\ OneOwner /\ CellsKnown /\ Working
    BY <1>2 DEF IInv
  <1>4. b \in Node /\ b \notin inTree /\ b \notin erasedList /\ b \notin SaveRing
        /\ b \notin Lost /\ (b \in freeList \/ b \in fresh) /\ b # n
    BY <1>2, <1>3 DEF Allocatable, OneOwner, TypesH, TypeOK
  <1>5. b # NULL /\ d # NULL
    BY <1>4, NullAssumption
  <1>6. /\ data \in [Node -> Data \cup {NULL}]
        /\ backup \in [Node -> Node \cup {NULL}]
        /\ backup[n] = NULL
    BY <1>2, <1>3 DEF TypesH, TypeOK, Working, Backups
  <1>7. TypesH'
    <2>1. CallOK'
      BY <1>2, <1>3, CallKept
    <2> QED
      BY <1>1, <1>2, <1>3, <1>4, <2>1 DEF TypesH, TypeOK
  <1>8. RevTree' /\ Records'
    BY <1>2, <1>3, HistoryKept
  <1>9. /\ Backups' = Backups \cup {n}
        /\ SaveRing' = SaveRing \cup {b}
        /\ Lost' = Lost
    <2>1. Backups' = Backups \cup {n}
      BY <1>1, <1>5, <1>6 DEF Backups
    <2>2. SaveRing' = SaveRing \cup {b}
      BY <1>1, <1>5, <1>6 DEF SaveRing
    <2> QED
      BY <1>2, <2>1, <2>2 DEF Lost
  <1>10. OneOwner'
    <2>1. \A m, k \in Backups' : backup'[m] = backup'[k] => m = k
      BY <1>1, <1>3, <1>4, <1>6, <1>9, SaveRingMembers DEF OneOwner
    <2> QED
      BY <1>1, <1>2, <1>3, <1>4, <1>9, <2>1 DEF OneOwner
  <1>11. CellsKnown'
    <2>1. ASSUME NEW m \in inTree PROVE data'[m] # NULL
      <3>1. m \in Node /\ m # b /\ data[m] # NULL
        BY <1>3, <1>4 DEF CellsKnown, TypesH, TypeOK
      <3>2. data'[m] = IF m = n THEN d ELSE data[m]
        BY <1>1, <1>6, <3>1
      <3> QED
        BY <1>5, <3>1, <3>2
    <2> QED
      BY <1>1, <1>2, <1>3, <2>1 DEF CellsKnown
  <1>12. Working'
    <2>1. snap[tip][n] # NULL
      BY <1>2, <1>3 DEF Working
    <2>2. snap[tip][b] = NULL
      BY <1>2, <1>3, <1>4, KnownWhere
    <2>3. \A m \in saved : m \in Node /\ m # b /\ m # n /\ backup[m] # b
                             /\ backup[m] # n /\ backup[m] \in Node
      BY <1>2, <1>3, <1>4, <2>2, SaveRingMembers DEF Working, OneOwner
    <2>4. snap[tip][n] = data[n]
      BY <1>2, <1>3, <2>1 DEF Working
    <2>5. \A m \in Node : snap[tip][m] # NULL =>
              snap[tip][m] = IF m \in saved' THEN data'[backup'[m]] ELSE data'[m]
      <3> SUFFICES ASSUME NEW m \in Node, snap[tip][m] # NULL
                   PROVE  snap[tip][m] = IF m \in saved' THEN data'[backup'[m]]
                                                       ELSE data'[m]
        OBVIOUS
      <3>1. CASE m = n
        BY <3>1, <1>1, <1>2, <1>4, <1>6, <2>4
      <3>2. CASE m # n /\ m \in saved
        BY <3>2, <1>1, <1>2, <1>3, <1>6, <2>3 DEF Working
      <3>3. CASE m # n /\ m \notin saved
        BY <3>3, <1>1, <1>2, <1>3, <1>6, <2>2 DEF Working
      <3> QED
        BY <3>1, <3>2, <3>3
    <2> QED
      BY <1>1, <1>2, <1>3, <1>9, <2>1, <2>5 DEF Working
  <1> QED
    BY <1>2, <1>7, <1>8, <1>10, <1>11, <1>12 DEF IInv

LEMMA ChangeInPlaceInv ==
    ASSUME IInv, NEW n \in Node, NEW d \in Data, ChangeInPlace(n, d),
           UNCHANGED histVars
    PROVE  IInv'
  <1>1. /\ Idle /\ Idle' /\ n \in inTree
        /\ n \in inserted \/ n \in saved \/ tip = 0
        /\ data' = [data EXCEPT ![n] = d]
        /\ filed' = [filed EXCEPT ![n] = d]
        /\ UNCHANGED <<inTree, inserted, saved, wasInTree, insertedList,
                       erasedList, freeList, backup, orphans, fresh, revs, tip,
                       at, down, call, snap, before>>
    BY DEF ChangeInPlace, NeedsBackup, Idle, histVars
  <1>2. TypesH /\ RevTree /\ Records /\ OneOwner /\ CellsKnown /\ Working
    BY <1>1 DEF IInv
  <1>3. TypesH'
    <2>1. CallOK'
      BY <1>1, <1>2, CallKept
    <2> QED
      BY <1>1, <1>2, <2>1 DEF TypesH, TypeOK
  <1>4. RevTree' /\ Records'
    BY <1>1, <1>2, HistoryKept
  <1>5. SaveRing' = SaveRing /\ Backups' = Backups /\ Lost' = Lost
    BY <1>1 DEF SaveRing, Backups, Lost
  <1>6. OneOwner'
    BY <1>1, <1>2, <1>5 DEF OneOwner
  <1>7. CellsKnown'
    BY <1>1, <1>2, NullAssumption DEF CellsKnown, TypesH, TypeOK
  <1>8. Working'
    <2>1. CASE tip = 0
      BY <2>1, <1>1, <1>2 DEF Working, NoWork
    <2>2. CASE tip # 0
      <3>1. \A m \in saved : backup[m] # n /\ m \in Node
        BY <2>2, <1>1, <1>2, SaveRingMembers DEF Working, OneOwner
      <3>2. \A m \in Node : snap[tip][m] # NULL =>
                snap[tip][m] = IF m \in saved THEN data'[backup[m]] ELSE data'[m]
        <4> SUFFICES ASSUME NEW m \in Node, snap[tip][m] # NULL
                     PROVE  snap[tip][m] = IF m \in saved THEN data'[backup[m]]
                                                        ELSE data'[m]
          OBVIOUS
        <4>1. CASE m \in saved
          BY <4>1, <2>2, <1>1, <1>2, <3>1 DEF Working, TypesH, TypeOK
        <4>2. CASE m \notin saved
          <5>1. m # n
            BY <4>2, <2>2, <1>1, <1>2 DEF Working
          <5> QED
            BY <4>2, <5>1, <2>2, <1>1, <1>2 DEF Working, TypesH, TypeOK
        <4> QED
          BY <4>1, <4>2
      <3> QED
        BY <2>2, <1>1, <1>2, <1>5, <3>2 DEF Working
    <2> QED
      BY <2>1, <2>2
  <1> QED
    BY <1>1, <1>3, <1>4, <1>6, <1>7, <1>8 DEF IInv

LEMMA RefileInv ==
    ASSUME IInv, NEW n \in Node, Refile(n), UNCHANGED histVars
    PROVE  IInv'
  <1>1. /\ Idle /\ Idle'
        /\ filed' = [filed EXCEPT ![n] = data[n]]
        /\ UNCHANGED <<data, inTree, inserted, saved, wasInTree, insertedList,
                       erasedList, freeList, backup, orphans, fresh, revs, tip,
                       at, down, call, snap, before>>
    BY DEF Refile, Idle, histVars
  <1>2. TypesH /\ RevTree /\ Records /\ OneOwner /\ CellsKnown /\ Working
    BY <1>1 DEF IInv
  <1>3. TypesH'
    <2>1. CallOK'
      BY <1>1, <1>2, CallKept
    <2> QED
      BY <1>1, <1>2, <2>1 DEF TypesH, TypeOK
  <1>4. RevTree' /\ Records'
    BY <1>1, <1>2, HistoryKept
  <1>5. OneOwner' /\ CellsKnown' /\ Working'
    <2>1. SaveRing' = SaveRing /\ Backups' = Backups /\ Lost' = Lost
      BY <1>1 DEF SaveRing, Backups, Lost
    <2> QED
      BY <1>1, <1>2, <2>1 DEF OneOwner, CellsKnown, Working, NoWork
  <1> QED
    BY <1>1, <1>3, <1>4, <1>5 DEF IInv

-----------------------------------------------------------------------------
(* Commits.                                                                *)

LEMMA RevOf ==
    ASSUME NEW p \in Nat, NEW I \in SUBSET Node, NEW E \in SUBSET Node,
           NEW C \in SUBSET Node, NEW d \in [Node -> Data \cup {NULL}],
           NEW o \in [Node -> Data \cup {NULL}]
    PROVE  NewRev(p, I, E, C, d, o) \in Rev
  <1>1. /\ DataOf(E, d) \in [Node -> Data \cup {NULL}]
        /\ DataOf(C, o) \in [Node -> Data \cup {NULL}]
        /\ NoData \in [Node -> Data \cup {NULL}]
    BY DEF DataOf, NoData
  <1> QED
    BY <1>1 DEF NewRev, Rev

LEMMA ContentType ==
    ASSUME TypesH
    PROVE  Content \in Contents
  BY DEF TypesH, TypeOK, Content, Contents

LEMMA FirstCommitInv ==
    ASSUME IInv, FirstCommitH
    PROVE  IInv'
  <1> DEFINE rev == NewRev(0, {}, {}, {}, data, data)
  <1>1. /\ Idle /\ Idle' /\ tip = 0
        /\ revs' = <<rev>> /\ tip' = 1 /\ at' = 1 /\ snap' = <<Content>>
        /\ UNCHANGED <<data, filed, inTree, inserted, saved, wasInTree,
                       insertedList, erasedList, freeList, backup, orphans,
                       fresh, down, call, before>>
    BY DEF FirstCommitH, FirstCommit, Idle
  <1>2. TypesH /\ RevTree /\ Records /\ OneOwner /\ CellsKnown /\ Working
    BY <1>1 DEF IInv
  <1>3. rev \in Rev /\ rev.parent = 0
    BY <1>2, RevOf DEF NewRev, TypesH, TypeOK
  <1>4. Content \in Contents
    BY <1>2, ContentType
  <1>5. revs' \in Seq(Rev) /\ Len(revs') = 1 /\ revs'[1] = rev /\ revs' # <<>>
    BY <1>1, <1>3
  <1>6. snap' \in Seq(Contents) /\ Len(snap') = 1 /\ snap'[1] = Content
    BY <1>1, <1>4
  <1>7. down' = <<>> /\ Len(revs') \in Nat
    BY <1>1, <1>2, <1>5 DEF Working
  <1>8. TypesH'
    <2>1. CallOK'
      BY <1>1, <1>5, <1>7, IdleCall
    <2> QED
      BY <1>1, <1>2, <1>5, <1>6, <1>7, <2>1 DEF TypesH, TypeOK, Contents
  <1>9. RevTree'
    BY <1>1, <1>3, <1>5 DEF RevTree, ParentsOlder
  <1>10. Records'
    BY <1>5 DEF Records
  <1>11. SaveRing' = SaveRing /\ Backups' = Backups /\ Lost' = Lost
    BY <1>1 DEF SaveRing, Backups, Lost
  <1>12. OneOwner'
    BY <1>1, <1>2, <1>11 DEF OneOwner
  <1>13. \A n \in Node : Content[n] # NULL <=> n \in inTree
    BY <1>2 DEF Content, CellsKnown
  <1>14. CellsKnown'
    BY <1>1, <1>2, <1>6, <1>13 DEF CellsKnown, OneOwner
  <1>15. NoWork /\ Backups = {}
    BY <1>1, <1>2 DEF Working, NoWork, Backups, NoBackup
  <1>16. Working'
    <2>1. inserted = {} /\ insertedList = {} /\ erasedList = {} /\ saved = {}
      BY <1>2, <1>15 DEF Working, NoWork
    <2>2. \A n \in Node : Content[n] # NULL => Content[n] = data[n]
      BY DEF Content
    <2>3. inTree \subseteq Node
      BY <1>2 DEF TypesH, TypeOK
    <2> QED
      BY <1>1, <1>2, <1>6, <1>11, <1>13, <1>15, <2>1, <2>2, <2>3 DEF Working
  <1> QED
    BY <1>1, <1>8, <1>9, <1>10, <1>12, <1>14, <1>16 DEF IInv

LEMMA OrphanedLost == UNION Orphaned(SaveRing) = Lost \cup SaveRing
  BY DEF Orphaned, Lost

(* What a commit finds in the lists, told from the current revision.       *)
LEMMA CommitFinds ==
    ASSUME TypesH, RevTree, OneOwner, CellsKnown, Working, tip # 0
    PROVE  /\ ErasedNow = erasedList
           /\ StillSaved = saved
           /\ ChangedNow = saved \cap inTree
           /\ RestoredNow = saved \ inTree
           /\ saved \subseteq Node
           /\ InsertedNow = {n \in Node : Content[n] # NULL /\ snap[tip][n] = NULL}
           /\ erasedList = {n \in Node : Content[n] = NULL /\ snap[tip][n] # NULL}
           /\ \A n \in erasedList : DataRestored(RestoredNow)[n] = snap[tip][n]
           /\ \A n \in inTree : DataRestored(RestoredNow)[n] = data[n]
           /\ \A n \in ChangedNow : DataRestored(ChangedNow)[n] = snap[tip][n]
           /\ DataRestored(RestoredNow) \in [Node -> Data \cup {NULL}]
           /\ DataRestored(ChangedNow) \in [Node -> Data \cup {NULL}]
  <1>1. /\ inTree \subseteq Node /\ erasedList \subseteq Node
        /\ insertedList \subseteq Node /\ saved \subseteq Node
        /\ data \in [Node -> Data \cup {NULL}]
        /\ backup \in [Node -> Node \cup {NULL}]
    BY DEF TypesH, TypeOK
  <1>2. erasedList \cap inTree = {}
    BY DEF Working
  <1>3. insertedList \cap saved = {}
    BY DEF Working
  <1>4. ErasedNow = erasedList /\ StillSaved = saved
    BY <1>2, <1>3 DEF ErasedNow, StillSaved, InsertedNow
  <1>5. \A n \in saved : backup[n] # NULL
    BY DEF Working, Backups
  <1>6. ChangedNow = saved \cap inTree /\ RestoredNow = saved \ inTree
    BY <1>1, <1>4, <1>5 DEF ChangedNow, RestoredNow
  <1>7. \A n \in Node : Content[n] # NULL <=> n \in inTree
    BY DEF Content, CellsKnown
  <1>8. InsertedNow = {n \in Node : Content[n] # NULL /\ snap[tip][n] = NULL}
    BY <1>1, <1>7 DEF InsertedNow, Working
  <1>9. erasedList = {n \in Node : Content[n] = NULL /\ snap[tip][n] # NULL}
    BY <1>7 DEF Working
  <1>10. \A n \in saved : data[backup[n]] \in Data \cup {NULL}
    BY <1>1, <1>5
  <1>11. \A S \in SUBSET saved :
           /\ DataRestored(S) \in [Node -> Data \cup {NULL}]
           /\ \A n \in Node : DataRestored(S)[n] =
                                 IF n \in S THEN data[backup[n]] ELSE data[n]
    BY <1>1, <1>10 DEF DataRestored
  <1>12. /\ ChangedNow \in SUBSET saved /\ RestoredNow \in SUBSET saved
    BY <1>6
  <1>13. \A n \in erasedList : DataRestored(RestoredNow)[n] = snap[tip][n]
    BY <1>1, <1>2, <1>6, <1>11, <1>12 DEF Working
  <1>14. \A n \in inTree : DataRestored(RestoredNow)[n] = data[n]
    BY <1>1, <1>6, <1>11, <1>12
  <1>15. \A n \in ChangedNow : DataRestored(ChangedNow)[n] = snap[tip][n]
    BY <1>1, <1>6, <1>11, <1>12 DEF Working
  <1> QED
    BY <1>1, <1>4, <1>6, <1>8, <1>9, <1>11, <1>12, <1>13, <1>14, <1>15

(* The record a commit makes leads back to the revision before it.         *)
LEMMA CommittedLeadsBack ==
    ASSUME TypesH, RevTree, OneOwner, CellsKnown, Working, tip # 0
    PROVE  LET rev == NewRev(tip, InsertedNow, ErasedNow, ChangedNow,
                             DataRestored(RestoredNow), DataRestored(ChangedNow))
           IN  rev \in Rev /\ rev.parent = tip /\ LeadsBack(rev, Content, snap[tip])
  <1> DEFINE rev == NewRev(tip, InsertedNow, ErasedNow, ChangedNow,
                           DataRestored(RestoredNow), DataRestored(ChangedNow))
  <1>1. /\ InsertedNow \in SUBSET Node /\ ErasedNow \in SUBSET Node
        /\ ChangedNow \in SUBSET Node /\ tip \in Nat
    BY CommitFinds, RevFacts DEF TypesH, TypeOK
  <1>2. rev \in Rev
    BY <1>1, CommitFinds, RevOf
  <1>3. /\ rev.parent = tip /\ rev.inserted = InsertedNow
        /\ rev.erased = ErasedNow /\ rev.changed = ChangedNow
        /\ rev.uninsertedData = NoData
        /\ rev.erasedData = DataOf(ErasedNow, DataRestored(RestoredNow))
        /\ rev.changedData = DataOf(ChangedNow, DataRestored(ChangedNow))
    BY DEF NewRev
  <1>4. \A n \in Node : Content[n] = IF n \in inTree THEN data[n] ELSE NULL
    BY DEF Content
  <1>5. \A n \in ErasedNow : rev.erasedData[n] = snap[tip][n]
    BY <1>1, <1>3, CommitFinds DEF DataOf
  <1>6. \A n \in ChangedNow : rev.changedData[n] = snap[tip][n]
    BY <1>1, <1>3, CommitFinds DEF DataOf
  <1>7. \A n \in ChangedNow : Content[n] # NULL /\ snap[tip][n] # NULL
    BY <1>1, <1>4, CommitFinds DEF Working, CellsKnown
  <1>8. \A n \in Node : Content[n] # NULL /\ snap[tip][n] # NULL
                          /\ Content[n] # snap[tip][n] => n \in ChangedNow
    BY <1>4, CommitFinds DEF Working
  <1>9. /\ InsertedNow = {n \in Node : Content[n] # NULL /\ snap[tip][n] = NULL}
        /\ ErasedNow = {n \in Node : Content[n] = NULL /\ snap[tip][n] # NULL}
    BY CommitFinds
  <1>10. LeadsBack(rev, Content, snap[tip])
    BY <1>3, <1>5, <1>6, <1>7, <1>8, <1>9 DEF LeadsBack
  <1> QED
    BY <1>2, <1>3, <1>10

(* After a commit or a revert nothing distinguishes the tree from tip.     *)
LEMMA SnapshotIsWorking ==
    ASSUME inTree' \subseteq Node,
           tip' # 0, at' = tip', down' = <<>>, insertedList' = {}, erasedList' = {},
           inserted' = {}, wasInTree' = {}, saved' = {}, Backups' = {},
           \A n \in Node : snap'[tip'][n] = IF n \in inTree' THEN data'[n] ELSE NULL,
           \A n \in inTree' : data'[n] # NULL
    PROVE  Working'
  <1>1. erasedList' = {n \in Node : snap'[tip'][n] # NULL /\ n \notin inTree'}
    OBVIOUS
  <1>2. \A n \in inTree' : snap'[tip'][n] # NULL
    OBVIOUS
  <1> QED
    BY <1>1, <1>2 DEF Working

LEMMA NextCommitInv ==
    ASSUME IInv, NextCommitH
    PROVE  IInv'
  <1> DEFINE d1 == DataRestored(RestoredNow)
             rev == NewRev(tip, InsertedNow, ErasedNow, ChangedNow, d1,
                           DataRestored(ChangedNow))
  <1>1. /\ Idle /\ Idle' /\ tip # 0
        /\ data' = d1
        /\ saved' = StillSaved \ (ChangedNow \cup RestoredNow)
        /\ inserted' = inserted \ (insertedList \cup erasedList)
        /\ insertedList' = {} /\ erasedList' = {} /\ backup' = NoBackup
        /\ orphans' = IF KeepsSaveRing THEN orphans ELSE Orphaned(SaveRing)
        /\ freeList' = freeList \cup ErasedNow
                         \cup (IF KeepsSaveRing THEN SaveRing ELSE {})
        /\ UNCHANGED <<filed, inTree, wasInTree, fresh, down, call, before>>
    BY DEF NextCommitH, NextCommit, Idle
  <1>2. TypesH /\ RevTree /\ Records /\ OneOwner /\ CellsKnown /\ Working
    BY <1>1 DEF IInv
  <1>3. \/ /\ InsertedNow \cup ErasedNow \cup ChangedNow = {}
           /\ UNCHANGED <<revs, tip, at>>
        \/ /\ revs' = Append(revs, rev)
           /\ tip' = Len(revs) + 1 /\ at' = Len(revs) + 1
    BY <1>1 DEF NextCommitH, NextCommit
  <1>4. snap' = IF revs' = revs THEN snap ELSE Append(snap, Content)
    BY DEF NextCommitH
  <1>5. /\ saved' = {} /\ inserted' = {} /\ wasInTree' = {} /\ ErasedNow = erasedList
        /\ d1 \in [Node -> Data \cup {NULL}]
        /\ \A n \in inTree : d1[n] = data[n]
    BY <1>1, <1>2, CommitFinds DEF Working
  <1>6. SaveRing' = {} /\ Backups' = {}
    BY <1>1 DEF SaveRing, Backups, NoBackup
  <1>7. Lost' = Lost \cup (IF KeepsSaveRing THEN {} ELSE SaveRing)
    BY <1>1, OrphanedLost DEF Lost
  <1>8. OneOwner'
    BY <1>1, <1>2, <1>5, <1>6, <1>7 DEF OneOwner
  <1>9. SaveRing \subseteq Node /\ NoBackup \in [Node -> Node \cup {NULL}]
    BY <1>2, SaveRingMembers DEF NoBackup
  <1>10. /\ freeList' \subseteq Node /\ orphans' \subseteq SUBSET Node
    BY <1>1, <1>2, <1>5, <1>9 DEF TypesH, TypeOK, Orphaned
  <1>11. Content' = Content
    BY <1>1, <1>2, <1>5 DEF Content, TypesH, TypeOK
  <1>12. \A n \in inTree' : data'[n] # NULL
    BY <1>1, <1>2, <1>5 DEF CellsKnown
  <1>13. \A n \in Node : Content[n] = IF n \in inTree THEN data[n] ELSE NULL
    BY DEF Content
  <1>16. inTree' \subseteq Node
    BY <1>1, <1>2 DEF TypesH, TypeOK
  <1>17. down' = <<>>
    BY <1>1, <1>2 DEF Working
  <1>14. CASE UNCHANGED <<revs, tip, at>>
              /\ InsertedNow \cup ErasedNow \cup ChangedNow = {}
    <2>1. snap' = snap
      BY <1>4, <1>14
    <2>2. TypesH'
      <3>1. CallOK'
        BY <1>1, <1>2, <1>14, CallKept
      <3> QED
        BY <1>1, <1>2, <1>5, <1>9, <1>10, <1>14, <2>1, <3>1 DEF TypesH, TypeOK
    <2>3. RevTree' /\ Records'
      BY <1>2, <1>14, <2>1, HistoryKept
    <2>4. CellsKnown'
      BY <1>1, <1>2, <1>12, <2>1 DEF CellsKnown
    <2>5. \A n \in Node : snap[tip][n] = Content[n]
      <3>1. \A n \in Node : snap[tip][n] # NULL <=> n \in inTree
        BY <1>1, <1>2, <1>13, <1>14, CommitFinds DEF CellsKnown
      <3>2. saved \cap inTree = {}
        BY <1>1, <1>2, <1>14, CommitFinds
      <3> QED
        BY <1>1, <1>2, <1>13, <3>1, <3>2 DEF Working
    <2>6. Working'
      <3>1. tip' # 0 /\ at' = tip'
        BY <1>1, <1>2, <1>14 DEF Working
      <3>2. \A n \in Node : snap'[tip'][n] = IF n \in inTree' THEN data'[n] ELSE NULL
        BY <1>1, <1>2, <1>5, <1>13, <1>14, <2>1, <2>5
      <3> QED
        BY <1>1, <1>5, <1>6, <1>12, <1>16, <1>17, <3>1, <3>2, SnapshotIsWorking
    <2> QED
      BY <1>1, <1>8, <2>2, <2>3, <2>4, <2>6 DEF IInv
  <1>15. CASE /\ revs' = Append(revs, rev)
              /\ tip' = Len(revs) + 1 /\ at' = Len(revs) + 1
    <2> DEFINE r == Len(revs) + 1
    <2>1. rev \in Rev /\ rev.parent = tip /\ LeadsBack(rev, Content, snap[tip])
      BY <1>1, <1>2, CommittedLeadsBack
    <2>2. /\ revs \in Seq(Rev) /\ snap \in Seq(Contents) /\ Len(snap) = Len(revs)
          /\ tip \in DOMAIN revs /\ Content \in Contents /\ at = tip
      BY <1>1, <1>2, RevFacts, ContentType DEF TypesH, TypeOK, Working
    <2>3. /\ revs' \in Seq(Rev) /\ Len(revs') = r /\ revs'[r] = rev
          /\ DOMAIN revs' = 1 .. r /\ DOMAIN revs = 1 .. (r - 1) /\ r \in Nat
          /\ \A i \in DOMAIN revs : revs'[i] = revs[i]
      BY <1>15, <2>1, <2>2
    <2>4. snap' = Append(snap, Content)
      <3>1. Len(revs') # Len(revs)
        BY <2>2, <2>3
      <3> QED
        BY <1>4, <3>1
    <2>5. /\ snap' \in Seq(Contents) /\ Len(snap') = r /\ snap'[r] = Content
          /\ DOMAIN snap' = 1 .. r
          /\ \A i \in DOMAIN revs : snap'[i] = snap[i]
      BY <2>2, <2>3, <2>4
    <2>6. TypesH'
      <3>1. down' = <<>> /\ Len(revs') \in Nat
        BY <1>1, <1>2, <2>3 DEF Working
      <3>2. tip' \in 0 .. Len(revs') /\ at' \in 0 .. Len(revs')
        BY <1>15, <2>3
      <3>3. CallOK'
        BY <1>1, <2>3, <3>1, IdleCall
      <3> QED
        BY <1>1, <1>2, <1>5, <1>9, <1>10, <2>3, <2>5, <3>2, <3>3
           DEF TypesH, TypeOK, Contents
    <2>7. RevTree'
      <3>1. ParentsOlder(revs')
        <4>1. tip \in 1 .. (r - 1) /\ (1 \in DOMAIN revs => r # 1)
          BY <2>2, <2>3
        <4> QED
          BY <1>2, <2>1, <2>2, <2>3, <4>1, RevFacts DEF ParentsOlder
      <3>2. revs' # <<>> /\ tip' # 0 /\ at' # 0
        BY <1>15, <2>3
      <3> QED
        BY <3>1, <3>2 DEF RevTree
    <2>8. Lineage(revs', tip) = Lineage(revs, tip)
      <3>1. DOMAIN revs \subseteq DOMAIN revs'
        BY <2>3
      <3>2. \A i \in DOMAIN revs : revs'[i].parent = revs[i].parent
        BY <2>3
      <3>3. revs \in Seq(Rev) /\ ParentsOlder(revs)
        BY <1>2, RevFacts
      <3> QED
        BY <2>2, <3>1, <3>2, <3>3, LineageKept
    <2>9. Lineage(revs', at') = Lineage(revs, at) \cup {r}
      <3>1. r \in DOMAIN revs' /\ r # 1 /\ revs'[r].parent = tip
        BY <2>1, <2>2, <2>3
      <3>2. Lineage(revs', r) = Lineage(revs', tip) \cup {r}
        BY <2>3, <2>7, <3>1, LineageStep DEF RevTree
      <3> QED
        BY <1>15, <2>2, <2>8, <3>2
    <2>10. Records'
      <3> SUFFICES ASSUME NEW k \in DOMAIN revs', k # 1
                   PROVE  IF k \in Lineage(revs', at')
                          THEN LeadsBack(revs'[k], snap'[k], snap'[revs'[k].parent])
                          ELSE LeadsBack(revs'[k], snap'[revs'[k].parent], snap'[k])
        BY DEF Records, LeadsBack
      <3>1. CASE k = r
        BY <3>1, <2>1, <2>2, <2>3, <2>5, <2>9
      <3>2. CASE k # r
        <4>1. k \in DOMAIN revs /\ revs[k].parent \in DOMAIN revs
          BY <3>2, <1>2, <2>3, RevFacts
        <4>2. k \in Lineage(revs', at') <=> k \in Lineage(revs, at)
          BY <3>2, <2>2, <2>9
        <4> QED
          BY <1>2, <2>3, <2>5, <4>1, <4>2 DEF Records
      <3> QED
        BY <3>1, <3>2
    <2>11. CellsKnown'
      <3>1. \A n \in Node : Content[n] # NULL => n \notin fresh
        BY <1>2, <1>13 DEF OneOwner
      <3>2. \A k \in DOMAIN revs, n \in Node : snap[k][n] # NULL => n \notin fresh
        BY <1>2, <2>2 DEF CellsKnown
      <3> QED
        BY <1>1, <1>12, <2>3, <2>5, <3>1, <3>2 DEF CellsKnown
    <2>12. \A n \in Node : snap'[r][n] = IF n \in inTree' THEN data'[n] ELSE NULL
      BY <1>1, <1>5, <1>13, <2>5
    <2>13. Working'
      <3>1. tip' # 0 /\ tip' = r /\ at' = r
        BY <1>15, <2>3
      <3> QED
        BY <1>1, <1>5, <1>6, <1>12, <1>16, <1>17, <2>12, <3>1, SnapshotIsWorking
    <2> QED
      BY <1>1, <1>8, <2>6, <2>7, <2>10, <2>11, <2>13 DEF IInv
  <1> QED
    BY <1>3, <1>14, <1>15

-----------------------------------------------------------------------------
(* Reverts and updates.                                                    *)

LEMMA NoBackupType == NoBackup \in [Node -> Node \cup {NULL}]
  BY DEF NoBackup

LEMMA RevertRestores ==
    ASSUME TypesH, RevTree, OneOwner, CellsKnown, Working, tip # 0, RevertTree
    PROVE  /\ data' \in [Node -> Data \cup {NULL}]
           /\ filed' \in [Node -> Data \cup {NULL}]
           /\ inTree' = {n \in Node : snap[tip][n] # NULL}
           /\ \A n \in inTree' : data'[n] = snap[tip][n]
           /\ saved' = {} /\ Backups' = {} /\ SaveRing' = {} /\ Lost' = Lost
           /\ NoWork'
           /\ freeList' \subseteq Node
           /\ OneOwner'
           /\ inserted \ insertedList = {}
           /\ RevertResult \subseteq Node
           /\ \A n \in Node : n \in RevertResult <=> (n \in inTree) # (n \in inTree')
  <1>1. /\ data' = DataRestored(Backups)
        /\ saved' = saved \ Backups
        /\ backup' = NoBackup
        /\ inTree' = (inTree \ InsertedNow) \cup erasedList
        /\ freeList' = freeList \cup SaveRing \cup InsertedNow
        /\ insertedList' = {} /\ erasedList' = {}
        /\ UNCHANGED <<orphans, fresh, revs, tip, at>>
    BY DEF RevertTree
  <1>2. /\ inTree \subseteq Node /\ erasedList \subseteq Node
        /\ insertedList \subseteq Node /\ saved \subseteq Node
        /\ freeList \subseteq Node
        /\ data \in [Node -> Data \cup {NULL}]
        /\ filed \in [Node -> Data \cup {NULL}]
        /\ backup \in [Node -> Node \cup {NULL}]
    BY DEF TypesH, TypeOK
  <1>3. saved = Backups /\ inserted = insertedList
    BY DEF Working
  <1>4. /\ \A n \in Node : data'[n] = IF n \in saved THEN data[backup[n]] ELSE data[n]
        /\ data' \in [Node -> Data \cup {NULL}]
    <2>1. \A n \in Backups : backup[n] \in Node
      BY <1>2 DEF Backups
    <2> QED
      BY <1>1, <1>2, <1>3, <2>1 DEF DataRestored
  <1>5. filed' \in [Node -> Data \cup {NULL}]
    <2>1. filed' = [n \in Node |-> IF n \in erasedList THEN data'[n]
                                ELSE IF n \in InsertedNow THEN NULL
                                ELSE filed[n]]
      BY DEF RevertTree
    <2> QED
      BY <1>2, <1>4, <2>1
  <1>6. inTree' = {n \in Node : snap[tip][n] # NULL}
    BY <1>1, <1>2 DEF Working, InsertedNow
  <1>7. \A n \in inTree' : data'[n] = snap[tip][n]
    BY <1>3, <1>4, <1>6 DEF Working
  <1>8. Backups' = {} /\ SaveRing' = {} /\ Lost' = Lost /\ saved' = {}
    BY <1>1, <1>3 DEF Backups, SaveRing, NoBackup, Lost
  <1>9. NoWork'
    BY <1>1, <1>8 DEF NoWork, NoBackup
  <1>10. SaveRing \subseteq Node
    BY SaveRingMembers
  <1>11. OneOwner'
    <2>1. erasedList \cap inTree = {} /\ InsertedNow \subseteq inTree
      BY DEF Working, InsertedNow
    <2> QED
      BY <1>1, <1>2, <1>8, <2>1 DEF OneOwner
  <1>12. InsertedNow \subseteq inTree /\ erasedList \cap inTree = {}
    BY DEF Working, InsertedNow
  <1>13. RevertResult = InsertedNow \cup erasedList
    BY DEF RevertResult
  <1> QED
    BY <1>1, <1>2, <1>3, <1>4, <1>5, <1>6, <1>7, <1>8, <1>9, <1>10, <1>11,
       <1>12, <1>13

LEMMA RevertInv ==
    ASSUME IInv, Revert, UNCHANGED histVars
    PROVE  IInv'
  <1>1. /\ Idle /\ Idle' /\ RevertTree
        /\ inserted' = inserted \ insertedList
        /\ UNCHANGED <<down, call, wasInTree, snap, before>>
    BY DEF Revert, Idle, histVars
  <1>2. TypesH /\ RevTree /\ Records /\ OneOwner /\ CellsKnown /\ Working
    BY <1>1 DEF IInv
  <1>3. UNCHANGED <<orphans, fresh, revs, tip, at>>
    BY <1>1 DEF RevertTree
  <1>4. RevTree' /\ Records'
    BY <1>1, <1>2, <1>3, HistoryKept
  <1>5. CASE tip = 0
    <2>1. NoWork /\ freeList = {} /\ inserted = {}
      BY <1>2, <1>5 DEF Working, NoWork
    <2>2. Backups = {} /\ SaveRing = {} /\ InsertedNow = {}
      BY <2>1 DEF NoWork, Backups, SaveRing, NoBackup, InsertedNow
    <2>3. /\ data' = data /\ filed' = filed /\ inTree' = inTree
          /\ inserted' = inserted /\ saved' = saved /\ insertedList' = insertedList
          /\ erasedList' = erasedList /\ freeList' = freeList
          /\ backup' = backup
      <3>1. data' = data
        BY <1>1, <1>2, <2>2 DEF RevertTree, DataRestored, TypesH, TypeOK
      <3>2. filed' = filed
        BY <1>1, <1>2, <2>1, <2>2 DEF RevertTree, NoWork, TypesH, TypeOK
      <3> QED
        BY <1>1, <2>1, <2>2, <3>1, <3>2 DEF RevertTree, NoWork
    <2>4. SaveRing' = SaveRing /\ Backups' = Backups /\ Lost' = Lost
      BY <1>3, <2>3 DEF SaveRing, Backups, Lost
    <2>5. TypesH' /\ CellsKnown' /\ OneOwner'
      <3>1. CallOK'
        BY <1>1, <1>2, <1>3, CallKept
      <3> QED
        BY <1>1, <1>2, <1>3, <2>3, <2>4, <3>1
           DEF TypesH, TypeOK, CellsKnown, OneOwner
    <2>6. Working'
      BY <1>1, <1>2, <1>3, <1>5, <2>3 DEF Working, NoWork
    <2> QED
      BY <1>1, <1>4, <2>5, <2>6 DEF IInv
  <1>6. CASE tip # 0
    <2>1. /\ data' \in [Node -> Data \cup {NULL}]
          /\ filed' \in [Node -> Data \cup {NULL}]
          /\ inTree' = {n \in Node : snap[tip][n] # NULL}
          /\ \A n \in inTree' : data'[n] = snap[tip][n]
          /\ saved' = {} /\ Backups' = {}
          /\ NoWork'
          /\ freeList' \subseteq Node
          /\ OneOwner'
          /\ inserted' = {}
      BY <1>1, <1>2, <1>6, RevertRestores
    <2>2. TypesH'
      <3>1. CallOK'
        BY <1>1, <1>2, <1>3, CallKept
      <3> QED
        BY <1>1, <1>2, <1>3, <2>1, NoBackupType, <3>1 DEF TypesH, TypeOK, NoWork
    <2>3. CellsKnown'
      BY <1>1, <1>2, <1>3, <2>1 DEF CellsKnown
    <2>4. Working'
      <3>1. \A n \in Node : snap'[tip'][n] = IF n \in inTree' THEN data'[n] ELSE NULL
        BY <1>1, <1>3, <2>1
      <3>2. at' = tip' /\ tip' # 0 /\ wasInTree' = {} /\ down' = <<>>
        BY <1>1, <1>2, <1>3, <1>6 DEF Working
      <3>3. inTree' \subseteq Node /\ \A n \in inTree' : data'[n] # NULL
        BY <2>1
      <3> QED
        BY <2>1, <3>1, <3>2, <3>3, SnapshotIsWorking DEF NoWork
    <2> QED
      BY <1>1, <1>4, <2>1, <2>2, <2>3, <2>4 DEF IInv
  <1> QED
    BY <1>5, <1>6

LEMMA BeginUpdateInv ==
    ASSUME IInv, NEW r \in DOMAIN revs, BeginUpdateH(r)
    PROVE  IInv'
  <1>1. /\ Idle /\ tip # 0 /\ RevertTree
        /\ inserted' = (inserted \ insertedList) \cup RevertResult
        /\ wasInTree' = (wasInTree \ RevertResult) \cup (RevertResult \ inTree')
        /\ call' = [NoCall EXCEPT !.loop = "level_from", !.target = r,
                                   !.rev = tip, !.from = tip, !.to = r]
        /\ UNCHANGED down /\ before' = Content /\ UNCHANGED snap
    BY DEF BeginUpdateH, BeginUpdate
  <1>2. TypesH /\ RevTree /\ Records /\ OneOwner /\ CellsKnown /\ Working
    BY <1>1 DEF IInv
  <1>3. UNCHANGED <<orphans, fresh, revs, tip, at>>
    BY <1>1 DEF RevertTree
  <1>4. RevTree' /\ Records'
    BY <1>1, <1>2, <1>3, HistoryKept
  <1>5. /\ data' \in [Node -> Data \cup {NULL}]
        /\ filed' \in [Node -> Data \cup {NULL}]
        /\ inTree' = {n \in Node : snap[tip][n] # NULL}
        /\ \A n \in inTree' : data'[n] = snap[tip][n]
        /\ saved' = {} /\ Backups' = {}
        /\ NoWork'
        /\ freeList' \subseteq Node
        /\ OneOwner'
        /\ inserted \ insertedList = {}
        /\ RevertResult \subseteq Node
        /\ \A n \in Node : n \in RevertResult <=> (n \in inTree) # (n \in inTree')
    BY <1>1, <1>2, RevertRestores
  <1>6. /\ call' \in Calls /\ call'.loop = "level_from" /\ call'.rev = tip
        /\ call'.from = tip /\ call'.to = r /\ call'.target = r
        /\ call'.from_level = 0 /\ call'.to_level = 0
        /\ tip \in DOMAIN revs /\ r \in Nat /\ tip \in Nat
    <2>1. tip \in DOMAIN revs /\ r \in Nat /\ tip \in Nat
      BY <1>1, <1>2, RevFacts
    <2> QED
      BY <1>1, <2>1 DEF NoCall, Calls, Loops
  <1>7. wasInTree = {} /\ at = tip /\ down' = <<>>
    BY <1>1, <1>2 DEF Working
  <1>8. inserted' = RevertResult /\ wasInTree' = RevertResult \ inTree'
    BY <1>1, <1>5, <1>7
  <1>9. Content \in Contents
    BY <1>2, ContentType
  <1>10. TypesH'
    <2>1. CallOK'
      BY <1>2, <1>3, <1>6, <1>7, RevFacts DEF CallOK
    <2> QED
      BY <1>1, <1>2, <1>3, <1>5, <1>8, <1>9, <2>1, NoBackupType
         DEF TypesH, TypeOK, NoWork
  <1>11. CellsKnown'
    BY <1>1, <1>2, <1>3, <1>5 DEF CellsKnown
  <1>12. Content' = snap'[at']
    <2>1. tip \in DOMAIN revs /\ snap[tip] \in Contents
      BY <1>1, <1>2, RevFacts
    <2>2. \A n \in Node : Content'[n] = snap[tip][n]
      BY <1>5 DEF Content
    <2>3. Content' \in Contents
      BY <1>10, <1>5 DEF Content, Contents
    <2> QED
      BY <1>1, <1>3, <1>7, <2>1, <2>2, <2>3 DEF Contents
  <1>13. \A n \in Node : IF n \in inserted' THEN n \in wasInTree' <=> before'[n] # NULL
                                            ELSE n \in inTree' <=> before'[n] # NULL
    <2>1. \A n \in Node : Content[n] # NULL <=> n \in inTree
      BY <1>2 DEF Content, CellsKnown
    <2> QED
      BY <1>1, <1>5, <1>8, <2>1
  <1>14. Walking'
    <2>1. tip' # 0 /\ at' = tip' /\ tip' = tip /\ revs' = revs
      BY <1>1, <1>3, <1>7
    <2>2. Depth(revs, tip) \in Nat
      BY <1>2, <1>6, RevFacts, DepthFacts
    <2>3. Counting' /\ Climbing' /\ Filling'
      BY <1>6, <2>1, <2>2 DEF Counting, Climbing, Filling
    <2>4. OnPath'
      BY <1>6, <1>7, <2>1, <2>3 DEF OnPath, Toggling
    <2> QED
      BY <1>5, <1>12, <1>13, <2>1, <2>4 DEF Walking
  <1>15. ~Idle'
    BY <1>6 DEF Idle, NoCall
  <1> QED
    BY <1>4, <1>5, <1>10, <1>11, <1>14, <1>15 DEF IInv

(* What a round of path_down leaves alone: all but call and down.          *)
PathUnchanged ==
    UNCHANGED <<data, filed, inTree, inserted, saved, wasInTree, insertedList,
                erasedList, freeList, backup, orphans, fresh, revs, tip, at,
                snap, before>>

LEMMA PathFrame ==
    ASSUME IInv, ~Idle, PathUnchanged, ~Idle', CallOK', OnPath'
    PROVE  IInv'
  <1> USE DEF PathUnchanged
  <1>1. TypesH /\ RevTree /\ Records /\ OneOwner /\ CellsKnown /\ Walking
    BY DEF IInv
  <1>2. TypesH'
    BY <1>1 DEF TypesH, TypeOK
  <1>3. RevTree' /\ Records'
    BY <1>1, HistoryKept
  <1>4. SaveRing' = SaveRing /\ Backups' = Backups /\ Lost' = Lost /\ Content' = Content
    BY DEF SaveRing, Backups, Lost, Content
  <1>5. OneOwner' /\ CellsKnown'
    BY <1>1, <1>4 DEF OneOwner, CellsKnown
  <1>6. Walking'
    BY <1>1, <1>4 DEF Walking, NoWork
  <1> QED
    BY <1>2, <1>3, <1>5, <1>6 DEF IInv

(* What a round of a loop finds.                                           *)
LEMMA RoundFacts ==
    ASSUME IInv, ~Idle
    PROVE  /\ revs \in Seq(Rev) /\ ParentsOlder(revs) /\ Len(revs) \in Nat
           /\ DOMAIN revs = 1 .. Len(revs) /\ tip \in DOMAIN revs
           /\ OnPath /\ CallOK /\ call \in Calls
           /\ call.target \in DOMAIN revs /\ call.rev \in DOMAIN revs
           /\ call.from \in DOMAIN revs
  <1>1. TypesH /\ RevTree /\ Walking
    BY DEF IInv
  <1>2. tip # 0 /\ OnPath
    BY <1>1 DEF Walking
  <1>3. /\ revs \in Seq(Rev) /\ ParentsOlder(revs) /\ Len(revs) \in Nat
        /\ DOMAIN revs = 1 .. Len(revs) /\ tip \in DOMAIN revs
    BY <1>1, <1>2, RevFacts
  <1>4. CallOK /\ call \in Calls
        /\ {call.target, call.rev, call.from} \subseteq 1 .. Len(revs)
    BY <1>1 DEF TypesH, TypeOK, CallOK
  <1> QED
    BY <1>2, <1>3, <1>4

LEMMA LevelOfFromInv ==
    ASSUME IInv, LevelOfFrom, UNCHANGED histVars
    PROVE  IInv'
  <1>1. /\ call.loop = "level_from" /\ PathUnchanged /\ UNCHANGED down
        /\ \/ /\ revs[call.rev].parent # 0
              /\ call' = [call EXCEPT !.rev = revs[@].parent, !.from_level = @ + 1]
           \/ /\ revs[call.rev].parent = 0
              /\ call' = [call EXCEPT !.rev = call.to, !.loop = "level_to"]
    BY DEF LevelOfFrom, ClimbLoop, BelowRoot, PathUnchanged, histVars
  <1>2. ~Idle
    BY <1>1 DEF Idle, NoCall
  <1>3. /\ revs \in Seq(Rev) /\ ParentsOlder(revs) /\ Len(revs) \in Nat
        /\ DOMAIN revs = 1 .. Len(revs) /\ tip \in DOMAIN revs
        /\ OnPath /\ CallOK /\ call \in Calls
        /\ call.target \in DOMAIN revs /\ call.rev \in DOMAIN revs
        /\ call.from \in DOMAIN revs
    BY <1>2, RoundFacts
  <1>4. /\ at = tip /\ down = <<>> /\ call.to = call.target
        /\ call.from = tip /\ call.to_level = 0
        /\ call.from_level + Depth(revs, call.rev) = Depth(revs, tip)
    BY <1>1, <1>3 DEF OnPath, Toggling, Counting
  <1>5. UNCHANGED <<revs, tip, at, down>>
    BY <1>1 DEF PathUnchanged
  <1>6. CASE /\ revs[call.rev].parent # 0
             /\ call' = [call EXCEPT !.rev = revs[@].parent, !.from_level = @ + 1]
    <2> DEFINE p == revs[call.rev].parent
               q == call.from_level + 1
    <2>1. p \in DOMAIN revs /\ Depth(revs, call.rev) = Depth(revs, p) + 1
          /\ Depth(revs, p) \in Nat
      BY <1>3, <1>6, ParentFacts, DepthFacts
    <2>2. p \in Nat /\ call.from_level \in Nat /\ q \in Nat
          /\ call' = [call EXCEPT !.rev = p, !.from_level = q]
      <3>1. p \in Nat /\ call.from_level \in Nat
        BY <1>3, <2>1 DEF Calls
      <3>2. call' = [call EXCEPT !.rev = p, !.from_level = q]
        BY <1>3, <1>6 DEF Calls
      <3> QED
        BY <3>1, <3>2
    <2> HIDE DEF p, q
    <2>3. /\ call' \in Calls /\ call'.loop = "level_from" /\ call'.rev = p
          /\ call'.from_level = q
          /\ call'.target = call.target /\ call'.from = tip
          /\ call'.to = call.target /\ call'.to_level = 0
      BY <1>1, <1>3, <1>4, <2>2 DEF Calls
    <2>4. CallOK' /\ ~Idle'
      BY <1>3, <1>4, <1>5, <2>1, <2>3 DEF CallOK, Idle, NoCall
    <2>5. Counting' /\ Climbing' /\ Filling'
      <3>1. call'.from_level + Depth(revs, p) = call.from_level + Depth(revs, call.rev)
        BY <2>1, <2>2, <2>3 DEF q
      <3> QED
        BY <1>4, <1>5, <2>1, <2>3, <3>1 DEF Counting, Climbing, Filling
    <2>6. OnPath'
      BY <1>4, <1>5, <2>3, <2>5 DEF OnPath, Toggling
    <2> QED
      BY <1>1, <1>2, <2>4, <2>6, PathFrame
  <1>7. CASE /\ revs[call.rev].parent = 0
             /\ call' = [call EXCEPT !.rev = call.to, !.loop = "level_to"]
    <2>1. Depth(revs, call.rev) = 0 /\ Depth(revs, tip) \in Nat
          /\ Depth(revs, call.target) \in Nat
      BY <1>3, <1>7, ParentFacts, DepthFacts
    <2>2. /\ call' \in Calls /\ call'.loop = "level_to"
          /\ call'.rev = call.target
          /\ call'.from_level = call.from_level /\ call.from_level \in Nat
          /\ call'.target = call.target /\ call'.from = tip
          /\ call'.to = call.target /\ call'.to_level = 0
      BY <1>1, <1>3, <1>4, <1>7 DEF Calls, Loops
    <2>3. CallOK' /\ ~Idle'
      BY <1>3, <1>4, <1>5, <2>2 DEF CallOK, Idle, NoCall
    <2>4. Counting' /\ Climbing' /\ Filling'
      BY <1>4, <1>5, <2>1, <2>2 DEF Counting, Climbing, Filling
    <2>5. OnPath'
      BY <1>4, <1>5, <2>2, <2>4 DEF OnPath, Toggling
    <2> QED
      BY <1>1, <1>2, <2>3, <2>5, PathFrame
  <1> QED
    BY <1>1, <1>6, <1>7

LEMMA LevelOfToInv ==
    ASSUME IInv, LevelOfTo, UNCHANGED histVars
    PROVE  IInv'
  <1>1. /\ call.loop = "level_to" /\ PathUnchanged /\ UNCHANGED down
        /\ \/ /\ revs[call.rev].parent # 0
              /\ call' = [call EXCEPT !.rev = revs[@].parent, !.to_level = @ + 1]
           \/ /\ revs[call.rev].parent = 0
              /\ call' = [call EXCEPT !.loop = "climb_from"]
    BY DEF LevelOfTo, ClimbLoop, BelowRoot, PathUnchanged, histVars
  <1>2. ~Idle
    BY <1>1 DEF Idle, NoCall
  <1>3. /\ revs \in Seq(Rev) /\ ParentsOlder(revs) /\ Len(revs) \in Nat
        /\ DOMAIN revs = 1 .. Len(revs) /\ tip \in DOMAIN revs
        /\ OnPath /\ CallOK /\ call \in Calls
        /\ call.target \in DOMAIN revs /\ call.rev \in DOMAIN revs
        /\ call.from \in DOMAIN revs
    BY <1>2, RoundFacts
  <1>4. /\ at = tip /\ down = <<>> /\ call.to = call.target
        /\ call.from = tip /\ call.from_level = Depth(revs, tip)
        /\ call.to_level + Depth(revs, call.rev) = Depth(revs, call.target)
    BY <1>1, <1>3 DEF OnPath, Toggling, Counting
  <1>5. UNCHANGED <<revs, tip, at, down>>
    BY <1>1 DEF PathUnchanged
  <1>6. CASE /\ revs[call.rev].parent # 0
             /\ call' = [call EXCEPT !.rev = revs[@].parent, !.to_level = @ + 1]
    <2> DEFINE p == revs[call.rev].parent
               q == call.to_level + 1
    <2>1. p \in DOMAIN revs /\ Depth(revs, call.rev) = Depth(revs, p) + 1
          /\ Depth(revs, p) \in Nat
      BY <1>3, <1>6, ParentFacts, DepthFacts
    <2>2. p \in Nat /\ call.to_level \in Nat /\ q \in Nat
          /\ call' = [call EXCEPT !.rev = p, !.to_level = q]
      <3>1. p \in Nat /\ call.to_level \in Nat
        BY <1>3, <2>1 DEF Calls
      <3>2. call' = [call EXCEPT !.rev = p, !.to_level = q]
        BY <1>3, <1>6 DEF Calls
      <3> QED
        BY <3>1, <3>2
    <2> HIDE DEF p, q
    <2>3. /\ call' \in Calls /\ call'.loop = "level_to" /\ call'.rev = p
          /\ call'.to_level = q
          /\ call'.target = call.target /\ call'.from = tip
          /\ call'.to = call.target /\ call'.from_level = call.from_level
      BY <1>1, <1>3, <1>4, <2>2 DEF Calls
    <2>4. CallOK' /\ ~Idle'
      BY <1>3, <1>4, <1>5, <2>1, <2>3 DEF CallOK, Idle, NoCall
    <2>5. Counting' /\ Climbing' /\ Filling'
      <3>1. call'.to_level + Depth(revs, p) = call.to_level + Depth(revs, call.rev)
        BY <2>1, <2>2, <2>3 DEF q
      <3> QED
        BY <1>4, <1>5, <2>1, <2>3, <3>1 DEF Counting, Climbing, Filling
    <2>6. OnPath'
      BY <1>4, <1>5, <2>3, <2>5 DEF OnPath, Toggling
    <2> QED
      BY <1>1, <1>2, <2>4, <2>6, PathFrame
  <1>7. CASE /\ revs[call.rev].parent = 0
             /\ call' = [call EXCEPT !.loop = "climb_from"]
    <2>1. Depth(revs, call.rev) = 0 /\ tip \in Lineage(revs, tip)
      BY <1>3, <1>7, ParentFacts, DepthFacts, LineageSelf
    <2>2. /\ call' \in Calls /\ call'.loop = "climb_from"
          /\ call'.to_level = call.to_level /\ call.to_level \in Nat
          /\ call'.target = call.target /\ call'.from = tip
          /\ call'.rev = call.rev
          /\ call'.to = call.target /\ call'.from_level = call.from_level
      BY <1>1, <1>3, <1>4, <1>7 DEF Calls, Loops
    <2>3. CallOK' /\ ~Idle'
      BY <1>3, <1>4, <1>5, <2>2 DEF CallOK, Idle, NoCall
    <2>4. Counting' /\ Climbing' /\ Filling'
      BY <1>4, <1>5, <2>1, <2>2 DEF Counting, Climbing, Filling
    <2>5. OnPath'
      BY <1>4, <1>5, <2>2, <2>4 DEF OnPath, Toggling
    <2> QED
      BY <1>1, <1>2, <2>3, <2>5, PathFrame
  <1> QED
    BY <1>1, <1>6, <1>7

LEMMA ClimbFromInv ==
    ASSUME IInv, ClimbFrom, UNCHANGED histVars
    PROVE  IInv'
  <1>1. /\ call.loop = "climb_from" /\ PathUnchanged /\ UNCHANGED down
        /\ \/ /\ call.from_level > call.to_level
              /\ call' = [call EXCEPT !.from = revs[@].parent, !.from_level = @ - 1]
           \/ /\ ~(call.from_level > call.to_level)
              /\ call' = [call EXCEPT !.i = call.to, !.i_level = call.to_level,
                                      !.loop = "climb_i"]
    BY DEF ClimbFrom, ClimbLoop, FromIsDeeper, PathUnchanged, histVars
  <1>2. ~Idle
    BY <1>1 DEF Idle, NoCall
  <1>3. /\ revs \in Seq(Rev) /\ ParentsOlder(revs) /\ Len(revs) \in Nat
        /\ DOMAIN revs = 1 .. Len(revs) /\ tip \in DOMAIN revs
        /\ OnPath /\ CallOK /\ call \in Calls
        /\ call.target \in DOMAIN revs /\ call.rev \in DOMAIN revs
        /\ call.from \in DOMAIN revs
    BY <1>2, RoundFacts
  <1>4. /\ at = tip /\ down = <<>> /\ call.to = call.target
        /\ call.from \in Lineage(revs, tip)
        /\ call.from_level = Depth(revs, call.from)
        /\ call.to_level = Depth(revs, call.target)
    BY <1>1, <1>3 DEF OnPath, Toggling, Climbing
  <1>5. UNCHANGED <<revs, tip, at, down>>
    BY <1>1 DEF PathUnchanged
  <1>6. Depth(revs, call.target) \in Nat /\ Depth(revs, call.from) \in Nat
    BY <1>3, DepthFacts
  <1>7. CASE /\ call.from_level > call.to_level
             /\ call' = [call EXCEPT !.from = revs[@].parent, !.from_level = @ - 1]
    <2> DEFINE p == revs[call.from].parent
    <2>1. call.from # 1
      BY <1>3, <1>4, <1>6, <1>7, DepthFacts
    <2>2. /\ p \in DOMAIN revs /\ p # 0
          /\ Depth(revs, call.from) = Depth(revs, p) + 1
          /\ Depth(revs, p) \in Nat
      BY <1>3, <2>1, ParentFacts, DepthFacts
    <2>3. p \in Lineage(revs, tip)
      BY <1>3, <1>4, <2>2, LineageClosed DEF ParentClosed
    <2>4. /\ p \in Nat
          /\ call' = [call EXCEPT !.from = p, !.from_level = Depth(revs, p)]
      <3>1. call' = [call EXCEPT !.from = p, !.from_level = call.from_level - 1]
        BY <1>3, <1>7 DEF Calls
      <3>2. p \in Nat /\ call.from_level - 1 = Depth(revs, p)
        BY <1>3, <1>4, <2>2
      <3> QED
        BY <3>1, <3>2
    <2> HIDE DEF p
    <2>5. /\ call' \in Calls /\ call'.loop = "climb_from" /\ call'.from = p
          /\ call'.from_level = Depth(revs, p) /\ call'.rev = call.rev
          /\ call'.to_level = call.to_level
          /\ call'.target = call.target /\ call'.to = call.target
      BY <1>1, <1>3, <1>4, <2>2, <2>4 DEF Calls
    <2>6. CallOK' /\ ~Idle'
      BY <1>3, <1>4, <1>5, <2>2, <2>5 DEF CallOK, Idle, NoCall
    <2>7. Counting' /\ Climbing' /\ Filling'
      BY <1>4, <1>5, <2>3, <2>5 DEF Counting, Climbing, Filling
    <2>8. OnPath'
      BY <1>4, <1>5, <2>5, <2>7 DEF OnPath, Toggling
    <2> QED
      BY <1>1, <1>2, <2>6, <2>8, PathFrame
  <1>8. CASE /\ ~(call.from_level > call.to_level)
             /\ call' = [call EXCEPT !.i = call.to, !.i_level = call.to_level,
                                     !.loop = "climb_i"]
    <2>1. call.target \in Lineage(revs, call.target)
      BY <1>3, LineageSelf
    <2>2. /\ call' \in Calls /\ call'.loop = "climb_i"
          /\ call'.from = call.from /\ call'.from_level = call.from_level
          /\ call'.i = call.target /\ call'.i_level = call.to_level
          /\ call'.to_level = call.to_level /\ call'.rev = call.rev
          /\ call'.target = call.target /\ call'.to = call.target
      BY <1>1, <1>3, <1>4, <1>6, <1>8 DEF Calls, Loops
    <2>3. CallOK' /\ ~Idle'
      BY <1>3, <1>4, <1>5, <2>2 DEF CallOK, Idle, NoCall
    <2>4. call'.i_level >= call'.from_level
      BY <1>4, <1>6, <1>8, <2>2
    <2>5. Counting' /\ Climbing' /\ Filling'
      BY <1>4, <1>5, <2>1, <2>2, <2>4 DEF Counting, Climbing, Filling
    <2>6. OnPath'
      BY <1>4, <1>5, <2>2, <2>5 DEF OnPath, Toggling
    <2> QED
      BY <1>1, <1>2, <2>3, <2>6, PathFrame
  <1> QED
    BY <1>1, <1>7, <1>8

LEMMA ClimbIInv ==
    ASSUME IInv, ClimbI, UNCHANGED histVars
    PROVE  IInv'
  <1>1. /\ call.loop = "climb_i" /\ PathUnchanged /\ UNCHANGED down
        /\ \/ /\ call.i_level > call.from_level
              /\ call' = [call EXCEPT !.i = revs[@].parent, !.i_level = @ - 1]
           \/ /\ ~(call.i_level > call.from_level)
              /\ call' = [call EXCEPT !.loop = "climb_both"]
    BY DEF ClimbI, ClimbLoop, IIsDeeper, PathUnchanged, histVars
  <1>2. ~Idle
    BY <1>1 DEF Idle, NoCall
  <1>3. /\ revs \in Seq(Rev) /\ ParentsOlder(revs) /\ Len(revs) \in Nat
        /\ DOMAIN revs = 1 .. Len(revs) /\ tip \in DOMAIN revs
        /\ OnPath /\ CallOK /\ call \in Calls
        /\ call.target \in DOMAIN revs /\ call.rev \in DOMAIN revs
        /\ call.from \in DOMAIN revs
    BY <1>2, RoundFacts
  <1>4. /\ at = tip /\ down = <<>> /\ call.to = call.target
        /\ call.from \in Lineage(revs, tip)
        /\ call.from_level = Depth(revs, call.from)
        /\ call.to_level = Depth(revs, call.target)
        /\ call.i \in Lineage(revs, call.target)
        /\ call.i_level = Depth(revs, call.i) /\ call.i_level >= call.from_level
    BY <1>1, <1>3 DEF OnPath, Toggling, Climbing
  <1>5. UNCHANGED <<revs, tip, at, down>>
    BY <1>1 DEF PathUnchanged
  <1>6. /\ call.i \in DOMAIN revs
        /\ Depth(revs, call.i) \in Nat /\ Depth(revs, call.from) \in Nat
    BY <1>1, <1>3, DepthFacts DEF CallOK
  <1>7. CASE /\ call.i_level > call.from_level
             /\ call' = [call EXCEPT !.i = revs[@].parent, !.i_level = @ - 1]
    <2> DEFINE p == revs[call.i].parent
    <2>1. call.i # 1
      BY <1>3, <1>4, <1>6, <1>7, DepthFacts
    <2>2. /\ p \in DOMAIN revs /\ p # 0
          /\ Depth(revs, call.i) = Depth(revs, p) + 1
          /\ Depth(revs, p) \in Nat
      BY <1>3, <1>6, <2>1, ParentFacts, DepthFacts
    <2>3. p \in Lineage(revs, call.target)
      BY <1>3, <1>4, <2>2, LineageClosed DEF ParentClosed
    <2>4. /\ p \in Nat
          /\ call' = [call EXCEPT !.i = p, !.i_level = Depth(revs, p)]
      <3>1. call' = [call EXCEPT !.i = p, !.i_level = call.i_level - 1]
        BY <1>3, <1>7 DEF Calls
      <3>2. p \in Nat /\ call.i_level - 1 = Depth(revs, p)
        BY <1>3, <1>4, <2>2
      <3> QED
        BY <3>1, <3>2
    <2> HIDE DEF p
    <2>5. /\ call' \in Calls /\ call'.loop = "climb_i" /\ call'.i = p
          /\ call'.i_level = Depth(revs, p) /\ call'.rev = call.rev
          /\ call'.from = call.from /\ call'.from_level = call.from_level
          /\ call'.to_level = call.to_level
          /\ call'.target = call.target /\ call'.to = call.target
      BY <1>1, <1>3, <1>4, <2>2, <2>4 DEF Calls
    <2>6. CallOK' /\ ~Idle'
      BY <1>3, <1>4, <1>5, <2>2, <2>5 DEF CallOK, Idle, NoCall
    <2>7. call'.i_level >= call'.from_level
      BY <1>4, <1>6, <1>7, <2>2, <2>5
    <2>8. Counting' /\ Climbing' /\ Filling'
      BY <1>4, <1>5, <2>3, <2>5, <2>7 DEF Counting, Climbing, Filling
    <2>9. OnPath'
      BY <1>4, <1>5, <2>5, <2>8 DEF OnPath, Toggling
    <2> QED
      BY <1>1, <1>2, <2>6, <2>9, PathFrame
  <1>8. CASE /\ ~(call.i_level > call.from_level)
             /\ call' = [call EXCEPT !.loop = "climb_both"]
    <2>1. Depth(revs, call.i) = call.from_level
      BY <1>4, <1>6, <1>8
    <2>2. /\ call' \in Calls /\ call'.loop = "climb_both" /\ call'.i = call.i
          /\ call'.from = call.from /\ call'.from_level = call.from_level
          /\ call'.to_level = call.to_level /\ call'.rev = call.rev
          /\ call'.target = call.target /\ call'.to = call.target
      BY <1>1, <1>3, <1>4, <1>8 DEF Calls, Loops
    <2>3. CallOK' /\ ~Idle'
      BY <1>3, <1>4, <1>5, <1>6, <2>2 DEF CallOK, Idle, NoCall
    <2>4. Counting' /\ Climbing' /\ Filling'
      BY <1>4, <1>5, <2>1, <2>2 DEF Counting, Climbing, Filling
    <2>5. OnPath'
      BY <1>4, <1>5, <2>2, <2>4 DEF OnPath, Toggling
    <2> QED
      BY <1>1, <1>2, <2>3, <2>5, PathFrame
  <1> QED
    BY <1>1, <1>7, <1>8

LEMMA ClimbBothInv ==
    ASSUME IInv, ClimbBoth, UNCHANGED histVars
    PROVE  IInv'
  <1>1. /\ call.loop = "climb_both" /\ PathUnchanged /\ UNCHANGED down
        /\ \/ /\ call.from # call.i
              /\ call' = [call EXCEPT !.from = revs[@].parent,
                                      !.i = revs[@].parent, !.from_level = @ - 1]
           \/ /\ call.from = call.i
              /\ call' = [call EXCEPT !.loop = "fill"]
    BY DEF ClimbBoth, ClimbLoop, PathUnchanged, histVars
  <1>2. ~Idle
    BY <1>1 DEF Idle, NoCall
  <1>3. /\ revs \in Seq(Rev) /\ ParentsOlder(revs) /\ Len(revs) \in Nat
        /\ DOMAIN revs = 1 .. Len(revs) /\ tip \in DOMAIN revs
        /\ OnPath /\ CallOK /\ call \in Calls
        /\ call.target \in DOMAIN revs /\ call.rev \in DOMAIN revs
        /\ call.from \in DOMAIN revs
    BY <1>2, RoundFacts
  <1>4. /\ at = tip /\ down = <<>> /\ call.to = call.target
        /\ call.from \in Lineage(revs, tip)
        /\ call.from_level = Depth(revs, call.from)
        /\ call.to_level = Depth(revs, call.target)
        /\ call.i \in Lineage(revs, call.target)
        /\ Depth(revs, call.i) = call.from_level
    BY <1>1, <1>3 DEF OnPath, Toggling, Climbing
  <1>5. UNCHANGED <<revs, tip, at, down>>
    BY <1>1 DEF PathUnchanged
  <1>6. /\ call.i \in DOMAIN revs
        /\ Depth(revs, call.i) \in Nat /\ Depth(revs, call.from) \in Nat
    BY <1>1, <1>3, DepthFacts DEF CallOK
  <1>7. CASE /\ call.from # call.i
             /\ call' = [call EXCEPT !.from = revs[@].parent,
                                     !.i = revs[@].parent, !.from_level = @ - 1]
    <2> DEFINE p == revs[call.from].parent
               q == revs[call.i].parent
    <2>1. call.i # 1 /\ call.from # 1
      BY <1>3, <1>4, <1>6, <1>7, DepthFacts
    <2>2. /\ p \in DOMAIN revs /\ p # 0 /\ q \in DOMAIN revs /\ q # 0
          /\ Depth(revs, call.from) = Depth(revs, p) + 1
          /\ Depth(revs, call.i) = Depth(revs, q) + 1
          /\ Depth(revs, p) \in Nat /\ Depth(revs, q) \in Nat
      BY <1>3, <1>6, <2>1, ParentFacts, DepthFacts
    <2>3. p \in Lineage(revs, tip) /\ q \in Lineage(revs, call.target)
      BY <1>3, <1>4, <2>2, LineageClosed DEF ParentClosed
    <2>4. /\ p \in Nat /\ q \in Nat /\ Depth(revs, q) = Depth(revs, p)
          /\ call' = [call EXCEPT !.from = p, !.i = q, !.from_level = Depth(revs, p)]
      <3>1. call' = [call EXCEPT !.from = p, !.i = q, !.from_level = call.from_level - 1]
        BY <1>3, <1>7 DEF Calls
      <3>2. /\ p \in Nat /\ q \in Nat /\ Depth(revs, q) = Depth(revs, p)
            /\ call.from_level - 1 = Depth(revs, p)
        BY <1>3, <1>4, <2>2
      <3> QED
        BY <3>1, <3>2
    <2> HIDE DEF p, q
    <2>5. /\ call' \in Calls /\ call'.loop = "climb_both"
          /\ call'.i = q /\ call'.from = p
          /\ call'.from_level = Depth(revs, p) /\ call'.rev = call.rev
          /\ call'.to_level = call.to_level
          /\ call'.target = call.target /\ call'.to = call.target
      BY <1>1, <1>3, <1>4, <2>2, <2>4 DEF Calls
    <2>6. CallOK' /\ ~Idle'
      BY <1>3, <1>4, <1>5, <2>2, <2>5 DEF CallOK, Idle, NoCall
    <2>7. Counting' /\ Climbing' /\ Filling'
      BY <1>4, <1>5, <2>3, <2>4, <2>5 DEF Counting, Climbing, Filling
    <2>8. OnPath'
      BY <1>4, <1>5, <2>5, <2>7 DEF OnPath, Toggling
    <2> QED
      BY <1>1, <1>2, <2>6, <2>8, PathFrame
  <1>8. CASE /\ call.from = call.i
             /\ call' = [call EXCEPT !.loop = "fill"]
    <2>1. /\ call.from_level \in Nat /\ call.to_level \in Nat
          /\ call.from_level <= call.to_level
      BY <1>3, <1>4, <1>8, DepthFacts, LineageDepth
    <2>2. /\ call' \in Calls /\ call'.loop = "fill" /\ call'.i = call.i
          /\ call'.from = call.from /\ call'.from_level = call.from_level
          /\ call'.to_level = call.to_level /\ call'.rev = call.rev
          /\ call'.target = call.target /\ call'.to = call.target
      BY <1>1, <1>3, <1>4, <1>8 DEF Calls, Loops
    <2>3. CallOK' /\ ~Idle'
      BY <1>3, <1>4, <1>5, <1>6, <2>2 DEF CallOK, Idle, NoCall
    <2>4. Filling'
      <3>1. /\ call'.to # 0 /\ call'.from \in Lineage(revs', call'.to)
            /\ Depth(revs', call'.to) = call'.to_level - Len(down')
            /\ call'.to = call'.target /\ down' = <<>>
            /\ Len(down') < PathLength'
        BY <1>3, <1>4, <1>5, <1>8, <2>1, <2>2 DEF PathLength
      <3> QED
        BY <3>1 DEF Filling
    <2>5. Counting' /\ Climbing'
      BY <1>4, <1>5, <2>2 DEF Counting, Climbing
    <2>6. OnPath'
      BY <1>4, <1>5, <2>2, <2>4, <2>5 DEF OnPath, Toggling
    <2> QED
      BY <1>1, <1>2, <2>3, <2>6, PathFrame
  <1> QED
    BY <1>1, <1>7, <1>8

LEMMA PathGrows ==
    ASSUME NEW S, NEW s \in Seq(S), NEW x \in S
    PROVE  /\ <<x>> \o s \in Seq(S) /\ <<x>> \o s # <<>>
           /\ Len(<<x>> \o s) = Len(s) + 1
           /\ (<<x>> \o s)[1] = x
           /\ \A i \in 1 .. Len(s) : (<<x>> \o s)[i + 1] = s[i]
  OBVIOUS

LEMMA FillPathInv ==
    ASSUME IInv, FillPath, UNCHANGED histVars
    PROVE  IInv'
  <1>1. /\ call.loop = "fill" /\ PathUnchanged
        /\ \/ /\ Len(down) < PathLength
              /\ call.to # 0
              /\ down' = <<call.to>> \o down
              /\ call' = [call EXCEPT !.to = revs[@].parent]
           \/ /\ Len(down) >= PathLength
              /\ call' = [call EXCEPT !.loop = "toggle"]
              /\ UNCHANGED down
    BY DEF FillPath, PathUnchanged, histVars
  <1>2. ~Idle
    BY <1>1 DEF Idle, NoCall
  <1>3. /\ revs \in Seq(Rev) /\ ParentsOlder(revs) /\ Len(revs) \in Nat
        /\ DOMAIN revs = 1 .. Len(revs) /\ tip \in DOMAIN revs
        /\ OnPath /\ CallOK /\ call \in Calls
        /\ call.target \in DOMAIN revs /\ call.rev \in DOMAIN revs
        /\ call.from \in DOMAIN revs
    BY <1>2, RoundFacts
  <1>4. /\ at = tip
        /\ call.from \in Lineage(revs, tip)
        /\ call.from_level = Depth(revs, call.from)
        /\ call.to_level = Depth(revs, call.target)
        /\ Filling
        /\ \A i \in 1 .. (Len(down) - 1) : revs[down[i + 1]].parent = down[i]
        /\ down # <<>> => down[Len(down)] = call.target
    BY <1>1, <1>3 DEF OnPath, Toggling, Climbing
  <1>5. UNCHANGED <<revs, tip, at>>
    BY <1>1 DEF PathUnchanged
  <1>6. /\ call.from_level \in Nat /\ call.to_level \in Nat
        /\ call.i \in DOMAIN revs
        /\ down \in Seq(1 .. Len(revs)) /\ Len(down) \in Nat
        /\ PathLength = call.to_level - call.from_level + 1
    BY <1>1, <1>3, <1>4, DepthFacts DEF CallOK, PathLength
  <1>7. CASE /\ Len(down) < PathLength
             /\ call.to # 0
             /\ down' = <<call.to>> \o down
             /\ call' = [call EXCEPT !.to = revs[@].parent]
    <2> DEFINE p == revs[call.to].parent
    <2>1. /\ call.to \in DOMAIN revs
          /\ call.from \in Lineage(revs, call.to)
          /\ Depth(revs, call.to) = call.to_level - Len(down)
          /\ call.to = IF down = <<>> THEN call.target ELSE revs[down[1]].parent
      BY <1>1, <1>3, <1>4, <1>7 DEF Filling, CallOK
    <2>2. p \in 0 .. Len(revs)
      BY <1>3, <2>1, ParentFacts
    <2>3. /\ down' \in Seq(1 .. Len(revs)) /\ down' # <<>>
          /\ Len(down') = Len(down) + 1 /\ down'[1] = call.to
          /\ \A i \in 1 .. Len(down) : down'[i + 1] = down[i]
      <3>1. call.to \in 1 .. Len(revs)
        BY <1>3, <2>1
      <3>2. down \in Seq(1 .. Len(revs))
        BY <1>6
      <3>3. /\ <<call.to>> \o down \in Seq(1 .. Len(revs))
            /\ <<call.to>> \o down # <<>>
            /\ Len(<<call.to>> \o down) = Len(down) + 1
            /\ (<<call.to>> \o down)[1] = call.to
            /\ \A i \in 1 .. Len(down) : (<<call.to>> \o down)[i + 1] = down[i]
        BY ONLY <3>1, <3>2, PathGrows
      <3>4. down' = <<call.to>> \o down
        BY <1>7
      <3> QED
        BY ONLY <3>3, <3>4
    <2>4. p \in Nat /\ call' = [call EXCEPT !.to = p]
      BY <1>7, <2>2
    <2>5. Len(down') < PathLength =>
            /\ p # 0 /\ call.from \in Lineage(revs, p)
            /\ Depth(revs, p) = call.to_level - Len(down')
      <3> SUFFICES ASSUME Len(down') < PathLength
                   PROVE  /\ p # 0 /\ call.from \in Lineage(revs, p)
                          /\ Depth(revs, p) = call.to_level - Len(down')
        OBVIOUS
      <3>1. Depth(revs, call.to) # Depth(revs, call.from)
        BY <1>4, <1>6, <2>1, <2>3
      <3>2. call.to # call.from
        BY <3>1
      <3>3. /\ call.to # 1 /\ p \in DOMAIN revs
            /\ call.from \in Lineage(revs, p)
        BY <1>3, <2>1, <3>2, LineageDepth
      <3>4. /\ Depth(revs, call.to) = Depth(revs, p) + 1
            /\ Depth(revs, p) \in Nat
        BY <1>3, <2>1, <3>3, DepthFacts
      <3>5. p # 0
        BY <1>3, <3>3
      <3>6. /\ Depth(revs, p) + 1 = call.to_level - Len(down)
            /\ Len(down') = Len(down) + 1
        BY <2>1, <2>3, <3>4
      <3>7. Depth(revs, p) = call.to_level - Len(down')
        BY ONLY <1>6, <3>4, <3>6
      <3> QED
        BY <3>3, <3>5, <3>7
    <2>6. ~(Len(down') < PathLength) => call.to = call.from
      <3>1. ~(Len(down') < PathLength) => Depth(revs, call.to) = Depth(revs, call.from)
        BY <1>4, <1>6, <1>7, <2>1, <2>3
      <3> QED
        BY <1>3, <2>1, <3>1, LineageDepth
    <2> HIDE DEF p
    <2>7. /\ call' \in Calls /\ call'.loop = "fill" /\ call'.to = p
          /\ call'.from = call.from /\ call'.from_level = call.from_level
          /\ call'.to_level = call.to_level /\ call'.i = call.i
          /\ call'.target = call.target /\ call'.rev = call.rev
      BY <1>1, <1>3, <2>4 DEF Calls
    <2>8. CallOK' /\ ~Idle'
      BY <1>3, <1>5, <1>6, <2>2, <2>3, <2>7 DEF CallOK, Idle, NoCall
    <2>9. Counting' /\ Climbing'
      BY <1>4, <1>5, <2>7 DEF Counting, Climbing
    <2>10. Filling'
      <3>1. PathLength' = PathLength
        BY <2>7 DEF PathLength
      <3>2. p = revs'[down'[1]].parent
        BY <1>5, <2>3 DEF p
      <3> QED
        BY <1>5, <2>3, <2>5, <2>6, <2>7, <3>1, <3>2 DEF Filling
    <2>11. \A i \in 1 .. (Len(down') - 1) : revs'[down'[i + 1]].parent = down'[i]
      <3> SUFFICES ASSUME NEW i \in 1 .. Len(down)
                   PROVE  revs[down'[i + 1]].parent = down'[i]
        <4>1. Len(down') - 1 = Len(down)
          BY <1>6, <2>3
        <4> QED
          BY <1>5, <4>1
      <3>1. CASE i = 1
        <4>1. down # <<>> /\ down'[i + 1] = down[1]
          BY <1>6, <2>3, <3>1
        <4> QED
          BY <2>1, <2>3, <3>1, <4>1
      <3>2. CASE i # 1
        <4>1. i - 1 \in 1 .. (Len(down) - 1) /\ i - 1 \in 1 .. Len(down)
              /\ (i - 1) + 1 = i
          BY <1>6, <3>2
        <4>2. down'[i + 1] = down[i] /\ down'[i] = down[i - 1]
          BY <2>3, <4>1
        <4>3. revs[down[i]].parent = down[i - 1]
          BY <1>4, <4>1
        <4> QED
          BY <4>2, <4>3
      <3> QED
        BY <3>1, <3>2
    <2>12. down'[Len(down')] = call.target
      <3>1. CASE down = <<>>
        BY <2>1, <2>3, <3>1
      <3>2. CASE down # <<>>
        <4>1. Len(down) \in 1 .. Len(down)
          BY <1>6, <3>2
        <4> QED
          BY <1>4, <2>3, <3>2, <4>1
      <3> QED
        BY <3>1, <3>2
    <2>13. OnPath'
      BY <1>4, <1>5, <2>7, <2>9, <2>10, <2>11, <2>12 DEF OnPath, Toggling
    <2> QED
      BY <1>1, <1>2, <2>8, <2>13, PathFrame
  <1>8. CASE /\ Len(down) >= PathLength
             /\ call' = [call EXCEPT !.loop = "toggle"]
             /\ UNCHANGED down
    <2>1. ~(Len(down) < PathLength)
      BY <1>6, <1>8
    <2>2. down # <<>> /\ down[1] \in Lineage(revs, at)
      BY <1>1, <1>4, <2>1 DEF Filling
    <2>3. /\ call' \in Calls /\ call'.loop = "toggle" /\ call'.to = call.to
          /\ call'.from = call.from
          /\ call'.target = call.target /\ call'.rev = call.rev
      BY <1>1, <1>3, <1>8 DEF Calls, Loops
    <2>4. CallOK' /\ ~Idle'
      BY <1>3, <1>5, <1>8, <2>3 DEF CallOK, Idle, NoCall
    <2>5. Counting' /\ Climbing' /\ Filling'
      BY <2>3 DEF Counting, Climbing, Filling
    <2>6. OnPath'
      BY <1>4, <1>5, <1>8, <2>2, <2>3, <2>5 DEF OnPath, Toggling
    <2> QED
      BY <1>1, <1>2, <2>4, <2>6, PathFrame
  <1> QED
    BY <1>1, <1>7, <1>8

(* A round of path_down is taken, and left, within an update.              *)
LEMMA PathStepWalks ==
    ASSUME IInv, PathStep
    PROVE  ~Idle /\ ~Idle'
  <1>1. CASE call.loop \in Loops \ {"none"} /\ call'.loop \in Loops \ {"none"}
    BY <1>1 DEF Idle, NoCall
  <1>2. call \in Calls
    BY DEF IInv, TypesH, TypeOK, CallOK
  <1> QED
    BY <1>1, <1>2 DEF PathStep, LevelOfFrom, LevelOfTo, ClimbFrom, ClimbI, ClimbBoth,
                      ClimbLoop, FillPath, Calls, Loops

-----------------------------------------------------------------------------
(* One toggle.                                                             *)

LEMMA LostWithout ==
    ASSUME NEW E
    PROVE  UNION OrphansWithout(E) =
               (Lost \ E) \cup (IF LosesFreeList(E) THEN freeList \ E ELSE {})
  <1> DEFINE rest == IF LosesFreeList(E) THEN freeList \ E ELSE {}
  <1>1. ASSUME NEW x \in UNION OrphansWithout(E)
        PROVE  x \in (Lost \ E) \cup rest
    <2>1. PICK ring \in OrphansWithout(E) : x \in ring
      BY <1>1
    <2>2. CASE ring \in {o \ E : o \in orphans}
      <3>1. PICK o \in orphans : ring = o \ E
        BY <2>2
      <3> QED
        BY <2>1, <3>1 DEF Lost
    <2>3. CASE LosesFreeList(E) /\ ring = freeList \ E
      BY <2>1, <2>3
    <2> QED
      BY <2>1, <2>2, <2>3 DEF OrphansWithout
  <1>2. ASSUME NEW x \in (Lost \ E) \cup rest
        PROVE  x \in UNION OrphansWithout(E)
    <2>1. CASE x \in Lost \ E
      <3>1. PICK o \in orphans : x \in o \ E
        BY <2>1 DEF Lost
      <3>2. o \ E \in OrphansWithout(E)
        BY <3>1 DEF OrphansWithout
      <3> QED
        BY <3>1, <3>2
    <2>2. CASE x \in rest
      <3>1. freeList \ E \in OrphansWithout(E) /\ x \in freeList \ E
        BY <2>2 DEF OrphansWithout
      <3> QED
        BY <3>1
    <2> QED
      BY <1>2, <2>1, <2>2
  <1> QED
    BY <1>1, <1>2

LEMMA ToggleData ==
    ASSUME TypesH, NEW r \in DOMAIN revs, NEW there \in Contents,
           LeadsBack(revs[r], Content, there), CellsKnown
    PROVE  /\ ToggledData(revs[r]) \in [Node -> Data \cup {NULL}]
           /\ UnfreedData(revs[r]) \in [Node -> Data \cup {NULL}]
           /\ \A n \in Node : there[n] # NULL => ToggledData(revs[r])[n] = there[n]
           /\ \A n \in revs[r].inserted : ToggledData(revs[r])[n] = Content[n]
           /\ \A n \in revs[r].changed : UnfreedData(revs[r])[n] = Content[n]
           /\ revs[r].inserted \subseteq Node /\ revs[r].erased \subseteq Node
           /\ revs[r].changed \subseteq Node
  <1> DEFINE rev == revs[r]
  <1>1. /\ rev.inserted \subseteq Node /\ rev.erased \subseteq Node
        /\ rev.changed \subseteq Node
        /\ rev.erasedData \in [Node -> Data \cup {NULL}]
        /\ rev.changedData \in [Node -> Data \cup {NULL}]
    <2>1. rev \in Rev
      BY DEF TypesH, TypeOK
    <2> QED
      BY <2>1 DEF Rev
  <1>2. data \in [Node -> Data \cup {NULL}] /\ inTree \subseteq Node
    BY DEF TypesH, TypeOK
  <1>3. /\ UnfreedData(rev) \in [Node -> Data \cup {NULL}]
        /\ \A n \in Node : UnfreedData(rev)[n] =
               IF n \in rev.erased THEN rev.erasedData[n] ELSE data[n]
    BY <1>1, <1>2 DEF UnfreedData
  <1>4. /\ ToggledData(rev) \in [Node -> Data \cup {NULL}]
        /\ \A n \in Node : ToggledData(rev)[n] =
               IF n \in rev.changed THEN rev.changedData[n] ELSE UnfreedData(rev)[n]
    BY <1>1, <1>3 DEF ToggledData
  <1>5. /\ \A n \in Node : Content[n] = IF n \in inTree THEN data[n] ELSE NULL
        /\ \A n \in Node : Content[n] # NULL <=> n \in inTree
    BY DEF Content, CellsKnown
  <1>6. /\ rev.inserted = {n \in Node : Content[n] # NULL /\ there[n] = NULL}
        /\ rev.erased = {n \in Node : Content[n] = NULL /\ there[n] # NULL}
        /\ \A n \in rev.changed : Content[n] # NULL /\ there[n] # NULL
        /\ \A n \in Node : Content[n] # NULL /\ there[n] # NULL
                             /\ Content[n] # there[n] => n \in rev.changed
        /\ \A n \in rev.erased : rev.erasedData[n] = there[n]
        /\ \A n \in rev.changed : rev.changedData[n] = there[n]
    BY DEF LeadsBack
  <1>7. ASSUME NEW n \in Node, there[n] # NULL
        PROVE  ToggledData(rev)[n] = there[n]
    BY <1>3, <1>4, <1>5, <1>6, <1>7
  <1>8. \A n \in rev.inserted : ToggledData(rev)[n] = Content[n]
    BY <1>1, <1>3, <1>4, <1>5, <1>6
  <1>9. \A n \in rev.changed : UnfreedData(rev)[n] = Content[n]
    BY <1>1, <1>3, <1>5, <1>6
  <1> QED
    BY <1>1, <1>3, <1>4, <1>7, <1>8, <1>9

LEMMA ToggleReverses ==
    ASSUME TypesH, NEW r \in DOMAIN revs, NEW there \in Contents,
           LeadsBack(revs[r], Content, there), CellsKnown
    PROVE  /\ Reversed(revs[r]) \in Rev
           /\ Reversed(revs[r]).parent = revs[r].parent
           /\ LeadsBack(Reversed(revs[r]), there, Content)
  <1> DEFINE rev == revs[r]
             back == Reversed(rev)
  <1>1. /\ rev \in Rev
        /\ ToggledData(rev) \in [Node -> Data \cup {NULL}]
        /\ UnfreedData(rev) \in [Node -> Data \cup {NULL}]
        /\ \A n \in Node : there[n] # NULL => ToggledData(rev)[n] = there[n]
        /\ \A n \in rev.inserted : ToggledData(rev)[n] = Content[n]
        /\ \A n \in rev.changed : UnfreedData(rev)[n] = Content[n]
        /\ rev.inserted \subseteq Node /\ rev.erased \subseteq Node
        /\ rev.changed \subseteq Node
    BY ToggleData DEF TypesH, TypeOK
  <1>2. /\ rev.parent \in Nat
        /\ rev.uninsertedData \in [Node -> Data \cup {NULL}]
        /\ rev.erasedData \in [Node -> Data \cup {NULL}]
    BY <1>1 DEF Rev
  <1>3. /\ back.parent = rev.parent /\ back.inserted = rev.erased
        /\ back.erased = rev.inserted /\ back.changed = rev.changed
        /\ back.uninsertedData = rev.erasedData
        /\ back.erasedData = FreedData(rev, ToggledData(rev))
        /\ back.changedData = DataOf(rev.changed, UnfreedData(rev))
    BY DEF Reversed
  <1>4. FreedData(rev, ToggledData(rev)) \in [Node -> Data \cup {NULL}]
    BY <1>1, <1>2 DEF FreedData, DataOf
  <1>5. DataOf(rev.changed, UnfreedData(rev)) \in [Node -> Data \cup {NULL}]
    BY <1>1 DEF DataOf
  <1>6. back \in Rev
    BY <1>1, <1>2, <1>4, <1>5 DEF Reversed, Rev
  <1>7. /\ rev.inserted = {n \in Node : Content[n] # NULL /\ there[n] = NULL}
        /\ rev.erased = {n \in Node : Content[n] = NULL /\ there[n] # NULL}
        /\ \A n \in rev.changed : Content[n] # NULL /\ there[n] # NULL
        /\ \A n \in Node : Content[n] # NULL /\ there[n] # NULL
                             /\ Content[n] # there[n] => n \in rev.changed
        /\ \A n \in rev.erased : rev.erasedData[n] = there[n]
        /\ \A n \in rev.changed : rev.changedData[n] = there[n]
        /\ \/ rev.uninsertedData = NoData
           \/ \A n \in rev.inserted : rev.uninsertedData[n] = Content[n]
    BY DEF LeadsBack
  <1>8. \A n \in back.erased : back.erasedData[n] = Content[n]
    <2>1. CASE rev.inserted # {} /\ rev.uninsertedData = NoData
      BY <2>1, <1>1, <1>3 DEF FreedData, DataOf
    <2>2. CASE ~(rev.inserted # {} /\ rev.uninsertedData = NoData)
      BY <2>2, <1>3, <1>7 DEF FreedData
    <2> QED
      BY <2>1, <2>2
  <1>9. \A n \in back.changed : back.changedData[n] = Content[n]
    BY <1>1, <1>3 DEF DataOf
  <1>10. \A n \in back.inserted : back.uninsertedData[n] = there[n]
    BY <1>3, <1>7
  <1>11. LeadsBack(back, there, Content)
    <2>1. back.inserted = {n \in Node : there[n] # NULL /\ Content[n] = NULL}
      BY <1>3, <1>7
    <2>2. back.erased = {n \in Node : there[n] = NULL /\ Content[n] # NULL}
      BY <1>3, <1>7
    <2>3. /\ \A n \in back.changed : there[n] # NULL /\ Content[n] # NULL
          /\ \A n \in Node : there[n] # NULL /\ Content[n] # NULL
                               /\ there[n] # Content[n] => n \in back.changed
      BY <1>3, <1>7
    <2> QED
      BY <1>8, <1>9, <1>10, <2>1, <2>2, <2>3 DEF LeadsBack
  <1> QED
    BY <1>3, <1>6, <1>11

LEMMA ToggleLeads ==
    ASSUME TypesH, RevTree, OneOwner, CellsKnown, NoWork, UNCHANGED histVars,
           NEW r \in DOMAIN revs, NEW there \in Contents,
           LeadsBack(revs[r], Content, there), Toggle(r),
           \A n \in Node : there[n] # NULL => n \notin fresh,
           \A n \in Node : IF n \in inserted THEN n \in wasInTree <=> before[n] # NULL
                                             ELSE n \in inTree <=> before[n] # NULL
    PROVE  /\ data' \in [Node -> Data \cup {NULL}]
           /\ filed' \in [Node -> Data \cup {NULL}]
           /\ inTree' \subseteq Node /\ inserted' \subseteq Node
           /\ wasInTree' \subseteq Node /\ freeList' \subseteq Node
           /\ orphans' \subseteq SUBSET Node
           /\ Content' = there
           /\ OneOwner' /\ CellsKnown' /\ NoWork'
           /\ \A n \in Node :
                 IF n \in inserted' THEN n \in wasInTree' <=> before'[n] # NULL
                                    ELSE n \in inTree' <=> before'[n] # NULL
           /\ revs' = [revs EXCEPT ![r] = Reversed(revs[r])]
           /\ UNCHANGED <<tip, snap, before, saved, insertedList, erasedList,
                          backup, fresh>>
  <1> DEFINE rev == revs[r]
  <1>1. /\ data' = ToggledData(rev)
        /\ inTree' = (inTree \cup rev.erased) \ rev.inserted
        /\ filed' = ToggledKeys(rev)
        /\ inserted' = inserted \cup Affected(rev)
        /\ wasInTree' = (wasInTree \ Affected(rev))
                          \cup (Affected(rev) \cap rev.inserted)
        /\ freeList' = FreeListWithout(rev.erased) \cup rev.inserted
        /\ orphans' = OrphansWithout(rev.erased)
        /\ revs' = [revs EXCEPT ![r] = Reversed(rev)]
        /\ UNCHANGED <<saved, insertedList, erasedList, backup, fresh, tip,
                       snap, before>>
    BY DEF Toggle, histVars
  <1>2. /\ ToggledData(rev) \in [Node -> Data \cup {NULL}]
        /\ \A n \in Node : there[n] # NULL => ToggledData(rev)[n] = there[n]
        /\ rev.inserted \subseteq Node /\ rev.erased \subseteq Node
    BY ToggleData
  <1>3. /\ inTree \subseteq Node /\ inserted \subseteq Node
        /\ wasInTree \subseteq Node /\ freeList \subseteq Node
        /\ orphans \subseteq SUBSET Node /\ fresh \subseteq Node
        /\ filed \in [Node -> Data \cup {NULL}]
    BY DEF TypesH, TypeOK
  <1>4. /\ rev.inserted = {n \in Node : Content[n] # NULL /\ there[n] = NULL}
        /\ rev.erased = {n \in Node : Content[n] = NULL /\ there[n] # NULL}
    BY DEF LeadsBack
  <1>5. \A n \in Node : Content[n] # NULL <=> n \in inTree
    BY DEF Content, CellsKnown
  <1>6. /\ inTree' = {n \in Node : there[n] # NULL}
        /\ rev.inserted \subseteq inTree /\ rev.erased \cap inTree = {}
    BY <1>1, <1>3, <1>4, <1>5
  <1>7. Content' = there
    BY <1>1, <1>2, <1>6 DEF Content, Contents
  <1>8. filed' \in [Node -> Data \cup {NULL}]
    BY <1>1, <1>2, <1>3 DEF ToggledKeys
  <1>9. /\ FreeListWithout(rev.erased) \subseteq freeList
        /\ OrphansWithout(rev.erased) \subseteq SUBSET Node
    BY <1>3 DEF FreeListWithout, OrphansWithout
  <1>10. Affected(rev) = (rev.erased \cup rev.inserted) \ inserted
    BY DEF Affected
  <1>11. /\ inserted' \subseteq Node /\ wasInTree' \subseteq Node
         /\ freeList' \subseteq Node /\ orphans' \subseteq SUBSET Node
    BY <1>1, <1>2, <1>3, <1>9, <1>10
  <1>12. /\ SaveRing = {} /\ SaveRing' = {} /\ Backups' = {} /\ erasedList = {}
    BY <1>1 DEF NoWork, SaveRing, Backups, NoBackup
  <1>13. Lost' = (Lost \ rev.erased)
                   \cup (IF LosesFreeList(rev.erased) THEN freeList \ rev.erased ELSE {})
    BY <1>1, LostWithout DEF Lost
  <1>14. freeList' = (IF LosesFreeList(rev.erased) THEN {} ELSE freeList \ rev.erased)
                       \cup rev.inserted
    BY <1>1 DEF FreeListWithout
  <1>15. OneOwner'
    <2>1. rev.erased \cap fresh = {}
      BY <1>4
    <2> QED
      BY <1>1, <1>2, <1>3, <1>6, <1>12, <1>13, <1>14, <2>1 DEF OneOwner
  <1>16. CellsKnown'
    BY <1>1, <1>2, <1>6 DEF CellsKnown
  <1>17. NoWork'
    BY <1>1 DEF NoWork, NoBackup
  <1>18. ASSUME NEW n \in Node
         PROVE  IF n \in inserted' THEN n \in wasInTree' <=> before'[n] # NULL
                                   ELSE n \in inTree' <=> before'[n] # NULL
    BY <1>1, <1>4, <1>5, <1>6, <1>10
  <1> QED
    BY <1>1, <1>2, <1>6, <1>7, <1>8, <1>11, <1>15, <1>16, <1>17, <1>18

(* A toggle turns one record round; the line of every revision stays.      *)
LEMMA ToggledRevs ==
    ASSUME TypesH, RevTree, NEW r \in DOMAIN revs, r # 1,
           Reversed(revs[r]) \in Rev,
           Reversed(revs[r]).parent = revs[r].parent,
           revs' = [revs EXCEPT ![r] = Reversed(revs[r])]
    PROVE  /\ revs' \in Seq(Rev) /\ Len(revs') = Len(revs)
           /\ DOMAIN revs' = DOMAIN revs
           /\ revs'[r] = Reversed(revs[r])
           /\ \A k \in DOMAIN revs : k # r => revs'[k] = revs[k]
           /\ \A k \in DOMAIN revs : revs'[k].parent = revs[k].parent
           /\ ParentsOlder(revs')
           /\ \A k \in DOMAIN revs : Lineage(revs', k) = Lineage(revs, k)
           /\ revs' # <<>>
  <1>1. revs \in Seq(Rev) /\ ParentsOlder(revs) /\ DOMAIN revs = 1 .. Len(revs)
        /\ Len(revs) \in Nat
    BY RevFacts
  <1>2. /\ revs' \in Seq(Rev) /\ Len(revs') = Len(revs)
        /\ DOMAIN revs' = DOMAIN revs
        /\ revs'[r] = Reversed(revs[r])
        /\ \A k \in DOMAIN revs : k # r => revs'[k] = revs[k]
    BY <1>1
  <1>3. \A k \in DOMAIN revs : revs'[k].parent = revs[k].parent
    BY <1>2
  <1>4. ParentsOlder(revs')
    BY <1>1, <1>2, <1>3 DEF ParentsOlder
  <1>5. DOMAIN revs \subseteq DOMAIN revs'
    BY <1>2
  <1>6. ASSUME NEW k \in DOMAIN revs PROVE Lineage(revs', k) = Lineage(revs, k)
    <2>1. k \in DOMAIN revs
      OBVIOUS
    <2> QED
      BY ONLY <1>1, <1>3, <1>5, <2>1, LineageKept
  <1>7. revs' # <<>>
    BY <1>1, <1>2
  <1> QED
    BY <1>2, <1>3, <1>4, <1>6, <1>7

(* What an update finds when it leaves revision at towards the root.       *)
LEMMA UpLeads ==
    ASSUME TypesH, RevTree, Records, CellsKnown, Walking, Toggling,
           at # Head(down)
    PROVE  LET p == revs[at].parent IN
           /\ at \in DOMAIN revs /\ at # 1
           /\ p \in DOMAIN revs /\ p # 0
           /\ down[1] \in Lineage(revs, p)
           /\ Lineage(revs, at) = Lineage(revs, p) \cup {at}
           /\ at \notin Lineage(revs, p)
           /\ LeadsBack(revs[at], Content, snap[p])
           /\ snap[p] \in Contents
           /\ \A n \in Node : snap[p][n] # NULL => n \notin fresh
  <1> DEFINE p == revs[at].parent
  <1>1. /\ at \in DOMAIN revs /\ down # <<>> /\ Head(down) = down[1]
        /\ revs \in Seq(Rev) /\ ParentsOlder(revs)
    <2>1. revs # <<>> /\ at # 0 /\ down # <<>>
      BY DEF RevTree, Walking, OnPath
    <2> QED
      BY <2>1, RevFacts DEF TypesH, TypeOK, CallOK
  <1>2. down[1] \in Lineage(revs, at)
    BY <1>1 DEF Walking, OnPath
  <1>3. at # 1
    <2>1. 1 \in DOMAIN revs => Lineage(revs, 1) = {1}
      BY <1>1, LineageOfRoot
    <2> QED
      BY <1>1, <1>2, <2>1
  <1>4. p \in DOMAIN revs /\ p # 0
    BY <1>1, <1>3, ParentFacts
  <1>5. /\ Lineage(revs, at) = Lineage(revs, p) \cup {at}
        /\ at \notin Lineage(revs, p)
    BY <1>1, <1>3, LineageStep
  <1>6. LeadsBack(revs[at], Content, snap[p])
    <2>1. at \in Lineage(revs, at)
      BY <1>1, LineageSelf
    <2> QED
      BY <1>1, <1>3, <2>1 DEF Records, Walking
  <1>7. snap[p] \in Contents /\ \A n \in Node : snap[p][n] # NULL => n \notin fresh
    BY <1>4, RevFacts DEF CellsKnown
  <1> QED
    BY <1>1, <1>2, <1>3, <1>4, <1>5, <1>6, <1>7

(* ... and when it goes on from revision at down its path.                 *)
LEMMA DownLeads ==
    ASSUME TypesH, RevTree, Records, CellsKnown, Walking,
           Toggling, at = Head(down), Len(down) > 1
    PROVE  LET j == down[2] IN
           /\ j \in DOMAIN revs /\ j # 1 /\ at \in DOMAIN revs
           /\ revs[j].parent = at
           /\ Lineage(revs, j) = Lineage(revs, at) \cup {j}
           /\ j \notin Lineage(revs, at)
           /\ LeadsBack(revs[j], Content, snap[j])
           /\ snap[j] \in Contents
           /\ \A n \in Node : snap[j][n] # NULL => n \notin fresh
  <1> DEFINE j == down[2]
  <1>1. /\ down \in Seq(DOMAIN revs) /\ down # <<>> /\ Head(down) = down[1]
        /\ Len(down) \in Nat /\ j \in DOMAIN revs /\ at \in DOMAIN revs
        /\ revs \in Seq(Rev) /\ ParentsOlder(revs)
    BY RevFacts DEF TypesH, TypeOK, CallOK
  <1>2. revs[j].parent = at
    BY <1>1 DEF Walking, OnPath
  <1>3. j # 1
    BY <1>1, <1>2, ParentFacts
  <1>4. /\ Lineage(revs, j) = Lineage(revs, at) \cup {j}
        /\ j \notin Lineage(revs, at)
    BY <1>1, <1>2, <1>3, LineageStep
  <1>5. LeadsBack(revs[j], Content, snap[j])
    BY <1>1, <1>2, <1>3, <1>4 DEF Records, Walking
  <1>6. snap[j] \in Contents /\ \A n \in Node : snap[j][n] # NULL => n \notin fresh
    BY <1>1, RevFacts DEF CellsKnown
  <1> QED
    BY <1>1, <1>2, <1>3, <1>4, <1>5, <1>6

LEMMA TogglingFacts ==
    ASSUME Toggling
    PROVE  /\ ~Idle
           /\ Counting /\ Climbing /\ Filling
  BY DEF Toggling, Idle, NoCall, Counting, Climbing, Filling

LEMMA StillToggling ==
    ASSUME Toggling, UNCHANGED call
    PROVE  /\ Toggling' /\ ~Idle'
           /\ Counting' /\ Climbing' /\ Filling'
  BY DEF Toggling, Idle, NoCall, Counting, Climbing, Filling

LEMMA ToggleUpInv ==
    ASSUME IInv, ToggleUp, UNCHANGED histVars
    PROVE  IInv'
  <1> DEFINE p == revs[at].parent
  <1>1. /\ ~Idle /\ Toggling /\ at # Head(down) /\ Toggle(at)
        /\ at' = p /\ down' = down /\ call' = call
    BY TogglingFacts DEF ToggleUp
  <1>2. TypesH /\ RevTree /\ Records /\ OneOwner /\ CellsKnown /\ Walking
    BY <1>1 DEF IInv
  <1>3. /\ at \in DOMAIN revs /\ at # 1
        /\ p \in DOMAIN revs /\ p # 0
        /\ down[1] \in Lineage(revs, p)
        /\ Lineage(revs, at) = Lineage(revs, p) \cup {at}
        /\ at \notin Lineage(revs, p)
        /\ LeadsBack(revs[at], Content, snap[p])
        /\ snap[p] \in Contents
        /\ \A n \in Node : snap[p][n] # NULL => n \notin fresh
    BY <1>1, <1>2, UpLeads
  <1>4. /\ NoWork /\ Content = snap[at]
        /\ \A n \in Node : IF n \in inserted THEN n \in wasInTree <=> before[n] # NULL
                                            ELSE n \in inTree <=> before[n] # NULL
    BY <1>2 DEF Walking
  <1>5. /\ Reversed(revs[at]) \in Rev
        /\ Reversed(revs[at]).parent = p
        /\ LeadsBack(Reversed(revs[at]), snap[p], snap[at])
    BY <1>2, <1>3, <1>4, ToggleReverses
  <1>6. /\ data' \in [Node -> Data \cup {NULL}]
        /\ filed' \in [Node -> Data \cup {NULL}]
        /\ inTree' \subseteq Node /\ inserted' \subseteq Node
        /\ wasInTree' \subseteq Node /\ freeList' \subseteq Node
        /\ orphans' \subseteq SUBSET Node
        /\ Content' = snap[p]
        /\ OneOwner' /\ CellsKnown' /\ NoWork'
        /\ \A n \in Node :
              IF n \in inserted' THEN n \in wasInTree' <=> before'[n] # NULL
                                 ELSE n \in inTree' <=> before'[n] # NULL
        /\ revs' = [revs EXCEPT ![at] = Reversed(revs[at])]
        /\ UNCHANGED <<tip, snap, before, saved, insertedList, erasedList,
                       backup, fresh>>
    BY <1>1, <1>2, <1>3, <1>4, ToggleLeads
  <1>7. /\ revs' \in Seq(Rev) /\ Len(revs') = Len(revs)
        /\ DOMAIN revs' = DOMAIN revs
        /\ revs'[at] = Reversed(revs[at])
        /\ \A k \in DOMAIN revs : k # at => revs'[k] = revs[k]
        /\ \A k \in DOMAIN revs : revs'[k].parent = revs[k].parent
        /\ ParentsOlder(revs')
        /\ \A k \in DOMAIN revs : Lineage(revs', k) = Lineage(revs, k)
        /\ revs' # <<>>
    BY <1>2, <1>3, <1>5, <1>6, ToggledRevs
  <1>8. TypesH'
    <2>1. at' \in 0 .. Len(revs')
      BY <1>1, <1>2, <1>3, <1>7, RevFacts
    <2>2. CallOK'
      <3>1. CallOK
        BY <1>2 DEF TypesH, TypeOK
      <3> QED
        BY <1>1, <1>7, <3>1 DEF CallOK, Idle
    <2> QED
      BY <1>1, <1>2, <1>6, <1>7, <2>1, <2>2 DEF TypesH, TypeOK
  <1>9. RevTree'
    BY <1>1, <1>2, <1>3, <1>6, <1>7 DEF RevTree, Walking
  <1>10. Records'
    <2> SUFFICES ASSUME NEW k \in DOMAIN revs, k # 1
                 PROVE  IF k \in Lineage(revs, p)
                        THEN LeadsBack(revs'[k], snap[k], snap[revs[k].parent])
                        ELSE LeadsBack(revs'[k], snap[revs[k].parent], snap[k])
      BY <1>1, <1>3, <1>6, <1>7 DEF Records
    <2>1. CASE k = at
      BY <2>1, <1>3, <1>5, <1>7
    <2>2. CASE k # at
      <3>1. k \in Lineage(revs, p) <=> k \in Lineage(revs, at)
        BY <2>2, <1>3
      <3> QED
        BY <2>2, <3>1, <1>2, <1>7 DEF Records
    <2> QED
      BY <2>1, <2>2
  <1>11. Walking'
    <2>1. \A i \in 1 .. (Len(down') - 1) : revs'[down'[i + 1]].parent = down'[i]
      <3> SUFFICES ASSUME NEW i \in 1 .. (Len(down) - 1)
                   PROVE  revs'[down[i + 1]].parent = down[i]
        BY <1>1
      <3>1. down[i + 1] \in DOMAIN revs
        BY <1>2, RevFacts DEF TypesH, TypeOK, CallOK
      <3> QED
        BY <1>2, <1>7, <3>1 DEF Walking, OnPath
    <2>2. down'[1] \in Lineage(revs', at')
      BY <1>1, <1>3, <1>7
    <2>3. tip' # 0 /\ Content' = snap'[at']
      BY <1>1, <1>2, <1>6 DEF Walking
    <2>4. /\ down' # <<>> /\ down'[Len(down')] = call'.target
          /\ Toggling' /\ call'.loop = "toggle"
          /\ Counting' /\ Climbing' /\ Filling'
      BY <1>1, <1>2, StillToggling DEF Walking, OnPath, Toggling
    <2>5. OnPath'
      BY <2>1, <2>2, <2>4 DEF OnPath
    <2> QED
      BY <1>6, <2>3, <2>5 DEF Walking
  <1>12. ~Idle'
    BY <1>1, StillToggling
  <1> QED
    BY <1>6, <1>8, <1>9, <1>10, <1>11, <1>12 DEF IInv

LEMMA ToggleDownInv ==
    ASSUME IInv, ToggleDown, UNCHANGED histVars
    PROVE  IInv'
  <1> DEFINE j == down[2]
  <1>1. /\ ~Idle /\ Toggling /\ at = Head(down) /\ Len(down) > 1 /\ Toggle(j)
        /\ at' = j /\ down' = Tail(down) /\ call' = call
    BY TogglingFacts DEF ToggleDown
  <1>2. TypesH /\ RevTree /\ Records /\ OneOwner /\ CellsKnown /\ Walking
    BY <1>1 DEF IInv
  <1>3. /\ j \in DOMAIN revs /\ j # 1 /\ at \in DOMAIN revs
        /\ revs[j].parent = at
        /\ Lineage(revs, j) = Lineage(revs, at) \cup {j}
        /\ j \notin Lineage(revs, at)
        /\ LeadsBack(revs[j], Content, snap[j])
        /\ snap[j] \in Contents
        /\ \A n \in Node : snap[j][n] # NULL => n \notin fresh
    BY <1>1, <1>2, DownLeads
  <1>4. /\ down \in Seq(DOMAIN revs) /\ down # <<>> /\ Head(down) = down[1]
        /\ Len(down) \in Nat
    BY <1>1, <1>2, RevFacts DEF TypesH, TypeOK, CallOK
  <1>5. /\ NoWork /\ Content = snap[at]
        /\ \A n \in Node : IF n \in inserted THEN n \in wasInTree <=> before[n] # NULL
                                           ELSE n \in inTree <=> before[n] # NULL
    BY <1>2 DEF Walking
  <1>6. /\ Reversed(revs[j]) \in Rev
        /\ Reversed(revs[j]).parent = revs[j].parent
        /\ LeadsBack(Reversed(revs[j]), snap[j], snap[at])
    BY <1>2, <1>3, <1>4, <1>5, ToggleReverses
  <1>7. /\ data' \in [Node -> Data \cup {NULL}]
        /\ filed' \in [Node -> Data \cup {NULL}]
        /\ inTree' \subseteq Node /\ inserted' \subseteq Node
        /\ wasInTree' \subseteq Node /\ freeList' \subseteq Node
        /\ orphans' \subseteq SUBSET Node
        /\ Content' = snap[j]
        /\ OneOwner' /\ CellsKnown' /\ NoWork'
        /\ \A n \in Node :
              IF n \in inserted' THEN n \in wasInTree' <=> before'[n] # NULL
                                 ELSE n \in inTree' <=> before'[n] # NULL
        /\ revs' = [revs EXCEPT ![j] = Reversed(revs[j])]
        /\ UNCHANGED <<tip, snap, before, saved, insertedList, erasedList,
                       backup, fresh>>
    BY <1>1, <1>2, <1>3, <1>4, <1>5, ToggleLeads
  <1>8. /\ revs' \in Seq(Rev) /\ Len(revs') = Len(revs)
        /\ DOMAIN revs' = DOMAIN revs
        /\ revs'[j] = Reversed(revs[j])
        /\ \A k \in DOMAIN revs : k # j => revs'[k] = revs[k]
        /\ \A k \in DOMAIN revs : revs'[k].parent = revs[k].parent
        /\ ParentsOlder(revs')
        /\ \A k \in DOMAIN revs : Lineage(revs', k) = Lineage(revs, k)
        /\ revs' # <<>>
    BY <1>2, <1>3, <1>4, <1>6, <1>7, ToggledRevs
  <1>9. /\ down' \in Seq(DOMAIN revs) /\ Len(down') = Len(down) - 1
        /\ down' # <<>> /\ down'[1] = j
        /\ \A i \in 1 .. (Len(down) - 1) : down'[i] = down[i + 1]
    <2>1. PICK t : t = Tail(down)
      OBVIOUS
    <2>2. /\ t \in Seq(DOMAIN revs) /\ Len(t) = Len(down) - 1
          /\ \A i \in 1 .. Len(t) : t[i] = down[i + 1]
      BY <1>3, <1>4, <2>1, HeadTailProperties
    <2>3. Len(t) \in Nat /\ Len(t) > 0 /\ 1 \in 1 .. Len(t)
      BY <1>1, <1>3, <1>4, <2>2
    <2>4. t[1] = j /\ t # <<>>
      BY <2>2, <2>3
    <2> QED
      BY ONLY <1>1, <2>1, <2>2, <2>4
  <1>10. TypesH'
    <2>1. at' \in 0 .. Len(revs') /\ down' \in Seq(1 .. Len(revs'))
      BY <1>1, <1>2, <1>3, <1>4, <1>8, <1>9, RevFacts
    <2>2. CallOK'
      <3>1. CallOK
        BY <1>2 DEF TypesH, TypeOK
      <3> QED
        BY <1>1, <1>8, <2>1, <3>1 DEF CallOK, Idle
    <2> QED
      BY <1>2, <1>7, <1>8, <2>1, <2>2 DEF TypesH, TypeOK
  <1>11. RevTree'
    BY <1>1, <1>2, <1>3, <1>7, <1>8 DEF RevTree, Walking
  <1>12. Records'
    <2> SUFFICES ASSUME NEW k \in DOMAIN revs, k # 1
                 PROVE  IF k \in Lineage(revs, j)
                        THEN LeadsBack(revs'[k], snap[k], snap[revs[k].parent])
                        ELSE LeadsBack(revs'[k], snap[revs[k].parent], snap[k])
      BY <1>1, <1>3, <1>4, <1>7, <1>8 DEF Records
    <2>1. CASE k = j
      BY <2>1, <1>3, <1>6, <1>8
    <2>2. CASE k # j
      <3>1. k \in Lineage(revs, j) <=> k \in Lineage(revs, at)
        BY <2>2, <1>3
      <3> QED
        BY <2>2, <3>1, <1>2, <1>8 DEF Records
    <2> QED
      BY <2>1, <2>2
  <1>13. Walking'
    <2>1. \A i \in 1 .. (Len(down') - 1) : revs'[down'[i + 1]].parent = down'[i]
      <3> SUFFICES ASSUME NEW i \in 1 .. (Len(down') - 1)
                   PROVE  revs'[down'[i + 1]].parent = down'[i]
        OBVIOUS
      <3>1. /\ i + 1 \in 1 .. (Len(down) - 1) /\ i \in 1 .. (Len(down) - 1)
            /\ (i + 1) + 1 \in 1 .. Len(down)
        BY <1>3, <1>4, <1>9
      <3>2. down'[i + 1] = down[(i + 1) + 1] /\ down'[i] = down[i + 1]
        BY <1>9, <3>1
      <3>3. down[(i + 1) + 1] \in DOMAIN revs
        BY <1>3, <1>4, <3>1
      <3>4. revs[down[(i + 1) + 1]].parent = down[i + 1]
        BY <1>2, <3>1 DEF Walking, OnPath
      <3> QED
        BY <1>8, <3>2, <3>3, <3>4
    <2>2. down'[1] \in Lineage(revs', at')
      BY <1>1, <1>3, <1>4, <1>8, <1>9
    <2>3. tip' # 0 /\ Content' = snap'[at']
      BY <1>1, <1>2, <1>7 DEF Walking
    <2>4. down'[Len(down')] = call'.target
      <3>1. down[Len(down)] = call.target
        BY <1>2, <1>4 DEF Walking, OnPath
      <3>2. /\ Len(down) - 1 \in 1 .. (Len(down) - 1)
            /\ (Len(down) - 1) + 1 = Len(down)
        BY <1>1, <1>4
      <3>3. down'[Len(down) - 1] = down[Len(down)]
        BY <1>9, <3>2
      <3> QED
        BY <1>1, <1>9, <3>1, <3>3
    <2>5. Toggling' /\ call'.loop = "toggle" /\ Counting' /\ Climbing' /\ Filling'
      BY <1>1, StillToggling DEF Toggling
    <2>6. OnPath'
      BY <1>9, <2>1, <2>2, <2>4, <2>5 DEF OnPath
    <2> QED
      BY <1>7, <2>3, <2>6 DEF Walking
  <1>14. ~Idle'
    BY <1>1, StillToggling
  <1> QED
    BY <1>7, <1>10, <1>11, <1>12, <1>13, <1>14 DEF IInv

LEMMA EndUpdateInv ==
    ASSUME IInv, EndUpdateH
    PROVE  IInv'
  <1>1. /\ Toggling /\ inserted' = {} /\ wasInTree' = {} /\ at = call.target
        /\ tip' = at /\ down' = <<>> /\ call' = NoCall /\ before' = Nothing
        /\ UNCHANGED <<data, filed, inTree, saved, insertedList, erasedList,
                       freeList, backup, orphans, fresh, revs, at, snap>>
    BY DEF EndUpdateH, EndUpdate
  <1>2. TypesH /\ RevTree /\ Records /\ OneOwner /\ CellsKnown /\ Walking
    BY <1>1, TogglingFacts DEF IInv
  <1>3. Nothing \in Contents
    BY DEF Nothing, Contents
  <1>4. CallOK' /\ Idle'
    <2>1. Len(revs') \in Nat /\ Idle'
      BY <1>1, <1>2, RevFacts DEF Idle
    <2> QED
      BY <1>1, <2>1, IdleCall
  <1>5. TypesH'
    BY <1>1, <1>2, <1>3, <1>4 DEF TypesH, TypeOK
  <1>6. at # 0 /\ revs # <<>>
    BY <1>2 DEF RevTree, Walking
  <1>7. RevTree'
    BY <1>1, <1>2, <1>6 DEF RevTree
  <1>8. Records'
    BY <1>1, <1>2 DEF Records
  <1>9. SaveRing' = SaveRing /\ Backups' = Backups /\ Lost' = Lost
    BY <1>1 DEF SaveRing, Backups, Lost
  <1>10. OneOwner' /\ CellsKnown'
    BY <1>1, <1>2, <1>9 DEF OneOwner, CellsKnown
  <1>11. Working'
    <2>1. /\ insertedList = {} /\ erasedList = {} /\ saved = {} /\ Backups = {}
      BY <1>2 DEF Walking, NoWork, Backups, NoBackup
    <2>2. \A n \in Node : snap[at][n] = IF n \in inTree THEN data[n] ELSE NULL
      <3>1. \A n \in Node : Content[n] = IF n \in inTree THEN data[n] ELSE NULL
        BY DEF Content
      <3> QED
        BY <1>2, <3>1 DEF Walking
    <2>3. inTree \subseteq Node /\ \A n \in inTree : data[n] # NULL
      BY <1>2 DEF TypesH, TypeOK, CellsKnown
    <2> QED
      BY <1>1, <1>6, <1>9, <2>1, <2>2, <2>3, SnapshotIsWorking
  <1> QED
    BY <1>4, <1>5, <1>7, <1>8, <1>10, <1>11 DEF IInv

LEMMA FiniInv ==
    ASSUME IInv, FiniH
    PROVE  IInv'
  <1>1. /\ Idle /\ tip # 0
        /\ orphans' = Orphaned(SaveRing)
        /\ fresh' = Node \ Lost'
        /\ data' = [n \in Node |-> IF n \in fresh' THEN NULL ELSE data[n]]
        /\ filed' = [n \in Node |-> NULL]
        /\ inTree' = {} /\ inserted' = {} /\ saved' = {} /\ insertedList' = {}
        /\ erasedList' = {} /\ freeList' = {} /\ backup' = NoBackup
        /\ revs' = <<>> /\ tip' = 0 /\ at' = 0 /\ snap' = <<>>
        /\ UNCHANGED <<down, call, wasInTree, before>>
    BY DEF FiniH, Fini
  <1>2. TypesH /\ Working
    BY <1>1 DEF IInv
  <1>3. SaveRing \subseteq Node
    BY <1>2, SaveRingMembers
  <1>4. orphans' \subseteq SUBSET Node
    BY <1>1, <1>2, <1>3 DEF Orphaned, TypesH, TypeOK
  <1>5. down' = <<>> /\ Idle' /\ CallOK'
    <2>1. down' = <<>> /\ Idle' /\ Len(revs') \in Nat
      BY <1>1, <1>2 DEF Idle, Working
    <2> QED
      BY <2>1, IdleCall
  <1>6. revs' \in Seq(Rev) /\ snap' \in Seq(Contents) /\ Len(snap') = Len(revs')
        /\ Len(revs') = 0 /\ DOMAIN revs' = {} /\ DOMAIN snap' = {}
    BY <1>1
  <1>7. TypesH'
    BY <1>1, <1>2, <1>4, <1>5, <1>6, NoBackupType DEF TypesH, TypeOK
  <1>8. RevTree' /\ Records'
    BY <1>1, <1>6 DEF RevTree, ParentsOlder, Records
  <1>9. SaveRing' = {} /\ Backups' = {}
    BY <1>1 DEF SaveRing, Backups, NoBackup
  <1>10. Lost' \subseteq Node
    BY <1>4 DEF Lost
  <1>11. OneOwner'
    BY <1>1, <1>9, <1>10 DEF OneOwner
  <1>12. CellsKnown'
    BY <1>1, <1>6 DEF CellsKnown
  <1>13. Working'
    BY <1>1, <1>2, <1>5 DEF Working, NoWork, NoBackup
  <1> QED
    BY <1>5, <1>7, <1>8, <1>11, <1>12, <1>13 DEF IInv

LEMMA StutterInv ==
    ASSUME IInv, UNCHANGED varsH
    PROVE  IInv'
  <1> USE DEF varsH
  <1>1. SaveRing' = SaveRing /\ Backups' = Backups /\ Lost' = Lost
        /\ Content' = Content /\ Idle' = Idle
    BY DEF SaveRing, Backups, Lost, Content, Idle
  <1>2. TypesH' = TypesH /\ RevTree' = RevTree /\ Records' = Records
    <2>1. CallOK' = CallOK
      BY <1>1 DEF CallOK
    <2> QED
      BY <2>1 DEF TypesH, TypeOK, RevTree, Records
  <1>3. OneOwner' = OneOwner /\ CellsKnown' = CellsKnown
    BY <1>1 DEF OneOwner, CellsKnown
  <1>4. Working => Working'
    BY <1>1 DEF Working, NoWork
  <1>5. Walking => Walking'
    <2>1. OnPath' = OnPath
      BY DEF OnPath, Toggling, Counting, Climbing, Filling, PathLength
    <2> QED
      BY <1>1, <2>1 DEF Walking, NoWork
  <1> QED
    BY <1>1, <1>2, <1>3, <1>4, <1>5 DEF IInv

-----------------------------------------------------------------------------
(* The inductive invariant, for any set of cells and keys and any number   *)
(* of revisions: what the lists, the records and the rings hold always     *)
(* tells the working set and every committed content apart.                *)
LEMMA NextInv ==
    ASSUME IInv, [NextH]_varsH
    PROVE  IInv'
  <1>1. CASE \E d \in Data : Insert(d) /\ UNCHANGED histVars
    BY <1>1, InsertInv
  <1>2. CASE \E n \in Node : Erase(n) /\ UNCHANGED histVars
    <2>1. PICK n \in Node : n \in inTree /\ Discard({n}) /\ UNCHANGED histVars
      BY <1>2 DEF Erase
    <2>2. {n} \in SUBSET inTree
      BY <2>1
    <2> QED
      BY <2>1, <2>2, DiscardInv
  <1>3. CASE Clear /\ UNCHANGED histVars
    BY <1>3, DiscardInv DEF Clear
  <1>4. CASE \E n \in Node, d \in Data : ChangeSaving(n, d) /\ UNCHANGED histVars
    BY <1>4, ChangeSavingInv
  <1>5. CASE \E n \in Node, d \in Data : ChangeInPlace(n, d) /\ UNCHANGED histVars
    BY <1>5, ChangeInPlaceInv
  <1>6. CASE \E n \in Node : Refile(n) /\ UNCHANGED histVars
    BY <1>6, RefileInv
  <1>7. CASE FirstCommitH
    BY <1>7, FirstCommitInv
  <1>8. CASE NextCommitH
    BY <1>8, NextCommitInv
  <1>9. CASE Revert /\ UNCHANGED histVars
    BY <1>9, RevertInv
  <1>10. CASE \E r \in DOMAIN revs : BeginUpdateH(r)
    BY <1>10, BeginUpdateInv
  <1>11. CASE PathStep /\ UNCHANGED histVars
    BY <1>11, LevelOfFromInv, LevelOfToInv, ClimbFromInv, ClimbIInv, ClimbBothInv,
       FillPathInv DEF PathStep
  <1>12. CASE ToggleUp /\ UNCHANGED histVars
    BY <1>12, ToggleUpInv
  <1>13. CASE ToggleDown /\ UNCHANGED histVars
    BY <1>13, ToggleDownInv
  <1>14. CASE EndUpdateH
    BY <1>14, EndUpdateInv
  <1>15. CASE FiniH
    BY <1>15, FiniInv
  <1>16. CASE UNCHANGED varsH
    BY <1>16, StutterInv
  <1> QED
    BY <1>1, <1>2, <1>3, <1>4, <1>5, <1>6, <1>7, <1>8, <1>9, <1>10, <1>11,
       <1>12, <1>13, <1>14, <1>15, <1>16 DEF NextH

THEOREM Invariant == SafeSpecH => []IInv
  <1>1. InitH => IInv
    BY InitInv
  <1>2. IInv /\ [NextH]_varsH => IInv'
    BY NextInv
  <1> QED
    BY <1>1, <1>2, PTL DEF SafeSpecH

-----------------------------------------------------------------------------
(***************************************************************************)
(* What the inductive invariant gives: every property that MCTreeHistory   *)
(* checks on two or three cells, for every set of cells, every set of keys *)
(* and every number of revisions.                                          *)
(***************************************************************************)
(* Every variable of the tree stays in its range (TypeOK of PersistentTree). *)
THEOREM TypeCorrect == SafeSpecH => []TypeOK
  <1>1. IInv => TypeOK
    BY DEF IInv, TypesH
  <1> QED
    BY <1>1, Invariant, PTL

(* One cell is never in two places of the tree's bookkeeping, and none is  *)
(* nowhere: child[] and parent never serve two rings at once.              *)
THEOREM Ownership == SafeSpecH => []OneOwner
  <1>1. IInv => OneOwner
    BY DEF IInv
  <1> QED
    BY <1>1, Invariant, PTL

-----------------------------------------------------------------------------
(* The record that an update is about to toggle leads from what the tree   *)
(* holds to some content made of cells that were handed out.               *)
LEMMA NextToggledLeads ==
    ASSUME IInv, NEW r \in DOMAIN revs, NextToggled(r)
    PROVE  /\ CellsKnown /\ OneOwner /\ NoWork /\ TypesH
           /\ \E there \in Contents :
                 /\ LeadsBack(revs[r], Content, there)
                 /\ \A n \in Node : there[n] # NULL => n \notin fresh
  <1>1. ~Idle
    BY TogglingFacts DEF NextToggled
  <1>2. TypesH /\ RevTree /\ Records /\ OneOwner /\ CellsKnown /\ Walking
    BY <1>1 DEF IInv
  <1>3. CASE Toggling /\ at # Head(down) /\ r = at
    BY <1>2, <1>3, UpLeads DEF Walking
  <1>4. CASE Toggling /\ at = Head(down) /\ Len(down) > 1 /\ r = down[2]
    BY <1>2, <1>4, DownLeads DEF Walking
  <1> QED
    BY <1>3, <1>4 DEF NextToggled

(* No assert() of bst.c fails in insert_node, erase_node, bst_revert or    *)
(* toggle.                                                                 *)
THEOREM Assertions == SafeSpecH => []AssertionsHold
  <1>1. ASSUME IInv, Idle PROVE RevertAsserts
    <2>1. OneOwner /\ Working /\ TypesH
      BY <1>1 DEF IInv
    <2>2. SaveRing \cap inTree = {} /\ erasedList \cap inTree = {}
      BY <2>1, SaveRingMembers DEF OneOwner, TypesH, TypeOK
    <2>3. insertedList \subseteq inserted /\ erasedList \cap inserted = {}
      BY <2>1 DEF Working, NoWork
    <2> QED
      BY <2>2, <2>3 DEF RevertAsserts
  <1>2. ASSUME IInv, NEW r \in DOMAIN revs, NextToggled(r) PROVE ToggleAsserts(r)
    <2>1. PICK there \in Contents : LeadsBack(revs[r], Content, there)
      BY <1>2, NextToggledLeads
    <2>2. \A n \in Node : Content[n] # NULL <=> n \in inTree
      BY <1>2, NextToggledLeads DEF Content, CellsKnown
    <2>3. revs[r].changed \subseteq Node
      BY <1>2, RevFacts DEF IInv, TypesH, TypeOK, Rev
    <2> QED
      BY <2>1, <2>2, <2>3 DEF LeadsBack, ToggleAsserts
  <1>3. IInv => AssertionsHold
    BY <1>1, <1>2 DEF AssertionsHold
  <1> QED
    BY <1>3, Invariant, PTL

(* toggle() finds every cell it brings back in a ring, and its data in the *)
(* record.                                                                 *)
THEOREM Unfreeing == SafeSpecH => []UnfreesRingCells
  <1>1. ASSUME IInv, NEW r \in DOMAIN revs, NextToggled(r)
        PROVE  /\ revs[r].erased \subseteq freeList \cup Lost
               /\ \A n \in revs[r].erased : revs[r].erasedData[n] \in Data
    <2>1. PICK there \in Contents :
                 /\ LeadsBack(revs[r], Content, there)
                 /\ \A n \in Node : there[n] # NULL => n \notin fresh
      BY <1>1, NextToggledLeads
    <2>2. CellsKnown /\ OneOwner /\ NoWork /\ TypesH
      BY <1>1, NextToggledLeads
    <2>3. \A n \in Node : Content[n] # NULL <=> n \in inTree
      BY <2>2 DEF Content, CellsKnown
    <2>4. erasedList = {} /\ SaveRing = {}
      BY <2>2 DEF NoWork, SaveRing, NoBackup
    <2> SUFFICES ASSUME NEW n \in revs[r].erased
                 PROVE  n \in freeList \cup Lost /\ revs[r].erasedData[n] \in Data
      OBVIOUS
    <2>5. /\ n \in Node /\ n \notin inTree /\ there[n] # NULL
          /\ revs[r].erasedData[n] = there[n]
      BY <2>1, <2>3 DEF LeadsBack
    <2>6. n \in freeList \cup Lost
      BY <2>1, <2>2, <2>4, <2>5 DEF OneOwner
    <2>7. there[n] \in Data
      BY <2>5 DEF Contents
    <2> QED
      BY <2>5, <2>6, <2>7
  <1>2. IInv => UnfreesRingCells
    BY <1>1 DEF UnfreesRingCells
  <1> QED
    BY <1>2, Invariant, PTL

-----------------------------------------------------------------------------
(* Why an update ends.                                                     *)

(* The loops of level, path_down and bst_update never follow a NULL parent *)
(* nor run past the path, in a tree of revisions of any shape.             *)
THEOREM NeverStopped == SafeSpecH => []NeverStuck
  <1>1. ASSUME IInv, ~Idle PROVE NeverStuck
    <2>1. /\ revs \in Seq(Rev) /\ ParentsOlder(revs) /\ Len(revs) \in Nat
          /\ DOMAIN revs = 1 .. Len(revs) /\ tip \in DOMAIN revs
          /\ OnPath /\ CallOK /\ call \in Calls
          /\ call.target \in DOMAIN revs /\ call.rev \in DOMAIN revs
          /\ call.from \in DOMAIN revs
      BY <1>1, RoundFacts
    <2>2. call.loop \in Loops \ {"none"}
      BY <1>1, <2>1 DEF CallOK, Calls
    <2>3. CASE call.loop \in {"level_from", "level_to", "climb_from"}
      BY <2>1, <2>3 DEF NeverStuck
    <2>4. CASE call.loop \in {"climb_i", "climb_both"}
      BY <2>1, <2>4 DEF NeverStuck, CallOK
    <2>5. CASE call.loop = "fill"
      BY <2>1, <2>5 DEF NeverStuck, CallOK, OnPath, Filling
    <2>6. CASE call.loop = "toggle"
      <3>1. Toggling
        BY <2>6 DEF Toggling
      <3>2. down # <<>> /\ down[Len(down)] = call.target
            /\ down \in Seq(1 .. Len(revs))
        BY <2>1, <3>1 DEF OnPath, CallOK
      <3>3. at # 0
        BY <1>1 DEF IInv, RevTree, Walking
      <3>4. ASSUME at = Head(down), at # call.target PROVE Len(down) > 1
        <4>1. Len(down) \in Nat /\ Len(down) # 0 /\ Head(down) = down[1]
          BY <3>2
        <4> QED
          BY <3>2, <3>4, <4>1
      <3> QED
        BY <3>1, <3>2, <3>3, <3>4 DEF NeverStuck
    <2> QED
      BY <2>2, <2>3, <2>4, <2>5, <2>6 DEF Loops
  <1>2. IInv => NeverStuck
    BY <1>1 DEF NeverStuck
  <1> QED
    BY <1>2, Invariant, PTL

(* A toggle leaves every revision as deep as it is.                        *)
LEMMA ToggledDepth ==
    ASSUME IInv, NEW r \in DOMAIN revs, Toggle(r), NEW k \in DOMAIN revs
    PROVE  Depth(revs', k) = Depth(revs, k)
  <1>1. revs \in Seq(Rev) /\ ParentsOlder(revs)
    BY RevFacts DEF IInv
  <1>2. /\ revs' = [revs EXCEPT ![r] = Reversed(revs[r])]
        /\ Reversed(revs[r]).parent = revs[r].parent
    BY DEF Toggle, Reversed
  <1>3. /\ DOMAIN revs \subseteq DOMAIN revs'
        /\ \A i \in DOMAIN revs : revs'[i].parent = revs[i].parent
    BY <1>2
  <1>4. k \in DOMAIN revs
    OBVIOUS
  <1>5. Lineage(revs', k) = Lineage(revs, k)
    BY ONLY <1>1, <1>3, <1>4, LineageKept
  <1> QED
    BY <1>5 DEF Depth

LEMMA LevelAdvances ==
    ASSUME IInv, LevelOfFrom \/ LevelOfTo
    PROVE  Advances
  <1>1. /\ call.loop \in {"level_from", "level_to"}
        /\ UNCHANGED revs
        /\ \/ /\ revs[call.rev].parent # 0
              /\ call'.loop = call.loop /\ call'.rev = revs[call.rev].parent
           \/ call.loop = "level_from" /\ call'.loop = "level_to"
           \/ call.loop = "level_to" /\ call'.loop = "climb_from"
    <2>1. call \in Calls
      BY DEF IInv, TypesH, TypeOK, CallOK
    <2> QED
      BY <2>1 DEF LevelOfFrom, LevelOfTo, ClimbLoop, BelowRoot, Calls
  <1>2. ~Idle
    BY <1>1 DEF Idle, NoCall
  <1>3. CASE revs[call.rev].parent # 0 /\ call'.loop = call.loop
             /\ call'.rev = revs[call.rev].parent
    <2> DEFINE p == revs[call.rev].parent
    <2>1. revs \in Seq(Rev) /\ ParentsOlder(revs) /\ call.rev \in DOMAIN revs
      BY <1>2, RoundFacts
    <2>2. p \in DOMAIN revs /\ Depth(revs, call.rev) = Depth(revs, p) + 1
          /\ Depth(revs, p) \in Nat
      BY <1>3, <2>1, ParentFacts, DepthFacts
    <2>3. RoundsLeft = Depth(revs, call.rev) /\ RoundsLeft' = Depth(revs, p)
      BY <1>1, <1>3 DEF RoundsLeft
    <2> QED
      BY <1>3, <2>2, <2>3 DEF Advances
  <1>4. CASE \/ call.loop = "level_from" /\ call'.loop = "level_to"
             \/ call.loop = "level_to" /\ call'.loop = "climb_from"
    BY <1>4 DEF Advances, Stage
  <1> QED
    BY <1>1, <1>3, <1>4

LEMMA ClimbAdvances ==
    ASSUME IInv, IInv', ClimbFrom \/ ClimbI \/ ClimbBoth
    PROVE  Advances
  <1>1. call \in Calls /\ call' \in Calls
    BY DEF IInv, TypesH, TypeOK, CallOK
  <1>2. CASE ClimbFrom
    <2>1. /\ call.loop = "climb_from"
          /\ \/ call'.loop = call.loop /\ call'.from_level = call.from_level - 1
             \/ call'.loop = "climb_i"
      BY <1>1, <1>2 DEF ClimbFrom, ClimbLoop, Calls
    <2>2. call'.loop = "climb_from" =>
            RoundsLeft = call.from_level /\ RoundsLeft' = call'.from_level
      BY <2>1 DEF RoundsLeft
    <2>3. call.from_level \in Nat /\ call'.from_level \in Nat
      BY <1>1 DEF Calls
    <2> QED
      BY <2>1, <2>2, <2>3 DEF Advances, Stage
  <1>3. CASE ClimbI
    <2>1. /\ call.loop = "climb_i"
          /\ \/ call'.loop = call.loop /\ call'.i_level = call.i_level - 1
             \/ call'.loop = "climb_both"
      BY <1>1, <1>3 DEF ClimbI, ClimbLoop, Calls
    <2>2. call'.loop = "climb_i" =>
            RoundsLeft = call.i_level /\ RoundsLeft' = call'.i_level
      BY <2>1 DEF RoundsLeft
    <2>3. call.i_level \in Nat /\ call'.i_level \in Nat
      BY <1>1 DEF Calls
    <2> QED
      BY <2>1, <2>2, <2>3 DEF Advances, Stage
  <1>4. CASE ClimbBoth
    <2>1. /\ call.loop = "climb_both"
          /\ \/ call'.loop = call.loop /\ call'.from_level = call.from_level - 1
             \/ call'.loop = "fill"
      BY <1>1, <1>4 DEF ClimbBoth, ClimbLoop, Calls
    <2>2. call'.loop = "climb_both" =>
            RoundsLeft = call.from_level /\ RoundsLeft' = call'.from_level
      BY <2>1 DEF RoundsLeft
    <2>3. call.from_level \in Nat /\ call'.from_level \in Nat
      BY <1>1 DEF Calls
    <2> QED
      BY <2>1, <2>2, <2>3 DEF Advances, Stage
  <1> QED
    BY <1>2, <1>3, <1>4

LEMMA FillAdvances ==
    ASSUME IInv, FillPath
    PROVE  Advances
  <1>1. call \in Calls /\ Len(down) \in Nat /\ down \in Seq(Nat)
    BY DEF IInv, TypesH, TypeOK, CallOK
  <1>2. PathLength \in Int
    BY <1>1 DEF Calls, PathLength
  <1>3. CASE Len(down) < PathLength
    <2>1. /\ call.loop = "fill" /\ call'.loop = "fill"
          /\ call'.to_level = call.to_level /\ call'.from_level = call.from_level
          /\ down' = <<call.to>> \o down
      BY <1>1, <1>2, <1>3 DEF FillPath, Calls
    <2>2. Len(down') = Len(down) + 1
      <3>1. call.to \in Nat
        BY <1>1 DEF Calls
      <3> QED
        BY <1>1, <2>1, <3>1, PathGrows
    <2>3. PathLength' = PathLength
      BY <2>1 DEF PathLength
    <2>4. /\ RoundsLeft = PathLength - Len(down)
          /\ RoundsLeft' = IF Len(down') < PathLength THEN PathLength - Len(down')
                                                     ELSE 0
      BY <1>3, <2>1, <2>3 DEF RoundsLeft
    <2>5. RoundsLeft' \in Nat /\ RoundsLeft' < RoundsLeft
      BY <1>1, <1>2, <1>3, <2>2, <2>4
    <2> QED
      BY <2>1, <2>5 DEF Advances
  <1>4. CASE ~(Len(down) < PathLength)
    <2>1. call.loop = "fill" /\ call'.loop = "toggle"
      BY <1>1, <1>4 DEF FillPath, Calls
    <2> QED
      BY <2>1 DEF Advances, Stage
  <1> QED
    BY <1>3, <1>4

LEMMA ToggleAdvances ==
    ASSUME IInv, ToggleUp \/ ToggleDown
    PROVE  Advances
  <1>1. Toggling /\ UNCHANGED call /\ ~Idle
    BY TogglingFacts DEF ToggleUp, ToggleDown
  <1>2. TypesH /\ RevTree /\ Records /\ CellsKnown /\ Walking
    BY <1>1 DEF IInv
  <1>3. /\ revs \in Seq(Rev) /\ ParentsOlder(revs) /\ Len(revs) \in Nat
        /\ DOMAIN revs = 1 .. Len(revs) /\ OnPath /\ CallOK
    BY <1>1, RoundFacts
  <1>4. down \in Seq(DOMAIN revs) /\ down # <<>> /\ Len(down) \in Nat
        /\ Head(down) = down[1] /\ down[1] \in DOMAIN revs
    BY <1>1, <1>3 DEF OnPath, CallOK
  <1>5. /\ RoundsLeft = Depth(revs, at) - Depth(revs, down[1]) + Len(down)
        /\ RoundsLeft' = Depth(revs', at') - Depth(revs', down'[1]) + Len(down')
    BY <1>1 DEF RoundsLeft, Toggling
  <1>6. CASE ToggleUp
    <2> DEFINE p == revs[at].parent
    <2>1. at # Head(down) /\ Toggle(at) /\ at' = p /\ down' = down
      BY <1>6 DEF ToggleUp
    <2>2. /\ at \in DOMAIN revs /\ at # 1 /\ p \in DOMAIN revs
          /\ down[1] \in Lineage(revs, p)
      BY <1>1, <1>2, <2>1, UpLeads
    <2>3. Depth(revs', p) = Depth(revs, p)
          /\ Depth(revs', down[1]) = Depth(revs, down[1])
      BY <1>4, <2>1, <2>2, ToggledDepth
    <2>4. /\ Depth(revs, at) = Depth(revs, p) + 1
          /\ Depth(revs, p) \in Nat /\ Depth(revs, down[1]) \in Nat
          /\ Depth(revs, down[1]) <= Depth(revs, p)
      BY <1>3, <1>4, <2>2, DepthFacts, LineageDepth
    <2>5. RoundsLeft' = Depth(revs, p) - Depth(revs, down[1]) + Len(down)
      BY <1>5, <2>1, <2>3
    <2> HIDE DEF p
    <2>6. RoundsLeft' \in Nat /\ RoundsLeft' < RoundsLeft
      BY <1>4, <1>5, <2>4, <2>5
    <2> QED
      BY <1>1, <2>6 DEF Advances
  <1>7. CASE ToggleDown
    <2> DEFINE j == down[2]
    <2>1. /\ at = Head(down) /\ Len(down) > 1 /\ Toggle(j)
          /\ at' = j /\ down' = Tail(down)
      BY <1>7 DEF ToggleDown
    <2>2. j \in DOMAIN revs
      BY <1>1, <1>2, <2>1, DownLeads
    <2>3. Len(down') = Len(down) - 1 /\ down'[1] = j
      BY <1>4, <2>1
    <2>4. Depth(revs', j) = Depth(revs, j) /\ Depth(revs, j) \in Nat
          /\ Depth(revs, at) \in Nat
      BY <1>3, <1>4, <2>1, <2>2, ToggledDepth, DepthFacts
    <2>5. RoundsLeft' = Len(down) - 1 /\ RoundsLeft = Len(down)
      BY <1>4, <1>5, <2>1, <2>3, <2>4
    <2>6. RoundsLeft' \in Nat /\ RoundsLeft' < RoundsLeft
      BY <1>4, <2>1, <2>5
    <2> QED
      BY <1>1, <2>6 DEF Advances
  <1> QED
    BY <1>6, <1>7

(* Every step of an update but the last goes on to a later loop or leaves  *)
(* fewer rounds of its own, so with NeverStopped no update loops for ever: *)
(* see UpdateAdvances.                                                     *)
THEOREM UpdatesAdvance == SafeSpecH => UpdateAdvances
  <1>1. ASSUME IInv, IInv', PathStep \/ ToggleUp \/ ToggleDown
        PROVE  Advances
    BY <1>1, LevelAdvances, ClimbAdvances, FillAdvances, ToggleAdvances DEF PathStep
  <1>2. IInv /\ [NextH]_varsH => IInv'
    BY NextInv
  <1> QED
    BY <1>1, <1>2, Invariant, PTL DEF UpdateAdvances, SafeSpecH

-----------------------------------------------------------------------------
LEMMA ReversedCaches ==
    ASSUME NEW rev \in Rev
    PROVE  Caches(rev) \subseteq Caches(Reversed(rev))
  <1>1. /\ Reversed(rev).uninsertedData = rev.erasedData
        /\ Reversed(rev).erasedData = FreedData(rev, ToggledData(rev))
    BY DEF Reversed
  <1>2. rev.uninsertedData # NoData =>
            FreedData(rev, ToggledData(rev)) = rev.uninsertedData
    BY DEF FreedData
  <1> QED
    BY <1>1, <1>2 DEF Caches

LEMMA ToggleCaches ==
    ASSUME TypesH, NEW r \in DOMAIN revs, Toggle(r)
    PROVE  \A s \in DOMAIN revs \cap DOMAIN revs' :
                Caches(revs[s]) \subseteq Caches(revs'[s])
  <1>1. revs' = [revs EXCEPT ![r] = Reversed(revs[r])]
    BY DEF Toggle
  <1>2. \A s \in DOMAIN revs : revs'[s] = IF s = r THEN Reversed(revs[r]) ELSE revs[s]
    BY <1>1
  <1>3. revs[r] \in Rev
    BY DEF TypesH, TypeOK
  <1> QED
    BY <1>2, <1>3, ReversedCaches

(* Updating back and forth is free the second time: a toggle keeps both    *)
(* arrays of data the record holds.                                        *)
THEOREM LaterUpdates == SafeSpecH => LaterUpdatesAreFree
  <1> DEFINE Kept == \A r \in DOMAIN revs \cap DOMAIN revs' :
                        Caches(revs[r]) \subseteq Caches(revs'[r])
  <1>1. ASSUME IInv, [NextH]_varsH PROVE [Kept]_revs
    <2>1. CASE revs' = revs
      BY <2>1
    <2>2. CASE FirstCommitH
      <3>1. revs = <<>>
        BY <1>1, <2>2 DEF IInv, RevTree, FirstCommitH, FirstCommit
      <3> QED
        BY <3>1
    <2>3. CASE NextCommitH
      <3>1. PICK rev : revs' = revs \/ revs' = Append(revs, rev)
        BY <2>3 DEF NextCommitH, NextCommit
      <3>2. revs \in Seq(Rev)
        BY <1>1 DEF IInv, TypesH, TypeOK
      <3>3. \A s \in DOMAIN revs : revs'[s] = revs[s]
        BY <3>1, <3>2
      <3> QED
        BY <3>3
    <2>4. CASE ToggleUp
      <3>1. at \in DOMAIN revs
        BY <1>1, <2>4, UpLeads, TogglingFacts DEF ToggleUp, IInv
      <3> QED
        BY <1>1, <2>4, <3>1, ToggleCaches DEF ToggleUp, IInv
    <2>5. CASE ToggleDown
      <3>1. down[2] \in DOMAIN revs
        BY <1>1, <2>5, DownLeads, TogglingFacts DEF ToggleDown, IInv
      <3> QED
        BY <1>1, <2>5, <3>1, ToggleCaches DEF ToggleDown, IInv
    <2>6. CASE FiniH
      BY <2>6 DEF FiniH, Fini
    <2>7. \/ revs' = revs \/ FirstCommitH \/ NextCommitH \/ ToggleUp \/ ToggleDown
          \/ FiniH
      BY <1>1 DEF NextH, varsH, Insert, Erase, Clear, Discard, ChangeSaving,
                  ChangeInPlace, Refile, Revert, RevertTree, BeginUpdateH,
                  BeginUpdate, PathStep, LevelOfFrom, LevelOfTo, ClimbFrom,
                  ClimbI, ClimbBoth, ClimbLoop, FillPath, EndUpdateH, EndUpdate
    <2> QED
      BY <2>1, <2>2, <2>3, <2>4, <2>5, <2>6, <2>7
  <1>2. SafeSpecH => [][Kept]_revs
    BY <1>1, Invariant, PTL DEF SafeSpecH
  <1> QED
    BY <1>2 DEF LaterUpdatesAreFree

(* The list bst_update() returns: see UpdateReportsMoves.                  *)
THEOREM UpdateReports == SafeSpecH => UpdateReportsMoves
  <1>1. ASSUME IInv, EndUpdate PROVE UpdateResult = Moved(before, Content)
    <2>1. Walking /\ CellsKnown /\ inserted \subseteq Node /\ inTree \subseteq Node
      BY <1>1, TogglingFacts DEF IInv, EndUpdate, TypesH, TypeOK
    <2>2. \A n \in Node : Content[n] # NULL <=> n \in inTree
      BY <2>1 DEF Content, CellsKnown
    <2> SUFFICES ASSUME NEW n \in Node
                 PROVE  n \in UpdateResult <=> n \in Moved(before, Content)
      BY <2>1 DEF UpdateResult, Moved
    <2>3. IF n \in inserted THEN n \in wasInTree <=> before[n] # NULL
                            ELSE n \in inTree <=> before[n] # NULL
      BY <2>1 DEF Walking
    <2> QED
      BY <2>2, <2>3 DEF UpdateResult, Moved
  <1> QED
    BY <1>1, Invariant, PTL DEF UpdateReportsMoves, SafeSpecH

(* The list bst_revert() returns: see RevertReportsMoves.                  *)
THEOREM RevertReports == SafeSpecH => RevertReportsMoves
  <1>1. ASSUME IInv, IInv', Revert PROVE RevertResult = Moved(Content, Content')
    <2>1. TypesH /\ RevTree /\ OneOwner /\ CellsKnown /\ Working /\ RevertTree
      BY <1>1 DEF IInv, Revert
    <2>2. /\ \A n \in Node : Content[n] # NULL <=> n \in inTree
          /\ \A n \in Node : Content'[n] # NULL <=> n \in inTree'
      BY <1>1 DEF Content, CellsKnown, IInv
    <2>3. CASE tip = 0
      <3>1. inTree' = inTree /\ RevertResult = {}
        BY <2>1, <2>3 DEF Working, NoWork, RevertTree, InsertedNow, RevertResult
      <3> QED
        BY <2>2, <3>1 DEF Moved
    <2>4. CASE tip # 0
      <3>1. /\ RevertResult \subseteq Node
            /\ \A n \in Node : n \in RevertResult <=> (n \in inTree) # (n \in inTree')
        BY <2>1, <2>4, RevertRestores
      <3> QED
        BY <2>2, <3>1 DEF Moved
    <2> QED
      BY <2>3, <2>4
  <1>2. IInv /\ [NextH]_varsH => IInv'
    BY NextInv
  <1> QED
    BY <1>1, <1>2, Invariant, PTL DEF RevertReportsMoves, SafeSpecH

-----------------------------------------------------------------------------
(* The refinement: what each call does to the store.                       *)
LEMMA InsertPuts ==
    ASSUME IInv, NEW d \in Data, Insert(d), UNCHANGED histVars
    PROVE  \E n \in Node : Store!Put(n, d)
  <1>1. PICK n \in Allocatable :
            /\ data' = [data EXCEPT ![n] = d]
            /\ inTree' = inTree \cup {n}
    BY DEF Insert
  <1>2. /\ Idle /\ Idle' /\ UNCHANGED <<tip, snap>>
    BY DEF Insert, Idle, histVars
  <1>3. TypesH /\ OneOwner /\ Working
    BY <1>2 DEF IInv
  <1>4. /\ n \in Node /\ n \notin inTree /\ (n \in freeList \/ n \in fresh)
        /\ data \in [Node -> Data \cup {NULL}]
    BY <1>3 DEF Allocatable, OneOwner, TypesH, TypeOK
  <1>5. tip # 0 => snap[tip][n] = NULL
    BY <1>3, <1>4, KnownWhere
  <1>6. Content[n] = NULL /\ Content' = [Content EXCEPT ![n] = d]
    BY <1>1, <1>4 DEF Content
  <1> QED
    BY <1>2, <1>4, <1>5, <1>6 DEF Store!Put

LEMMA DiscardRemoves ==
    ASSUME IInv, NEW E \in SUBSET inTree, Discard(E), UNCHANGED histVars
    PROVE  Store!Remove(E) /\ E \in SUBSET Node
  <1>1. /\ Idle /\ Idle' /\ UNCHANGED <<tip, snap>>
        /\ inTree' = inTree \ E
        /\ data' = [n \in Node |-> IF n \in FreedCells(E) THEN NULL ELSE data[n]]
    BY DEF Discard, Idle, histVars
  <1>2. FreedCells(E) \subseteq E /\ inTree \subseteq Node /\ CellsKnown
    BY DEF FreedCells, IInv, TypesH, TypeOK
  <1>3. \A n \in E : Content[n] # NULL
    BY <1>2 DEF Content, CellsKnown
  <1>4. Content' = [n \in Node |-> IF n \in E THEN NULL ELSE Content[n]]
    BY <1>1, <1>2 DEF Content
  <1> QED
    BY <1>1, <1>2, <1>3, <1>4 DEF Store!Remove

LEMMA ChangeSets ==
    ASSUME IInv, NEW n \in Node, NEW d \in Data,
           ChangeSaving(n, d) \/ ChangeInPlace(n, d), UNCHANGED histVars
    PROVE  Store!Set(n, d)
  <1>1. /\ Idle /\ Idle' /\ UNCHANGED <<tip, snap, inTree>> /\ n \in inTree
    BY DEF ChangeSaving, ChangeInPlace, Idle, histVars
  <1>2. /\ data \in [Node -> Data \cup {NULL}] /\ CellsKnown /\ OneOwner
        /\ freeList \subseteq Node /\ fresh \subseteq Node
    BY DEF IInv, TypesH, TypeOK
  <1>3. Content[n] # NULL
    BY <1>1, <1>2 DEF Content, CellsKnown
  <1>4. \A m \in inTree : data'[m] = IF m = n THEN d ELSE data[m]
    <2>1. CASE ChangeInPlace(n, d)
      BY <2>1, <1>2 DEF ChangeInPlace, IInv, TypesH, TypeOK
    <2>2. CASE ChangeSaving(n, d)
      <3>1. PICK b \in Allocatable : data' = [data EXCEPT ![b] = data[n], ![n] = d]
        BY <2>2 DEF ChangeSaving
      <3>2. b \in Node /\ b \notin inTree
        BY <1>2 DEF Allocatable, OneOwner
      <3>3. inTree \subseteq Node
        BY DEF IInv, TypesH, TypeOK
      <3> QED
        BY <1>1, <1>2, <3>1, <3>2, <3>3
    <2> QED
      BY <2>1, <2>2
  <1>5. Content' = [Content EXCEPT ![n] = d]
    BY <1>1, <1>4 DEF Content
  <1> QED
    BY <1>1, <1>3, <1>5 DEF Store!Set

LEMMA FirstCommitCommits ==
    ASSUME IInv, FirstCommitH
    PROVE  Store!Commit
  <1>1. /\ Idle /\ Idle' /\ tip' = 1 /\ snap' = <<Content>>
        /\ UNCHANGED <<data, inTree>>
    BY DEF FirstCommitH, FirstCommit, Idle
  <1>2. snap = <<>>
    <2>1. revs = <<>> /\ Len(snap) = Len(revs) /\ snap \in Seq(Contents)
      BY DEF IInv, TypesH, RevTree, FirstCommitH, FirstCommit
    <2> QED
      BY <2>1
  <1>3. Content' = Content
    BY <1>1 DEF Content
  <1> QED
    BY <1>1, <1>2, <1>3 DEF Store!Commit

LEMMA NextCommitCommits ==
    ASSUME IInv, NextCommitH
    PROVE  Store!Commit \/ UNCHANGED Store!svars
  <1>1. /\ Idle /\ Idle' /\ tip # 0
        /\ data' = DataRestored(RestoredNow) /\ UNCHANGED inTree
        /\ snap' = IF revs' = revs THEN snap ELSE Append(snap, Content)
        /\ \/ UNCHANGED <<revs, tip>>
           \/ /\ tip' = Len(revs) + 1
              /\ \E rev : revs' = Append(revs, rev)
    BY DEF NextCommitH, NextCommit, Idle
  <1>2. TypesH /\ RevTree /\ OneOwner /\ CellsKnown /\ Working
    BY <1>1 DEF IInv
  <1>3. \A n \in inTree : data'[n] = data[n]
    BY <1>1, <1>2, CommitFinds
  <1>4. Content' = Content
    BY <1>1, <1>3 DEF Content
  <1>5. CASE UNCHANGED <<revs, tip>>
    BY <1>1, <1>4, <1>5 DEF Store!svars
  <1>6. CASE tip' = Len(revs) + 1 /\ \E rev : revs' = Append(revs, rev)
    <2>1. Len(revs) = Len(snap) /\ revs \in Seq(Rev)
      BY <1>2 DEF TypesH, TypeOK
    <2>2. revs' # revs
      BY <1>6, <2>1
    <2> QED
      BY <1>1, <1>4, <1>6, <2>1, <2>2 DEF Store!Commit
  <1> QED
    BY <1>1, <1>5, <1>6

LEMMA RevertChecksOut ==
    ASSUME IInv, Revert, UNCHANGED histVars
    PROVE  (tip # 0 /\ Store!Checkout(tip)) \/ UNCHANGED Store!svars
  <1>1. /\ Idle /\ Idle' /\ RevertTree /\ UNCHANGED <<tip, snap>>
    BY DEF Revert, RevertTree, Idle, histVars
  <1>2. TypesH /\ RevTree /\ OneOwner /\ CellsKnown /\ Working
    BY <1>1 DEF IInv
  <1>3. CASE tip = 0
    <2>1. /\ Backups = {} /\ InsertedNow = {} /\ erasedList = {}
      BY <1>2, <1>3 DEF Working, NoWork, Backups, NoBackup, InsertedNow
    <2>2. data' = data /\ inTree' = inTree
      BY <1>1, <1>2, <2>1 DEF RevertTree, DataRestored, TypesH, TypeOK
    <2>3. Content' = Content
      BY <2>2 DEF Content
    <2> QED
      BY <1>1, <2>3 DEF Store!svars
  <1>4. CASE tip # 0
    <2>1. /\ inTree' = {n \in Node : snap[tip][n] # NULL}
          /\ \A n \in inTree' : data'[n] = snap[tip][n]
      BY <1>1, <1>2, <1>4, RevertRestores
    <2>2. snap[tip] \in Contents
      BY <1>2, <1>4, RevFacts
    <2>3. Content' = snap[tip]
      <3>1. Content' = [n \in Node |-> snap[tip][n]]
        BY <2>1 DEF Content
      <3> QED
        BY <2>2, <3>1 DEF Contents
    <2> QED
      BY <1>1, <1>4, <2>3 DEF Store!Checkout
  <1> QED
    BY <1>3, <1>4

(* While an update walks, the store has not moved; its end is one step.    *)
LEMMA WalkStutters ==
    ASSUME IInv, (\E r \in DOMAIN revs : BeginUpdateH(r))
                   \/ ((PathStep \/ ToggleUp \/ ToggleDown) /\ UNCHANGED histVars)
    PROVE  UNCHANGED Store!svars
  <1>1. CASE \E r \in DOMAIN revs : BeginUpdateH(r)
    <2>1. PICK r \in DOMAIN revs : BeginUpdateH(r)
      BY <1>1
    <2>2. Idle /\ before' = Content /\ UNCHANGED <<tip, snap>>
      BY <2>1 DEF BeginUpdateH, BeginUpdate, RevertTree
    <2>3. call' = [NoCall EXCEPT !.loop = "level_from", !.target = r, !.rev = tip,
                                 !.from = tip, !.to = r]
      BY <2>1 DEF BeginUpdateH, BeginUpdate
    <2>4. ~Idle'
      BY <2>3 DEF Idle, NoCall
    <2> QED
      BY <2>2, <2>4 DEF Store!svars
  <1>2. CASE PathStep /\ UNCHANGED histVars
    <2>1. UNCHANGED <<tip, snap, before>>
      BY <1>2 DEF PathStep, LevelOfFrom, LevelOfTo, ClimbFrom, ClimbI, ClimbBoth,
                  ClimbLoop, FillPath, histVars
    <2>2. ~Idle /\ ~Idle'
      BY <1>2, PathStepWalks
    <2> QED
      BY <2>1, <2>2 DEF Store!svars
  <1>3. CASE (ToggleUp \/ ToggleDown) /\ UNCHANGED histVars
    <2>1. Toggling /\ UNCHANGED <<call, tip, snap, before>>
      BY <1>3 DEF ToggleUp, ToggleDown, Toggle, histVars
    <2> QED
      BY <2>1, TogglingFacts, StillToggling DEF Store!svars
  <1> QED
    BY <1>1, <1>2, <1>3

LEMMA EndUpdateChecksOut ==
    ASSUME IInv, EndUpdateH
    PROVE  at \in DOMAIN snap /\ Store!Checkout(at)
  <1>1. ~Idle /\ Idle' /\ tip' = at /\ UNCHANGED <<data, inTree, snap>>
    BY TogglingFacts DEF EndUpdateH, EndUpdate, Idle
  <1>2. TypesH /\ RevTree /\ Walking
    BY <1>1 DEF IInv
  <1>3. at \in DOMAIN snap
    <2>1. at # 0
      BY <1>2 DEF RevTree, Walking
    <2> QED
      BY <1>2, <2>1, RevFacts
  <1>4. Content' = Content /\ Content = snap[at]
    BY <1>1, <1>2 DEF Content, Walking
  <1> QED
    BY <1>1, <1>3, <1>4 DEF Store!Checkout

LEMMA FiniResets ==
    ASSUME IInv, FiniH
    PROVE  Store!Reset
  <1>1. Idle /\ Idle' /\ tip' = 0 /\ snap' = <<>> /\ inTree' = {}
    BY DEF FiniH, Fini, Idle
  <1>2. Content' = Store!Empty
    BY <1>1 DEF Content, Store!Empty
  <1> QED
    BY <1>1, <1>2 DEF Store!Reset

LEMMA StepImplements ==
    ASSUME IInv, [NextH]_varsH
    PROVE  [Store!Next]_(Store!svars)
  <1> USE DEF Store!Next
  <1>1. CASE \E d \in Data : Insert(d) /\ UNCHANGED histVars
    BY <1>1, InsertPuts
  <1>2. CASE \E n \in Node : Erase(n) /\ UNCHANGED histVars
    <2>1. PICK n \in Node : n \in inTree /\ Discard({n}) /\ UNCHANGED histVars
      BY <1>2 DEF Erase
    <2>2. {n} \in SUBSET inTree
      BY <2>1
    <2> QED
      BY <2>1, <2>2, DiscardRemoves
  <1>3. CASE Clear /\ UNCHANGED histVars
    BY <1>3, DiscardRemoves DEF Clear
  <1>4. CASE \E n \in Node, d \in Data :
                (ChangeSaving(n, d) \/ ChangeInPlace(n, d)) /\ UNCHANGED histVars
    BY <1>4, ChangeSets
  <1>5. CASE \E n \in Node : Refile(n) /\ UNCHANGED histVars
    <2>1. UNCHANGED <<data, inTree, call, tip, snap, before>>
      BY <1>5 DEF Refile, histVars
    <2> QED
      BY <2>1 DEF Content, Idle, Store!svars
  <1>6. CASE FirstCommitH
    BY <1>6, FirstCommitCommits
  <1>7. CASE NextCommitH
    BY <1>7, NextCommitCommits
  <1>8. CASE Revert /\ UNCHANGED histVars
    <2>1. tip # 0 => tip \in DOMAIN snap
      BY RevFacts DEF IInv
    <2> QED
      BY <1>8, <2>1, RevertChecksOut
  <1>9. CASE \/ \E r \in DOMAIN revs : BeginUpdateH(r)
             \/ (PathStep \/ ToggleUp \/ ToggleDown) /\ UNCHANGED histVars
    BY <1>9, WalkStutters
  <1>10. CASE EndUpdateH
    BY <1>10, EndUpdateChecksOut
  <1>11. CASE FiniH
    BY <1>11, FiniResets
  <1>12. CASE UNCHANGED varsH
    BY <1>12 DEF varsH, Content, Idle, Store!svars
  <1> QED
    BY <1>1, <1>2, <1>3, <1>4, <1>5, <1>6, <1>7, <1>8, <1>9, <1>10, <1>11,
       <1>12 DEF NextH

(* The tree implements the store: see ImplementsStore.                     *)
THEOREM Refinement == SafeSpecH => ImplementsStore
  <1>1. InitH => Store!Init
    BY DEF InitH, Init, Store!Init, Content, Store!Empty, Idle
  <1>2. IInv /\ [NextH]_varsH => [Store!Next]_(Store!svars)
    BY StepImplements
  <1> QED
    BY <1>1, <1>2, Invariant, PTL DEF SafeSpecH, ImplementsStore, Store!Spec
-----------------------------------------------------------------------------
(* Every node hangs under the data it has.                                 *)
FiledByData == \A n \in inTree : filed[n] = data[n]

LEMMA DiscardFiles ==
    ASSUME TypesH, FiledByData, NEW E, Discard(E)
    PROVE  FiledByData'
  <1>1. /\ inTree' = inTree \ E
        /\ filed' = [n \in Node |-> IF n \in E THEN NULL ELSE filed[n]]
        /\ data' = [n \in Node |-> IF n \in FreedCells(E) THEN NULL ELSE data[n]]
    BY DEF Discard
  <1>2. FreedCells(E) \subseteq E /\ inTree \subseteq Node
    BY DEF FreedCells, TypesH, TypeOK
  <1> QED
    BY <1>1, <1>2 DEF FiledByData

LEMMA ChangeFiles ==
    ASSUME IInv, FiledByData, NEW n \in Node, NEW d \in Data,
           ChangeSaving(n, d) \/ ChangeInPlace(n, d)
    PROVE  FiledByData'
  <1>1. /\ inTree \subseteq Node /\ n \in inTree /\ inTree' = inTree
        /\ data \in [Node -> Data \cup {NULL}] /\ filed \in [Node -> Data \cup {NULL}]
        /\ filed' = [filed EXCEPT ![n] = d]
    BY DEF IInv, TypesH, TypeOK, ChangeSaving, ChangeInPlace
  <1>2. CASE ChangeInPlace(n, d)
    BY <1>1, <1>2 DEF ChangeInPlace, FiledByData
  <1>3. CASE ChangeSaving(n, d)
    <2>1. PICK b \in Allocatable : data' = [data EXCEPT ![b] = data[n], ![n] = d]
      BY <1>3 DEF ChangeSaving
    <2>2. b \in Node /\ b \notin inTree
      BY DEF Allocatable, IInv, OneOwner, TypesH, TypeOK
    <2> QED
      BY <1>1, <2>1, <2>2 DEF FiledByData
  <1> QED
    BY <1>2, <1>3

(* A tidy revert gives no node in the tree other data.                     *)
LEMMA RevertFiles ==
    ASSUME IInv, Idle, FiledByData, RevertTree, saved \cap inTree = {}
    PROVE  FiledByData'
  <1>1. /\ data' = DataRestored(Backups)
        /\ inTree' = (inTree \ InsertedNow) \cup erasedList
        /\ \A n \in Node : filed'[n] = IF n \in erasedList THEN data'[n]
                                       ELSE IF n \in InsertedNow THEN NULL
                                       ELSE filed[n]
    BY DEF RevertTree
  <1>2. /\ inTree \subseteq Node /\ erasedList \subseteq Node /\ Working
    BY DEF IInv, TypesH, TypeOK
  <1>3. Backups \cap inTree = {}
    BY <1>2 DEF Working, NoWork, Backups, NoBackup
  <1>4. \A n \in inTree : data'[n] = data[n]
    BY <1>1, <1>2, <1>3 DEF DataRestored
  <1> QED
    BY <1>1, <1>2, <1>4 DEF FiledByData

LEMMA ToggleFiles ==
    ASSUME TypesH, FiledByData, NEW r \in DOMAIN revs, Toggle(r)
    PROVE  FiledByData'
  <1>1. /\ data' = ToggledData(revs[r])
        /\ inTree' = (inTree \cup revs[r].erased) \ revs[r].inserted
        /\ filed' = ToggledKeys(revs[r])
    BY DEF Toggle
  <1>2. revs[r].erased \subseteq Node /\ inTree \subseteq Node
    <2>1. revs[r] \in Rev /\ inTree \subseteq Node
      BY DEF TypesH, TypeOK
    <2> QED
      BY <2>1 DEF Rev
  <1>3. \A n \in inTree' : n \notin revs[r].erased \cup revs[r].changed
                              => data'[n] = data[n] /\ n \in inTree
    BY <1>1, <1>2 DEF ToggledData, UnfreedData
  <1>4. \A n \in inTree' : filed'[n] = IF n \in revs[r].erased \cup revs[r].changed
                                       THEN data'[n] ELSE filed[n]
    BY <1>1, <1>2 DEF ToggledKeys
  <1> QED
    BY <1>3, <1>4 DEF FiledByData

LEMMA TidyStepFiles ==
    ASSUME IInv, FiledByData, [NextH /\ Tidy]_varsH
    PROVE  FiledByData'
  <1>1. CASE \E d \in Data : Insert(d)
    <2>1. PICK d \in Data, n \in Allocatable :
              /\ data' = [data EXCEPT ![n] = d]
              /\ filed' = [filed EXCEPT ![n] = d]
              /\ inTree' = inTree \cup {n}
      BY <1>1 DEF Insert
    <2> QED
      BY <2>1 DEF FiledByData, IInv, TypesH, TypeOK, Allocatable
  <1>2. CASE (\E n \in Node : Erase(n)) \/ Clear
    BY <1>2, DiscardFiles DEF Erase, Clear, IInv
  <1>3. CASE \E n \in Node, d \in Data : ChangeSaving(n, d) \/ ChangeInPlace(n, d)
    BY <1>3, ChangeFiles
  <1>4. CASE \E n \in Node : Refile(n)
    BY <1>4 DEF Refile, FiledByData, IInv, TypesH, TypeOK
  <1>5. CASE NextCommitH
    <2>1. /\ data' = DataRestored(RestoredNow) /\ UNCHANGED <<inTree, filed>>
      BY <1>5 DEF NextCommitH, NextCommit
    <2>2. RestoredNow \cap inTree = {} /\ inTree \subseteq Node
      BY DEF RestoredNow, IInv, TypesH, TypeOK
    <2> QED
      BY <2>1, <2>2 DEF DataRestored, FiledByData
  <1>6. CASE DiscardsWork /\ Tidy
    BY <1>6, RevertFiles DEF DiscardsWork, Tidy, Revert, BeginUpdate
  <1>7. CASE ToggleUp
    <2>1. at \in DOMAIN revs
      BY <1>7, UpLeads, TogglingFacts DEF ToggleUp, IInv
    <2> QED
      BY <1>7, <2>1, ToggleFiles DEF ToggleUp, IInv
  <1>8. CASE ToggleDown
    <2>1. down[2] \in DOMAIN revs
      BY <1>8, DownLeads, TogglingFacts DEF ToggleDown, IInv
    <2> QED
      BY <1>8, <2>1, ToggleFiles DEF ToggleDown, IInv
  <1>9. CASE FiniH
    BY <1>9 DEF FiniH, Fini, FiledByData
  <1>10. CASE UNCHANGED <<data, filed, inTree>>
    BY <1>10 DEF FiledByData
  <1>11. \/ FirstCommitH \/ PathStep \/ EndUpdateH \/ UNCHANGED varsH
            => UNCHANGED <<data, filed, inTree>>
    BY DEF FirstCommitH, FirstCommit, PathStep, LevelOfFrom, LevelOfTo, ClimbFrom,
           ClimbI, ClimbBoth, ClimbLoop, FillPath, EndUpdateH, EndUpdate, varsH
  <1>12. Revert \/ (\E r \in DOMAIN revs : BeginUpdateH(r)) => DiscardsWork
    BY DEF DiscardsWork, BeginUpdateH
  <1> QED
    BY <1>1, <1>2, <1>3, <1>4, <1>5, <1>6, <1>7, <1>8, <1>9, <1>10, <1>11,
       <1>12 DEF NextH

(* The tree of a tidy caller stays in the order of its nodes' data: the    *)
(* keys under which bst.c links its nodes are the data they have.  Without *)
(* Tidy it need not, since a revert changes data where it hangs.           *)
THEOREM TidyOrder ==
    ASSUME Data \subseteq Int
    PROVE  TidySpecH => []KeysInOrder
  <1>1. InitH => FiledByData
    BY DEF InitH, Init, FiledByData
  <1>2. IInv /\ FiledByData /\ [NextH /\ Tidy]_varsH => FiledByData'
    BY TidyStepFiles
  <1>3. TidySpecH => SafeSpecH
    BY PTL DEF TidySpecH, SafeSpecH
  <1>4. IInv /\ FiledByData => KeysInOrder
    <2> SUFFICES ASSUME IInv, FiledByData, NEW m \in inTree, NEW n \in inTree,
                        filed[m] < filed[n]
                 PROVE  data[m] <= data[n]
      BY DEF KeysInOrder
    <2>1. m \in Node /\ n \in Node /\ CellsKnown
          /\ data \in [Node -> Data \cup {NULL}]
      BY DEF IInv, TypesH, TypeOK
    <2>2. data[m] \in Int /\ data[n] \in Int
      BY <2>1 DEF CellsKnown
    <2>3. data[m] < data[n]
      BY DEF FiledByData
    <2> QED
      BY <2>2, <2>3
  <1> QED
    BY <1>1, <1>2, <1>3, <1>4, Invariant, PTL DEF TidySpecH
=============================================================================
