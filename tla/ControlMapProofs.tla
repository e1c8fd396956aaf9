-------------------------- MODULE ControlMapProofs --------------------------
(***************************************************************************)
(* Proofs about ControlMap, for maps of any number of changes at any       *)
(* times: what map_set, map_set_range and map_copy do to the value at      *)
(* every time, and what map_eq tells.                                      *)
(***************************************************************************)
EXTENDS ControlMap, NumberFacts, FiniteSetTheorems

-----------------------------------------------------------------------------
(* The value at a time is that of the change which holds then.             *)
HoldsAt(c, t, s) ==
    s \in DOMAIN c /\ s <= t /\ \A r \in DOMAIN c : r <= t => r <= s

ChangesIn(c, beg, t) == {s \in DOMAIN c : beg < s /\ s <= t}

LEMMA GetHolds ==
    ASSUME NEW c, DOMAIN c \subseteq Nat, NEW d, NEW t \in Nat, NEW s, HoldsAt(c, t, s)
    PROVE  Get(c, d, t) = c[s]
  <1> DEFINE upTo == {r \in DOMAIN c : r <= t}
  <1>1. upTo \in SUBSET Nat /\ s \in upTo /\ \A r \in upTo : r <= s
    BY DEF HoldsAt
  <1>2. Max(upTo) = s /\ upTo # {}
    BY <1>1, MaxIs
  <1> HIDE DEF upTo
  <1> QED
    BY <1>2 DEF Get, upTo

LEMMA GetNone ==
    ASSUME NEW c, NEW d, NEW t, ~\E s \in DOMAIN c : s <= t
    PROVE  Get(c, d, t) = d
  BY DEF Get

LEMMA SomeHolds ==
    ASSUME NEW c, DOMAIN c \subseteq Nat, NEW t \in Nat, NEW s0 \in DOMAIN c, s0 <= t
    PROVE  \E s \in DOMAIN c : HoldsAt(c, t, s) /\ s0 <= s
  <1> DEFINE upTo == {r \in DOMAIN c : r <= t}
  <1>1. upTo \in SUBSET Nat /\ s0 \in upTo /\ \A r \in upTo : r <= t
    OBVIOUS
  <1>2. Max(upTo) \in upTo /\ \A r \in upTo : r <= Max(upTo)
    BY <1>1, MaxFacts
  <1> QED
    BY <1>1, <1>2 DEF HoldsAt

(* Two maps that agree from a change of theirs on have the same value.     *)
LEMMA SameFrom ==
    ASSUME NEW c, DOMAIN c \subseteq Nat, NEW e, DOMAIN e \subseteq Nat, NEW d,
           NEW t \in Nat, NEW s0 \in DOMAIN c, s0 <= t,
           \A s \in Nat : s0 <= s /\ s <= t =>
              (s \in DOMAIN c <=> s \in DOMAIN e) /\ (s \in DOMAIN c => c[s] = e[s])
    PROVE  Get(c, d, t) = Get(e, d, t)
  <1>1. PICK s \in DOMAIN c : HoldsAt(c, t, s) /\ s0 <= s
    BY SomeHolds
  <1>2. s \in DOMAIN e /\ c[s] = e[s] /\ s <= t
    BY <1>1 DEF HoldsAt
  <1>3. HoldsAt(e, t, s)
    <2> SUFFICES ASSUME NEW r \in DOMAIN e, r <= t
                 PROVE  r <= s
      BY <1>2 DEF HoldsAt
    <2>1. CASE s0 <= r
      BY <2>1, <1>1 DEF HoldsAt
    <2>2. CASE r < s0
      BY <2>2, <1>1
    <2> QED
      BY <2>1, <2>2
  <1> QED
    BY <1>1, <1>2, <1>3, GetHolds

LEMMA SameUpTo ==
    ASSUME NEW c, DOMAIN c \subseteq Nat, NEW e, DOMAIN e \subseteq Nat, NEW d,
           NEW t \in Nat,
           \A s \in Nat : s <= t =>
              (s \in DOMAIN c <=> s \in DOMAIN e) /\ (s \in DOMAIN c => c[s] = e[s])
    PROVE  Get(c, d, t) = Get(e, d, t)
  <1>1. CASE \E s0 \in DOMAIN c : s0 <= t
    <2>1. PICK s0 \in DOMAIN c : s0 <= t
      BY <1>1
    <2> QED
      BY <2>1, SameFrom
  <1>2. CASE ~\E s0 \in DOMAIN c : s0 <= t
    <2>1. ~\E s0 \in DOMAIN e : s0 <= t
      BY <1>2
    <2> QED
      BY <1>2, <2>1, GetNone
  <1> QED
    BY <1>1, <1>2

(* Between two changes the value stays what it is.                         *)
LEMMA StaysSame ==
    ASSUME NEW c, DOMAIN c \subseteq Nat, NEW d, NEW beg \in Nat, NEW t \in Nat,
           beg <= t, ChangesIn(c, beg, t) = {}
    PROVE  Get(c, d, t) = Get(c, d, beg)
  <1>0. \A s \in DOMAIN c : s <= t => s <= beg
    BY DEF ChangesIn
  <1>1. CASE \E s0 \in DOMAIN c : s0 <= t
    <2>1. PICK s0 \in DOMAIN c : s0 <= t
      BY <1>1
    <2>2. PICK s \in DOMAIN c : HoldsAt(c, t, s)
      BY <2>1, SomeHolds
    <2>3. HoldsAt(c, beg, s)
      BY <1>0, <2>2 DEF HoldsAt
    <2> QED
      BY <2>2, <2>3, GetHolds
  <1>2. CASE ~\E s0 \in DOMAIN c : s0 <= t
    <2>1. ~\E s0 \in DOMAIN c : s0 <= beg
      BY <1>2
    <2> QED
      BY <1>2, <2>1, GetNone
  <1> QED
    BY <1>1, <1>2

-----------------------------------------------------------------------------
(* map_set                                                                 *)
LEMMA KeepingIs ==
    ASSUME NEW c, NEW T
    PROVE  /\ DOMAIN Keeping(c, T) = DOMAIN c \cap T
           /\ \A t \in DOMAIN c \cap T : Keeping(c, T)[t] = c[t]
  BY DEF Keeping

LEMMA SetElsewhere ==
    ASSUME NEW c, NEW d, NEW t, NEW v
    PROVE  /\ DOMAIN c \ {t} \subseteq DOMAIN Set(c, d, t, v)
           /\ DOMAIN Set(c, d, t, v) \subseteq DOMAIN c \cup {t}
           /\ \A s \in DOMAIN c \ {t} : Set(c, d, t, v)[s] = c[s]
  BY DEF Set, Inserted, Keeping

LEMMA SetThere ==
    ASSUME NEW c, NEW d, NEW t, NEW v
    PROVE  LET rest == Keeping(c, DOMAIN c \ {t}) IN
           /\ Get(rest, d, t) # v => t \in DOMAIN Set(c, d, t, v) /\ Set(c, d, t, v)[t] = v
           /\ Get(rest, d, t) = v => Set(c, d, t, v) = rest
  BY DEF Set, Inserted, Keeping

(* map_set sets the value from t on, up to the next change.                *)
LEMMA SetIs ==
    ASSUME NEW c, DOMAIN c \subseteq Nat, NEW d, NEW t \in Nat, NEW v, NEW s \in Nat
    PROVE  Get(Set(c, d, t, v), d, s) =
              IF t <= s /\ ChangesIn(c, t, s) = {} THEN v ELSE Get(c, d, s)
  <1> DEFINE rest == Keeping(c, DOMAIN c \ {t})
             set == Set(c, d, t, v)
  <1>1. /\ DOMAIN rest = DOMAIN c \ {t}
        /\ DOMAIN c \ {t} \subseteq DOMAIN set /\ DOMAIN set \subseteq DOMAIN c \cup {t}
        /\ \A r \in DOMAIN c \ {t} : set[r] = c[r]
        /\ Get(rest, d, t) # v => t \in DOMAIN set /\ set[t] = v
        /\ Get(rest, d, t) = v => set = rest
    <2>1. DOMAIN rest = DOMAIN c \ {t}
      BY DEF Keeping
    <2>2. /\ DOMAIN c \ {t} \subseteq DOMAIN set /\ DOMAIN set \subseteq DOMAIN c \cup {t}
          /\ \A r \in DOMAIN c \ {t} : set[r] = c[r]
      BY SetElsewhere
    <2>3. /\ Get(rest, d, t) # v => t \in DOMAIN set /\ set[t] = v
          /\ Get(rest, d, t) = v => set = rest
      BY SetThere
    <2> QED
      BY <2>1, <2>2, <2>3
  <1> HIDE DEF rest, set
  <1>2. DOMAIN rest \subseteq Nat /\ DOMAIN set \subseteq Nat
    BY <1>1
  <1>3. CASE s < t
    BY <1>1, <1>2, <1>3, SameUpTo DEF set
  <1>4. CASE t <= s /\ ChangesIn(c, t, s) # {}
    <2>1. PICK r \in DOMAIN c : t < r /\ r <= s
      BY <1>4 DEF ChangesIn
    <2> QED
      BY <1>1, <1>2, <1>4, <2>1, SameFrom DEF set
  <1>5. CASE t <= s /\ ChangesIn(c, t, s) = {}
    <2>1. ChangesIn(set, t, s) = {} /\ ChangesIn(rest, t, s) = {}
      BY <1>1, <1>2, <1>5 DEF ChangesIn
    <2>2. Get(set, d, s) = Get(set, d, t)
      BY <1>2, <1>5, <2>1, StaysSame
    <2>3. CASE Get(rest, d, t) # v
      <3>1. HoldsAt(set, t, t) /\ set[t] = v
        BY <1>1, <2>3 DEF HoldsAt
      <3> QED
        BY <1>2, <1>5, <2>2, <3>1, GetHolds DEF set
    <2>4. CASE Get(rest, d, t) = v
      BY <1>1, <1>5, <2>2, <2>4 DEF set
    <2> QED
      BY <2>3, <2>4
  <1> QED
    BY <1>3, <1>4, <1>5

LEMMA EmptiedIs ==
    ASSUME NEW c, DOMAIN c \subseteq Nat, NEW beg \in Nat, NEW end \in Nat
    PROVE  /\ DOMAIN Emptied(c, beg, end) \subseteq DOMAIN c
           /\ \A s \in DOMAIN c :
                 s \in DOMAIN Emptied(c, beg, end) <=> ~(beg < s /\ s < end)
           /\ \A s \in DOMAIN Emptied(c, beg, end) : Emptied(c, beg, end)[s] = c[s]
  <1>1. \A s \in DOMAIN c : s \in Inside(beg, end) <=> beg < s /\ s < end
    BY DEF Inside
  <1>2. DOMAIN Emptied(c, beg, end) = DOMAIN c \ Inside(beg, end)
    BY DEF Emptied, Keeping
  <1>3. \A s \in DOMAIN c \ Inside(beg, end) : Emptied(c, beg, end)[s] = c[s]
    BY DEF Emptied, Keeping
  <1> QED
    BY <1>1, <1>2, <1>3

(* map_set_range                                                           *)
LEMMA SetRangeIs ==
    ASSUME NEW c, DOMAIN c \subseteq Nat, NEW d, NEW beg \in Nat, NEW end \in Nat, NEW v,
           NEW t \in Nat
    PROVE  Get(SetRange(c, d, beg, end, v), d, t) =
              IF t \in beg .. (end - 1) THEN v ELSE Get(c, d, t)
  <1>1. CASE beg >= end
    BY <1>1 DEF SetRange
  <1>2. CASE beg < end
    <2> DEFINE e == Emptied(c, beg, end)
               b == Set(e, d, beg, v)
               w == Get(c, d, end)
    <2>1. SetRange(c, d, beg, end, v) = Set(b, d, end, w)
      BY <1>2 DEF SetRange
    <2>2. /\ DOMAIN e \subseteq DOMAIN c /\ DOMAIN e \subseteq Nat
          /\ \A s \in DOMAIN c : s \in DOMAIN e <=> ~(beg < s /\ s < end)
          /\ \A s \in DOMAIN e : e[s] = c[s]
      BY EmptiedIs
    <2>3. /\ DOMAIN e \ {beg} \subseteq DOMAIN b /\ DOMAIN b \subseteq DOMAIN e \cup {beg}
          /\ DOMAIN b \subseteq Nat
      <3> HIDE DEF e
      <3>1. DOMAIN e \ {beg} \subseteq DOMAIN b /\ DOMAIN b \subseteq DOMAIN e \cup {beg}
        BY SetElsewhere
      <3> QED
        BY <2>2, <3>1
    <2> HIDE DEF e, b
    <2>4. Get(b, d, t) = IF beg <= t /\ ChangesIn(e, beg, t) = {} THEN v ELSE Get(e, d, t)
      BY <2>2, SetIs DEF b
    <2> HIDE DEF w
    <2>5. Get(Set(b, d, end, w), d, t)
             = IF end <= t /\ ChangesIn(b, end, t) = {} THEN w ELSE Get(b, d, t)
      BY <2>3, SetIs
    <2>6. CASE t < beg
      <3>1. Get(e, d, t) = Get(c, d, t)
        BY <1>2, <2>2, <2>6, SameUpTo
      <3> QED
        BY <1>2, <2>1, <2>4, <2>5, <2>6, <3>1
    <2>7. CASE beg <= t /\ t < end
      <3>1. ChangesIn(e, beg, t) = {}
        BY <2>2, <2>7 DEF ChangesIn
      <3> QED
        BY <2>1, <2>4, <2>5, <2>7, <3>1
    <2>8. CASE end <= t /\ ChangesIn(c, end, t) = {}
      <3>1. ChangesIn(b, end, t) = {}
        BY <1>2, <2>2, <2>3, <2>8 DEF ChangesIn
      <3>2. Get(c, d, t) = w
        BY <2>8, StaysSame DEF w
      <3> QED
        BY <1>2, <2>1, <2>5, <2>8, <3>1, <3>2
    <2>9. CASE end <= t /\ ChangesIn(c, end, t) # {}
      <3>1. PICK r \in DOMAIN c : end < r /\ r <= t
        BY <2>9 DEF ChangesIn
      <3>2. r \in DOMAIN e /\ r \in DOMAIN b
        BY <1>2, <2>2, <2>3, <3>1
      <3>3. ChangesIn(b, end, t) # {} /\ ChangesIn(e, beg, t) # {}
        BY <1>2, <3>1, <3>2 DEF ChangesIn
      <3>4. Get(c, d, t) = Get(e, d, t)
        BY <1>2, <2>2, <3>1, SameFrom
      <3> QED
        BY <1>2, <2>1, <2>4, <2>5, <2>9, <3>3, <3>4
    <2> QED
      BY <2>6, <2>7, <2>8, <2>9
  <1> QED
    BY <1>1, <1>2

-----------------------------------------------------------------------------
(* map_add, one change after the other.  What is the same all along is one *)
(* record.  When the changes of E have been added to, the value is raised  *)
(* from the start of the range on, up to the first change not in E.        *)
AddCall(c, d, beg, end, dvalue) ==
    [c |-> c, d |-> d, beg |-> beg, end |-> end, dvalue |-> dvalue]

AddStep(a, cc, t) == AddedTo(cc, a.d, t, a.dvalue)

AddTimes(a) == AddedAt(a.beg, a.end, a.c)

Untouched(c, E, cc) ==
    /\ DOMAIN cc \subseteq Nat
    /\ \A s \in Nat \ E : s \in DOMAIN cc <=> s \in DOMAIN c
    /\ \A s \in DOMAIN c \ E : cc[s] = c[s]

IsRaised(c, beg, E, t) == beg \in E /\ beg <= t /\ ChangesIn(c, beg, t) \subseteq E

Raises(c, d, beg, dvalue, E, cc) ==
    \A t \in Nat :
        /\ IsRaised(c, beg, E, t) => Get(cc, d, t) = Get(c, d, t) + dvalue
        /\ ~IsRaised(c, beg, E, t) => Get(cc, d, t) = Get(c, d, t)

FirstOf(T, E) == E \subseteq T /\ \A r \in E, s \in T : s < r => s \in E

AddGood(a, E, cc) ==
    FirstOf(AddTimes(a), E) =>
        Untouched(a.c, E, cc) /\ Raises(a.c, a.d, a.beg, a.dvalue, E, cc)

AddFold == INSTANCE FoldFacts WITH Step <- AddStep, Sel <- ByMax, Good <- AddGood

LEMMA AddedAtIs ==
    ASSUME NEW c, DOMAIN c \subseteq Nat, NEW beg \in Nat, NEW end \in Nat, beg < end
    PROVE  /\ AddedAt(beg, end, c) \in SUBSET (beg .. end)
           /\ AddedAt(beg, end, c) \in SUBSET Nat
           /\ IsFiniteSet(AddedAt(beg, end, c)) /\ beg \in AddedAt(beg, end, c)
           /\ \A s \in Nat : s \in AddedAt(beg, end, c)
                 <=> s = beg \/ (s \in DOMAIN c /\ beg < s /\ s < end)
  <1>1. AddedAt(beg, end, c) \in SUBSET (beg .. end)
    BY DEF AddedAt, Inside
  <1>2. IsFiniteSet(beg .. end)
    BY FS_Interval
  <1> QED
    BY <1>1, <1>2, FS_Subset DEF AddedAt, Inside

LEMMA MaxOfSome ==
    ASSUME NEW beg \in Nat, NEW end \in Nat, NEW E \in SUBSET (beg .. end), E # {}
    PROVE  Max(E) \in E /\ \A r \in E : r <= Max(E)
  <1>1. E \in SUBSET Nat /\ \A r \in E : r <= end
    OBVIOUS
  <1> QED
    BY <1>1, MaxFacts

LEMMA AddIsFold ==
    ASSUME NEW c, NEW d, NEW beg, NEW end, NEW dvalue, ~(beg >= end),
           NEW a, a = AddCall(c, d, beg, end, dvalue)
    PROVE  Add(c, d, beg, end, dvalue) = AddFold!Fold(a, c, AddTimes(a))
  <1>1. a.c = c /\ a.d = d /\ a.beg = beg /\ a.end = end /\ a.dvalue = dvalue
    BY DEF AddCall
  <1>2. Add(c, d, beg, end, dvalue)
           = MapThenFoldSet(LAMBDA t, cc : AddedTo(cc, d, t, dvalue), c, LAMBDA t : t, Max,
                            AddedAt(beg, end, c))
    BY DEF Add
  <1>3. \A t, cc : AddStep(a, cc, t) = AddedTo(cc, d, t, dvalue)
    BY <1>1 DEF AddStep
  <1>4. AddTimes(a) = AddedAt(beg, end, c)
    BY <1>1 DEF AddTimes
  <1> QED
    BY <1>1, <1>2, <1>4 DEF AddFold!Fold, AddFold!IsFold, MapThenFoldSet, AddStep, ByMax

LEMMA AddedToIs ==
    ASSUME NEW c, DOMAIN c \subseteq Nat, NEW d, NEW t \in Nat, NEW dvalue
    PROVE  \A s \in Nat : Get(AddedTo(c, d, t, dvalue), d, s) =
              IF t <= s /\ ChangesIn(c, t, s) = {} THEN Get(c, d, t) + dvalue ELSE Get(c, d, s)
  BY SetIs DEF AddedTo

LEMMA AddsOneMore ==
    ASSUME NEW c, DOMAIN c \subseteq Nat, NEW d, NEW beg \in Nat, NEW end \in Nat, beg < end,
           NEW dvalue, NEW E, FirstOf(AddedAt(beg, end, c), E), NEW m \in Nat,
           m \in E, \A r \in E : r <= m, NEW cc, Untouched(c, E \ {m}, cc),
           Raises(c, d, beg, dvalue, E \ {m}, cc)
    PROVE  /\ Untouched(c, E, AddedTo(cc, d, m, dvalue))
           /\ Raises(c, d, beg, dvalue, E, AddedTo(cc, d, m, dvalue))
  <1> DEFINE F == E \ {m}
             v == Get(cc, d, m) + dvalue
             e == Set(cc, d, m, v)
  <1>1. /\ E \subseteq Nat /\ m \in Nat /\ beg <= m /\ m < end
        /\ m = beg \/ (m \in DOMAIN c /\ beg \in F)
        /\ \A s \in DOMAIN c : beg < s /\ s < m => s \in F
        /\ \A r \in F : r < m
        /\ m = beg => F = {}
    <2>1. E \subseteq Nat /\ \A s \in E : beg <= s
      BY AddedAtIs DEF FirstOf
    <2>2. m \in Nat /\ beg <= m /\ m < end /\ (m = beg \/ m \in DOMAIN c)
      BY <2>1, AddedAtIs DEF FirstOf
    <2>3. \A s \in DOMAIN c : beg < s /\ s < m => s \in F
      BY <2>2, AddedAtIs DEF FirstOf
    <2>4. beg \in E
      BY <2>2, AddedAtIs DEF FirstOf
    <2> QED
      BY <2>1, <2>2, <2>3, <2>4
  <1>2. AddedTo(cc, d, m, dvalue) = e
    BY DEF AddedTo
  <1>3. /\ DOMAIN cc \ {m} \subseteq DOMAIN e /\ DOMAIN e \subseteq DOMAIN cc \cup {m}
        /\ \A s \in DOMAIN cc \ {m} : e[s] = cc[s]
    <2> HIDE DEF v
    <2> QED
      BY SetElsewhere
  <1>4. /\ DOMAIN cc \subseteq Nat
        /\ \A s \in Nat \ F : s \in DOMAIN cc <=> s \in DOMAIN c
        /\ \A s \in DOMAIN c \ F : cc[s] = c[s]
    BY DEF Untouched
  <1>5. \A s \in Nat : Get(e, d, s) = IF m <= s /\ ChangesIn(cc, m, s) = {} THEN v ELSE Get(cc, d, s)
    BY <1>2, <1>4, AddedToIs
  <1>6. \A t \in Nat : /\ IsRaised(c, beg, F, t) => Get(cc, d, t) = Get(c, d, t) + dvalue
                       /\ ~IsRaised(c, beg, F, t) => Get(cc, d, t) = Get(c, d, t)
    BY DEF Raises
  <1> HIDE DEF F, e, v
  <1>7. Untouched(c, E, e)
    <2>1. \A s \in Nat \ E : s \in Nat \ F /\ s # m
      BY DEF F
    <2> QED
      BY <1>1, <1>3, <1>4, <2>1 DEF Untouched
  <1>8. v = Get(c, d, m) + dvalue
    <2>1. ~IsRaised(c, beg, F, m)
      <3>1. m \notin F
        BY DEF F
      <3> QED
        BY <1>1, <3>1 DEF IsRaised, ChangesIn
    <2> QED
      BY <1>1, <1>6, <2>1 DEF v
  <1>9. ASSUME NEW t \in Nat
        PROVE  /\ IsRaised(c, beg, E, t) => Get(e, d, t) = Get(c, d, t) + dvalue
               /\ ~IsRaised(c, beg, E, t) => Get(e, d, t) = Get(c, d, t)
    <2>1. CASE t < m
      <3>1. IsRaised(c, beg, E, t) <=> IsRaised(c, beg, F, t)
        BY <1>1, <2>1 DEF IsRaised, ChangesIn, F
      <3> QED
        BY <1>1, <1>5, <1>6, <2>1, <3>1
    <2>2. CASE m <= t /\ ChangesIn(c, m, t) = {}
      <3>1. IsRaised(c, beg, E, t)
        BY <1>1, <2>2 DEF IsRaised, ChangesIn, F
      <3>2. ChangesIn(cc, m, t) = {}
        <4>1. \A s \in DOMAIN cc : m < s => s \in DOMAIN c
          BY <1>1, <1>4
        <4> QED
          BY <2>2, <4>1 DEF ChangesIn
      <3>3. Get(c, d, t) = Get(c, d, m)
        BY <1>1, <2>2, StaysSame
      <3> QED
        BY <1>5, <1>8, <2>2, <3>1, <3>2, <3>3
    <2>3. CASE m <= t /\ ChangesIn(c, m, t) # {}
      <3>1. PICK s \in DOMAIN c : m < s /\ s <= t
        BY <2>3 DEF ChangesIn
      <3>2. s \notin E /\ s \notin F /\ s \in Nat /\ beg < s
        BY <1>1, <3>1 DEF F
      <3>3. ~IsRaised(c, beg, E, t) /\ ~IsRaised(c, beg, F, t)
        BY <3>1, <3>2 DEF IsRaised, ChangesIn
      <3>4. ChangesIn(cc, m, t) # {}
        BY <1>4, <3>1, <3>2 DEF ChangesIn
      <3> QED
        BY <1>5, <1>6, <3>3, <3>4
    <2> QED
      BY <1>1, <2>1, <2>2, <2>3
  <1> QED
    BY <1>2, <1>7, <1>9 DEF Raises

(* map_add                                                                 *)
LEMMA AddIs ==
    ASSUME NEW c, DOMAIN c \subseteq Nat, NEW d, NEW beg \in Nat, NEW end \in Nat, beg < end,
           NEW dvalue, NEW t \in Nat
    PROVE  LET added == Get(Add(c, d, beg, end, dvalue), d, t) IN
           /\ t >= beg /\ ReachOfAdd(c, end, t) => added = Get(c, d, t) + dvalue
           /\ ~(t >= beg /\ ReachOfAdd(c, end, t)) => added = Get(c, d, t)
           /\ DOMAIN Add(c, d, beg, end, dvalue) \subseteq DOMAIN c \cup {beg}
  <1> DEFINE a == AddCall(c, d, beg, end, dvalue)
             D == AddTimes(a)
  <1>1. a.c = c /\ a.d = d /\ a.beg = beg /\ a.end = end /\ a.dvalue = dvalue
    BY DEF AddCall
  <1>2. D = AddedAt(beg, end, c)
    BY <1>1 DEF AddTimes
  <1>3. Add(c, d, beg, end, dvalue) = AddFold!Fold(a, c, D)
    BY AddIsFold
  <1> HIDE DEF a, D
  <1>4. D \in SUBSET (beg .. end) /\ IsFiniteSet(D) /\ beg \in D
    BY <1>2, AddedAtIs
  <1>5. \A E \in SUBSET D : E # {} => Max(E) \in E /\ \A r \in E : r <= Max(E)
    BY <1>4, MaxOfSome
  <1>6. AddGood(a, {}, c)
    BY <1>1 DEF AddGood, Untouched, Raises, IsRaised
  <1>7. ASSUME NEW E \in SUBSET D, NEW cc, E # {}, AddGood(a, E \ {Max(E)}, cc)
        PROVE  AddGood(a, E, AddStep(a, cc, Max(E)))
    <2> SUFFICES ASSUME FirstOf(D, E)
                 PROVE  /\ Untouched(c, E, AddedTo(cc, d, Max(E), dvalue))
                        /\ Raises(c, d, beg, dvalue, E, AddedTo(cc, d, Max(E), dvalue))
      BY <1>1, <1>2 DEF AddGood, AddStep, AddTimes
    <2>1. Max(E) \in E /\ \A r \in E : r <= Max(E)
      BY <1>5, <1>7
    <2>2. FirstOf(D, E \ {Max(E)})
      <3> SUFFICES ASSUME NEW r \in E, r # Max(E), NEW s \in D, s < r
                   PROVE  s \in E /\ s # Max(E)
        BY DEF FirstOf
      <3> QED
        BY <1>4, <2>1 DEF FirstOf
    <2>3. Untouched(c, E \ {Max(E)}, cc) /\ Raises(c, d, beg, dvalue, E \ {Max(E)}, cc)
      BY <1>1, <1>2, <1>7, <2>2 DEF AddGood, AddTimes
    <2>4. PICK m \in Nat : m = Max(E)
      <3>1. D \subseteq Nat
        BY <1>4
      <3> QED
        BY <2>1, <3>1
    <2>5. FirstOf(AddedAt(beg, end, c), E)
      BY <1>2
    <2> QED
      BY <2>1, <2>3, <2>4, <2>5, AddsOneMore
  <1>8. AddGood(a, D, AddFold!Fold(a, c, D))
    <2>1. \A E \in SUBSET D : E # {} => ByMax(a, E) \in E
      BY <1>5 DEF ByMax
    <2>2. \A E \in SUBSET D : \A cc :
             E # {} /\ AddGood(a, E \ {ByMax(a, E)}, cc)
                => AddGood(a, E, AddStep(a, cc, ByMax(a, E)))
      BY <1>7 DEF ByMax
    <2>3. AddFold!IsFiniteSet(D)
      BY <1>4 DEF IsFiniteSet, AddFold!IsFiniteSet
    <2> QED
      BY <1>6, <2>1, <2>2, <2>3, AddFold!FoldGood
  <1>9. /\ Raises(c, d, beg, dvalue, D, Add(c, d, beg, end, dvalue))
        /\ Untouched(c, D, Add(c, d, beg, end, dvalue))
    BY <1>1, <1>2, <1>3, <1>8 DEF AddGood, FirstOf, AddTimes
  <1>10. IsRaised(c, beg, D, t) <=> t >= beg /\ ReachOfAdd(c, end, t)
    <2>1. \A s \in Nat : s \in D <=> s = beg \/ (s \in DOMAIN c /\ beg < s /\ s < end)
      BY <1>2, AddedAtIs
    <2>2. ASSUME IsRaised(c, beg, D, t), NEW s \in DOMAIN c, s >= end
          PROVE  t < s
      BY <2>1, <2>2 DEF IsRaised, ChangesIn
    <2>3. ASSUME t >= beg, ReachOfAdd(c, end, t)
          PROVE  IsRaised(c, beg, D, t)
      BY <1>4, <2>1, <2>3 DEF IsRaised, ChangesIn, ReachOfAdd
    <2> QED
      BY <2>2, <2>3 DEF ReachOfAdd, IsRaised
  <1>11. \A s \in D : s = beg \/ s \in DOMAIN c
    BY <1>2 DEF AddedAt
  <1>12. DOMAIN Add(c, d, beg, end, dvalue) \subseteq DOMAIN c \cup {beg}
    BY <1>9, <1>11 DEF Untouched
  <1> QED
    BY <1>9, <1>10, <1>12 DEF Raises

-----------------------------------------------------------------------------
(* Maps stay within the times and values that callers use.                 *)
LEMMA PossibleIs ==
    ASSUME NEW c \in PossibleMaps
    PROVE  /\ DOMAIN c \subseteq Time /\ DOMAIN c \subseteq Nat
           /\ \A t \in DOMAIN c : c[t] \in Value
           /\ c = [t \in DOMAIN c |-> c[t]]
  <1>1. PICK T \in SUBSET Time : c \in [T -> Value]
    BY DEF PossibleMaps
  <1> QED
    BY <1>1, TimeAssumption

LEMMA PossibleIf ==
    ASSUME NEW T \in SUBSET Time, NEW c \in [T -> Value]
    PROVE  c \in PossibleMaps
  BY DEF PossibleMaps

LEMMA GetPossible ==
    ASSUME NEW c \in PossibleMaps, NEW d \in Value, NEW t \in Nat
    PROVE  Get(c, d, t) \in Value
  <1>1. CASE \E s0 \in DOMAIN c : s0 <= t
    <2>1. PICK s0 \in DOMAIN c : s0 <= t
      BY <1>1
    <2>2. PICK s \in DOMAIN c : HoldsAt(c, t, s)
      BY <2>1, SomeHolds, PossibleIs
    <2> QED
      BY <2>2, GetHolds, PossibleIs
  <1>2. CASE ~\E s0 \in DOMAIN c : s0 <= t
    BY <1>2, GetNone
  <1> QED
    BY <1>1, <1>2

LEMMA KeepingPossible ==
    ASSUME NEW c \in PossibleMaps, NEW T
    PROVE  Keeping(c, T) \in PossibleMaps
  <1>1. DOMAIN c \cap T \in SUBSET Time /\ Keeping(c, T) \in [DOMAIN c \cap T -> Value]
    BY PossibleIs DEF Keeping
  <1> QED
    BY <1>1, PossibleIf

LEMMA InsertedPossible ==
    ASSUME NEW c \in PossibleMaps, NEW t \in Time, NEW v \in Value
    PROVE  Inserted(c, t, v) \in PossibleMaps
  <1>1. DOMAIN c \cup {t} \in SUBSET Time /\ Inserted(c, t, v) \in [DOMAIN c \cup {t} -> Value]
    BY PossibleIs DEF Inserted
  <1> QED
    BY <1>1, PossibleIf

LEMMA SetPossible ==
    ASSUME NEW c \in PossibleMaps, NEW d, NEW t \in Time, NEW v \in Value
    PROVE  Set(c, d, t, v) \in PossibleMaps
  BY KeepingPossible, InsertedPossible DEF Set

LEMMA EmptiedPossible ==
    ASSUME NEW c \in PossibleMaps, NEW beg, NEW end
    PROVE  Emptied(c, beg, end) \in PossibleMaps
  BY KeepingPossible DEF Emptied

LEMMA SetRangePossible ==
    ASSUME NEW c \in PossibleMaps, NEW d \in Value, NEW beg \in Time, NEW end \in Time,
           NEW v \in Value
    PROVE  SetRange(c, d, beg, end, v) \in PossibleMaps
  <1>1. Get(c, d, end) \in Value
    BY GetPossible, TimeAssumption
  <1>2. Set(Emptied(c, beg, end), d, beg, v) \in PossibleMaps
    BY EmptiedPossible, SetPossible
  <1> QED
    BY <1>1, <1>2, SetPossible DEF SetRange

(* map_copy, one assignment after the other: the map that is copied to,    *)
(* and the one that is copied from, which may be the same.                 *)
LEMMA BegunIs ==
    ASSUME NEW ms, DOMAIN ms = Map, NEW a \in Map, NEW b \in Map, NEW beg1, NEW beg2, NEW end2,
           NEW v, v = Get(IF a = b THEN Emptied(ms[b], beg2, end2) ELSE ms[a], Default[a], beg1)
    PROVE  CopyBegun(ms, a, beg1, b, beg2, end2) =
              [ms EXCEPT ![b] = Set(Emptied(ms[b], beg2, end2), Default[b], beg2, v)]
  <1> DEFINE E == Emptied(ms[b], beg2, end2)
             emptied == CopyEmptied(ms, b, beg2, end2)
  <1> HIDE DEF E
  <1>1. emptied = [ms EXCEPT ![b] = E]
    BY DEF CopyEmptied, E
  <1>2. emptied[a] = (IF a = b THEN E ELSE ms[a]) /\ emptied[b] = E
    BY <1>1
  <1>3. CopyBegun(ms, a, beg1, b, beg2, end2)
           = [emptied EXCEPT ![b] = Set(emptied[b], Default[b], beg2, v)]
    BY <1>2 DEF CopyBegun, E
  <1> HIDE DEF emptied
  <1> QED
    BY <1>1, <1>2, <1>3 DEF E

LEMMA EndedIs ==
    ASSUME NEW ms, DOMAIN ms = Map, NEW a \in Map, NEW b \in Map, NEW beg1, NEW beg2, NEW end2,
           NEW v, v = Get(IF a = b THEN Emptied(ms[b], beg2, end2) ELSE ms[a], Default[a], beg1),
           NEW ends, ends = Set(Set(Emptied(ms[b], beg2, end2), Default[b], beg2, v),
                                Default[b], end2, Get(ms[b], Default[b], end2))
    PROVE  CopyEnded(ms, a, beg1, b, beg2, end2) = [ms EXCEPT ![b] = ends]
  <1> DEFINE S == Set(Emptied(ms[b], beg2, end2), Default[b], beg2, v)
             begun == CopyBegun(ms, a, beg1, b, beg2, end2)
  <1>1. begun = [ms EXCEPT ![b] = S]
    BY BegunIs
  <1> HIDE DEF S
  <1>2. begun[b] = S
    BY <1>1
  <1>3. CopyEnded(ms, a, beg1, b, beg2, end2)
           = [begun EXCEPT ![b] = Set(begun[b], Default[b], end2, Get(ms[b], Default[b], end2))]
    BY DEF CopyEnded
  <1> HIDE DEF begun
  <1> QED
    BY <1>1, <1>2, <1>3 DEF S

LEMMA CopyIs ==
    ASSUME NEW ms, DOMAIN ms = Map, NEW a \in Map, NEW b \in Map,
           NEW beg1, NEW end1, NEW beg2, NEW end2, end2 = TargetEnd(beg1, end1, beg2),
           ~(beg1 >= end1),
           NEW v, v = Get(IF a = b THEN Emptied(ms[b], beg2, end2) ELSE ms[a], Default[a], beg1),
           NEW ends, ends = Set(Set(Emptied(ms[b], beg2, end2), Default[b], beg2, v),
                                Default[b], end2, Get(ms[b], Default[b], end2))
    PROVE  Copy(ms, a, beg1, end1, b, beg2) =
              [ms EXCEPT ![b] = WithCopied(ends, IF a = b THEN ends ELSE ms[a],
                                           beg1, end1, beg2 - beg1)]
  <1> DEFINE ended == CopyEnded(ms, a, beg1, b, beg2, end2)
  <1>1. ended = [ms EXCEPT ![b] = ends]
    BY EndedIs
  <1>2. ended[b] = ends /\ ended[a] = IF a = b THEN ends ELSE ms[a]
    BY <1>1
  <1>3. Copy(ms, a, beg1, end1, b, beg2)
           = [ended EXCEPT ![b] = WithCopied(ended[b], ended[a], beg1, end1, beg2 - beg1)]
    BY DEF Copy
  <1> HIDE DEF ended
  <1> QED
    BY <1>1, <1>2, <1>3

CopiesKnown(r, dest, src, beg, end, shift) ==
    /\ \A t \in Int : t \in DOMAIN r <=>
          \/ t \in DOMAIN dest
          \/ t - shift \in DOMAIN src /\ beg < t - shift /\ t - shift < end
    /\ \A t \in Int : t - shift \in DOMAIN src /\ beg < t - shift /\ t - shift < end
                         => r[t] = src[t - shift]
    /\ \A t \in DOMAIN dest :
          \/ t - shift \in DOMAIN src /\ beg < t - shift /\ t - shift < end
          \/ r[t] = dest[t]
    /\ DOMAIN r = DOMAIN dest \cup {t + shift : t \in DOMAIN src \cap Inside(beg, end)}
    /\ r = [t \in DOMAIN r |-> r[t]]

LEMMA WithCopiedIs ==
    ASSUME NEW dest, DOMAIN dest \subseteq Nat, NEW src, DOMAIN src \subseteq Nat,
           NEW beg \in Nat, NEW end \in Nat, NEW shift \in Int
    PROVE  CopiesKnown(WithCopied(dest, src, beg, end, shift), dest, src, beg, end, shift)
  <1> DEFINE copied == {t + shift : t \in DOMAIN src \cap Inside(beg, end)}
             r == WithCopied(dest, src, beg, end, shift)
  <1>1. \A t \in Int : t \in copied <=>
            t - shift \in DOMAIN src /\ beg < t - shift /\ t - shift < end
    <2>1. ASSUME NEW t \in Int, t \in copied
          PROVE  t - shift \in DOMAIN src /\ beg < t - shift /\ t - shift < end
      <3>1. PICK s \in DOMAIN src \cap Inside(beg, end) : t = s + shift
        BY <2>1
      <3>2. s \in Nat /\ beg < s /\ s < end /\ t - shift = s
        BY <3>1 DEF Inside
      <3> QED
        BY <3>1, <3>2
    <2>2. ASSUME NEW t \in Int, t - shift \in DOMAIN src, beg < t - shift, t - shift < end
          PROVE  t \in copied
      <3>1. t - shift \in Inside(beg, end) /\ t = (t - shift) + shift
        BY <2>2 DEF Inside
      <3> QED
        BY <2>2, <3>1
    <2> QED
      BY <2>1, <2>2
  <1>2. r = [t \in DOMAIN dest \cup copied |-> IF t \in copied THEN src[t - shift] ELSE dest[t]]
    BY DEF WithCopied
  <1> HIDE DEF copied, r
  <1>3. /\ DOMAIN r = DOMAIN dest \cup copied
        /\ \A t \in DOMAIN dest \cup copied :
              r[t] = IF t \in copied THEN src[t - shift] ELSE dest[t]
        /\ r = [t \in DOMAIN r |-> r[t]]
    BY <1>2
  <1> QED
    <2>1. \A t \in Int : t \in DOMAIN r <=>
             \/ t \in DOMAIN dest
             \/ t - shift \in DOMAIN src /\ beg < t - shift /\ t - shift < end
      BY <1>1, <1>3
    <2>2. \A t \in Int : t - shift \in DOMAIN src /\ beg < t - shift /\ t - shift < end
                            => r[t] = src[t - shift]
      BY <1>1, <1>3
    <2>3. \A t \in DOMAIN dest :
             \/ t - shift \in DOMAIN src /\ beg < t - shift /\ t - shift < end
             \/ r[t] = dest[t]
      <3> SUFFICES ASSUME NEW t \in DOMAIN dest,
                          ~(t - shift \in DOMAIN src /\ beg < t - shift /\ t - shift < end)
                   PROVE  r[t] = dest[t]
        OBVIOUS
      <3>1. t \notin copied
        BY <1>1
      <3> QED
        BY <1>3, <3>1
    <2>4. DOMAIN r = DOMAIN dest \cup {t + shift : t \in DOMAIN src \cap Inside(beg, end)}
      BY <1>3 DEF copied
    <2> QED
      BY Zenon, <1>3, <2>1, <2>2, <2>3, <2>4 DEF r, CopiesKnown

-----------------------------------------------------------------------------
(* A map that is level in a range has no change after its start: there     *)
(* map_set_range makes no change of the value that holds already, and      *)
(* map_copy is map_set_range.                                              *)
Level(c, beg, end) == \A s \in DOMAIN c : ~(beg < s /\ s < end)

LEMMA LevelStays ==
    ASSUME NEW c, DOMAIN c \subseteq Nat, NEW d, NEW beg \in Nat, NEW end \in Nat,
           Level(c, beg, end), NEW t \in Nat, beg <= t, t < end
    PROVE  Get(c, d, t) = Get(c, d, beg)
  <1>1. ChangesIn(c, beg, t) = {}
    BY DEF ChangesIn, Level
  <1> QED
    BY <1>1, StaysSame

LEMMA SetRangeChanges ==
    ASSUME NEW c, DOMAIN c \subseteq Nat, NEW d, NEW beg \in Nat, NEW end \in Nat, beg < end,
           NEW v
    PROVE  /\ DOMAIN SetRange(c, d, beg, end, v) \subseteq Nat
           /\ \A s \in DOMAIN SetRange(c, d, beg, end, v) :
                 s = beg \/ s = end \/ (s \in DOMAIN c /\ ~(beg < s /\ s < end))
  <1> DEFINE e == Emptied(c, beg, end)
             b == Set(e, d, beg, v)
             w == Get(c, d, end)
  <1>1. SetRange(c, d, beg, end, v) = Set(b, d, end, w)
    BY DEF SetRange
  <1>2. DOMAIN e \subseteq DOMAIN c /\ \A s \in DOMAIN c : s \in DOMAIN e <=> ~(beg < s /\ s < end)
    BY EmptiedIs
  <1> HIDE DEF e, w
  <1>3. DOMAIN b \subseteq DOMAIN e \cup {beg}
    BY SetElsewhere
  <1> HIDE DEF b
  <1>4. DOMAIN Set(b, d, end, w) \subseteq DOMAIN b \cup {end}
    BY SetElsewhere
  <1> QED
    BY <1>1, <1>2, <1>3, <1>4

LEMMA SetRangeLevel ==
    ASSUME NEW c, DOMAIN c \subseteq Nat, NEW d, NEW beg \in Nat, NEW end \in Nat, beg < end,
           NEW v, NEW on \in Nat, NEW off \in Nat, Level(c, on, off),
           on < end /\ beg < off => Get(c, d, on) = v
    PROVE  Level(SetRange(c, d, beg, end, v), on, off)
  <1> DEFINE e == Emptied(c, beg, end)
             b == Set(e, d, beg, v)
             w == Get(c, d, end)
             q == Set(b, d, end, w)
             r == Keeping(e, DOMAIN e \ {beg})
             u == Keeping(b, DOMAIN b \ {end})
  <1> SUFFICES ASSUME NEW s \in DOMAIN SetRange(c, d, beg, end, v), on < s, s < off
               PROVE  FALSE
    BY DEF Level
  <1>1. SetRange(c, d, beg, end, v) = q
    BY DEF SetRange
  <1>2. /\ s \in Nat /\ s \notin DOMAIN c /\ (s = beg \/ s = end)
        /\ on < end /\ beg < off /\ Get(c, d, on) = v
    BY SetRangeChanges DEF Level
  <1>3. /\ DOMAIN e \subseteq DOMAIN c /\ DOMAIN e \subseteq Nat
        /\ \A t \in DOMAIN c : t \in DOMAIN e <=> ~(beg < t /\ t < end)
        /\ \A t \in DOMAIN e : e[t] = c[t]
    BY EmptiedIs
  <1> HIDE DEF e
  <1>4. /\ DOMAIN b \subseteq DOMAIN e \cup {beg} /\ DOMAIN b \subseteq Nat
        /\ Get(r, d, beg) = v => b = r
        /\ DOMAIN r = DOMAIN e \ {beg} /\ \A t \in DOMAIN r : r[t] = e[t]
    <2>1. DOMAIN b \subseteq DOMAIN e \cup {beg}
      BY SetElsewhere
    <2>2. Get(r, d, beg) = v => b = r
      BY SetThere
    <2>3. DOMAIN r = DOMAIN e \ {beg} /\ \A t \in DOMAIN r : r[t] = e[t]
      BY DEF Keeping
    <2> QED
      BY <1>3, <2>1, <2>2, <2>3
  <1>5. Get(b, d, beg) = v
    <2>1. ChangesIn(e, beg, beg) = {}
      BY <1>3 DEF ChangesIn
    <2> QED
      BY <1>3, <2>1, SetIs
  <1> HIDE DEF b, r
  <1>6. /\ DOMAIN q \subseteq DOMAIN b \cup {end}
        /\ Get(u, d, end) = w => q = u
        /\ DOMAIN u = DOMAIN b \ {end} /\ \A t \in DOMAIN u : u[t] = b[t]
    <2> HIDE DEF w
    <2>1. DOMAIN q \subseteq DOMAIN b \cup {end}
      BY SetElsewhere
    <2>2. Get(u, d, end) = w => q = u
      BY SetThere
    <2>3. DOMAIN u = DOMAIN b \ {end} /\ \A t \in DOMAIN u : u[t] = b[t]
      BY DEF Keeping
    <2> QED
      BY <2>1, <2>2, <2>3
  <1> HIDE DEF q, u, w
  <1>7. CASE s = beg
    <2>1. Get(r, d, beg) = Get(c, d, beg)
      BY <1>2, <1>3, <1>4, <1>7, SameUpTo
    <2>2. Get(c, d, beg) = v
      BY <1>2, <1>7, LevelStays
    <2> QED
      BY <1>1, <1>3, <1>4, <1>6, <1>7, <2>1, <2>2
  <1>8. CASE s = end
    <2>1. w = v
      BY <1>2, <1>8, LevelStays DEF w
    <2>2. ChangesIn(u, beg, end) = {}
      BY <1>3, <1>4, <1>6 DEF ChangesIn
    <2>3. DOMAIN u \subseteq Nat
      BY <1>4, <1>6
    <2>4. Get(u, d, end) = Get(u, d, beg)
      BY <2>2, <2>3, StaysSame
    <2>5. Get(u, d, beg) = Get(b, d, beg)
      BY <1>4, <1>6, <2>3, SameUpTo
    <2> QED
      BY <1>1, <1>5, <1>6, <1>8, <2>1, <2>4, <2>5
  <1> QED
    BY <1>2, <1>7, <1>8

(* Setting a value gives a function whatever the map was.                  *)
LEMMA SetIsAFunction ==
    ASSUME NEW c, NEW d, NEW t, NEW v
    PROVE  Set(c, d, t, v) = [s \in DOMAIN Set(c, d, t, v) |-> Set(c, d, t, v)[s]]
  <1> DEFINE rest == Keeping(c, DOMAIN c \ {t})
  <1>1. rest = [s \in DOMAIN rest |-> rest[s]]
    BY DEF Keeping
  <1>2. Inserted(rest, t, v) = [s \in DOMAIN Inserted(rest, t, v) |-> Inserted(rest, t, v)[s]]
    BY DEF Inserted
  <1> HIDE DEF rest
  <1>3. Set(c, d, t, v) = rest \/ Set(c, d, t, v) = Inserted(rest, t, v)
    BY DEF Set, rest
  <1> QED
    BY <1>1, <1>2, <1>3

LEMMA LevelCopyIs ==
    ASSUME NEW ms, DOMAIN ms = Map, NEW a \in Map, NEW b \in Map,
           DOMAIN ms[a] \subseteq Nat, DOMAIN ms[b] \subseteq Nat,
           NEW beg1 \in Nat, NEW end1 \in Nat, beg1 < end1, NEW beg2 \in Nat, NEW end2 \in Nat,
           end2 = TargetEnd(beg1, end1, beg2), Level(ms[a], beg1, end1),
           a = b => /\ Level(ms[b], beg2, end2)
                    /\ ~(beg1 < beg2 /\ beg2 < end1) /\ ~(beg1 < end2 /\ end2 < end1)
    PROVE  Copy(ms, a, beg1, end1, b, beg2)
              = [ms EXCEPT ![b] = SetRange(ms[b], Default[b], beg2, end2,
                                           Get(ms[a], Default[a], beg1))]
  <1> DEFINE c == ms[b]
             v == Get(IF a = b THEN Emptied(ms[b], beg2, end2) ELSE ms[a], Default[a], beg1)
             q == Set(Set(Emptied(ms[b], beg2, end2), Default[b], beg2, v),
                      Default[b], end2, Get(ms[b], Default[b], end2))
             src == IF a = b THEN q ELSE ms[a]
             r == SetRange(ms[b], Default[b], beg2, end2, v)
  <1>1. Copy(ms, a, beg1, end1, b, beg2)
           = [ms EXCEPT ![b] = WithCopied(q, src, beg1, end1, beg2 - beg1)]
    BY CopyIs
  <1>2. beg2 < end2
    BY DEF TargetEnd
  <1>3. v = Get(ms[a], Default[a], beg1)
    <2>1. CASE a = b
      <3> DEFINE e == Emptied(ms[b], beg2, end2)
      <3>1. /\ DOMAIN e \subseteq DOMAIN c
            /\ \A s \in DOMAIN c : s \in DOMAIN e <=> ~(beg2 < s /\ s < end2)
            /\ \A s \in DOMAIN e : e[s] = c[s]
        BY EmptiedIs
      <3>2. DOMAIN e = DOMAIN c
        BY <2>1, <3>1 DEF Level
      <3> HIDE DEF e
      <3>3. Get(e, Default[a], beg1) = Get(ms[b], Default[a], beg1)
        BY <3>1, <3>2, SameUpTo
      <3> QED
        BY <2>1, <3>3 DEF e
    <2>2. CASE a # b
      BY <2>2
    <2> QED
      BY <2>1, <2>2
  <1>4. q = r
    BY <1>2 DEF SetRange
  <1> HIDE DEF v
  <1>5. r = [t \in DOMAIN r |-> r[t]]
    BY <1>4, SetIsAFunction
  <1>6. /\ DOMAIN r \subseteq Nat
        /\ \A s \in DOMAIN r : s = beg2 \/ s = end2 \/ s \in DOMAIN ms[b]
    BY <1>2, SetRangeChanges
  <1> HIDE DEF q, r
  <1>7. DOMAIN src \cap Inside(beg1, end1) = {}
    BY <1>4, <1>6 DEF Inside, Level
  <1> HIDE DEF src
  <1>8. WithCopied(r, src, beg1, end1, beg2 - beg1) = r
    BY <1>5, <1>7 DEF WithCopied
  <1> QED
    BY <1>1, <1>3, <1>4, <1>8 DEF r
-----------------------------------------------------------------------------
(* map_eq                                                                  *)
LEMMA PlainValues ==
    ASSUME NEW a \in Map, DOMAIN maps[a] \subseteq Nat, NEW beg \in Nat, NEW end \in Nat,
           Plain(a, beg, end), NEW t \in DOMAIN maps[a], beg < t, t < end
    PROVE  /\ t \in DOMAIN Compared(maps[a], Default[a], beg, end)
           /\ Compared(maps[a], Default[a], beg, end)[t] = maps[a][t]
           /\ Now(a, t) = maps[a][t] /\ Now(a, t) # Now(a, t - 1)
  <1>1. t \in Inside(beg, end)
    BY DEF Inside
  <1>2. HoldsAt(maps[a], t, t)
    BY DEF HoldsAt
  <1>3. Now(a, t) = maps[a][t]
    BY <1>2, GetHolds DEF Now
  <1>4. Now(a, t) # Now(a, beg) /\ Now(a, t) # Now(a, t - 1)
    BY <1>1 DEF Plain
  <1>5. maps[a][t] # Get(maps[a], Default[a], beg)
    BY <1>3, <1>4 DEF Now
  <1> QED
    BY <1>1, <1>3, <1>4, <1>5 DEF Compared, Keeping

LEMMA ComparedIs ==
    ASSUME NEW c, NEW d, NEW beg \in Nat, NEW end \in Nat
    PROVE  \A t \in DOMAIN Compared(c, d, beg, end) : t \in DOMAIN c /\ beg < t /\ t < end
  BY DEF Compared, Keeping, Inside

(* One direction: what is compared tells all there is.                     *)
LEMMA EqTells ==
    ASSUME NEW a \in Map, NEW b \in Map, DOMAIN maps[a] \subseteq Nat, DOMAIN maps[b] \subseteq Nat,
           NEW beg \in Nat, NEW end \in Nat, Plain(a, beg, end), Plain(b, beg, end),
           Eq(maps[a], Default[a], maps[b], Default[b], beg, end),
           NEW t \in Nat, beg <= t, t < end
    PROVE  Now(a, t) = Now(b, t)
  <1> DEFINE A == Compared(maps[a], Default[a], beg, end)
             B == Compared(maps[b], Default[b], beg, end)
  <1>1. A = B /\ Now(a, beg) = Now(b, beg)
    BY DEF Eq, Now
  <1>2. ASSUME NEW s \in Nat, beg < s, s < end
        PROVE  /\ s \in DOMAIN maps[a] <=> s \in DOMAIN maps[b]
               /\ s \in DOMAIN maps[a] => maps[a][s] = maps[b][s]
    <2>1. s \in DOMAIN maps[a] => s \in DOMAIN A /\ A[s] = maps[a][s]
      BY <1>2, PlainValues
    <2>2. s \in DOMAIN maps[b] => s \in DOMAIN B /\ B[s] = maps[b][s]
      BY <1>2, PlainValues
    <2>3. s \in DOMAIN A => s \in DOMAIN maps[a]
      BY ComparedIs
    <2>4. s \in DOMAIN B => s \in DOMAIN maps[b]
      BY ComparedIs
    <2> HIDE DEF A, B
    <2> QED
      BY <1>1, <2>1, <2>2, <2>3, <2>4
  <1>3. CASE ChangesIn(maps[a], beg, t) = {}
    <2>1. ChangesIn(maps[b], beg, t) = {}
      BY <1>2, <1>3 DEF ChangesIn
    <2>2. Now(a, t) = Now(a, beg) /\ Now(b, t) = Now(b, beg)
      BY <1>3, <2>1, StaysSame DEF Now
    <2> QED
      BY <1>1, <2>2
  <1>4. CASE ChangesIn(maps[a], beg, t) # {}
    <2>1. PICK s0 \in DOMAIN maps[a] : beg < s0 /\ s0 <= t
      BY <1>4 DEF ChangesIn
    <2>2. PICK s \in DOMAIN maps[a] : HoldsAt(maps[a], t, s) /\ s0 <= s
      BY <2>1, SomeHolds
    <2>3. beg < s /\ s <= t /\ s \in Nat
      BY <2>1, <2>2 DEF HoldsAt
    <2>4. HoldsAt(maps[b], t, s) /\ maps[a][s] = maps[b][s]
      <3>1. s \in DOMAIN maps[b] /\ maps[a][s] = maps[b][s]
        BY <1>2, <2>3
      <3>2. ASSUME NEW r \in DOMAIN maps[b], r <= t PROVE r <= s
        <4>1. CASE r <= beg
          BY <4>1, <2>3
        <4>2. CASE beg < r
          BY <4>2, <3>2, <1>2, <2>2 DEF HoldsAt
        <4> QED
          BY <4>1, <4>2
      <3> QED
        BY <2>3, <3>1, <3>2 DEF HoldsAt
    <2>5. Now(a, t) = maps[a][s] /\ Now(b, t) = maps[b][s]
      BY <2>2, <2>4, GetHolds DEF Now
    <2> QED
      BY <2>4, <2>5
  <1> QED
    BY <1>3, <1>4

(* The other: maps that agree have the same changes.                       *)
LEMMA AgreeingChange ==
    ASSUME NEW a \in Map, NEW b \in Map, DOMAIN maps[a] \subseteq Nat, DOMAIN maps[b] \subseteq Nat,
           NEW beg \in Nat, NEW end \in Nat, Plain(a, beg, end), Plain(b, beg, end),
           \A t \in beg .. (end - 1) : Now(a, t) = Now(b, t),
           NEW s \in DOMAIN maps[a], beg < s, s < end
    PROVE  s \in DOMAIN maps[b] /\ maps[a][s] = maps[b][s]
  <1>1. /\ s \in Nat /\ s - 1 \in Nat /\ s \in beg .. (end - 1) /\ s - 1 \in beg .. (end - 1)
    OBVIOUS
  <1>2. Now(a, s) = maps[a][s] /\ Now(a, s) # Now(a, s - 1)
    BY PlainValues
  <1>3. Now(b, s) # Now(b, s - 1)
    BY <1>1, <1>2
  <1>4. s \in DOMAIN maps[b]
    <2> SUFFICES ASSUME s \notin DOMAIN maps[b]
                 PROVE  FALSE
      OBVIOUS
    <2>1. ChangesIn(maps[b], s - 1, s) = {}
      BY <1>1 DEF ChangesIn
    <2> QED
      BY <1>1, <1>3, <2>1, StaysSame DEF Now
  <1>5. Now(b, s) = maps[b][s]
    BY <1>4, PlainValues
  <1> QED
    BY <1>1, <1>2, <1>4, <1>5

LEMMA EqTold ==
    ASSUME NEW a \in Map, NEW b \in Map, DOMAIN maps[a] \subseteq Nat, DOMAIN maps[b] \subseteq Nat,
           NEW beg \in Nat, NEW end \in Nat, beg < end, Plain(a, beg, end), Plain(b, beg, end),
           \A t \in beg .. (end - 1) : Now(a, t) = Now(b, t)
    PROVE  Eq(maps[a], Default[a], maps[b], Default[b], beg, end)
  <1> DEFINE A == Compared(maps[a], Default[a], beg, end)
             B == Compared(maps[b], Default[b], beg, end)
  <1>1. Now(a, beg) = Now(b, beg)
    OBVIOUS
  <1>2. ASSUME NEW s \in DOMAIN A
        PROVE  s \in DOMAIN B /\ A[s] = B[s]
    <2>1. s \in DOMAIN maps[a] /\ beg < s /\ s < end
      BY ComparedIs
    <2>2. s \in DOMAIN maps[b] /\ maps[a][s] = maps[b][s]
      BY <2>1, AgreeingChange
    <2> QED
      BY <2>1, <2>2, PlainValues
  <1>3. ASSUME NEW s \in DOMAIN B
        PROVE  s \in DOMAIN A
    <2>1. s \in DOMAIN maps[b] /\ beg < s /\ s < end
      BY ComparedIs
    <2>2. s \in DOMAIN maps[a]
      BY <2>1, AgreeingChange
    <2> QED
      BY <2>1, <2>2, PlainValues
  <1>4. A = [s \in DOMAIN A |-> A[s]] /\ B = [s \in DOMAIN B |-> B[s]]
    BY DEF Compared, Keeping
  <1>5. A = B
    <2> HIDE DEF A, B
    <2> QED
      BY <1>2, <1>3, <1>4
  <1> QED
    BY <1>1, <1>5 DEF Eq, Now

-----------------------------------------------------------------------------
(* map_copy: the target before the changes inside the range are copied.    *)
EndsSet(c, d, beg, end, v, w) == Set(Set(Emptied(c, beg, end), d, beg, v), d, end, w)

EndsKnown(e, c, d, beg, end, v, w) ==
    /\ DOMAIN e \subseteq Nat
    /\ \A s \in DOMAIN e : ~(beg < s /\ s < end)
    /\ \A s \in Nat : s < beg \/ end < s =>
          (s \in DOMAIN e <=> s \in DOMAIN c) /\ (s \in DOMAIN c => e[s] = c[s])
    /\ Get(e, d, beg) = v
    /\ w # v => end \in DOMAIN e /\ e[end] = w
    /\ w = v => end \notin DOMAIN e

LEMMA EndsAre ==
    ASSUME NEW c, DOMAIN c \subseteq Nat, NEW d, NEW beg \in Nat, NEW end \in Nat, beg < end,
           NEW v, NEW w
    PROVE  EndsKnown(EndsSet(c, d, beg, end, v, w), c, d, beg, end, v, w)
  <1> DEFINE ends == EndsSet(c, d, beg, end, v, w)
             E == Emptied(c, beg, end)
             S == Set(E, d, beg, v)
             rest == Keeping(S, DOMAIN S \ {end})
  <1>1. /\ DOMAIN E \subseteq DOMAIN c /\ DOMAIN E \subseteq Nat
        /\ \A s \in DOMAIN c : s \in DOMAIN E <=> ~(beg < s /\ s < end)
        /\ \A s \in DOMAIN E : E[s] = c[s]
    BY EmptiedIs
  <1> HIDE DEF E
  <1>2. /\ DOMAIN E \ {beg} \subseteq DOMAIN S /\ DOMAIN S \subseteq DOMAIN E \cup {beg}
        /\ \A s \in DOMAIN E \ {beg} : S[s] = E[s]
    BY SetElsewhere
  <1>3. DOMAIN S \subseteq Nat
    <2> HIDE DEF S
    <2> QED
      BY <1>1, <1>2
  <1>4. Get(S, d, beg) = v
    <2>1. ChangesIn(E, beg, beg) = {}
      BY <1>1 DEF ChangesIn
    <2> QED
      BY <1>1, <2>1, SetIs
  <1>5. ends = Set(S, d, end, w)
    BY DEF E, EndsSet
  <1> HIDE DEF S, ends
  <1>6. /\ DOMAIN S \ {end} \subseteq DOMAIN ends /\ DOMAIN ends \subseteq DOMAIN S \cup {end}
        /\ \A s \in DOMAIN S \ {end} : ends[s] = S[s]
        /\ Get(rest, d, end) # w => end \in DOMAIN ends /\ ends[end] = w
        /\ Get(rest, d, end) = w => ends = rest
        /\ DOMAIN rest = DOMAIN S \ {end}
    <2>1. DOMAIN rest = DOMAIN S \ {end}
      BY DEF Keeping
    <2>2. /\ DOMAIN S \ {end} \subseteq DOMAIN ends /\ DOMAIN ends \subseteq DOMAIN S \cup {end}
          /\ \A s \in DOMAIN S \ {end} : ends[s] = S[s]
      BY <1>5, SetElsewhere
    <2>3. /\ Get(rest, d, end) # w => end \in DOMAIN ends /\ ends[end] = w
          /\ Get(rest, d, end) = w => ends = rest
      BY <1>5, SetThere
    <2> QED
      BY <2>1, <2>2, <2>3
  <1>7. \A s \in DOMAIN S \ {end} : rest[s] = S[s]
    BY DEF Keeping
  <1> HIDE DEF rest
  <1>8. DOMAIN ends \subseteq Nat /\ \A s \in DOMAIN ends : ~(beg < s /\ s < end)
    BY <1>1, <1>2, <1>3, <1>6
  <1>9. ASSUME NEW s \in Nat, s < beg \/ end < s
        PROVE  /\ s \in DOMAIN ends <=> s \in DOMAIN c
               /\ s \in DOMAIN c => ends[s] = c[s]
    BY <1>1, <1>2, <1>6, <1>9
  <1>10. Get(rest, d, end) = v
    <2>1. DOMAIN rest \subseteq Nat
      BY <1>3, <1>6
    <2>2. ChangesIn(rest, beg, end) = {}
      BY <1>1, <1>2, <1>3, <1>6 DEF ChangesIn
    <2>3. Get(rest, d, end) = Get(rest, d, beg)
      BY <2>1, <2>2, StaysSame
    <2>4. Get(rest, d, beg) = Get(S, d, beg)
      BY <1>3, <1>6, <1>7, <2>1, SameUpTo
    <2> QED
      BY <1>4, <2>3, <2>4
  <1>11. Get(ends, d, beg) = v
    <2>1. Get(ends, d, beg) = Get(S, d, beg)
      BY <1>3, <1>6, <1>8, SameUpTo
    <2> QED
      BY <1>4, <2>1
  <1>12. w = v => end \notin DOMAIN ends
    BY <1>6, <1>7, <1>10
  <1> QED
    BY <1>6, <1>8, <1>9, <1>10, <1>11, <1>12 DEF ends, EndsKnown

(* The target with them.                                                   *)
SourceKnown(src, A, a, b, beg, end, shift) ==
    \A s \in Nat : beg < s /\ s < end =>
       /\ s \in DOMAIN src <=> s \in DOMAIN A /\ ~(a = b /\ shift = 0)
       /\ s \in DOMAIN src => src[s] = A[s]

TargetIs(r, A, da, B, d, a, b, beg1, beg2, end2, shift, first, t) ==
    /\ t < beg2 => Get(r, d, t) = Get(B, d, t)
    /\ beg2 <= t /\ t < end2 =>
          Get(r, d, t) = IF ~(a = b /\ shift = 0) /\ ChangesIn(A, beg1, t - shift) # {}
                         THEN Get(A, da, t - shift) ELSE first
    /\ end2 <= t /\ (Get(B, d, end2) # first \/ ChangesIn(B, end2, t) # {}) =>
          Get(r, d, t) = Get(B, d, t)
    /\ end2 <= t /\ Get(B, d, end2) = first /\ ChangesIn(B, end2, t) = {} =>
          Get(r, d, t) = Get(r, d, end2 - 1)

LEMMA CopiedAre ==
    ASSUME NEW A, DOMAIN A \subseteq Nat, NEW da, NEW B, DOMAIN B \subseteq Nat, NEW d,
           NEW beg1 \in Nat, NEW end1 \in Nat, NEW beg2 \in Nat, beg1 < end1,
           NEW shift \in Int, shift = beg2 - beg1, NEW end2 \in Nat, end2 = end1 + shift,
           NEW a, NEW b, NEW src, DOMAIN src \subseteq Nat,
           SourceKnown(src, A, a, b, beg1, end1, shift),
           NEW first, NEW ends, EndsKnown(ends, B, d, beg2, end2, first, Get(B, d, end2)),
           NEW r, CopiesKnown(r, ends, src, beg1, end1, shift), NEW t \in Nat
    PROVE  TargetIs(r, A, da, B, d, a, b, beg1, beg2, end2, shift, first, t)
  <1> USE DEF TargetIs
  <1> DEFINE w == Get(B, d, end2)
  <1>1. beg2 < end2 /\ end1 - beg1 = end2 - beg2 /\ end2 - 1 \in Nat
    OBVIOUS
  <1>2. /\ DOMAIN ends \subseteq Nat
        /\ \A s \in DOMAIN ends : ~(beg2 < s /\ s < end2)
        /\ \A s \in Nat : s < beg2 \/ end2 < s =>
              (s \in DOMAIN ends <=> s \in DOMAIN B) /\ (s \in DOMAIN B => ends[s] = B[s])
        /\ Get(ends, d, beg2) = first
        /\ w # first => end2 \in DOMAIN ends /\ ends[end2] = w
        /\ w = first => end2 \notin DOMAIN ends
    BY DEF EndsKnown
  <1> HIDE DEF w
  <1>3. /\ \A s \in Int : s \in DOMAIN r <=>
              \/ s \in DOMAIN ends
              \/ s - shift \in DOMAIN src /\ beg1 < s - shift /\ s - shift < end1
        /\ \A s \in Int : s - shift \in DOMAIN src /\ beg1 < s - shift /\ s - shift < end1
                             => r[s] = src[s - shift]
        /\ \A s \in DOMAIN ends :
              \/ s - shift \in DOMAIN src /\ beg1 < s - shift /\ s - shift < end1
              \/ r[s] = ends[s]
        /\ DOMAIN r = DOMAIN ends \cup {s + shift : s \in DOMAIN src \cap Inside(beg1, end1)}
    BY DEF CopiesKnown
  <1>4. DOMAIN r \subseteq Nat
    <2>1. \A s \in DOMAIN src \cap Inside(beg1, end1) : s + shift \in Nat
      BY DEF Inside
    <2> QED
      BY <1>2, <1>3, <2>1
  (* Inside the target, the changes are those copied; elsewhere, none is.  *)
  <1>5. ASSUME NEW s \in Nat, beg2 < s, s < end2
        PROVE  /\ s \in DOMAIN r <=> s - shift \in DOMAIN A /\ ~(a = b /\ shift = 0)
               /\ s \in DOMAIN r => r[s] = A[s - shift]
    <2>1. s - shift \in Nat /\ beg1 < s - shift /\ s - shift < end1
      BY <1>5
    <2>2. s \notin DOMAIN ends
      BY <1>2, <1>5
    <2> QED
      BY <1>3, <2>1, <2>2 DEF SourceKnown
  <1>6. ASSUME NEW s \in Nat, s <= beg2 \/ end2 <= s
        PROVE  /\ s \in DOMAIN r <=> s \in DOMAIN ends
               /\ s \in DOMAIN ends => r[s] = ends[s]
    <2>1. ~(beg1 < s - shift /\ s - shift < end1)
      BY <1>6
    <2> QED
      BY <1>3, <2>1
  <1>7. CASE t < beg2
    <2>1. \A s \in Nat : s <= t =>
             (s \in DOMAIN r <=> s \in DOMAIN B) /\ (s \in DOMAIN r => r[s] = B[s])
      BY <1>2, <1>6, <1>7
    <2> QED
      BY <1>1, <1>4, <1>7, <2>1, SameUpTo
  <1>8. CASE beg2 <= t /\ t < end2 /\ ((a = b /\ shift = 0) \/ ChangesIn(A, beg1, t - shift) = {})
    <2>1. ChangesIn(r, beg2, t) = {}
      <3> SUFFICES ASSUME NEW s \in DOMAIN r, beg2 < s, s <= t
                   PROVE  FALSE
        BY DEF ChangesIn
      <3>1. s \in Nat /\ s < end2 /\ s - shift \in DOMAIN A /\ ~(a = b /\ shift = 0)
        BY <1>4, <1>5, <1>8
      <3> QED
        BY <1>8, <3>1 DEF ChangesIn
    <2>2. Get(r, d, t) = Get(r, d, beg2)
      BY <1>4, <1>8, <2>1, StaysSame
    <2>3. \A s \in Nat : s <= beg2 =>
             (s \in DOMAIN r <=> s \in DOMAIN ends) /\ (s \in DOMAIN r => r[s] = ends[s])
      BY <1>6
    <2>4. Get(r, d, beg2) = Get(ends, d, beg2)
      BY <1>2, <1>4, <2>3, SameUpTo
    <2> QED
      BY <1>1, <1>2, <1>8, <2>2, <2>4
  <1>9. CASE beg2 <= t /\ t < end2 /\ ~(a = b /\ shift = 0) /\ ChangesIn(A, beg1, t - shift) # {}
    <2>1. t - shift \in Nat
      BY <1>9
    <2>2. PICK s0 \in DOMAIN A : beg1 < s0 /\ s0 <= t - shift
      BY <1>9 DEF ChangesIn
    <2>3. PICK s \in DOMAIN A : HoldsAt(A, t - shift, s) /\ s0 <= s
      BY <2>1, <2>2, SomeHolds
    <2>4. s \in Nat /\ beg1 < s /\ s <= t - shift
      BY <2>2, <2>3 DEF HoldsAt
    <2>5. Get(A, da, t - shift) = A[s]
      BY <2>1, <2>3, GetHolds
    <2>6. s + shift \in Nat /\ beg2 < s + shift /\ s + shift <= t /\ (s + shift) - shift = s
      BY <2>4
    <2>7. s + shift \in DOMAIN r /\ r[s + shift] = A[s]
      BY <1>5, <1>9, <2>6
    <2>8. ASSUME NEW u \in DOMAIN r, u <= t
          PROVE  u <= s + shift
      <3>1. CASE u <= beg2
        BY <1>4, <2>6, <3>1
      <3>2. CASE beg2 < u
        <4>1. u \in Nat /\ u < end2
          BY <1>4, <1>9, <2>8
        <4>2. u - shift \in DOMAIN A /\ u - shift <= t - shift
          BY <1>5, <2>8, <3>2, <4>1
        <4>3. u - shift <= s
          BY <2>3, <4>2 DEF HoldsAt
        <4> QED
          BY <2>4, <4>1, <4>3
      <3> QED
        BY <1>4, <3>1, <3>2
    <2>9. HoldsAt(r, t, s + shift)
      BY <2>6, <2>7, <2>8 DEF HoldsAt
    <2>10. Get(r, d, t) = A[s]
      BY <1>4, <2>7, <2>9, GetHolds
    <2> QED
      BY <1>1, <1>9, <2>5, <2>10
  <1>10. CASE end2 <= t /\ ChangesIn(B, end2, t) # {}
    <2>1. PICK s0 \in DOMAIN B : end2 < s0 /\ s0 <= t
      BY <1>10 DEF ChangesIn
    <2>2. \A s \in Nat : s0 <= s /\ s <= t =>
             (s \in DOMAIN B <=> s \in DOMAIN r) /\ (s \in DOMAIN B => B[s] = r[s])
      BY <1>2, <1>6, <2>1
    <2>3. Get(B, d, t) = Get(r, d, t)
      BY <1>4, <2>1, <2>2, SameFrom
    <2> QED
      BY <1>1, <1>10, <2>3
  <1>11. ASSUME end2 <= t, ChangesIn(B, end2, t) = {}
         PROVE  ChangesIn(r, end2, t) = {} /\ Get(B, d, t) = w
    <2>1. Get(B, d, t) = w
      BY <1>1, <1>11, StaysSame DEF w
    <2>2. \A s \in DOMAIN r : ~(end2 < s /\ s <= t)
      BY <1>2, <1>4, <1>6, <1>11 DEF ChangesIn
    <2> QED
      BY <2>1, <2>2 DEF ChangesIn
  <1>12. CASE end2 <= t /\ ChangesIn(B, end2, t) = {} /\ w # first
    <2>1. end2 \in DOMAIN r /\ r[end2] = w
      BY <1>2, <1>6, <1>12
    <2>2. HoldsAt(r, t, end2)
      BY <1>4, <1>11, <1>12, <2>1 DEF HoldsAt, ChangesIn
    <2>3. Get(r, d, t) = w
      BY <1>4, <2>1, <2>2, GetHolds
    <2> QED
      BY <1>1, <1>11, <1>12, <2>3 DEF w
  <1>13. CASE end2 <= t /\ ChangesIn(B, end2, t) = {} /\ w = first
    <2>1. end2 \notin DOMAIN r
      BY <1>2, <1>6, <1>13
    <2>2. ChangesIn(r, end2 - 1, t) = {}
      BY <1>4, <1>11, <1>13, <2>1 DEF ChangesIn
    <2>3. Get(r, d, t) = Get(r, d, end2 - 1)
      BY <1>1, <1>4, <1>13, <2>2, StaysSame
    <2> QED
      BY <1>1, <1>13, <2>3 DEF w
  <1> QED
    BY <1>1, <1>7, <1>8, <1>9, <1>10, <1>12, <1>13 DEF w

-----------------------------------------------------------------------------
(* The invariant: maps stay possible, whatever is called on them.          *)
Typed == maps \in [Map -> PossibleMaps]

LEMMA TypedMaps ==
    ASSUME Typed, NEW m \in Map
    PROVE  /\ maps[m] \in PossibleMaps /\ DOMAIN maps[m] \subseteq Nat
           /\ Default[m] \in Value /\ DOMAIN maps = Map
  BY PossibleIs, DefaultAssumption DEF Typed

LEMMA NonePossible == <<>> \in PossibleMaps
  <1>1. {} \in SUBSET Time /\ <<>> \in [{} -> Value]
    OBVIOUS
  <1> QED
    BY <1>1, PossibleIf

LEMMA TargetTimes ==
    ASSUME Typed, NEW a \in Map, NEW b \in Map,
           NEW beg1 \in Time, NEW end1 \in Time, NEW beg2 \in Time, beg1 < end1,
           MayCopy(a, beg1, end1, b, beg2), NEW end2, end2 = TargetEnd(beg1, end1, beg2)
    PROVE  /\ beg1 \in Nat /\ end1 \in Nat /\ beg2 \in Nat /\ end2 \in Nat /\ end2 \in Time
           /\ beg2 < end2 /\ end2 = end1 + (beg2 - beg1) /\ beg2 - beg1 \in Int
           /\ a = b => beg2 = beg1 \/ end2 <= beg1
  <1>1. beg1 \in Nat /\ end1 \in Nat /\ beg2 \in Nat
    BY TimeAssumption
  <1>2. end2 \in Time /\ end2 = beg2 + (end1 - beg1) /\ end2 \in Nat
    BY TimeAssumption DEF TargetEnd, MayCopy
  <1>3. a = b => beg2 = beg1 \/ beg2 \in 0 .. (beg1 - (end1 - beg1))
    BY DEF MayCopy
  <1>4. a = b => beg2 = beg1 \/ end2 <= beg1
    BY <1>1, <1>2, <1>3
  <1> QED
    BY <1>1, <1>2, <1>4

(* What map_copy reads for the start of the target, after it emptied it.   *)
LEMMA FirstRead ==
    ASSUME Typed, NEW a \in Map, NEW b \in Map,
           NEW beg1 \in Nat, NEW beg2 \in Nat, NEW end2 \in Nat, beg2 < end2,
           a = b => beg2 = beg1 \/ end2 <= beg1
    PROVE  Get(IF a = b THEN Emptied(maps[b], beg2, end2) ELSE maps[a], Default[a], beg1)
              = FirstCopied(a, beg1, end2, b, beg2)
  <1> DEFINE E == Emptied(maps[b], beg2, end2)
  <1>1. DOMAIN maps[a] \subseteq Nat /\ DOMAIN maps[b] \subseteq Nat
    BY TypedMaps
  <1>2. /\ DOMAIN E \subseteq DOMAIN maps[b] /\ DOMAIN E \subseteq Nat
        /\ \A s \in DOMAIN maps[b] : s \in DOMAIN E <=> ~(beg2 < s /\ s < end2)
        /\ \A s \in DOMAIN E : E[s] = maps[b][s]
    BY <1>1, EmptiedIs
  <1> HIDE DEF E
  <1>3. CASE a # b
    BY <1>3 DEF FirstCopied, Now
  <1>4. CASE a = b /\ beg2 = beg1
    <2>1. Get(E, Default[b], beg1) = Now(b, beg1)
      BY <1>1, <1>2, <1>4, SameUpTo DEF Now
    <2> QED
      BY <1>4, <2>1 DEF FirstCopied, E
  <1>5. CASE a = b /\ end2 <= beg1 /\ DOMAIN maps[a] \cap (end2 .. beg1) # {}
    <2>1. PICK s0 \in DOMAIN maps[b] : end2 <= s0 /\ s0 <= beg1
      BY <1>5
    <2>2. Get(maps[b], Default[b], beg1) = Get(E, Default[b], beg1)
      <3>1. s0 \in Nat /\ \A s \in Nat : s0 <= s /\ s <= beg1 =>
               (s \in DOMAIN maps[b] <=> s \in DOMAIN E)
                  /\ (s \in DOMAIN maps[b] => maps[b][s] = E[s])
        BY <1>1, <1>2, <2>1
      <3> QED
        BY <1>1, <1>2, <2>1, <3>1, SameFrom
    <2> QED
      BY <1>5, <2>2 DEF FirstCopied, Now, E
  <1>6. CASE a = b /\ end2 <= beg1 /\ DOMAIN maps[a] \cap (end2 .. beg1) = {}
    <2>1. ChangesIn(E, beg2, beg1) = {}
      BY <1>1, <1>2, <1>6 DEF ChangesIn
    <2>2. Get(E, Default[b], beg1) = Get(E, Default[b], beg2)
      BY <1>2, <1>6, <2>1, StaysSame
    <2>3. Get(E, Default[b], beg2) = Now(b, beg2)
      BY <1>1, <1>2, SameUpTo DEF Now
    <2> QED
      BY <1>6, <2>2, <2>3 DEF FirstCopied, E
  <1> QED
    BY <1>3, <1>4, <1>5, <1>6

(* The map that map_copy leaves in b.                                      *)
LEMMA CopyResult ==
    ASSUME Typed, NEW a \in Map, NEW b \in Map,
           NEW beg1 \in Time, NEW end1 \in Time, NEW beg2 \in Time, beg1 < end1,
           MayCopy(a, beg1, end1, b, beg2), NEW end2, end2 = TargetEnd(beg1, end1, beg2)
    PROVE  LET ends == EndsSet(maps[b], Default[b], beg2, end2,
                               FirstCopied(a, beg1, end2, b, beg2), Now(b, end2))
               src == IF a = b THEN ends ELSE maps[a]
           IN  /\ Copy(maps, a, beg1, end1, b, beg2)
                     = [maps EXCEPT ![b] = WithCopied(ends, src, beg1, end1, beg2 - beg1)]
               /\ EndsKnown(ends, maps[b], Default[b], beg2, end2,
                            FirstCopied(a, beg1, end2, b, beg2), Now(b, end2))
               /\ CopiesKnown(WithCopied(ends, src, beg1, end1, beg2 - beg1),
                              ends, src, beg1, end1, beg2 - beg1)
               /\ ends \in PossibleMaps /\ src \in PossibleMaps
  <1> DEFINE first == FirstCopied(a, beg1, end2, b, beg2)
             ends == EndsSet(maps[b], Default[b], beg2, end2, first, Now(b, end2))
             src == IF a = b THEN ends ELSE maps[a]
  <1>1. /\ beg1 \in Nat /\ end1 \in Nat /\ beg2 \in Nat /\ end2 \in Nat /\ end2 \in Time
        /\ beg2 < end2 /\ end2 = end1 + (beg2 - beg1) /\ beg2 - beg1 \in Int
        /\ a = b => beg2 = beg1 \/ end2 <= beg1
    BY TargetTimes
  <1>2. /\ DOMAIN maps = Map /\ maps[a] \in PossibleMaps /\ maps[b] \in PossibleMaps
        /\ DOMAIN maps[b] \subseteq Nat /\ Default[a] \in Value /\ Default[b] \in Value
    BY TypedMaps
  <1>3. Get(IF a = b THEN Emptied(maps[b], beg2, end2) ELSE maps[a], Default[a], beg1) = first
    BY <1>1, FirstRead
  <1>4. first \in Value /\ Now(b, end2) \in Value
    BY <1>1, <1>2, GetPossible DEF FirstCopied, Now
  <1> HIDE DEF first
  <1>5. ends = Set(Set(Emptied(maps[b], beg2, end2), Default[b], beg2, first),
                   Default[b], end2, Get(maps[b], Default[b], end2))
    BY DEF EndsSet, Now
  <1>6. ends \in PossibleMaps
    <2>1. Set(Emptied(maps[b], beg2, end2), Default[b], beg2, first) \in PossibleMaps
      BY <1>2, <1>4, EmptiedPossible, SetPossible
    <2> QED
      BY <1>1, <1>4, <1>5, <2>1, SetPossible DEF Now
  <1>7. EndsKnown(ends, maps[b], Default[b], beg2, end2, first, Now(b, end2))
    BY <1>1, <1>2, EndsAre
  <1>8. Copy(maps, a, beg1, end1, b, beg2)
           = [maps EXCEPT ![b] = WithCopied(ends, src, beg1, end1, beg2 - beg1)]
    <2>1. ~(beg1 >= end1)
      BY <1>1
    <2> HIDE DEF ends
    <2> QED
      BY <1>2, <1>3, <1>5, <2>1, CopyIs
  <1> HIDE DEF ends
  <1>9. src \in PossibleMaps
    BY <1>2, <1>6
  <1>10. CopiesKnown(WithCopied(ends, src, beg1, end1, beg2 - beg1),
                     ends, src, beg1, end1, beg2 - beg1)
    <2> HIDE DEF src
    <2> QED
      BY <1>1, <1>6, <1>9, PossibleIs, WithCopiedIs
  <1> QED
    BY <1>6, <1>7, <1>8, <1>9, <1>10 DEF first, ends

LEMMA FollowsIs ==
    ASSUME Typed, NEW m \in Map, NEW beg \in Nat, NEW t \in Int
    PROVE  Follows(m, beg, t) <=> ChangesIn(maps[m], beg, t) # {}
  BY TypedMaps DEF Follows, ChangesIn

LEMMA CopyPossible ==
    ASSUME Typed, NEW a \in Map, NEW b \in Map,
           NEW beg1 \in Time, NEW end1 \in Time, NEW beg2 \in Time,
           MayCopy(a, beg1, end1, b, beg2)
    PROVE  Copy(maps, a, beg1, end1, b, beg2) \in [Map -> PossibleMaps]
  <1>1. CASE beg1 >= end1
    BY <1>1 DEF Copy, Typed
  <1>2. CASE beg1 < end1
    <2> DEFINE end2 == TargetEnd(beg1, end1, beg2)
               ends == EndsSet(maps[b], Default[b], beg2, end2,
                               FirstCopied(a, beg1, end2, b, beg2), Now(b, end2))
               src == IF a = b THEN ends ELSE maps[a]
               r == WithCopied(ends, src, beg1, end1, beg2 - beg1)
    <2>1. /\ Copy(maps, a, beg1, end1, b, beg2) = [maps EXCEPT ![b] = r]
          /\ CopiesKnown(r, ends, src, beg1, end1, beg2 - beg1)
          /\ ends \in PossibleMaps /\ src \in PossibleMaps
      BY <1>2, CopyResult
    <2>2. /\ beg1 \in Nat /\ end1 \in Nat /\ beg2 \in Nat /\ end2 \in Nat /\ end2 \in Time
          /\ end2 = end1 + (beg2 - beg1)
      BY <1>2, TargetTimes
    <2> HIDE DEF end2, ends, src, r
    <2>3. /\ DOMAIN r = DOMAIN ends \cup {t + (beg2 - beg1) : t \in DOMAIN src \cap Inside(beg1, end1)}
          /\ r = [t \in DOMAIN r |-> r[t]]
      BY <2>1 DEF CopiesKnown
    <2>4. ASSUME NEW t \in DOMAIN r
          PROVE  t \in Time /\ r[t] \in Value
      <3>1. CASE t - (beg2 - beg1) \in DOMAIN src /\ beg1 < t - (beg2 - beg1)
                 /\ t - (beg2 - beg1) < end1 /\ t \in Int
        <4>1. r[t] = src[t - (beg2 - beg1)]
          BY <2>1, <3>1 DEF CopiesKnown
        <4>2. t \in beg2 .. end2
          BY <2>2, <3>1
        <4> QED
          BY <2>1, <2>2, <3>1, <4>1, <4>2, PossibleIs, TimeAssumption
      <3>2. CASE t \in DOMAIN ends /\ ~(t - (beg2 - beg1) \in DOMAIN src
                     /\ beg1 < t - (beg2 - beg1) /\ t - (beg2 - beg1) < end1)
        <4>1. r[t] = ends[t]
          BY <2>1, <3>2 DEF CopiesKnown
        <4> QED
          BY <2>1, <3>2, <4>1, PossibleIs
      <3>3. t \in Int
        <4>1. \A s \in DOMAIN src \cap Inside(beg1, end1) : s + (beg2 - beg1) \in Int
          BY <2>2 DEF Inside
        <4>2. DOMAIN ends \subseteq Nat
          BY <2>1, PossibleIs
        <4> QED
          BY <2>3, <4>1, <4>2
      <3> QED
        BY <2>1, <3>1, <3>2, <3>3 DEF CopiesKnown
    <2>5. DOMAIN r \in SUBSET Time /\ r \in [DOMAIN r -> Value]
      BY <2>3, <2>4
    <2>6. r \in PossibleMaps
      BY <2>5, PossibleIf
    <2> QED
      BY <2>1, <2>6 DEF Typed
  <1> QED
    BY <1>1, <1>2, TimeAssumption

LEMMA InvCopyCopies ==
    ASSUME Typed
    PROVE  CopyCopies
  <1> SUFFICES ASSUME NEW a \in Map, NEW b \in Map,
                      NEW beg1 \in Time, NEW end1 \in Time, NEW beg2 \in Time,
                      beg1 < end1, MayCopy(a, beg1, end1, b, beg2), NEW t \in Time
               PROVE  LET shift == beg2 - beg1
                          end2 == end1 + shift
                          first == FirstCopied(a, beg1, end2, b, beg2)
                          Copied(u) == IF Follows(a, beg1, u) /\ ~(a = b /\ shift = 0)
                                       THEN Now(a, u) ELSE first
                          c == Copy(maps, a, beg1, end1, b, beg2)[b]
                      IN  Get(c, Default[b], t) =
                             IF t \in beg2 .. (end2 - 1) THEN Copied(t - shift)
                             ELSE IF t >= end2 /\ Now(b, end2) = first /\ ~Follows(b, end2, t)
                                  THEN Copied(end1 - 1)
                             ELSE Now(b, t)
    BY DEF CopyCopies
  <1> DEFINE shift == beg2 - beg1
             end2 == end1 + shift
             first == FirstCopied(a, beg1, end2, b, beg2)
             Copied(u) == IF Follows(a, beg1, u) /\ ~(a = b /\ shift = 0)
                          THEN Now(a, u) ELSE first
             c == Copy(maps, a, beg1, end1, b, beg2)[b]
             ends == EndsSet(maps[b], Default[b], beg2, end2, first, Now(b, end2))
             src == IF a = b THEN ends ELSE maps[a]
  <1>1. /\ beg1 \in Nat /\ end1 \in Nat /\ beg2 \in Nat /\ end2 \in Nat /\ end2 \in Time
        /\ beg2 < end2 /\ shift \in Int /\ t \in Nat
        /\ a = b => beg2 = beg1 \/ end2 <= beg1
        /\ end2 = TargetEnd(beg1, end1, beg2)
    <2>1. TargetEnd(beg1, end1, beg2) = end2
      BY TimeAssumption DEF TargetEnd
    <2> QED
      BY <2>1, TargetTimes, TimeAssumption
  <1>2. /\ Copy(maps, a, beg1, end1, b, beg2)
              = [maps EXCEPT ![b] = WithCopied(ends, src, beg1, end1, shift)]
        /\ EndsKnown(ends, maps[b], Default[b], beg2, end2, first, Now(b, end2))
        /\ CopiesKnown(WithCopied(ends, src, beg1, end1, shift), ends, src, beg1, end1, shift)
        /\ ends \in PossibleMaps /\ src \in PossibleMaps
    BY <1>1, CopyResult
  <1>3. /\ DOMAIN maps = Map
        /\ DOMAIN maps[a] \subseteq Nat /\ DOMAIN maps[b] \subseteq Nat
    BY TypedMaps
  <1>4. c = WithCopied(ends, src, beg1, end1, shift)
    BY <1>2, <1>3
  <1>5. CopiesKnown(c, ends, src, beg1, end1, shift) /\ DOMAIN src \subseteq Nat
    BY <1>2, <1>4, PossibleIs
  <1> HIDE DEF c, ends, first
  <1>6. ASSUME NEW s \in Nat, beg1 < s, s < end1
        PROVE  /\ s \in DOMAIN src <=> s \in DOMAIN maps[a] /\ ~(a = b /\ shift = 0)
               /\ s \in DOMAIN src => src[s] = maps[a][s]
    <2>1. CASE a # b
      BY <2>1
    <2>2. CASE a = b /\ shift = 0
      <3>1. beg2 < s /\ s < end2
        BY <1>1, <1>6, <2>2
      <3>2. s \notin DOMAIN ends
        BY <1>2, <3>1 DEF EndsKnown
      <3> QED
        BY <2>2, <3>2
    <2>3. CASE a = b /\ ~(a = b /\ shift = 0)
      <3>1. end2 < s
        BY <1>1, <1>6, <2>3
      <3> QED
        BY <1>2, <2>3, <3>1 DEF EndsKnown
    <2> QED
      BY <2>1, <2>2, <2>3
  <1> HIDE DEF src
  <1>7. ASSUME NEW u \in Nat
        PROVE  /\ u < beg2 => Get(c, Default[b], u) = Now(b, u)
               /\ beg2 <= u /\ u < end2 =>
                     Get(c, Default[b], u) = IF ~(a = b /\ shift = 0) /\ ChangesIn(maps[a], beg1, u - shift) # {}
                                             THEN Now(a, u - shift) ELSE first
               /\ end2 <= u /\ (Now(b, end2) # first \/ ChangesIn(maps[b], end2, u) # {}) =>
                     Get(c, Default[b], u) = Now(b, u)
               /\ end2 <= u /\ Now(b, end2) = first /\ ChangesIn(maps[b], end2, u) = {} =>
                     Get(c, Default[b], u) = Get(c, Default[b], end2 - 1)
    <2> HIDE DEF shift, end2
    <2>1. end2 = end1 + shift /\ shift = beg2 - beg1
      BY DEF end2, shift
    <2>2. /\ Now(b, end2) = Get(maps[b], Default[b], end2)
          /\ Now(b, u) = Get(maps[b], Default[b], u)
          /\ Now(a, u - shift) = Get(maps[a], Default[a], u - shift)
      BY DEF Now
    <2>3. SourceKnown(src, maps[a], a, b, beg1, end1, shift)
      BY <1>6 DEF SourceKnown
    <2>4. TargetIs(c, maps[a], Default[a], maps[b], Default[b], a, b,
                   beg1, beg2, end2, shift, first, u)
      BY <1>1, <1>2, <1>3, <1>5, <2>1, <2>2, <2>3, CopiedAre
    <2> QED
      BY <2>2, <2>4 DEF TargetIs
  <1>8. ASSUME NEW u \in Nat, beg2 <= u, u < end2
        PROVE  Get(c, Default[b], u) = Copied(u - shift)
    <2>1. Follows(a, beg1, u - shift) <=> ChangesIn(maps[a], beg1, u - shift) # {}
      BY <1>1, FollowsIs
    <2> QED
      BY <1>7, <1>8, <2>1
  <1>9. CASE t < beg2
    BY <1>1, <1>7, <1>9 DEF c, first
  <1>10. CASE beg2 <= t /\ t < end2
    BY <1>1, <1>8, <1>10 DEF c, first
  <1>11. CASE end2 <= t
    <2>1. Follows(b, end2, t) <=> ChangesIn(maps[b], end2, t) # {}
      <3> HIDE DEF end2
      <3> QED
        BY <1>1, FollowsIs
    <2>2. Get(c, Default[b], end2 - 1) = Copied(end1 - 1)
      BY <1>1, <1>8
    <2> QED
      BY <1>1, <1>7, <1>11, <2>1, <2>2 DEF c, first
  <1> QED
    BY <1>1, <1>9, <1>10, <1>11

LEMMA CallsPossible ==
    ASSUME Typed, NEW m \in Map, NEW c \in PossibleMaps, Calls(m, c)
    PROVE  Typed'
  BY DEF Typed, Calls, Becomes

LEMMA NextTyped ==
    ASSUME Typed, [Next]_maps
    PROVE  Typed'
  <1>1. ASSUME NEW m \in Map, NEW t \in Time, NEW v \in Value, MapSet(m, t, v)
        PROVE  Typed'
    BY <1>1, TypedMaps, SetPossible, CallsPossible DEF MapSet
  <1>2. ASSUME NEW m \in Map, NEW beg \in Time, NEW end \in Time, NEW v \in Value,
               MapSetRange(m, beg, end, v)
        PROVE  Typed'
    BY <1>2, TypedMaps, SetRangePossible, CallsPossible DEF MapSetRange
  <1>3. ASSUME NEW m \in Map, NEW t \in Time, NEW v \in Value, MapSetNode(m, t, v)
        PROVE  Typed'
    BY <1>3, TypedMaps, InsertedPossible, CallsPossible DEF MapSetNode
  <1>4. ASSUME NEW m \in Map, NEW beg \in Time, NEW end \in Time, NEW dvalue \in {-1, 1},
               MapAdd(m, beg, end, dvalue)
        PROVE  Typed'
    BY <1>4, CallsPossible DEF MapAdd
  <1>5. ASSUME NEW a \in Map, NEW b \in Map, NEW beg1 \in Time, NEW end1 \in Time,
               NEW beg2 \in Time, MapCopy(a, beg1, end1, b, beg2)
        PROVE  Typed'
    BY <1>5, CopyPossible DEF MapCopy, Becomes, Typed
  <1>6. ASSUME NEW m \in Map, NEW v \in Value, MapVset(m, v)
        PROVE  Typed'
    BY <1>6, NonePossible, SetPossible, CallsPossible, TimeAssumption DEF MapVset
  <1>7. CASE UNCHANGED maps
    BY <1>7 DEF Typed
  <1> QED
    BY <1>1, <1>2, <1>3, <1>4, <1>5, <1>6, <1>7 DEF Next

(* Whatever is called, a map's changes are at times and have values that   *)
(* callers use: nothing is put before 0 or past the end of a range.        *)
THEOREM MapsTyped == Spec => []Typed
  <1>1. Init => Typed
    BY NonePossible DEF Init, Typed
  <1>2. Typed /\ [Next]_maps => Typed'
    BY NextTyped
  <1> QED
    BY <1>1, <1>2, PTL DEF Spec

LEMMA InvSetRangeIsExact ==
    ASSUME Typed
    PROVE  SetRangeIsExact
  <1> SUFFICES ASSUME NEW m \in Map
               PROVE  maps[m] \in ExactlySet
    BY DEF SetRangeIsExact, Range, Typed
  <1>1. ASSUME NEW d \in Range(Default)
        PROVE  SetsExactly(maps[m], d)
    BY TypedMaps, SetRangeIs, TimeAssumption DEF SetsExactly
  <1> QED
    BY <1>1, TypedMaps DEF ExactlySet

LEMMA InvAddReachesNextChange ==
    ASSUME Typed
    PROVE  AddReachesNextChange
  <1> SUFFICES ASSUME NEW m \in Map
               PROVE  maps[m] \in ReachedByAdd
    BY DEF AddReachesNextChange, Range, Typed
  <1>1. ASSUME NEW d \in Range(Default), NEW beg \in Time, NEW end \in Time, NEW t \in Time,
               NEW dvalue \in {-1, 1}
        PROVE  Get(Add(maps[m], d, beg, end, dvalue), d, t) =
                  IF beg < end /\ t >= beg /\ ReachOfAdd(maps[m], end, t)
                  THEN Get(maps[m], d, t) + dvalue ELSE Get(maps[m], d, t)
    <2>1. beg \in Nat /\ end \in Nat /\ t \in Nat /\ DOMAIN maps[m] \subseteq Nat
      BY TypedMaps, TimeAssumption
    <2>2. CASE beg < end
      <3> DEFINE c == maps[m]
                 added == Get(Add(c, d, beg, end, dvalue), d, t)
      <3>1. DOMAIN c \subseteq Nat
        BY <2>1
      <3> HIDE DEF c
      <3>2. /\ t >= beg /\ ReachOfAdd(c, end, t) => added = Get(c, d, t) + dvalue
            /\ ~(t >= beg /\ ReachOfAdd(c, end, t)) => added = Get(c, d, t)
        BY <2>1, <2>2, <3>1, AddIs
      <3> QED
        BY <2>2, <3>2 DEF c
    <2>3. CASE beg >= end
      BY <2>1, <2>3 DEF Add
    <2> QED
      BY <2>1, <2>2, <2>3
  <1>2. ASSUME NEW d \in Range(Default)
        PROVE  AddsToReach(maps[m], d)
    BY <1>1 DEF AddsToReach
  <1> QED
    BY <1>2, TypedMaps DEF ReachedByAdd

LEMMA InvEqTellsPlainMaps ==
    ASSUME Typed
    PROVE  EqTellsPlainMaps
  <1> SUFFICES ASSUME NEW a \in Map, NEW b \in Map, NEW beg \in Time, NEW end \in Time,
                      beg < end, Plain(a, beg, end), Plain(b, beg, end)
               PROVE  Eq(maps[a], Default[a], maps[b], Default[b], beg, end)
                         <=> \A t \in beg .. (end - 1) : Now(a, t) = Now(b, t)
    BY DEF EqTellsPlainMaps
  <1>1. /\ DOMAIN maps[a] \subseteq Nat /\ DOMAIN maps[b] \subseteq Nat
        /\ beg \in Nat /\ end \in Nat
    BY TypedMaps, TimeAssumption
  <1>2. ASSUME Eq(maps[a], Default[a], maps[b], Default[b], beg, end),
               NEW t \in beg .. (end - 1)
        PROVE  Now(a, t) = Now(b, t)
    <2>1. t \in Nat /\ beg <= t /\ t < end
      BY <1>1
    <2> QED
      BY <1>1, <1>2, <2>1, EqTells
  <1>3. ASSUME \A t \in beg .. (end - 1) : Now(a, t) = Now(b, t)
        PROVE  Eq(maps[a], Default[a], maps[b], Default[b], beg, end)
    BY <1>1, <1>3, EqTold
  <1> QED
    BY <1>2, <1>3

(* map_set_range sets what it is asked to and nothing else, in whatever    *)
(* map calls before it left.                                               *)
THEOREM SetRangeExact == Spec => []SetRangeIsExact
  BY InvSetRangeIsExact, MapsTyped, PTL

(* map_add raises the values from the start of the range to the first      *)
(* change that is not inside it, however many changes it goes over.        *)
THEOREM AddReaches == Spec => []AddReachesNextChange
  BY InvAddReachesNextChange, MapsTyped, PTL

(* map_copy copies what CopyCopies says, for maps and ranges of any size,  *)
(* from one map to another, within one, and onto itself.                   *)
THEOREM CopiesAsStated == Spec => []CopyCopies
  BY InvCopyCopies, MapsTyped, PTL

(* map_eq is right about maps that come back to no value in the range.     *)
THEOREM EqRightOnPlainMaps == Spec => []EqTellsPlainMaps
  BY InvEqTellsPlainMaps, MapsTyped, PTL
=============================================================================
