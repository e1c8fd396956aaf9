----------------------------- MODULE ControlMap -----------------------------
(***************************************************************************)
(* src/map.c: a controller's value over time.  A map is a tree of changes, *)
(* each a time and the value from then on; before the first change the     *)
(* value is the map's default.  Here a map is the function from the times  *)
(* of its changes to their values: times are unique, and the tree's order  *)
(* is theirs (module AvlTree).                                             *)
(*                                                                         *)
(* An action is one call, on any of the maps; map_copy works on two, which *)
(* may be one and the same.                                                *)
(***************************************************************************)
EXTENDS Integers, SequencesExt

CONSTANTS
    Map,        \* the maps
    Default,    \* Default[m]: m's default_value
    Time,       \* bound: the times callers use, from 0 on without a gap
    Value,      \* bound: the values callers use
    MaxChanges  \* bound: how many changes the maps have together

ASSUME TimeAssumption ==
    /\ Time \subseteq Nat /\ 0 \in Time /\ \A s, t \in Time : s .. t \subseteq Time
    /\ MaxChanges \in Nat
ASSUME DefaultAssumption == Value \subseteq Int /\ Default \in [Map -> Value]

VARIABLE maps       \* maps[m]: the changes of map m

Init == maps = [m \in Map |-> <<>>]

-----------------------------------------------------------------------------
(* The value of c, whose default is d, at time t.                          *)
Get(c, d, t) ==
    LET upTo == {s \in DOMAIN c : s <= t} IN
    IF upTo = {} THEN d ELSE c[Max(upTo)]

Keeping(c, T) == [t \in DOMAIN c \cap T |-> c[t]]

Inserted(c, t, v) == [s \in DOMAIN c \cup {t} |-> IF s = t THEN v ELSE c[s]]

(* map_set: nothing is inserted where the value is v already.              *)
Set(c, d, t, v) ==
    LET rest == Keeping(c, DOMAIN c \ {t}) IN
    IF Get(rest, d, t) # v THEN Inserted(rest, t, v) ELSE rest

\* Mutant: bst_lower_bound for both ends of the range.
InsideFrom(beg, end) == beg .. (end - 1)

Inside(beg, end) == (beg + 1) .. (end - 1)

(* bst_erase_range from the upper bound of beg to the lower bound of end.  *)
Emptied(c, beg, end) == Keeping(c, DOMAIN c \ Inside(beg, end))

\* Mutant: end_value is read after the range was set.
SetRangeEndLate(c, d, beg, end, v) ==
    IF beg >= end THEN c
    ELSE LET set == Set(Emptied(c, beg, end), d, beg, v)
         IN  Set(set, d, end, Get(set, d, end))

(* map_set_range                                                           *)
SetRange(c, d, beg, end, v) ==
    IF beg >= end THEN c
    ELSE Set(Set(Emptied(c, beg, end), d, beg, v), d, end, Get(c, d, end))

(* map_add: the loop goes from change to change, in the order of time.     *)
\* Mutant: the loop also takes the change at the end of the range.
AddedAtEnd(beg, end, c) == {beg} \cup (DOMAIN c \cap ((beg + 1) .. end))

AddedAt(beg, end, c) == {beg} \cup (DOMAIN c \cap Inside(beg, end))

AddedTo(cc, d, t, dvalue) == Set(cc, d, t, Get(cc, d, t) + dvalue)

Add(c, d, beg, end, dvalue) ==
    IF beg >= end THEN c
    ELSE MapThenFoldSet(LAMBDA t, cc : AddedTo(cc, d, t, dvalue), c, LAMBDA t : t, Max,
                        AddedAt(beg, end, c))

TargetEnd(beg1, end1, beg2) == beg2 + (end1 - beg1)

(* map_copy from map a to map b, which may be a: what is read of a is read *)
(* after b was emptied.                                                    *)
CopyEmptied(ms, b, beg2, end2) == [ms EXCEPT ![b] = Emptied(@, beg2, end2)]

CopyBegun(ms, a, beg1, b, beg2, end2) ==
    LET emptied == CopyEmptied(ms, b, beg2, end2) IN
    [emptied EXCEPT ![b] = Set(@, Default[b], beg2, Get(emptied[a], Default[a], beg1))]

CopyEnded(ms, a, beg1, b, beg2, end2) ==
    LET end_value == Get(ms[b], Default[b], end2) IN
    [CopyBegun(ms, a, beg1, b, beg2, end2) EXCEPT ![b] = Set(@, Default[b], end2, end_value)]

(* dest with the changes of src inside the range, moved by shift.          *)
WithCopied(dest, src, beg, end, shift) ==
    LET copied == {t + shift : t \in DOMAIN src \cap Inside(beg, end)} IN
    [t \in DOMAIN dest \cup copied |-> IF t \in copied THEN src[t - shift] ELSE dest[t]]

Copy(ms, a, beg1, end1, b, beg2) ==
    IF beg1 >= end1 THEN ms
    ELSE LET ended == CopyEnded(ms, a, beg1, b, beg2, TargetEnd(beg1, end1, beg2))
         IN  [ended EXCEPT ![b] = WithCopied(@, ended[a], beg1, end1, beg2 - beg1)]

(* What map_eq compares of c after the value at beg: it passes over every  *)
(* change that has that value, whatever the value is meanwhile.            *)
Compared(c, d, beg, end) ==
    Keeping(c, {t \in DOMAIN c \cap Inside(beg, end) : c[t] # Get(c, d, beg)})

\* Mutant: the values at the start are not compared.
EqAfterStart(a, da, b, db, beg, end) ==
    Compared(a, da, beg, end) = Compared(b, db, beg, end)

(* map_eq                                                                  *)
Eq(a, da, b, db, beg, end) ==
    /\ Get(a, da, beg) = Get(b, db, beg)
    /\ Compared(a, da, beg, end) = Compared(b, db, beg, end)

-----------------------------------------------------------------------------
PossibleMaps == UNION {[T -> Value] : T \in SUBSET Time}

Bounded(ms) == FoldSet(LAMBDA m, n : n + Cardinality(DOMAIN ms[m]), 0, Map) <= MaxChanges

Becomes(ms) == Bounded(ms) /\ maps' = ms

Calls(m, c) == Becomes([maps EXCEPT ![m] = c])

MapSet(m, t, v) == Calls(m, Set(maps[m], Default[m], t, v))

MapSetRange(m, beg, end, v) == Calls(m, SetRange(maps[m], Default[m], beg, end, v))

(* map_set_node: the change at time t.                                     *)
MapSetNode(m, t, v) == t \in DOMAIN maps[m] /\ Calls(m, Inserted(maps[m], t, v))

MapAdd(m, beg, end, dvalue) ==
    LET c == Add(maps[m], Default[m], beg, end, dvalue) IN
    /\ c \in PossibleMaps                       \* bound
    /\ Calls(m, c)

(* Within one map a range is copied onto itself, by move() of track.c, or  *)
(* to an earlier time.  Copying to a later time is left out: the loop may  *)
(* meet the changes it has just inserted, and then does not end.           *)
MayCopy(a, beg1, end1, b, beg2) ==
    /\ beg2 + (end1 - beg1) \in Time            \* bound
    /\ a = b => beg2 \in {beg1} \cup (0 .. (beg1 - (end1 - beg1)))

MapCopy(a, beg1, end1, b, beg2) ==
    /\ MayCopy(a, beg1, end1, b, beg2)
    /\ Becomes(Copy(maps, a, beg1, end1, b, beg2))

MapVset(m, v) == Calls(m, Set(<<>>, Default[m], 0, v))

Next ==
    \/ \E m \in Map, t \in Time, v \in Value : MapSet(m, t, v)
    \/ \E m \in Map, beg, end \in Time, v \in Value : MapSetRange(m, beg, end, v)
    \/ \E m \in Map, t \in Time, v \in Value : MapSetNode(m, t, v)
    \/ \E m \in Map, beg, end \in Time, dvalue \in {-1, 1} : MapAdd(m, beg, end, dvalue)
    \/ \E a, b \in Map, beg1, end1, beg2 \in Time : MapCopy(a, beg1, end1, b, beg2)
    \/ \E m \in Map, v \in Value : MapVset(m, v)

Spec == Init /\ [][Next]_maps

-----------------------------------------------------------------------------
Now(m, t) == Get(maps[m], Default[m], t)

(* What holds of one map is worked out once for all maps there can be, not *)
(* in every state that has it.                                             *)
SetsExactly(c, d) ==
    \A beg, end, t \in Time, v \in Value :
        Get(SetRange(c, d, beg, end, v), d, t) =
            IF t \in beg .. (end - 1) THEN v ELSE Get(c, d, t)

ExactlySet == {c \in PossibleMaps : \A d \in Range(Default) : SetsExactly(c, d)}

(* map_set_range sets the value in the range it is given and nowhere else: *)
(* what was erased inside never comes back, what comes after is kept.      *)
SetRangeIsExact == Range(maps) \subseteq ExactlySet

ReachOfAdd(c, end, t) == \A s \in DOMAIN c : s >= end => t < s

AddsToReach(c, d) ==
    \A beg, end, t \in Time, dvalue \in {-1, 1} :
        Get(Add(c, d, beg, end, dvalue), d, t) =
            IF beg < end /\ t >= beg /\ ReachOfAdd(c, end, t)
            THEN Get(c, d, t) + dvalue ELSE Get(c, d, t)

ReachedByAdd == {c \in PossibleMaps : \A d \in Range(Default) : AddsToReach(c, d)}

(* map_add adds to every value from the start of the range on, up to the   *)
(* first change that is not before its end: map.c puts no change there, so *)
(* without one the addition reaches past the range, to the end of time.    *)
AddReachesNextChange == Range(maps) \subseteq ReachedByAdd

(* map_copy makes the target range a copy of the source range and leaves   *)
(* all other times alone, except in three cases.  Copied onto itself, a    *)
(* range keeps only its first value.  Copied within a map to an earlier    *)
(* time, it starts with what was there before if the change that holds at  *)
(* its start is in the target.  And if the value after the target is the   *)
(* first one copied, nothing marks the target's end: the last value copied *)
(* goes on to the next change.                                             *)
FirstCopied(a, beg1, end2, b, beg2) ==
    IF a = b /\ DOMAIN maps[a] \cap (end2 .. beg1) = {}
    THEN Now(b, beg2) ELSE Now(a, beg1)

Follows(m, beg, t) == DOMAIN maps[m] \cap ((beg + 1) .. t) # {}

CopyCopies ==
    \A a, b \in Map, beg1, end1, beg2 \in Time :
        beg1 < end1 /\ MayCopy(a, beg1, end1, b, beg2) =>
            LET shift == beg2 - beg1
                end2 == end1 + shift
                first == FirstCopied(a, beg1, end2, b, beg2)
                Copied(t) == IF Follows(a, beg1, t) /\ ~(a = b /\ shift = 0)
                             THEN Now(a, t) ELSE first
                c == Copy(maps, a, beg1, end1, b, beg2)[b]
            IN  \A t \in Time :
                    Get(c, Default[b], t) =
                        IF t \in beg2 .. (end2 - 1) THEN Copied(t - shift)
                        ELSE IF t >= end2 /\ Now(b, end2) = first /\ ~Follows(b, end2, t)
                             THEN Copied(end1 - 1)
                        ELSE Now(b, t)

(* map_eq tells whether two maps agree on a range, for maps that do not    *)
(* come back to their first value in the range and have no change to the   *)
(* value that holds already; map_set alone leaves neither to chance.       *)
Plain(m, beg, end) ==
    \A t \in DOMAIN maps[m] \cap Inside(beg, end) :
        Now(m, t) \notin {Now(m, beg), Now(m, t - 1)}

EqTellsPlainMaps ==
    \A a, b \in Map, beg, end \in Time :
        beg < end /\ Plain(a, beg, end) /\ Plain(b, beg, end) =>
            (Eq(maps[a], Default[a], maps[b], Default[b], beg, end)
                <=> \A t \in beg .. (end - 1) : Now(a, t) = Now(b, t))
=============================================================================
