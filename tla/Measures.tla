------------------------------ MODULE Measures ------------------------------
(***************************************************************************)
(* The measures of a file, src/file.c: one of its maps has the time        *)
(* signatures, measure_index the number of the measure that each change of *)
(* them begins.  A measure that is not full when the signature changes     *)
(* ends there.                                                             *)
(*                                                                         *)
(* The index is made anew by file_commit, file_update and file_import;     *)
(* here it is that of the map as it is.                                    *)
(***************************************************************************)
EXTENDS ControlMap

CONSTANTS
    Division,   \* file->division: the ticks of a quarter
    Numer,      \* Numer[v], Denom[v]: value v of a map as a time signature
    Denom

PartSize(ts) == (Division * 4) \div Denom[ts]

(* measures() and process_timesig divide by a measure's size.              *)
ASSUME SignatureAssumption ==
    /\ Division \in Nat /\ DOMAIN Numer = Value /\ DOMAIN Denom = Value
    /\ \A v \in Value : Numer[v] \in Nat \ {0} /\ Denom[v] \in Nat \ {0} /\ PartSize(v) > 0

MeasureSize(ts) == PartSize(ts) * Numer[ts]

\* Mutant: a measure that is not full is not counted.
FullMeasuresIn(length, ts) == length \div MeasureSize(ts)

(* measures                                                                *)
MeasuresIn(length, ts) == (length + MeasureSize(ts) - 1) \div MeasureSize(ts)

(* regen_measure_index: c has the time signatures, d is the default.       *)
MeasureIndex(c, d) ==
    LET Count(x, t) ==
            LET n == x.measure + MeasuresIn(t - x.time, x.ts) IN
            [index |-> Set(x.index, 1, t, n), measure |-> n, ts |-> c[t], time |-> t]
    IN  FoldLeft(Count, [index |-> <<>>, measure |-> 1, ts |-> d, time |-> 0],
                 SetToSortSeq(DOMAIN c, <)).index

(* What map_get says of the time of the change; without one it is 0.       *)
ChangeTime(c, t) == Max({0} \cup {s \in DOMAIN c : s <= t})

Later(c, t) == {s \in DOMAIN c : s > t}

(* process_timesig, up to the next change in the index                     *)
Processed(c, d, index, beg, end) ==
    LET ts == Get(c, d, beg)
        since == ChangeTime(index, beg)
        n == (beg - since) \div MeasureSize(ts)
        Beg(k) == since + (n + k - 1) * MeasureSize(ts)
        cutoff == Later(index, beg)
    IN  [k \in 1 .. MeasuresIn(Min({end} \cup cutoff) - Beg(1), ts) |->
            [number |-> Get(index, 1, beg) + n + k - 1, timesig |-> ts, beg |-> Beg(k),
             end |-> Min({Beg(k + 1)} \cup cutoff)]]

(* file_measures                                                           *)
FileMeasures(c, d, index, beg, end) ==
    FoldLeft(LAMBDA ms, b : ms \o Processed(c, d, index, b, end), <<>>,
             SetToSortSeq({beg} \cup (DOMAIN index \cap Inside(beg, end)), <))

-----------------------------------------------------------------------------
TilesFor(c, d) ==
    LET last == 2 * Max(Time)
        index == MeasureIndex(c, d)
        all == FileMeasures(c, d, index, 0, last)
    IN  /\ all[1].beg = 0 /\ Last(all).beg < last /\ last <= Last(all).end
        /\ \A i \in DOMAIN all :
              /\ all[i].number = i /\ all[i].timesig = Get(c, d, all[i].beg)
              /\ i > 1 => all[i].beg = all[i - 1].end
              /\ DOMAIN c \cap Inside(all[i].beg, all[i].end) = {}
        /\ \A beg \in Time : \A end \in (beg + 1) .. last :
              FileMeasures(c, d, index, beg, end)
                  = SelectSeq(all, LAMBDA x : beg < x.end /\ x.beg < end)

WellMeasured == {c \in PossibleMaps : \A d \in Range(Default) : TilesFor(c, d)}

(* The measures of a file follow each other without a gap and are numbered *)
(* one by one; none goes on over a change of the time signature, and each  *)
(* has the one it began with.  Those of a range are the ones of the file   *)
(* that lie in it, wherever the range begins: a change in the middle of a  *)
(* measure, two changes in one, or a range that begins there must not      *)
(* shift or number them otherwise.                                         *)
MeasuresTile == Range(maps) \subseteq WellMeasured
=============================================================================
