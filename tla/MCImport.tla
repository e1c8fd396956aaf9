------------------------------ MODULE MCImport ------------------------------
(***************************************************************************)
(* Import on one channel and one key, in up to three tracks: what several  *)
(* channels or keys do does not meet, but in Eot, which goes over them one *)
(* by one.                                                                 *)
(***************************************************************************)
EXTENDS Import

MCNumber == {0}
MCDrums == {}
MCKey == {60}
MCCtrl == {"volume"}
MCNote == 1 .. 6
MCDtime == {0, 1, 2}
MCValue == {0, 1}
MCTuned == {200}

(* Notes and controllers do not meet either.  Tracks are two ticks long.   *)
(* The longest files have note events only, and no end of track before the *)
(* end of a chunk.                                                         *)
Kinds == {log[i].event.type : i \in DOMAIN log}

EndsEarly ==
    Cardinality({i \in DOMAIN log : log[i].event.type = "eot"})
        > ctx.track - (IF status = "reading" THEN 1 ELSE 0)

Focused ==
    /\ ctx.time <= 2
    /\ "ctrl" \in Kinds => Kinds \subseteq {"ctrl", "eot"}
    /\ Kinds \cap {"ctrl", "pitch"} # {} \/ EndsEarly => Len(log) <= MaxEvents - 3
=============================================================================
