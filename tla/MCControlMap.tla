---------------------------- MODULE MCControlMap ----------------------------
(* ControlMap on two maps, which are interchangeable, and their measures.   *)
EXTENDS Measures

CONSTANTS m1, m2

MCMap == {m1, m2}
MCDefault == [m \in MCMap |-> 0]
MCTime == 0 .. 3
MCValue == {0, 1, 2}

(* 1/4, 1/8 and 3/8, of two ticks, one and three.                          *)
MCNumer == [v \in MCValue |-> IF v = 2 THEN 3 ELSE 1]
MCDenom == [v \in MCValue |-> IF v = 0 THEN 4 ELSE 8]

MapSymmetry == Permutations(Map)
=============================================================================
