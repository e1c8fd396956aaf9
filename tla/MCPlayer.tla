------------------------------ MODULE MCPlayer ------------------------------
(***************************************************************************)
(* Player and RoundTrip on two tracks, two channels and two controllers:   *)
(* all songs with notes from a pool and changes from a few, as flattening  *)
(* makes them, as importing makes them, and as a flattening that failed    *)
(* leaves them.                                                            *)
(***************************************************************************)
EXTENDS RoundTrip

CONSTANT MCFile

MCTemp == -1
MCChannel == {0, 1}
MCTrack == {1, 2}
MCPitch == {60, 64}
MCCtrl == {"volume", "wheel"}

Note(track, ch, pitch, on, off) ==
    [track |-> track, ch |-> ch, pitch |-> pitch, on |-> on, off |-> off]

(* The first two, the third and the fourth meet end to start; the first,   *)
(* fifth and seventh overlap; the last compares equal to the first.        *)
Pool == {Note(1, 0, 60, 0, 2), Note(1, 0, 60, 2, 4), Note(2, 0, 60, 2, 3),
         Note(2, 0, 64, 3, 5), Note(1, 0, 64, 1, 3), Note(1, 1, 60, 1, 2),
         Note(2, 1, 64, 0, 4), Note(1, 1, 60, 0, 2)}

MCNode == 1 .. Cardinality(Pool)

Volumes == {<<>>, <<1>>, (0 :> 1) @@ (3 :> 0), <<1, 0, 2>>, (0 :> 2) @@ (4 :> 1)}

Changes(v, f) ==
    [ch \in {0, 1, MCFile} |->
        [ctrl \in MCCtrl |-> CASE ch = 0 /\ ctrl = "volume" -> v
                               [] ch = 1 /\ ctrl = "wheel"  -> <<2, 0>>
                               [] ch = 0 /\ ctrl = "wheel"  -> 2 :> 1
                               [] ch = MCFile /\ ctrl = "volume" -> f
                               [] OTHER -> <<>>]]

Made(NN, V, F, S) ==
    {[notes |-> N, changes |-> Changes(v, f), start |-> st] :
        N \in NN, v \in V, f \in F, st \in S}

FlatSongs ==
    Made({N \in SUBSET Pool : Flat(N)}, Volumes,
         {(0 :> 1) @@ (3 :> 2), (0 :> 1) @@ (2 :> 0)}, {0, 2})

(* A file that was imported, or that file_flatten failed on: any notes on  *)
(* any channel.                                                            *)
UnflatSongs ==
    Made(SUBSET (Pool \cup {Note(1, -1, 64, 1, 2)}), {<<>>}, {<<>>}, {0})
=============================================================================
