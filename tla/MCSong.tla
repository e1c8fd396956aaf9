------------------------------- MODULE MCSong -------------------------------
(* Song with three notes on two tracks: track 1 may use both channels of   *)
(* the file, track 2 only the second.  Pitches 1 and 2 have one key and    *)
(* differ by the wheel.  The wheels of channels keep what notes that have  *)
(* gone left there, so that the songs are too many to visit: a run makes   *)
(* every sequence of up to MaxCalls calls.                                 *)
EXTENDS Song, TLC

CONSTANTS n1, n2, n3, n4, MaxCalls

VARIABLE calls      \* how many calls were made

MCNote2 == {n1, n2}
MCNote3 == {n1, n2, n3}
MCNote4 == {n1, n2, n3, n4}
MCNumber == {0, 1}
MCMask == <<{0, 1}, {1}>>
MCMidi == <<60, 60, 64>>
MCWheel == <<0, 1, 0>>
MCSpan == {<<0, 2>>, <<1, 3>>, <<2, 3>>}
MCShift == {-1, 0, 1}
MCBend == -2 .. 3

NoteSymmetry == Permutations(Note)

FileNote(tr, on, off, p, c) ==
    [track |-> tr, on |-> on, off |-> off, pitch |-> p, ch |-> <<0, c>>, since |-> 0]

(* A song as import makes it: track 1 on the file's channel 0, track 2 on  *)
(* channel 1, whose wheel goes up before the note and back after it.       *)
Imported ==
    LET a == Inserted(Empty, n1, FileNote(1, 0, 2, 3, 0))
        b == Inserted(a, n2, FileNote(2, 1, 3, 2, 1))
    IN  [b EXCEPT !.wheel[<<0, 1>>] = 1 :> 1 @@ 3 :> 0]

(* Two notes of track 1 on channel 0.                                      *)
Chord ==
    Inserted(Inserted(Empty, n1, FileNote(1, 0, 2, 1, 0)), n2, FileNote(1, 1, 3, 3, 0))

(* Four keys at one time, on the only channel there is.                    *)
OneMask == <<{0}>>
OneNumber == {0}
FourMidi == <<60, 62, 64, 66, 68>>
FourWheel == [p \in 1 .. 5 |-> 0]
OneSpan == {<<0, 2>>}

FourNotes ==
    LET With(s, n, p) == Inserted(s, n, FileNote(1, 0, 2, p, 0))
    IN  With(With(With(With(Empty, n1, 1), n2, 3), n3, 4), n4, 5)

FourSongs == {Committed(FourNotes)}
PlainSongs == {Empty, Committed(Imported), Committed(Chord)}

CallsNext == calls < MaxCalls /\ Next /\ calls' = calls + 1

CallsInit == Init /\ calls = 0

(* Updates that leave every note its channel and every channel in order;   *)
(* an empty song gets one call less.                                       *)
KeepingInit == Init /\ calls = IF song = Empty THEN 1 ELSE 0

KeepingNext ==
    /\ calls < MaxCalls /\ calls' = calls + 1
    /\ Edit \/ \E r \in DOMAIN song.revs : KeepsChannels(r) /\ KeepsOrder(r) /\ FileUpdate(r)

KeepingSpec == KeepingInit /\ [][KeepingNext]_<<song, calls>>

CallsSpec == CallsInit /\ [][CallsNext]_<<song, calls>>
=============================================================================
