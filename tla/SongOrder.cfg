\* A chord of four notes on one channel, up to four calls.
CONSTANTS
    n1 = n1
    n2 = n2
    n3 = n3
    n4 = n4
    NULL = NULL
    MaxCalls = 4
    Note <- MCNote4
    Tracks = 1
    Number <- OneNumber
    Mask <- OneMask
    Midi <- FourMidi
    Wheel <- FourWheel
    Span <- OneSpan
    Shift <- MCShift
    Bend <- MCBend
    Revs = 2
    Songs <- FourSongs
SPECIFICATION CallsSpec
SYMMETRY NoteSymmetry
INVARIANT NotesAreFound
CHECK_DEADLOCK FALSE
