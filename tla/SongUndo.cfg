\* Two notes, and two revisions.
CONSTANTS
    n1 = n1
    n2 = n2
    n3 = n3
    n4 = n4
    NULL = NULL
    MaxCalls = 4
    Note <- MCNote2
    Tracks = 2
    Number <- MCNumber
    Mask <- MCMask
    Midi <- MCMidi
    Wheel <- MCWheel
    Span <- MCSpan
    Shift <- MCShift
    Bend <- MCBend
    Revs = 2
    Songs <- PlainSongs
SPECIFICATION CallsSpec
INVARIANTS
    NotesHaveChannels
CHECK_DEADLOCK FALSE
