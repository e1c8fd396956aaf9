\* Three notes on two tracks, over three times, up to four calls.
CONSTANTS
    n1 = n1
    n2 = n2
    n3 = n3
    n4 = n4
    NULL = NULL
    MaxCalls = 4
    Note <- MCNote3
    Tracks = 2
    Number <- MCNumber
    Mask <- MCMask
    Midi <- MCMidi
    Wheel <- MCWheel
    Span <- MCSpan
    Shift <- MCShift
    Bend <- MCBend
    Revs = 2
    Songs <- PlainSongs
SPECIFICATION KeepingSpec
SYMMETRY NoteSymmetry
INVARIANTS
    TypeOK
    TreesAgree
    UsageCounts
    TempsAreExclusive
    ChannelsPlay
    FlattenIsSilent
PROPERTIES
    EditsAreLocal
    UpdateRestores
CHECK_DEADLOCK FALSE
