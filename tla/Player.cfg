CONSTANTS
    MCFile = FILE
    FILE = FILE
    Node <- MCNode
    HEAD = HEAD
    NULL = NULL
    TEMP <- MCTemp
    Channel <- MCChannel
    Track <- MCTrack
    Pitch <- MCPitch
    Ctrl <- MCCtrl
    Songs <- FlatSongs
SPECIFICATION Spec
INVARIANTS
    NeverAborts
    HearsControllers
    SoundsRight
    HeapBound
    FileKeepsControllers
    SongComesBack
PROPERTIES
    PlayEnds
CHECK_DEADLOCK FALSE
