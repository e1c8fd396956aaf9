CONSTANTS
    MCFile = FILE
    FILE = FILE
    Node <- MCNode
    HEAD = HEAD
    NULL = NULL
    TEMP <- MCTemp
    Channel <- MCChannel
    Track <- MCTrack
    Pitch <- MCPitch
    Ctrl <- MCCtrl
    Songs <- UnflatSongs
SPECIFICATION Spec
INVARIANTS
    NeverAborts
CHECK_DEADLOCK FALSE
