CONSTRAINT Focused
CONSTANTS
    Number <- MCNumber
    Drums <- MCDrums
    FILE = FILE
    Key <- MCKey
    Ctrl <- MCCtrl
    Note <- MCNote
    HEAD = HEAD
    NULL = NULL
    Chunks = 3
    Dtime <- MCDtime
    Value <- MCValue
    Tuned <- MCTuned
    MaxEvents = 7
SPECIFICATION Spec
INVARIANTS
    NotesArePaired
    NotesAreRead
    ControllersAreRead
CHECK_DEADLOCK FALSE
