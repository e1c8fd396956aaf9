CONSTANTS
    Node <- MCNode
    HEAD = HEAD
    NULL = NULL
    Holds <- MCHolds
    Channel = TRUE
SPECIFICATION Spec
INVARIANTS
    KeepsMaxOff
