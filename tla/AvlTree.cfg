CONSTANTS
    Node <- MCNode
    HEAD = HEAD
    NULL = NULL
    Holds <- MCHolds
    Channel = FALSE
SPECIFICATION Spec
INVARIANTS
    Balanced
    StepsInOrder
    SearchesFind
    KeepsMaxOff
    RangeFindsAll
PROPERTY
    ImplementsList
