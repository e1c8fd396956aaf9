\* Three cells, two keys: rings, and what a revision brings back.
CONSTANTS
    n1 = n1
    n2 = n2
    n3 = n3
    NULL = NULL
    Node <- MCNode3
    Data <- MCData2
    MaxRevs = 3
SPECIFICATION SafeSpecH
CONSTRAINT CellsOrRevisions
SYMMETRY CellSymmetry
INVARIANTS
    TypeOK
    AssertionsHold
    OneOwner
    UnfreesRingCells
    IInv
PROPERTIES
    ImplementsStore
    UpdateReportsMoves
    RevertReportsMoves
    LaterUpdatesAreFree
