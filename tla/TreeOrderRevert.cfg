\* Three cells, three keys, any caller.
CONSTANTS
    n1 = n1
    n2 = n2
    n3 = n3
    NULL = NULL
    Node <- MCNode3
    Data <- MCData3
    MaxRevs = 2
SPECIFICATION SafeSpec
SYMMETRY CellSymmetry
INVARIANTS
    KeysInOrder
