\* One cell and five revisions, or two nodes, three keys and two revisions.
CONSTANTS
    n1 = n1
    n2 = n2
    n3 = n3
    NULL = NULL
    Node <- MCCells
    Data <- MCData3
    MaxRevs = 5
SPECIFICATION BoundedSpec
INVARIANTS
    KeysInOrder
PROPERTIES
    UpdateTerminates
