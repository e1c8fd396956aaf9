CONSTANTS
    m1 = m1
    m2 = m2
    Map <- MCMap
    Default <- MCDefault
    Time <- MCTime
    Value <- MCValue
    MaxChanges = 5
    Division = 2
    Numer <- MCNumer
    Denom <- MCDenom
SPECIFICATION Spec
SYMMETRY MapSymmetry
INVARIANTS
    SetRangeIsExact
    AddReachesNextChange
    CopyCopies
    MeasuresTile
    EqTellsPlainMaps
