SPECIFICATION Spec
CONSTANTS
    Keys <- MCKeys
    Hash <- MCHash
    Values = {v, w}
    MIN_CAPACITY = 8
    NULL = NULL
SYMMETRY Symmetry
INVARIANTS
    TableSound
PROPERTY ImplementsMap
CHECK_DEADLOCK FALSE
