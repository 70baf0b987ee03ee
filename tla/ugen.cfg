SPECIFICATION Spec
CONSTANTS
    Ugens <- MCUgens
    Class <- MCClass
    NIn <- MCNIn
    NOut <- MCNOut
    Owner <- MCOwner
    Index <- MCIndex
    Lists <- MCLists
    Wires <- MCWires
    Modes <- MCModes
INVARIANTS
    InputsIntact
    FreedOnce
    SortComplete
CHECK_DEADLOCK FALSE
