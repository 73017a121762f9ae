SPECIFICATION Spec
CONSTANTS
    Functions <- SmallFunctions
    Bytes = {1, 2, 3}
    KnownBytes = {1, 2}
    MaxLoad = 3
    WordBytes = 2
INVARIANTS
    SiblingsLeaveNoTrace
    VerdictsIndependentOfOrder
    ReplacedValuesHold
    FoldingComplete
PROPERTIES
    PropagationEnds
CHECK_DEADLOCK FALSE
