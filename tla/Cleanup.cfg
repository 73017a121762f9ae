SPECIFICATION Spec
CONSTANTS
    Functions <- SmallFunctions
    ReturnReg = 0
INVARIANTS
    LostBytesExplained
    UnreadStoresErased
PROPERTIES
    CleanupEnds
CHECK_DEADLOCK FALSE
