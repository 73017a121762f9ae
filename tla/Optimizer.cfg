SPECIFICATION Spec
CONSTANTS
    LiftedFunctions <- SmallFunctions
    StateBytes = {2, 3, 4, 5, 6, 7, 8, 9, 10}
    MemoryBytes = {9, 100, 101}
    MaxPath = 5
    Registers <- SmallRegisters
    SlotOffset = 7
    SlotSize = 2
    ReturnReg = "RAX"
    MaxCalls = 2
INVARIANTS
    MeaningKept
    OptimizedToTheEnd
    OnlyReturnRegisterStored
PROPERTIES
    OptimizeEnds
CHECK_DEADLOCK FALSE
