SPECIFICATION CSpec
CONSTANTS
    Binaries <- SmallBinaries
    Objects <- SmallObjects
    Shift = 8
    Half = 256
    LoadBases = {8, 512}
    Registers <- SmallRegisters
    StateSize = 12
    CalleeSaved = {"RBX", "RSP"}
    StackTop = 2000
    StackHalf = 4
INVARIANTS
    ImageAccessesReach
CHECK_DEADLOCK FALSE
