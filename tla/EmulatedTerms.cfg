SPECIFICATION Spec
CONSTANTS
    Instructions <- MCInstructions
    ByteBits = 2
INVARIANTS
    TypeOK
    EmulatesLLVM
CHECK_DEADLOCK FALSE
