SPECIFICATION ESpec
CONSTANTS
    WordCount = 4
    Inputs = {0, 1, 2, 3}
    Jobs <- SymbolicJobs
    SolverLimit = 3
    Timeouts = FALSE
    MaxBlocks = 14
INVARIANTS
    TypeOK
    PathsHaveOwnBlocks
    BeliefsHold
    OnlySwitchesCutPaths
PROPERTIES
    TerminatedOnce
    OnlyStaleCodeDeviates
CHECK_DEADLOCK FALSE
