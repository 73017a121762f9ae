SPECIFICATION ESpec
CONSTANTS
    WordCount = 4
    Inputs = {0, 1, 2, 3}
    Jobs <- DeadEndJobs
    SolverLimit = 3
    Timeouts = FALSE
    MaxBlocks = 14
INVARIANTS
    WellFormed
CHECK_DEADLOCK FALSE
