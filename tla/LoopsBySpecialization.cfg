SPECIFICATION ESpec
CONSTANTS
    WordCount = 3
    Inputs = {0, 1, 2}
    Jobs <- LoopJobs
    SolverLimit = 2
    Timeouts = FALSE
    MaxBlocks = 12
PROPERTIES
    PathLoopsRebuilt
CHECK_DEADLOCK FALSE
