SPECIFICATION ESpec
CONSTANTS
    WordCount = 4
    Inputs = {0, 3}
    Jobs <- TwoWayJobs
    SolverLimit = 3
    Timeouts = TRUE
    MaxBlocks = 14
PROPERTIES
    FollowsProgram
CHECK_DEADLOCK FALSE
