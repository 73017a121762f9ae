SPECIFICATION ESpec
CONSTANTS
    WordCount = 5
    Inputs = {0, 1, 4}
    Jobs <- RecoveryJobs
    SolverLimit = 3
    Timeouts = FALSE
    MaxBlocks = 100
INVARIANTS
    AllPathsDiscovered
PROPERTIES
    FollowsProgram
    LiftedOnce
    LiftingEnds
CHECK_DEADLOCK FALSE
