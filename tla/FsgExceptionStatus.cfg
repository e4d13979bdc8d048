SPECIFICATION Spec
CONSTANTS
    Bufs = {b1}
    MaxTag = 2
    MaxReset = 1
    MaxExit = 1
INVARIANT StatusStageMatches
CHECK_DEADLOCK FALSE
