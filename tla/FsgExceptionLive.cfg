SPECIFICATION FairSpec
CONSTANTS
    Bufs = {b1}
    MaxTag = 2
    MaxReset = 1
    MaxExit = 1
PROPERTIES
    DisconnectHandled
    ExitHandled
    RequestAnswered
CHECK_DEADLOCK FALSE
