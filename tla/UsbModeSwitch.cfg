SPECIFICATION FairSpec
CONSTANTS
    MaxBus = 3
    MaxStart = 2
    MaxId = 2
    MaxSleep = 1
INVARIANTS
    CallbacksHaveDriver InUseKeepsAwake SwitchOffFollowsBus OffWithAPlug
PROPERTIES
    LastWordWins ControllerReturns
CHECK_DEADLOCK FALSE
