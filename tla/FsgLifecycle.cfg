SPECIFICATION FairSpec
CONSTANTS
    NLuns = 2
    Faults = {"attr", "early"}
INVARIANTS
    UnregisteredOnce
    NoUseAfterFree
    BuffersOutliveUsers
PROPERTIES
    RmmodEnds
    KilledThreadEnds
    MemoryFreed
CHECK_DEADLOCK FALSE
