SPECIFICATION Spec
CONSTANTS
    Bufs = {b1, b2}
    MaxTag = 2
    MaxReset = 1
    MaxExit = 1
SYMMETRY Symmetry
INVARIANTS
    IndInv
    BufferOwnership
    RequestsAllocated
    NoLostWakeup
    LostOnlyWhenOutranked
    ConfigAgreed
PROPERTY ReconfiguredWhenIdle
CHECK_DEADLOCK FALSE
