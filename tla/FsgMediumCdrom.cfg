SPECIFICATION Spec
CONSTANTS
    NLuns = 2
    Files = {"a"}
    Writable = {"a"}
    Long = {"a"}
    removable = TRUE
    Commands <- Writes
    Writers = {"s1"}
    MaxCmd = 2
    MaxExc = 1
    MaxStore = 2
INVARIANT CdromReadOnly
CHECK_DEADLOCK FALSE
