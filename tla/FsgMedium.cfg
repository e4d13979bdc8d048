SPECIFICATION Spec
CONSTANTS
    NLuns = 1
    Files = {"a", "b"}
    Writable = {"a"}
    Long = {"b"}
    removable = TRUE
    Commands <- MCCommands
    Writers = {s1, s2}
    MaxCmd = 4
    MaxExc = 2
    MaxStore = 2
INVARIANTS
    ChangePending ProtectionAnnounced HandedOn
PROPERTIES
    MediumAnnounced SettledLockHolds CommandKeepsMedium
CHECK_DEADLOCK FALSE
SYMMETRY Symmetry
