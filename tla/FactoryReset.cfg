SPECIFICATION Spec
CONSTANTS
    Confs = {"network"}
    MaxCuts = 2
    MaxAsks = 2
    MaxEdits = 1
INVARIANTS
    BootRestores WholeFiles
