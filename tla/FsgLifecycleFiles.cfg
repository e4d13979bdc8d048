SPECIFICATION Spec
CONSTANTS
    NLuns = 1
    Faults = {}
PROPERTY FilesProtected
CHECK_DEADLOCK FALSE
