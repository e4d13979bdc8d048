CONSTANTS
    NUM_BUFFERS = 2
    Block = 2
    BufLen = 4
    Page = 4
    FileLen = 10
    Wrap = 16
    ReplyLen = 2
    CswLen = 1
    can_stall = 1
    Cbws <- MCCbws
    MaxCmd = 2
    MaxReset = 1
    Faults = {"io", "short", "usb", "check"}
SPECIFICATION Spec
INVARIANTS
    InSync PassMeansDone DataInPlace
PROPERTY ImplementsBulkOnly
CHECK_DEADLOCK FALSE
