SPECIFICATION BootSpec
CONSTANTS
    MaxTries = 1
    MaxVersion = 5
    MaxPosts = 1
    cmd_table <- MCCmdTable
    Overwritten = {"sensor"}
    Added = {"added"}
    CalRecord = "sensor"
    MaxCuts = 1
    FirstSlot = "b"
    MaxFaults = 1
INVARIANTS
    BootTypeOK
    Bootable
    Merged
    Calibrated
CHECK_DEADLOCK FALSE
VIEW MCView
