SPECIFICATION Spec
CONSTANTS
    Module <- Modules
    None = "none"
    Cmd <- Cmds
    Data = {0, 1}
    Route <- Routes
    Policy <- Results
PROPERTIES
    FailedNotWritten
CHECK_DEADLOCK FALSE
