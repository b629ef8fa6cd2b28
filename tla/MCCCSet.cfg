SPECIFICATION Spec
CONSTANTS
    Module <- Modules
    None = "none"
    Cmd <- Cmds
    Data = {0, 1}
    Route <- Routes
    Policy <- Results
INVARIANTS
    TypeOK
    SuccessIsEverywhere
    StoppedIsPrefix
PROPERTIES
    WrittenIfApplied
    Answered
CHECK_DEADLOCK FALSE
