SPECIFICATION Spec
CONSTANTS
    Cmd <- Cmds
    Known <- KnownCmds
    Handled <- HandledCmds
    Gets <- GetOrder
    Size <- Sizes
    Data = {0, 1}
    MaxRead = 1
    MaxAdvErr = 1
    MaxErr = 0
    NoSet = NoSet
    MaxSets = 2
INVARIANTS
    TypeOK
    InStep
    Agreement
PROPERTIES
    InSync
    StartsUp
    SetAnswered
CHECK_DEADLOCK FALSE
