SPECIFICATION Spec
CONSTANTS
    Outputs <- MCOutputs
    Inputs <- MCInputs
    Rules <- MCRules
    SecMax = 2
    MaxFds = 1
    Backlog = 1
    MaxRequests = 4
    MaxSlack = 2
INVARIANTS
    TypeOK
    OnAsAsked
    NotTooLong
PROPERTY
    Expires
