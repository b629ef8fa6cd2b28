SPECIFICATION Spec
CONSTANTS
    MaxTries = 2
    MaxVersion = 3
    MaxPosts = 2
INVARIANTS
    TypeOK
    NoLostChange
    SavedAtExit
PROPERTIES
    Saved
    Ends
CHECK_DEADLOCK FALSE
