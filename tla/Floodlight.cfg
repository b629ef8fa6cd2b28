SPECIFICATION Spec
CONSTANTS
    Lightness = {1, 2}
    WarnTime = 1
    MaxSets = 3
    MaxTriggers = 2
INVARIANTS
    TypeOK
    NoLostSet
    Shown
PROPERTY
    GoesOut
CHECK_DEADLOCK FALSE
