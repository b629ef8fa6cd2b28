CONSTANTS
  Flags <- EveryNode
  Counts = {1, 2}
  MaxEvents = 2
SPECIFICATION Spec
PROPERTY Restored
CHECK_DEADLOCK FALSE
