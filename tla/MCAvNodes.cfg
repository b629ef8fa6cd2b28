CONSTANTS
  Flags <- EveryNodeOrNoVideo
  Counts = {1, 2}
  MaxEvents = 2
SPECIFICATION Spec
INVARIANTS TypeOK Works ParentsUp AcceptedRuns ExitClean
CHECK_DEADLOCK FALSE
