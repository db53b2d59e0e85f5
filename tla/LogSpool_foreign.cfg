SPECIFICATION Spec
CONSTANTS
  MaxJobs = 2
  MaxPieces = 2
  MaxFaults = 1
INVARIANT
  ReplayReachesItsLog
CHECK_DEADLOCK FALSE
