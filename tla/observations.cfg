SPECIFICATION FairSpec
CONSTANTS
  Procs = {p1, p2}
  MaxAttempt = 1
  MaxFails = 2
  MaxClaims = 3
  MaxFaults = 1
  MaxRequeues = 1
PROPERTIES
  KeepsPromise
  RowEndsForCause
  RowSettles
CHECK_DEADLOCK FALSE
