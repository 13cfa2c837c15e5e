SPECIFICATION FairSpec
CONSTANTS
  j1 = j1
  p1 = p1
  p2 = p2
  Jobs = {j1}
  Procs = {p1, p2}
  MaxAttempts = 3
  Faulty = {"crash", "update", "commit", "remove"}
  MaxFaults = 2
INVARIANTS
  JobsSound
PROPERTIES
  
  JobEnds
CHECK_DEADLOCK FALSE
