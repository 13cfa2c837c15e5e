SPECIFICATION FairSpec
CONSTANTS
  p1 = p1
  p2 = p2
  j1 = j1
  j2 = j2
  q1 = q1
  q2 = q2
  k1 = k1
  NoWorker = NoWorker
  Procs = {p1}
  Jobs = {j1, j2}
  Admitted = {j1}
  MaxRetries = 1
  Slots = 1
  MaxPending = 1
  Faults = {"crash", "database", "pushAnswer", "session"}
  MaxFaults = 1
  MaxDirect = 0
  ProjectOf <- TwoProjects
  Projects = {q1, q2}
  Keys = {k1}
  LockKey <- OneKey
PROPERTIES
  TerminalStays
  ScansEnd
CHECK_DEADLOCK FALSE
