SPECIFICATION Spec
CONSTANTS
  p1 = p1
  p2 = p2
  j1 = j1
  j2 = j2
  q1 = q1
  q2 = q2
  k1 = k1
  NoWorker = NoWorker
  Procs = {p1, p2}
  Jobs = {j1, j2}
  Admitted = {j1, j2}
  MaxRetries = 1
  Slots = 1
  MaxPending = 1
  Faults = {"crash", "database"}
  MaxFaults = 1
  MaxDirect = 1
  ProjectOf <- OneProject
  Projects = {q1}
  Keys = {k1}
  LockKey <- OneKey
SYMMETRY Symmetry
INVARIANTS
  OutcomeMatchesEffects
  OneAtATime
  StatusTruthful
  AttemptsAccounted
PROPERTIES
  KeepsPromise
  EndedByOwnerOrRecovery
CHECK_DEADLOCK FALSE
