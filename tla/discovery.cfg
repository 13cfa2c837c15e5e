SPECIFICATION FairSpec
CONSTANTS
  c = c
  w = w
  own = own
  kept = kept
  p1 = p1
  p2 = p2
  i1 = i1
  i2 = i2
  Sessions = {c, w}
  Cloned = {c}
  Roots = {own, kept}
  Root <- SessionRoot
  Existing = {kept}
  Imports = {i1, i2}
  Procs = {p1, p2}
  Home <- AllHome
  NoProc = NoProc
  NoSession = NoSession
  QueueSlots = 1
  Faulty = {"crash", "lock", "insert", "claim", "update"}
  MaxFaults = 2
  MaxRequests = 1
INVARIANTS
  ImportsSound
PROPERTIES
  OutcomesStand
  SessionEnds
CHECK_DEADLOCK FALSE
