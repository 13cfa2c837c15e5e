SPECIFICATION FairAuditSpec
CONSTANTS
  r1 = r1
  r2 = r2
  p1 = p1
  p2 = p2
  NoAudit = NoAudit
  Rows = {r1, r2}
  Servers = {p1, p2}
  Home <- RowHome
  Bound = {r1}
  MaxAuditFaults = 2
INVARIANTS
  NeverUnderReported
PROPERTIES
  NoRowLost
  Delivered
CHECK_DEADLOCK FALSE
