SPECIFICATION BudgetSpec
CONSTANTS
  a1 = a1
  a2 = a2
  a3 = a3
  t1 = t1
  Requests = {a1, a2, t1}
  Telemetry = {t1}
  NoRequest = NoRequest
  Estimate <- MCEstimate
  Used <- MCUsed
  Baseline = 2
  Limits <- ManyLimits
  MaxDay = 1
INVARIANTS
  NothingIsFree
PROPERTIES
  AttemptsCounted
  EstimatesFit
CHECK_DEADLOCK FALSE
