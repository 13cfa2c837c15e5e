SPECIFICATION FairSpec
CONSTANTS
  Autos = {a1}
  Calls = {c1}
  Sweepers = {s1}
  MaxRetries = 1
  MaxClaims = 2
  MaxAttempt = 1
  MaxAsks = 1
  MaxFaults = 1
INVARIANTS
  RunsAgree
PROPERTIES
  ResultsAgree
  EndedByHolder
  TasksMoveOn
CHECK_DEADLOCK FALSE
