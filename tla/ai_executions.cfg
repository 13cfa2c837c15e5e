SPECIFICATION FairSpec
CONSTANTS
  u1 = u1
  s1 = s1
  Kinds = {"contract", "observation"}
  Failures <- TwoFailures
  Users = {u1}
  Sweepers = {s1}
  ParserLimit = 1
  ProviderLimit = 2
  MaxClaims = 3
  MaxAttempt = 2
  MaxToken = 3
INVARIANTS
  VerdictsSound
PROPERTIES
  EndsFenced
  KeepsLedger
  RunsSettle
CHECK_DEADLOCK FALSE
