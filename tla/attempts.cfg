SPECIFICATION Spec
CONSTANTS
  a1 = a1
  a2 = a2
  a3 = a3
  a4 = a4
  p1 = p1
  p2 = p2
  credential = credential
  model = model
  NoAttempt = NoAttempt
  Procs = {p1, p2}
  Attempts = {a1, a2, a3, a4}
  Home <- AttemptHome
  Keys = {credential, model}
  Lanes <- LanesOf
  Model <- SharedModel
  Retrying = {a1}
  MaxWaiters = 2
  MaxFaults = 1
  MaxLate = 1
SYMMETRY Alike
INVARIANTS
  ChainsSound
  MeetOnlyAfterExpiry
PROPERTIES
  CooldownRespected
CHECK_DEADLOCK FALSE
