SPECIFICATION FairSpec
CONSTANTS
  w1 = w1
  w2 = w2
  NoWorker = NoWorker
  Workers = {w1, w2}
  MaxSessions = 2
  MaxProcs = 2
  MaxObjects = 3
  Faulty = {"crash", "replace", "stall", "exit", "hang", "supervisor", "answer"}
  MaxFaults = 1
  MaxRequests = 2
INVARIANTS
  RuntimeSound
PROPERTIES
  LostPreviewEnds
  SessionsInTurn
CHECK_DEADLOCK FALSE
