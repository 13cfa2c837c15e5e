SPECIFICATION FairQueueSpec
CONSTANTS
  a1 = a1
  a2 = a2
  b1 = b1
  b2 = b2
  c1 = c1
  d1 = d1
  n1 = n1
  n2 = n2
  ida = ida
  idb = idb
  idc = idc
  idd = idd
  NoId = NoId
  Closures <- MCClosures
  Ids <- MCIds
  IdOf <- MCIdOf
  Concurrency = 2
  MaxPending = 2
INVARIANTS
  Bookkeeping
PROPERTIES
  StartsInOrder
  AcceptedStarts
