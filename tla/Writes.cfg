\* Three calls, two at a time, with a connection to spare.
CONSTANTS
  a1 = a1
  a2 = a2
  a3 = a3
  Attempts = {a1, a2, a3}
  k1 = k1
  Keys = {k1}
  Requests <- MCRequests
  Connections = 3
  Concurrency = 2
  Null = Null
SPECIFICATION Spec
CHECK_DEADLOCK FALSE
INVARIANTS
  TypeOK
  LandsOnce
  StampIsFirstResolution
PROPERTIES
  EveryCallAnswered
  KeepsThePromise
