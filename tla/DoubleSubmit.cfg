\* Three calls at once, over the two connections of the default pool.
CONSTANTS
  a1 = a1
  a2 = a2
  a3 = a3
  Attempts = {a1, a2, a3}
  k1 = k1
  Keys = {k1}
  Requests <- MCRequests
  Connections = 2
  Concurrency = 3
  Null = Null
SPECIFICATION Spec
CHECK_DEADLOCK FALSE
PROPERTY
  EveryCallAnswered
