\* A batch of two spans, retried once, read by two writers.
CONSTANTS
  s1 = s1
  s2 = s2
  Spans = {s1, s2}
  h1 = h1
  Buckets = {h1}
  BucketOf <- MCBucketOf
  Batches <- MCBatches
  w1 = w1
  w2 = w2
  Writers = {w1, w2}
  MaxDeliver = 3
  MaxMessages = 2
  MaxRetries = 1
  Null = Null
SPECIFICATION Spec
CHECK_DEADLOCK FALSE
INVARIANTS
  TypeOK
  RollupCountsEvents
PROPERTY
  AcceptedIsCounted
