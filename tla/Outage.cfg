\* One span, one writer, the five deliveries of the code.
CONSTANTS
  s1 = s1
  s2 = s2
  Spans = {s1}
  h1 = h1
  Buckets = {h1}
  BucketOf <- MCOneBucket
  Batches <- MCOneSpan
  w1 = w1
  w2 = w2
  Writers = {w1}
  MaxDeliver = 5
  MaxMessages = 1
  MaxRetries = 0
  Null = Null
SPECIFICATION Spec
CHECK_DEADLOCK FALSE
PROPERTY
  OutagesLoseNothing
