\* A stream that waited for the id breaks and is repeated.
CONSTANTS
  r1 = r1
  r2 = r2
  b1 = b1
  Streams = {r1, r2}
  Batches = {b1}
  Overlap = FALSE
  MaxBreaks = 1
  MaxAsks = 1
SPECIFICATION FairSpec
PROPERTY QueueServed
CHECK_DEADLOCK FALSE
