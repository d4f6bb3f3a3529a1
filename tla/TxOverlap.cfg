\* batchUpdate() runs while a stream begins the transaction.
CONSTANTS
  r1 = r1
  r2 = r2
  b1 = b1
  Streams = {r1, r2}
  Batches = {b1}
  Overlap = TRUE
  MaxBreaks = 1
  MaxAsks = 1
SPECIFICATION Spec
INVARIANT BeginsOnce
CHECK_DEADLOCK FALSE
