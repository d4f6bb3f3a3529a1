\* Two streams and a batch, a request that breaks. A transaction stops when it is over.
CONSTANTS
  r1 = r1
  r2 = r2
  b1 = b1
  Streams = {r1, r2}
  Batches = {b1}
  Overlap = FALSE
  MaxBreaks = 1
  MaxAsks = 1
SPECIFICATION FairSpec
INVARIANTS TypeOK BeginsOnce NothingLost
PROPERTIES SendsNewest IdArrives CommitAnswered
CHECK_DEADLOCK FALSE
