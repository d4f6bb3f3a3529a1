\* A token comes on a chunk without values, and the request breaks. A stream stops when it has ended.
CONSTANTS
  Total = 5
  ValueEnds = {1, 3, 4, 5}
  Width = 2
  MaxChunk = 2
  PipeSize = 1
  MaxQueued = 1
  HighWaters = {9}
  MaxResumeRetries = 2
  HasDeadline = FALSE
  Faults = {"retryable"}
  RepeatPaused = FALSE
  MaxBreaks = 1
  BareTokens = {3}
  MaxEmpties = 1
SPECIFICATION Spec
INVARIANT RowsProper
CHECK_DEADLOCK FALSE
