\* A request that breaks while the reader is slow is repeated. A stream stops when it has ended.
CONSTANTS
  Total = 5
  ValueEnds = {1, 3, 4, 5}
  Width = 2
  MaxChunk = 2
  PipeSize = 1
  MaxQueued = 1
  HighWaters = {1}
  MaxResumeRetries = 2
  HasDeadline = FALSE
  Faults = {"retryable"}
  RepeatPaused = TRUE
  MaxBreaks = 1
  BareTokens = {}
  MaxEmpties = 0
SPECIFICATION Spec
INVARIANT NothingTwice
CHECK_DEADLOCK FALSE
