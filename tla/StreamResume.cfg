\* Requests break: with a reader that keeps up they are repeated, with a slow one they fail. A stream stops when it has ended.
CONSTANTS
  Total = 5
  ValueEnds = {1, 3, 4, 5}
  Width = 2
  MaxChunk = 2
  PipeSize = 2
  MaxQueued = 2
  HighWaters = {1, 9}
  MaxResumeRetries = 2
  HasDeadline = TRUE
  Faults = {"retryable", "fatal"}
  RepeatPaused = FALSE
  MaxBreaks = 2
  BareTokens = {0, 1}
  MaxEmpties = 1
SPECIFICATION FairSpec
INVARIANT TypeOK
PROPERTIES RefinesRowStream ResumesWhereItStopped Settles
CHECK_DEADLOCK FALSE
