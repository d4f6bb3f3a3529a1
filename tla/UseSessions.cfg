\* Two calls of any operation share two sessions, of which two are lost.
\* Calls are not made again: the system stops when both are done.
CONSTANTS
  c1 = c1
  c2 = c2
  s1 = s1
  s2 = s2
  Calls = {c1, c2}
  Sessions = {s1, s2}
  Shared = Shared
  None = None
  Ops = {"getSnapshot", "getTransaction", "createBatchTransaction", "runStream", "runPartitionedUpdate", "batchWriteAtLeastOnce", "writeAtLeastOnce", "request", "requestStream", "runTransaction"}
  MaxLosses = 2
SPECIFICATION FairSpec
INVARIANTS TypeOK InOnePlace ReleasedOnce NoOtherLeak RetriedElsewhere
PROPERTIES CallsSettle
CHECK_DEADLOCK FALSE
