\* Two requests at once in each function, two errors that lead to a retry.
CONSTANTS
  q1 = q1
  q2 = q2
  Requests = {q1, q2}
  MaxFaults = 2
SPECIFICATION FairSpec
INVARIANTS TypeOK AppliedOnce FailedMeansNothing
PROPERTIES StaleNeverCommits RunSettles
CHECK_DEADLOCK FALSE
