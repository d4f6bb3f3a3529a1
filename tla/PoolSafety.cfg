\* Three callers contend for up to three sessions of four; one is kept idle.
CONSTANTS
  s1 = s1
  s2 = s2
  s3 = s3
  s4 = s4
  c1 = c1
  c2 = c2
  c3 = c3
  Sessions = {s1, s2, s3, s4}
  Callers = {c1, c2, c3}
  None = None
  MinSize = 1
  MaxSize = 3
  IncStep = 2
  MaxIdle = 1
  FailModes = {FALSE}
  CanTimeOut = TRUE
  IdleAge = 1
  ExpiryAge = 2
SPECIFICATION Spec
SYMMETRY Symmetry
INVARIANTS TypeOK WithinMax PendingExact NoSharing LeaksExact
           WokenFindsSession OldestFirst InUseNotDeleted
PROPERTIES EvictionBounded NothingOrphaned RefinesLease
