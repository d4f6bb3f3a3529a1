\* Every request is answered: while callers give back what they borrow, or with options.fail.
CONSTANTS
  s1 = s1
  s2 = s2
  s3 = s3
  c1 = c1
  c2 = c2
  Sessions = {s1, s2, s3}
  Callers = {c1, c2}
  None = None
  MinSize = 1
  MaxSize = 2
  IncStep = 1
  MaxIdle = 0
  FailModes = {TRUE, FALSE}
  CanTimeOut = FALSE
  IdleAge = 1
  ExpiryAge = 2
SPECIFICATION FairSpec
PROPERTIES AcquireAnswered CloseCompletes
