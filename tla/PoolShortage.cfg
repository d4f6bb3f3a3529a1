\* No minimum: a waiter whose session was lost is never served.
CONSTANTS
  s1 = s1
  s2 = s2
  c1 = c1
  c2 = c2
  Sessions = {s1, s2}
  Callers = {c1, c2}
  None = None
  MinSize = 0
  MaxSize = 1
  IncStep = 1
  MaxIdle = 0
  FailModes = {FALSE}
  CanTimeOut = FALSE
  IdleAge = 1
  ExpiryAge = 2
SPECIFICATION FairSpec
PROPERTIES ShortageFilled
