\* Three callers, five weeks to expiry.
CONSTANTS
  c1 = c1
  c2 = c2
  c3 = c3
  Callers = {c1, c2, c3}
  ExpiryAge = 5
SPECIFICATION FairSpec
INVARIANTS SingleFlight NeverNull FourChances
PROPERTIES Answered
