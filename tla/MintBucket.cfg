CONSTANTS
  Callers = {c1, c2, c3}
  Burst = 1
  Window = 1
  Modulus = 8
  MaxClock = 2
  MaxCalls = 4
SPECIFICATION FairSpec
INVARIANT Accounted
PROPERTY CallsReturn
