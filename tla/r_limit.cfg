SPECIFICATION Spec
CONSTANTS
  Replica = {"A", "B"}
  Proc = {"a1", "a2", "b1"}
  Home <- MCHome
  Skew <- MCSkew
  MaxSkew = 1
  Bucket = {k1}
  WindowLen = 2
  Limit = 1
  CacheMax = 1
  Login = {u1}
  MaxFails = 2
  LockLen = 2
  Keep = 5
  Patience = 1
  Horizon = 6
  Load <- MCLoad
  MaxErrors = 1
CHECK_DEADLOCK FALSE
INVARIANTS
  LimitKept
  GuessBudget
PROPERTIES
  FreshStart
  ImplementsLimiter
