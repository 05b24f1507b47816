SPECIFICATION Spec
CONSTANTS
  Replica = {A, B}
  Slot = {s1, s2}
  Expr = {e1, e2}
  Spent = {e2}
  Nil = Nil
  MaxRequests = 2
  MaxFailures = 1
SYMMETRY Alike
CHECK_DEADLOCK FALSE
INVARIANTS
  NoLeak
  RegistrationMatches
  NextRunMatches
