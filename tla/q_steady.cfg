SPECIFICATION Spec
CONSTANTS
  Instance = {A, B}
  Worker = {A, B}
  Home <- SameHome
  NoKey = NoKey
  NoInstance = NoInstance
  MaxJobs = 2
  MaxCalls = 1
  Task = {t1}
  Key = {k1}
  MaxAttempts = 2
  Backoff <- NoBackoff
  Skew <- NoSkew
  ClaimTTL = 1
  Retention = 0
  Timely = TRUE
  DBFaults = FALSE
  MaxCrashes = 0
  MaxStops = 1
SYMMETRY Replicas
INVARIANTS
  ExclusiveClaim
  NoDuplicateDelivery
  FailedMeansExhausted
PROPERTIES
  ImplementsContract
  CleanExit
