SPECIFICATION FairSpec
CONSTANTS
  Instance = {"A", "B"}
  Worker = {"a1", "b1"}
  Home <- MCHome
  NoKey = NoKey
  NoInstance = NoInstance
  MaxJobs = 1
  MaxCalls = 1
  Task = {t1}
  Key = {}
  MaxAttempts = 2
  Backoff <- ShortBackoff
  Skew <- NoSkew
  ClaimTTL = 1
  Retention = 0
  Timely = FALSE
  DBFaults = TRUE
  MaxCrashes = 1
  MaxStops = 0
INVARIANTS
  BoundedClaims
  DoneMeansHandled
PROPERTIES
  SurvivorFinishes
