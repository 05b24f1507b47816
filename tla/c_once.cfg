SPECIFICATION Spec
CONSTANTS
  Instance = {"A", "B"}
  NoInstance = NoInstance
  MinuteLen = 2
  LeaseLen = 2
  Planned <- EveryMinute
  Skew <- NoSkew
  Horizon = 10
  Scenes <- MCScenes
CHECK_DEADLOCK FALSE
INVARIANTS
  LeaseHeld
  LossBounded
PROPERTIES
  KeepsTimetable
