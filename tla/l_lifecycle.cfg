SPECIFICATION Spec
CONSTANTS
  a = a
  b = b
  vol1 = vol1
  vol2 = vol2
  Slot = {a, b}
  None = None
  GivenKey = 100
  Files = 2
  Stmts <- MCStmts
  MaxStarts = 3
  Window = 3
  Scenes <- MCScenes
INVARIANTS
  SchemaComplete
  StuckByCrashOnly
  KeyReads
  GoneIsGone
PROPERTIES
  PurgesTheDead
  ZombiesGo
CHECK_DEADLOCK FALSE
