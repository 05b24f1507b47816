SPECIFICATION Spec
CONSTANTS
  mail = mail
  robot = robot
  a1 = a1
  a2 = a2
  x1 = x1
  x2 = x2
  SendJob = {1}
  ResendJob = {2}
  MaxAttempts = 2
  Channel = {mail, robot}
  Mail = {mail}
  Address = {a1, a2}
  NoAddress = NoAddress
  Content = {x1, x2}
  Empty = Empty
  Config <- Configs
  NoLog = NoLog
  MaxEdits = 1
  MaxFaults = 1
SYMMETRY Contents
CHECK_DEADLOCK FALSE
INVARIANTS
  DoneMeansAccounted
  NoSilentMiss
  LogsTellTruth
  SameTextForAll
  ResendIsFaithful
PROPERTIES
  SwitchedOffStaysSilent
