SPECIFICATION Spec
CONSTANTS
  boss = boss
  ann = ann
  ben = ben
  new = new
  p1 = p1
  p2 = p2
  User = {boss, ann, ben, new}
  Root = boss
  Admins = {boss, ann}
  TwoFactor = {ben}
  Absent = {new}
  Proc = {p1, p2}
  TokenTTL = 1
  Codes = 2
  Menus <- MCMenus
  MaxRequests = 3
  Horizon = 3
  MaxBatch = 2
SYMMETRY Workers
INVARIANTS
  AdminRemains
  LastChoiceHolds
  OneLoginPerCode
  EndedStaysEnded
CHECK_DEADLOCK FALSE
