SPECIFICATION Spec
CONSTANTS
  default = default
  c = c
  d = d
  x = x
  blank = blank
  p1 = p1
  p2 = p2
  Proc = {p1, p2}
  Name = {default, c, d}
  Default = default
  Title = {x}
  Blank = blank
  FirstCats <- MCCats
  FirstRows <- MCRows
  Menus <- MCMenus
  MaxRows = 9
  MaxCats = 4
SYMMETRY Workers
INVARIANTS
  CategoryKnown
  LinksOwn
  NoDoubleImport
  Restores
CHECK_DEADLOCK FALSE
