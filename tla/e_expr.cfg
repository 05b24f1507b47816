SPECIFICATION EntrySpec
CONSTANTS
  FirstYear = 10
  LastYear = 19
  YearLen = 12
  yearMin = 11
  yearMax = 19
  FourDigits = {10, 11, 12, 13, 14, 15, 16, 17, 18, 19}
  MonthsInYear = 3
  Moon <- MCMoon
  Term <- MCTerm
  lunarFestivals <- MCFestivals
  Probe = 5
  Lookahead = 8
  Expressions <- MCExpressions
INVARIANTS
  YearlyNextIsFirst
  LunarNextIsFirst
CHECK_DEADLOCK FALSE
