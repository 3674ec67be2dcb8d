SPECIFICATION Spec
CONSTANTS
  s1 = s1  s2 = s2
  Servers = {s1, s2}
  NoValue = NoValue
  Values = {0, 2}
  Queries <- MCQueries
  MidSpace = 2
  Sleep = 2
  MaxAge = 1
  MaxRequests = 3
SYMMETRY Symmetry
INVARIANTS TypeOK NotifiedInTime RuleKept
PROPERTIES CancelIsExact
CHECK_DEADLOCK FALSE
