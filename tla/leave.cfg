CONSTANTS
  w1 = w1
  w2 = w2
  r1 = r1
  r2 = r2
  Employees = {e1}
  Types = {annual}
  Workers = {w1, w2}
  Ids = {r1, r2}
  NoRequest = NoRequest
  LastDay = 1
  YearLength = 1
  MaxCrashes = 1
SPECIFICATION Spec
SYMMETRY Symmetry
INVARIANTS TypeOK UsedIsApproved
PROPERTY DecidedOnce
CHECK_DEADLOCK FALSE
CONSTRAINT MetOrCrashed
