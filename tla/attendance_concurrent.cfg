CONSTANTS
  e1 = e1
  w1 = w1
  w2 = w2
  b1 = b1
  b2 = b2
  Employees = {e1}
  Workers = {w1, w2}
  Branches = {b1}
  NoBranch = NoBranch
  NoShift = NoShift
  NoRow = NoRow
  NoReading = NoReading
  Fence <- OneFence
  Readings <- NearOnly
  Shifts <- DayOnly
  Rules <- NoGraceOnly
  DayLength = 3
  MinuteLength = 1
  MaxSpeed = 2
  MaxTime = 4
  MaxEdits = 1
SPECIFICATION Spec
SYMMETRY Workers2
INVARIANTS TypeOK OneRowPerDay RowWithinItsDay
PROPERTIES CheckInEvidenceFrozen CheckOutOnce
