CONSTANTS
  e1 = e1
  w1 = w1
  w2 = w2
  b1 = b1
  b2 = b2
  Employees = {e1}
  Workers = {w1}
  Branches = {b1}
  NoBranch = NoBranch
  NoShift = NoShift
  NoRow = NoRow
  NoReading = NoReading
  Fence <- OneFence
  Readings <- NearOnly
  Shifts <- NightOnly
  Rules <- NoGraceOnly
  DayLength = 3
  MinuteLength = 1
  MaxSpeed = 2
  MaxTime = 4
  MaxEdits = 0
SPECIFICATION Spec
PROPERTY OvernightCheckOutFindsItsRow
