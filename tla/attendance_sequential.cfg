CONSTANTS
  e1 = e1
  w1 = w1
  w2 = w2
  b1 = b1
  b2 = b2
  Employees = {e1}
  Workers = {w1}
  Branches = {b1, b2}
  NoBranch = NoBranch
  NoShift = NoShift
  NoRow = NoRow
  NoReading = NoReading
  Fence <- TwoFences
  Readings <- NearFar
  Shifts <- DayOnly
  Rules <- BothRules
  DayLength = 3
  MinuteLength = 1
  MaxSpeed = 2
  MaxTime = 5
  MaxEdits = 2
SPECIFICATION Spec
INVARIANTS ClosedDayIsConsistent ImplausibleTravelFlagged
