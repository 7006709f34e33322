CONSTANTS
  NoData = NoData
  Rows = {r1, r2}
  Existing = {r1}
  Choices = {"", "chosen"}
  Closed = Closed
  Create = Create
  MaxOpens = 2
  MaxWrites = 3
  MaxCalls = 2
  MaxJobs = 2
  MaxPolls = 2
  DayLength = 12
  MinuteLength = 3
  NoShift = NoShift
  Shifts <- SomeShifts
  Thresholds = {0, 1, 2}
  Zones <- SomeZones
  Expiries = {0, 1, 2, 5, 9}
  LastHour = 72
  MaxPasswords = 2
  Orgs = {o1, o2}
  None = None
  Wildcard = Wildcard
  Eager = TRUE
  TwoCalls = {"plans", "subscriptions", "departments", "requests", "types", "rule", "platform"}
  Rewritten = {"plans"}
  WithoutDialogs = {"filtered"}
SPECIFICATION Spec
INVARIANTS TypeOK Fresh ToldIsTrue AnswersFilter NothingReused ExportIsAnswered CalendarArithmetic TenantIsolation
