CONSTANTS
  w1 = w1
  w2 = w2
  o1 = o1
  Workers = {w1, w2}
  Orgs = {o1}
  Periods <- SomePeriods
  WarnAt <- OneWarning
  Grace = 1
  MaxDay = 2
  MaxTerms = 2
  MaxEdits = 1
  MaxQueue = 1
  MaxDeaths = 1
  NoTerm = NoTerm
  NoOrg = NoOrg
SPECIFICATION Spec
INVARIANTS SweptIsSettled WarnedOnce
PROPERTIES SuspensionIsEarned LapseEndsAccess
