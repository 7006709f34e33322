CONSTANTS
  w1 = w1
  w2 = w2
  Workers = {w1, w2}
  MaxFailed = 2
  Lockout = 2
  LinkLife = 1
  MaxTime = 4
  MaxPasswords = 2
  MaxLinks = 1
SPECIFICATION Spec
SYMMETRY SomeWorkers
INVARIANTS TypeOK GuessesAreBounded TemporaryMustChange
PROPERTY LockOutlastsLaterAttempts
