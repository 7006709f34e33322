CONSTANTS
  Users = {u1}
  Calls = {c1}
  MaxTokens = 3
  Lossy = TRUE
  MaxKills = 1
  NoToken = NoToken
  NoCall = NoCall
  MaxDays = 2
  MaxPresses = 4
  Notes = {n1, n2}
  MaxLoads = 2
  Pages = 3
  MaxSwitches = 1
  MaxSubmits = 2
  MaxScreens = 4
  Phones = {n1, n2}
  MaxSaves = 2
  MaxUploads = 2
  MaxPasswords = 2
  MaxLaunches = 1
  FirstNumber = n1
SPECIFICATION Spec
INVARIANTS TypeOK ReplayOnlyAfterKill StoredSessionIsLive ScreensAgree
PROPERTY NothingSpins
