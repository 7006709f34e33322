CONSTANTS
  Users = {u1}
  Calls = {c1, c2}
  MaxTokens = 2
  NoToken = NoToken
  NoCall = NoCall
SPECIFICATION Spec
INVARIANTS TypeOK NoReplay
PROPERTY EveryCallEnds
