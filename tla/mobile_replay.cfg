CONSTANTS
  Users = {u1}
  Calls = {c1, c2}
  MaxTokens = 2
  Lossy = FALSE
  MaxKills = 0
  NoToken = NoToken
  NoCall = NoCall
SPECIFICATION ClientSpec
INVARIANT NoReplay
