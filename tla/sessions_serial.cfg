CONSTANTS
  NoToken = NoToken
  Users = {u1, u2}
  Workers = {w1}
  MaxTokens = 4
SPECIFICATION Spec
PROPERTY ImplementsTokenServer
