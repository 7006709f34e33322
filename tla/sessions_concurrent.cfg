CONSTANTS
  w1 = w1
  w2 = w2
  NoToken = NoToken
  Users = {u1}
  Workers = {w1, w2}
  MaxTokens = 3
SPECIFICATION Spec
SYMMETRY Workers2
INVARIANTS TypeOK RotationLeavesItsTrace
PROPERTIES RevokedWhenAnswered ReplayBuysNothing
