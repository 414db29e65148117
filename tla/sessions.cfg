SPECIFICATION FairSpec
CONSTANTS
  SessionIds = {s1}
  Instances = {i1}
  Requests = {r1, r2}
  Handlers = {h1, h2}
  Grace = 2
  Patience = 1
  AccessLife = 3
  MaxTokens = 4
  MaxEndings = 1
  MaxFaults = 1
INVARIANTS TypeOK  RevokedStaysDead
PROPERTIES Answered
CHECK_DEADLOCK FALSE
