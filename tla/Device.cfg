SPECIFICATION FairSpec
CONSTANTS
  p1 = p1
  p2 = p2
  b1 = b1
  b2 = b2
  u1 = u1
  u2 = u2
  None = None
  Pollers = {p1, p2}
  Browsers = {b1, b2}
  Users = {u1, u2}
  Entitled = {u1}
  CanExpire = TRUE
  MaxFails = 1
INVARIANTS
  TypeOK
  SequentialOnce
  SpentMeansSession
PROPERTIES
  BackwardsOnlyByStaleCopy
  AuthorizationReachesCLI
