SPECIFICATION FairSpec
CONSTANTS
  p1 = p1
  p2 = p2
  b1 = b1
  b2 = b2
  u1 = u1
  u2 = u2
  None = None
  Pollers = {p1}
  Browsers = {b1}
  Users = {u1, u2}
  Entitled = {u1}
  CanExpire = FALSE
  MaxFails = 0
PROPERTY
  WelcomeMeansLogin
