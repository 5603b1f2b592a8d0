SPECIFICATION FairSpec
CONSTANTS
  p1 = p1
  p2 = p2
  s1 = s1
  s2 = s2
  j1 = j1
  j2 = j2
  j3 = j3
  c1 = c1
  c2 = c2
  Sids = {s1}
  Jtis = {j1}
  Clients = {c1}
  Procs = {p1, p2}
  None = None
  CanFail = FALSE
PROPERTIES
  RevocationImmediate
