SPECIFICATION Spec
CONSTANTS
  p1 = p1
  p2 = p2
  Procs = {p1, p2}
  None = None
  MaxPair = 2
  MaxFails = 0
INVARIANT
  NoNeedlessRelogin
