SPECIFICATION Spec
CONSTANTS
  i1 = i1
  i2 = i2
  i3 = i3
  n1 = n1
  n2 = n2
  n3 = n3
  r1 = r1
  r2 = r2
  t1 = t1
  t2 = t2
  h1 = h1
  h2 = h2
  None = None
  Ids = {i1, i2, i3}
  Names = {n1, n2, n3}
  Requests = {r1, r2}
  Moves = {"admins"}
  Tokens = {t1, t2}
  SingleUse = {t1}
  Handlers = {h1, h2}
  MaxUses = 2
  CanFail = FALSE
SYMMETRY Symmetry
INVARIANT
  AtLeastOneAdmin
