SPECIFICATION Spec
CONSTANTS
  None = None
  h1 = h1
  h2 = h2
  s1 = s1
  k1 = k1
  k2 = k2
  w1 = w1
  Handlers = {h1, h2}
  Signers = {s1}
  Keys = {k1, k2}
  SeededKey = k1
  Writers = {w1}
  Worlds <- MCWorlds
  Requests <- MCRequests
  Creatable <- MCCreatable
  Deletable = {1}
  MaxWrites = 2
  CanFail = TRUE
  Limit = 1
  PageMax = 4
  PageDefault = 2
  MaxOrders = 7
INVARIANTS TypeOK PolicyCopyCurrent CompanyAgrees PagingComplete
PROPERTIES AppendKeepsDecisions DeletedPolicyForgotten RetiredKeyForgotten NobodyLockedOut RevokedStops
