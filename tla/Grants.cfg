SPECIFICATION FairSpec
CONSTANTS
  None = None
  e1 = e1
  e2 = e2
  f1 = f1
  f2 = f2
  a1 = a1
  d1 = d1
  d2 = d2
  Names <- MCNames
  Seeded <- MCSeeded
  Owned <- MCOwned
  Offline = "offline"
  AllowedEnv = {"offline", "orders", "extra"}
  SystemEnv = {"offline"}
  Wishes = {{"orders"}, {"extra"}}
  Users = {"alice", "bob"}
  Exchanges = {e1, e2}
  Confirms = {f1, f2}
  Asks = {a1}
  Admins = {d1, d2}
  Worlds <- MCWorlds
  MaxWrites = 2
  Lists = {{}, {"orders"}}
  CanFail = TRUE
INVARIANTS TypeOK PaidFor TwiceOnlyByOverlap NothingBeyondTheUser
PROPERTIES ConsumedIsFinal NeverWidened DeletionIsFinal DeletionTakesEffect
CHECK_DEADLOCK FALSE
