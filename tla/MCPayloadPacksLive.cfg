CONSTANTS
  e1 = e1
  e2 = e2
  e3 = e3
  w1 = w1
  w2 = w2
  Events = {e1, e3}
  Weeks = {w1, w2}
  WeekOf <- MCWeekOf
  PackIds = {p1, p2}
  Packers = {r1}
  PackRows = 2
  NoPack = NoPack
  KnownOutcome = TRUE
  ReliableStore = TRUE
SPECIFICATION FairSpec
INVARIANTS
  ObjectHasRow
PROPERTIES
  PacksExpire
