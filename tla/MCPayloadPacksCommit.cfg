CONSTANTS
  e1 = e1
  e2 = e2
  e3 = e3
  w1 = w1
  w2 = w2
  Events = {e1}
  Weeks = {w1}
  WeekOf <- MCWeekOf
  PackIds = {p1}
  Packers = {r1}
  PackRows = 2
  NoPack = NoPack
  KnownOutcome = FALSE
  ReliableStore = TRUE
SPECIFICATION Spec
INVARIANTS
  PayloadKept
