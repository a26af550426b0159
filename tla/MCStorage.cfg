CONSTANTS
  e1 = e1
  e2 = e2
  e3 = e3
  w1 = w1
  w2 = w2
  Events = {e1, e2, e3}
  Weeks = {w1, w2}
  WeekOf <- MCWeekOf
  PackIds = {p1, p2}
  Packers = {r1, r2}
  PackRows = 2
  NoPack = NoPack
  KnownOutcome = TRUE
  ReliableStore = FALSE
  Week = 2
  Retention = 2
  StaleFactor = 2
  LastDay = 3
  Prints = {i1}
  Sweepers = {s1, s2}
  Writers = {n1}
  f1 = f1
  f2 = f2
  f3 = f3
  c1 = c1
  c2 = c2
  ChunkedFiles = {f1, f2, f3}
  PartsOf <- MCPartsOf
  Refused = {f3}
  Assemblers = {a1, a2}
  ChunkDay = 1
  LastHour = 2
  Sent = {e1, e2}
  CommitEvery = 2
  Objects = {o1, o2, o3}
  NoObject = NoObject
  MaxRuns = 3
  RowIds = {1, 2, 3}
  Matching = {1, 3}
  Listed = {j1, j2, j3}
  Asked = {0, 1, 9}
  DefaultRows = 2
  MostRows = 2
  MaxOffset = 2
  Width = 2
  Bucket = 2
  LastInstant = 3
  Ids = {u1, u2, u3}
  NoUser = NoUser
  Clients = {b1, b2}
  t1 = t1
  t2 = t2
  Admins = {q1, q2}
  Rules = {t1, t2}
  FieldsOf <- MCFieldsOf
  Picks = {0, 1}
  NoRow = NoRow
  Raced = Raced
  MaxProjects = 2
SPECIFICATION MCSpec
SYMMETRY Symmetry
CHECK_DEADLOCK FALSE
INVARIANTS
  PayloadKept
  SweepSafe
  ChunksAccounted
  
  PagesComplete
  SetupStaysShut
  OnlyRacesLose
