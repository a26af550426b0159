CONSTANTS
  Projects = {p1, p2}
  Streams = {v1}
  Figures = 3
  WireCap = 2
  Processes = {i1, i2}
  Ticks = {t1, t2}
  PoolSize = 2
  MaxLeaderLocks = 2
  Requests = {q1}
SPECIFICATION MCSpec
INVARIANTS
  OneLeader
PROPERTIES
  StreamsCatchUp
  NoPoolDeadlock
