CONSTANTS
  Ids = {i1, i2}
  NoId = NoId
  Keys = {k1, k2}
  Unhandled = {k2}
  Workers = {w1, w2}
  MaxAttempts = 2
  Batch = 2
  Punctual = FALSE
SPECIFICATION FairSpec
INVARIANTS
  OneLiveRow
  StartsBounded
PROPERTIES
  NoSilentDrop
  Drains
