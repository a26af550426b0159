CONSTANTS
  MaxHour = 3
  Retention = 1
  Rollers = {r1}
  Batch = 1
  MaxWrites = 2
SPECIFICATION FairSpec
INVARIANTS
  ExactInWindow
PROPERTIES
  ExactSpec
  HistoryKept
  BecomesClean
