CONSTANTS
  Calls = {d1, d2, d3}
  Jobs = {d1}
  Channels = {c1, c2}
  Cooldown = 2
  MaxClock = 6
  QuickSends = TRUE
  MinSpikeUnhandled = 2
  SpikeFactor = 3
  Baselines = {0, 24}
  MaxEvents = 4
  Runs = {x1}
  Senders = {s1, s2}
  FailureThreshold = 2
  RecoveryThreshold = 1
  CountCap = 2
SPECIFICATION Spec
INVARIANTS
  OnePerCooldown
  CountersExact
PROPERTIES
  IgnoredComesBack
  SilenceAlerts
