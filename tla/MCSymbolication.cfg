CONSTANTS
  Replicas = {r1, r2}
  Home = r1
  Events = {e1}
  Has <- TwoUploads
  o1 = o1
  o2 = o2
  o3 = o3
  Shots = {o1, o2, o3}
  At <- MCAt
  RawAs <- MCRawAs
  SymAs <- MCSymAs
  Sampled = {o2}
  NoShot = NoShot
  NoRange = NoRange
  Second = 2
  Stale = 1
  LastHorizon = 3
  Hour = 2
  Day = 4
  Spans <- MCSpans
  Names <- MCNames
  Top = 1
  Moments = {9, 10}
  Mail <- MCMail
  MaxArrivals = 3
SPECIFICATION MCSpec
INVARIANTS
  NewestShown
  ChartsAddUp
PROPERTIES
  
  CachesConverge
