CONSTANTS
  e1 = e1
  e2 = e2
  e3 = e3
  e4 = e4
  rel1 = rel1
  rel2 = rel2
  Events = {e1, e2, e3, e4}
  Envelopes <- Both
  Fps = {1, 2}
  RawFp <- MCRawFp
  SymFp <- MCSymFp
  Releases = {rel1, rel2}
  ReleaseOf <- MCReleaseOf
  Senders = {s1, s2}
  Movers = {m1}
  Nobody = Nobody
  MayDrop = {e4}
  Overlap = FALSE
  Immediate = TRUE
  MaxCount = 3
  DsnKeys = {k1, k2}
  NoKey = NoKey
  Deliveries = {d1}
  KeyTTL = 1
  LookupTime = 1
  LastTick = 3
  n1 = n1
  n2 = n2
  n3 = n3
  n4 = n4
  NoStamp = NoStamp
  Stamp <- MCStamp
  Mails <- MCMails
  Slack = 1
  Window = 3
  LastNow = 6
  Posts <- MCPosts
  Absent = Absent
  LastPost = 4
  Mailings <- MCMailings
  MaxEvents = 1
  MaxSessions = 3
  MaxAttachments = 1
  CrashSites <- MCCrashes
  Images <- MCImages
  Layouts <- MCLayouts
  Edits = {0, 1}
SPECIFICATION MCSpec
SYMMETRY Symmetry
CHECK_DEADLOCK FALSE
INVARIANTS
  NoEnvelopeDeadlock
  CountsExact
  VerdictsRight
  ResendFound
  
  EnvelopeRead
  OneIssuePerCrash
PROPERTIES
  FlipAlerts
