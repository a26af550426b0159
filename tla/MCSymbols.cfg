CONSTANTS
  Releases = {r1}
  NoRelease = NoRelease
  Files = {f1}
  Keys = {k1, k2, k3}
  NoRow = NoRow
  InRow = InRow
  Uploaders = {u1, u2}
  KnownOutcome = TRUE
  AssociateApart = TRUE
  Rows = {d1}
  Clients = {c1, c2}
  MaxUploads = 3
  MaxFiles = 1
  FilesHold = TRUE
  SlowUploads = TRUE
  Bundles <- MCBundles
  JsFrames <- MCJsFrames
  Apps <- MCApps
  JvmFrames <- MCJvmFrames
  Unknown = Unknown
INIT Init
NEXT Next
SYMMETRY Interchangeable
CHECK_DEADLOCK FALSE
INVARIANTS
  RowHasBytes
  NoSilentOrphan
  FreshCopy
  FramesRestored
