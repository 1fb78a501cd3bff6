CONSTANTS
  u1 = u1
  u2 = u2
  u3 = u3
  d1 = d1
  d2 = d2
  a = a
  b = b
  p1 = p1
  p2 = p2
  Nobody = Nobody
  Uploads = {u1, u2}
  Purges = {p1}
  Dirs = {d1, d2}
  Bases = {a, b}
  Jobs <- PlainJobs
  Ops = {"copy", "move", "trash", "rename"}
  Faults = {"db"}
  UniqueIndex = FALSE
  Dedup = TRUE
  MaxRows = 5
  MaxSuffix = 5
  MaxTries = 2
  MaxOps = 3
  MaxFaults = 1
SPECIFICATION FairSpec
INVARIANT UniqueActive
PROPERTY PlaceholderResolves
\* uploads, purges and bounded user operations come to an end
CHECK_DEADLOCK FALSE
