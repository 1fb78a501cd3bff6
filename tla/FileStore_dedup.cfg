CONSTANTS
  u1 = u1
  u2 = u2
  u3 = u3
  d1 = d1
  d2 = d2
  a = a
  b = b
  p1 = p1
  p2 = p2
  Nobody = Nobody
  Uploads = {u1, u2}
  Purges = {p1}
  Dirs = {d1}
  Bases = {a}
  Jobs <- SingleJob
  Ops = {"trash"}
  Faults = {"crash"}
  UniqueIndex = TRUE
  Dedup = TRUE
  MaxRows = 4
  MaxSuffix = 4
  MaxTries = 2
  MaxOps = 2
  MaxFaults = 1
SPECIFICATION Spec
PROPERTY DedupSparesUnique
\* uploads, purges and bounded user operations come to an end
CHECK_DEADLOCK FALSE
