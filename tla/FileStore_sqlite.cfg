CONSTANTS
  u1 = u1
  u2 = u2
  u3 = u3
  d1 = d1
  d2 = d2
  a = a
  b = b
  p1 = p1
  p2 = p2
  Nobody = Nobody
  Uploads = {u1, u2}
  Purges = {p1}
  Dirs = {d1}
  Bases = {a}
  Jobs <- SomeJobs
  Ops = {"copy", "trash", "restore", "empty", "perm", "expire"}
  Faults = {"open", "db", "tg", "crash"}
  UniqueIndex = TRUE
  Dedup = TRUE
  MaxRows = 3
  MaxSuffix = 3
  MaxTries = 2
  MaxOps = 3
  MaxFaults = 1
SPECIFICATION Spec
INVARIANT RowsWhole
INVARIANT DoneStored
INVARIANT NoLeak
INVARIANT NoDangling
INVARIANT IInv
PROPERTY RefsWriteOnce
PROPERTY OverwriteKeepsOne
PROPERTY KeepsLibrary
\* uploads, purges and bounded user operations come to an end
CHECK_DEADLOCK FALSE
SYMMETRY UploadSymmetry
