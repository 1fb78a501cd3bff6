CONSTANTS
  dir1 = dir1
  file1 = file1
  new1 = new1
  Items = {dir1, file1, new1}
  Dir = dir1
  PerPage = 1
  MaxOps = 3
SPECIFICATION Spec
INVARIANT TypeOK
INVARIANT ShowsItsFolder
INVARIANT QuietIsCurrent
INVARIANT SelectionShown
\* the user has done all he does
CHECK_DEADLOCK FALSE
