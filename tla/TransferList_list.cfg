CONSTANTS
  t1 = t1
  Tasks = {t1}
  Chunks = {0, 1}
  Slots = 1
  Workers = 1
  MaxSessions = 2
  MaxOps = 3
  MaxWire = 2
SPECIFICATION FairSpec
INVARIANT TypeOK
INVARIANT ShownDoneStored
PROPERTY CancelHolds
PROPERTY PollSettles
\* the user has done all he does
CHECK_DEADLOCK FALSE
