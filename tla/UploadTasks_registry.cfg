CONSTANTS
  w1 = w1
  w2 = w2
  w3 = w3
  t1 = t1
  t2 = t2
  Nobody = Nobody
  Workers = {w1, w2}
  Tasks = {t1}
  Kinds = {"complete", "remote", "buffered"}
  Retries = TRUE
  DownSlots = 1
  UpSlots = 1
  MaxCancels = 2
SPECIFICATION FairSpec
INVARIANT TypeOK
INVARIANT NoStaleCancel
PROPERTY KeepsPromise
PROPERTY CancelReaches
PROPERTY EveryWorkerEnds
\* every worker comes to an end
CHECK_DEADLOCK FALSE
