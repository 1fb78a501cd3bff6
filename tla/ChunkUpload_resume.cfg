CONSTANTS
  r1 = r1
  r2 = r2
  r3 = r3
  r4 = r4
  Nothing = Nothing
  Chunks = {0, 1}
  Requests = {r1, r2, r3}
  Mixes = {{"leave"}, {"crash"}, {"lost"}, {"fail", "forget"}, {"again", "forget"}, {"restart"}, {"cancel", "expire"}}
  MaxSessions = 2
  Concurrency = 3
SPECIFICATION Spec
SYMMETRY RequestSymmetry
INVARIANT TypeOK
INVARIANT FirstWhole
INVARIANT CheckTruthful
INVARIANT OncePerState
INVARIANT DoneIsStored
INVARIANT WaitsForSomebody
\* the client and the server come to rest
CHECK_DEADLOCK FALSE
