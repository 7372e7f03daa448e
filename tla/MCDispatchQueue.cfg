SPECIFICATION FairSpec
CONSTANTS
  Workers = {w1, w2}
  Callers = {c1}
  Jobs = {j1, j2, j3}
  None = None
  Delays = {0, 1}
  MaxTime = 2
INVARIANTS TypeOK PendingHaveWorkers QuitReachesAll OnePlace
PROPERTIES DestructorReturns ImplementsService
CHECK_DEADLOCK FALSE
