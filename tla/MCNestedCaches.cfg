\* Two threads, two sizes, one of them too wide for the thread layer.  The
\* caches of plans and coefficients have one place, so that threads evict
\* each other's entries; the cache of rows has two, so that threads that
\* race to make the same rows could file them twice.
CONSTANTS
  Threads = {t1, t2}
  SymbolCounts = {9, 10, 12}
  Keys = {10, 12}
  Repairs = {r1, r2}
  ThreadCached = {10}
  RowCapacity = 2
  PlanCapacity = 1
  CoefficientCapacity = 1
  None = None
SPECIFICATION FairSpec
INVARIANTS LockIsForAccess EntriesOnce NestedAnswerFits
PROPERTY CallsReturn
